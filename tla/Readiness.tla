------------------------------ MODULE Readiness ------------------------------
(***************************************************************************)
(* The readiness command of a generation stage, the run it precedes, and   *)
(* the status both leave (generation/orchestration.py).                    *)
(*                                                                         *)
(* Readiness prepares the context of every query and records that it did.  *)
(* It asks with the jurisdiction's text in Stages A, B and C and without it*)
(* in Stage D; a run asks without it and, for the queries its policy       *)
(* allows, again with it.  All share the files of a query's last request.  *)
(* The run itself is GenerationRun, and a request ContextCache.            *)
(***************************************************************************)
EXTENDS Naturals, FiniteSets

CONSTANTS
    ReadyCount,   \* queries of the split: STAGE_C_EXPECTED_QUERY_COUNT
    PromptTokens  \* tokens of each query's prompt

ReadyQueries == 1 .. ReadyCount

ASSUME ReadinessAssumption ==
    /\ ReadyCount \in Nat
    /\ PromptTokens \in [ReadyQueries -> Nat]

VARIABLES
    generatorName,  \* the stage
    fits,           \* what can be assembled for each query within its cap
    policy,         \* what the stage's policy says of it
    packs,          \* the request each query's pack is of
    registries,     \* the request its quote registry is of, Stages C and D
    recorded,       \* its checkpoint, with the result it names
    command,        \* the command at work
    preparedFor,    \* queries it prepared
    tracked,        \* the tracked summary, Stage D
    ready           \* the private record, Stages C and D

givenStage == <<generatorName, fits, policy>>
caches == <<packs, registries>>
readinessVars == <<givenStage, caches, recorded, command, preparedFor, tracked, ready>>

Stages == {"A", "B", "C", "D"}
Paired == generatorName \in {"C", "D"}

(* An assembly whose own check fails raises what only a run catches. *)
Fits == {"both", "plain", "neither", "asserts"}
Verdicts == {"allowed", "abstains", "raises"}

CanPrepare(q, request) ==
    fits[q] = "both" \/ (fits[q] = "plain" /\ request = "plain")

NoCommand == [does |-> "nothing", query |-> 0, request |-> "plain", step |-> "asking", errors |-> 0]
NoTokens == [p50 |-> 0, p95 |-> 0, max |-> 0]
NoReport == [contexts |-> 0, eligible |-> 0, abstained |-> 0, tokens |-> NoTokens]

ReadinessInit ==
    /\ generatorName \in Stages
    /\ fits \in [ReadyQueries -> Fits]
    /\ policy \in [ReadyQueries ->
                      IF generatorName = "D" THEN Verdicts ELSE Verdicts \ {"raises"}]
    /\ packs = [q \in ReadyQueries |-> "absent"]
    /\ registries = packs
    /\ recorded = packs
    /\ command = NoCommand
    /\ preparedFor = {}
    /\ tracked = NoReport
    /\ ready = NoReport

StartReadiness ==
    /\ command = NoCommand
    /\ command' = [NoCommand EXCEPT !.does = "readiness", !.query = 1,
                   !.request = IF generatorName = "D" THEN "plain" ELSE "text"]
    /\ preparedFor' = {}
    /\ UNCHANGED <<givenStage, caches, recorded, tracked, ready>>

StartGeneration ==
    /\ command = NoCommand
    /\ command' = [NoCommand EXCEPT !.does = "generation", !.query = 1]
    /\ preparedFor' = {}
    /\ UNCHANGED <<givenStage, caches, recorded, tracked, ready>>

(***************************************************************************)
(* One request: what it finds, or the pack and then the registry of quotes.*)
(***************************************************************************)
Asking(q) == command.query = q /\ command.step = "asking"

(* The next query of readiness; a run asks its policy of a plain context. *)
AfterPrepared(q) ==
    CASE command.does = "readiness" ->
            [command EXCEPT !.query = @ + 1, !.step = "asking",
                            !.errors = IF policy[q] = "raises" THEN @ + 1 ELSE @]
      [] command.does = "generation" /\ command.request = "plain" ->
            [command EXCEPT !.step = "deciding"]
      [] OTHER -> [command EXCEPT !.step = "generating"]

NowPrepared(q) ==
    /\ command' = AfterPrepared(q)
    /\ preparedFor' = preparedFor \cup {q}

LoadPrepared(q) ==
    /\ Asking(q)
    /\ packs[q] = command.request
    /\ Paired => registries[q] = command.request
    /\ NowPrepared(q)
    /\ UNCHANGED <<givenStage, caches, recorded, tracked, ready>>

WritePack(q) ==
    /\ Asking(q)
    /\ CanPrepare(q, command.request)
    /\ packs[q] # command.request \/ (Paired /\ registries[q] # command.request)
    /\ packs' = [packs EXCEPT ![q] = command.request]
    /\ IF Paired
       THEN command' = [command EXCEPT !.step = "quoting"] /\ UNCHANGED preparedFor
       ELSE NowPrepared(q)
    /\ UNCHANGED <<givenStage, registries, recorded, tracked, ready>>

WriteRegistry(q) ==
    /\ command.query = q /\ command.step = "quoting"
    /\ registries' = [registries EXCEPT ![q] = command.request]
    /\ NowPrepared(q)
    /\ UNCHANGED <<givenStage, packs, recorded, tracked, ready>>

(* Refused, or a write failed. *)
PreparationFails(q) ==
    /\ command.query = q /\ command.step \in {"asking", "quoting"}
    /\ fits[q] = "asserts" => command.does = "generation"
    /\ command' = IF command.does = "readiness"
                  THEN [command EXCEPT !.query = @ + 1, !.step = "asking", !.errors = @ + 1]
                  ELSE [command EXCEPT !.step = "failing"]
    /\ UNCHANGED <<givenStage, caches, recorded, preparedFor, tracked, ready>>

(***************************************************************************)
(* The run: the policy, the second request, the result and the checkpoint. *)
(***************************************************************************)
Decide(q) ==
    /\ command.query = q /\ command.step = "deciding"
    /\ policy[q] # "raises"
    /\ command' = IF policy[q] = "allowed"
                  THEN [command EXCEPT !.step = "asking", !.request = "text"]
                  ELSE [command EXCEPT !.step = "generating"]
    /\ UNCHANGED <<givenStage, caches, recorded, preparedFor, tracked, ready>>

NextQuery == [command EXCEPT !.query = @ + 1, !.step = "asking", !.request = "plain"]

(* Resumed, and generated or refused: or no reply was had and it is recorded*)
(* as incomplete.                                                          *)
Generate(q) ==
    /\ command.query = q /\ command.step \in {"generating", "failing"}
    /\ \/ command.step = "generating" /\ recorded' = [recorded EXCEPT ![q] = "completed"]
       \/ /\ command.step = "failing" \/ policy[q] = "allowed"
          /\ recorded' = [recorded EXCEPT ![q] = "incomplete"]
    /\ command' = NextQuery
    /\ UNCHANGED <<givenStage, caches, preparedFor, tracked, ready>>

(* Killed, or a policy or an assembly that raised; between a result and its*)
(* checkpoint the old checkpoint is left with a result of another attempt. *)
ReadinessDies ==
    /\ command # NoCommand
    /\ command' = NoCommand
    /\ recorded' \in {recorded} \cup
          {[recorded EXCEPT ![q] = "incomplete"] :
              q \in {p \in ReadyQueries : /\ command.query = p /\ recorded[p] # "absent"
                                          /\ command.step \in {"generating", "failing"}}}
    /\ UNCHANGED <<givenStage, caches, preparedFor, tracked, ready>>

AllAsked == command # NoCommand /\ command.query \notin ReadyQueries

GenerationEnds ==
    /\ AllAsked /\ command.does = "generation"
    /\ command' = NoCommand
    /\ UNCHANGED <<givenStage, caches, recorded, preparedFor, tracked, ready>>

(***************************************************************************)
(* What readiness counts and records.                                      *)
(***************************************************************************)
Eligible == {q \in preparedFor : policy[q] = "allowed"}
Abstained == {q \in preparedFor : policy[q] = "abstains"}

(* _nearest_rank_percentile over the ascending values of a set of queries. *)
NearestRank(queries, percent) ==
    LET n == Cardinality(queries)
        place == (percent * n + 99) \div 100
        NotAbove(v) == Cardinality({q \in queries : PromptTokens[q] <= v})
    IN CHOOSE v \in {PromptTokens[q] : q \in queries} :
          /\ NotAbove(v) >= place
          /\ \A q \in queries : PromptTokens[q] < v => NotAbove(PromptTokens[q]) < place

TokenSummary(queries) ==
    IF queries = {} THEN NoTokens
    ELSE [p50 |-> NearestRank(queries, 50), p95 |-> NearestRank(queries, 95),
          max |-> NearestRank(queries, 100)]

Counts ==
    [contexts |-> Cardinality(preparedFor), eligible |-> Cardinality(Eligible),
     abstained |-> Cardinality(Abstained), tokens |-> TokenSummary(Eligible)]

AllPrepared == command.errors = 0 /\ preparedFor = ReadyQueries

(* Stages A and B only print what was counted. *)
RecordPrepared ==
    /\ AllAsked /\ command.does = "readiness" /\ generatorName # "D"
    /\ ready' = IF generatorName = "C" /\ AllPrepared THEN Counts ELSE ready
    /\ command' = NoCommand
    /\ UNCHANGED <<givenStage, caches, recorded, preparedFor, tracked>>

(* The policy is asked again, and nothing catches what it raises. *)
TrackReadiness ==
    /\ AllAsked /\ command.does = "readiness" /\ generatorName = "D"
    /\ command.step = "asking"
    /\ \A q \in preparedFor : policy[q] # "raises"
    /\ tracked' = Counts
    /\ command' = [command EXCEPT !.step = "recording"]
    /\ UNCHANGED <<givenStage, caches, recorded, preparedFor, ready>>

RecordReadiness ==
    /\ AllAsked /\ command.step = "recording"
    /\ ready' = Counts
    /\ command' = NoCommand
    /\ UNCHANGED <<givenStage, caches, recorded, preparedFor, tracked>>

ReadinessNext ==
    \/ StartReadiness \/ StartGeneration
    \/ \E q \in ReadyQueries :
          \/ LoadPrepared(q) \/ WritePack(q) \/ WriteRegistry(q) \/ PreparationFails(q)
          \/ Decide(q) \/ Generate(q)
    \/ GenerationEnds \/ RecordPrepared \/ TrackReadiness \/ RecordReadiness
    \/ ReadinessDies

ReadinessSpec == ReadinessInit /\ [][ReadinessNext]_readinessVars

(***************************************************************************)
(* generation_status: every readable checkpoint of Stages A and B counts.  *)
(***************************************************************************)
Present(files) == {q \in ReadyQueries : files[q] # "absent"}
CompletedQueries ==
    IF Paired THEN {q \in ReadyQueries : recorded[q] = "completed"} ELSE Present(recorded)
IncompleteQueries == Present(recorded) \ CompletedQueries
Missing == ReadyCount - Cardinality(Present(recorded))

-----------------------------------------------------------------------------
(* Properties. *)

(* The type invariant. *)
ReadinessTypeOK ==
    LET Requested == {"absent", "plain", "text"}
        Tokens == {PromptTokens[q] : q \in ReadyQueries} \cup {0}
        Reports == [contexts : 0 .. ReadyCount, eligible : 0 .. ReadyCount,
                    abstained : 0 .. ReadyCount,
                    tokens : [p50 : Tokens, p95 : Tokens, max : Tokens]]
    IN
    /\ packs \in [ReadyQueries -> Requested]
    /\ registries \in [ReadyQueries -> Requested]
    /\ recorded \in [ReadyQueries -> {"absent", "completed", "incomplete"}]
    /\ command \in [does : {"nothing", "readiness", "generation"}, query : 0 .. ReadyCount + 1,
                    request : {"plain", "text"},
                    step : {"asking", "quoting", "deciding", "generating", "failing", "recording"},
                    errors : 0 .. ReadyCount]
    /\ preparedFor \subseteq ReadyQueries
    /\ tracked \in Reports /\ ready \in Reports

(* The status accounts for every query, and a query it calls completed had a*)
(* context, both files of it.                                              *)
StatusAccounts ==
    /\ Cardinality(CompletedQueries) + Cardinality(IncompleteQueries) + Missing = ReadyCount
    /\ Paired => \A q \in CompletedQueries : packs[q] # "absent" /\ registries[q] # "absent"
    /\ Paired => Present(registries) \subseteq Present(packs)

(* Half of the eligible prompts are no longer than p50, nineteen in twenty *)
(* no longer than p95, none longer than max, and p50 is no greater than need*)
(* be.                                                                     *)
TokensSummed(queries, tokens) ==
    LET NotAbove(v) == Cardinality({q \in queries : PromptTokens[q] <= v})
        Below(v) == Cardinality({q \in queries : PromptTokens[q] < v})
        n == Cardinality(queries)
    IN
    /\ 2 * NotAbove(tokens.p50) >= n /\ (n > 0 => 2 * Below(tokens.p50) < n)
    /\ 20 * NotAbove(tokens.p95) >= 19 * n
    /\ NotAbove(tokens.max) = n

(***************************************************************************)
(* However readiness and runs replaced each other's files and were killed: *)
(* the status accounts for every query; Stage C is recorded ready only when*)
(* every context can be had, with the jurisdiction's text, and is on disk; *)
(* Stage D is recorded with as many contexts as the policy decided on, and *)
(* as its tracked summary says.                                            *)
(***************************************************************************)
ReadinessIsSound ==
    /\ StatusAccounts'
    /\ generatorName = "C" /\ ready' # NoReport =>
          \A q \in ReadyQueries :
             CanPrepare(q, "text") /\ packs'[q] # "absent" /\ registries'[q] # "absent"
    /\ ready' # ready =>
          /\ ready'.eligible + ready'.abstained = ready'.contexts
          /\ TokensSummed(Eligible, ready'.tokens)
          /\ generatorName = "D" => ready' = tracked
=============================================================================
