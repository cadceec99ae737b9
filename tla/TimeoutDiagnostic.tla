--------------------------- MODULE TimeoutDiagnostic ---------------------------
(***************************************************************************)
(* The replay of the Stage B queries that timed out, and its evaluation    *)
(* from the files it left (generation/timeout_diagnostic.py).              *)
(*                                                                         *)
(* For each query of the frozen cohort, in order, the model's reply is     *)
(* kept as an envelope that is written once, and then described by a       *)
(* record that every attempt replaces.  A body carries its timings, so two *)
(* attempts hardly ever get the same one.  The evaluation calls no model:  *)
(* it classifies the envelopes and writes a corrected record of each.      *)
(*                                                                         *)
(* Commands run one after another and may be killed between two writes.    *)
(* When the Stage B results are no longer the frozen ones, or a context    *)
(* cannot be read, selecting the cohort raises before anything is written; *)
(* the second version of the diagnostic is the same replay in a namespace  *)
(* of its own.  The canonical corpus may change between commands.          *)
(***************************************************************************)
EXTENDS Naturals, FiniteSets

CONSTANTS
    CohortSize,  \* TIMEOUT_DIAGNOSTIC_EXPECTED_COUNT
    Bodies,      \* replies the model may give: what they hold and their timings
    MaxReplays   \* replays started

Cohort == 1 .. CohortSize
Kinds == {"verified", "rejected", "abstention", "unparsed"}

ASSUME TimeoutAssumption ==
    /\ CohortSize \in Nat \ {0}
    /\ Bodies \subseteq [kind : Kinds, timing : Nat]
    /\ MaxReplays \in Nat

VARIABLES
    envelope,    \* envelope file of each query
    telemetry,   \* record file of each query
    corrected,   \* corrected record of each query
    unresolved,  \* queries whose evidence the canonical corpus does not hold
    replay,      \* the replay in progress: its mode, position and reply in hand
    replays,     \* replays started
    evaluation,  \* how far an evaluation is: queries classified
    summary      \* what the last evaluation or diagnosis printed

timeoutVars ==
    <<envelope, telemetry, corrected, unresolved, replay, replays, evaluation, summary>>

NoBody == [kind |-> "none", timing |-> 0]
NoRecord == [status |-> "absent", category |-> "none", of |-> NoBody]
NoCorrection == [outcome |-> "absent", of |-> NoBody]
NotReplaying == [doing |-> "nothing", resume |-> FALSE, at |-> 1, reply |-> NoBody]
NotPrinted ==
    [status |-> "none", valid |-> 0, invalid |-> 0, unrecorded |-> 0, diagnosis |-> "none"]

TimeoutInit ==
    /\ envelope = [q \in Cohort |-> NoBody]
    /\ telemetry = [q \in Cohort |-> NoRecord]
    /\ corrected = [q \in Cohort |-> NoCorrection]
    /\ unresolved = {}
    /\ replay = NotReplaying
    /\ replays = 0
    /\ evaluation = {}
    /\ summary = NotPrinted

(***************************************************************************)
(* write_diagnostic_record                                                 *)
(***************************************************************************)
Described(body) ==
    IF body.kind = "unparsed"
    THEN [status |-> "failure", category |-> "malformed_response", of |-> body]
    ELSE [status |-> "success", category |-> "none", of |-> body]

(* classify_ollama_exception: what no response, or none to be kept, is called;*)
(* "timeout" is any of five, and "http_error" also stands for "other".     *)
Failures == {"timeout", "connection_error", "http_error", "malformed_response"}
Failed(category) == [status |-> "failure", category |-> category, of |-> NoBody]

(***************************************************************************)
(* run_stage_b_timeout_diagnostic                                          *)
(***************************************************************************)
NothingRuns == replay.doing = "nothing" /\ evaluation = {}

StartReplay ==
    /\ NothingRuns
    /\ replays < MaxReplays
    /\ replays' = replays + 1
    /\ \E resume \in BOOLEAN :
          replay' = [doing |-> "asking", resume |-> resume, at |-> 1, reply |-> NoBody]
    /\ UNCHANGED <<envelope, telemetry, corrected, unresolved, evaluation, summary>>

Advanced(next) == IF next \in Cohort
                  THEN [replay EXCEPT !.doing = "asking", !.at = next, !.reply = NoBody]
                  ELSE NotReplaying

Recorded(q) == telemetry[q] # NoRecord

SkipRecorded ==
    /\ replay.doing = "asking"
    /\ replay.resume /\ Recorded(replay.at)
    /\ replay' = Advanced(replay.at + 1)
    /\ UNCHANGED <<envelope, telemetry, corrected, unresolved, replays, evaluation, summary>>

Asks(q) ==
    /\ replay.doing = "asking" /\ replay.at = q
    /\ ~(replay.resume /\ Recorded(q))

(* Fault: a later reply replaces the envelope. *)
KeepAnyEnvelope(q, body) ==
    /\ envelope' = [envelope EXCEPT ![q] = body]
    /\ replay' = [replay EXCEPT !.doing = "recording", !.reply = body]
    /\ UNCHANGED telemetry

(* _write_private_envelope: an envelope that differs is refused, and the   *)
(* refusal is caught with the transport's errors.                          *)
KeepEnvelope(q, body) ==
    /\ envelope[q] = NoBody \/ envelope[q] = body
    /\ envelope' = [envelope EXCEPT ![q] = body]
    /\ replay' = [replay EXCEPT !.doing = "recording", !.reply = body]
    /\ UNCHANGED telemetry

RefuseEnvelope(q, body) ==
    /\ envelope[q] \notin {NoBody, body}
    /\ telemetry' = [telemetry EXCEPT ![q] = Failed("malformed_response")]
    /\ replay' = Advanced(q + 1)
    /\ UNCHANGED envelope

Reply ==
    /\ \E q \in Cohort, body \in Bodies :
          Asks(q) /\ (KeepEnvelope(q, body) \/ RefuseEnvelope(q, body))
    /\ UNCHANGED <<corrected, unresolved, replays, evaluation, summary>>

RecordReply ==
    /\ replay.doing = "recording"
    /\ telemetry' = [telemetry EXCEPT ![replay.at] = Described(replay.reply)]
    /\ replay' = Advanced(replay.at + 1)
    /\ UNCHANGED <<envelope, corrected, unresolved, replays, evaluation, summary>>

RecordFailure ==
    /\ \E q \in Cohort, category \in Failures :
          /\ Asks(q)
          /\ telemetry' = [telemetry EXCEPT ![q] = Failed(category)]
          /\ replay' = Advanced(q + 1)
    /\ UNCHANGED <<envelope, corrected, unresolved, replays, evaluation, summary>>

ReplayDies ==
    /\ replay.doing # "nothing"
    /\ replay' = NotReplaying
    /\ UNCHANGED <<envelope, telemetry, corrected, unresolved, replays, evaluation, summary>>

(* External: the canonical corpus is built again or restored, and may lack *)
(* chunks or units that the contexts name.                                 *)
RebuildCorpus ==
    /\ NothingRuns
    /\ \E queries \in SUBSET Cohort : unresolved' = queries
    /\ UNCHANGED <<envelope, telemetry, corrected, replay, replays, evaluation, summary>>

(***************************************************************************)
(* evaluate_persisted_timeout_diagnostic                                   *)
(***************************************************************************)
(* The counters a reply is counted under: verifying an answer resolves its *)
(* evidence in the corpus, and a ValueError raised there counts the reply  *)
(* again, as invalid.                                                      *)
Counters(q) ==
    LET body == envelope[q] IN
    CASE body.kind = "unparsed" -> {"schema_pydantic_invalid"}
      [] body.kind = "abstention" -> {"valid_generated_responses"}
      [] q \in unresolved -> {"valid_generated_responses", "schema_pydantic_invalid"}
      [] OTHER -> {"valid_generated_responses"}

Outcome(q) ==
    CASE "schema_pydantic_invalid" \in Counters(q) -> "schema_pydantic_invalid"
      [] envelope[q].kind = "abstention" -> "explicit_abstention"
      [] envelope[q].kind = "verified" -> "final_verified_answer"
      [] OTHER -> "citation_quotation_failure"

HasEnvelopes == \A q \in Cohort : envelope[q] # NoBody
(* A query with an envelope and no record is only counted, as a failure. *)
Evaluated == {q \in Cohort : Recorded(q)}

Correct(q) ==
    corrected' = [corrected EXCEPT ![q] = [outcome |-> Outcome(q), of |-> envelope[q]]]

Insufficient ==
    /\ NothingRuns
    /\ ~HasEnvelopes
    /\ summary' = [NotPrinted EXCEPT !.status = "insufficient_evidence"]
    /\ UNCHANGED <<envelope, telemetry, corrected, unresolved, replay, replays, evaluation>>

WriteCorrection ==
    /\ replay.doing = "nothing"
    /\ HasEnvelopes
    /\ \E q \in Evaluated \ evaluation : Correct(q) /\ evaluation' = evaluation \cup {q}
    /\ UNCHANGED <<envelope, telemetry, unresolved, replay, replays, summary>>

Counted(counter) == Cardinality({q \in Evaluated : counter \in Counters(q)})

PrintEvaluation ==
    /\ replay.doing = "nothing"
    /\ HasEnvelopes
    /\ evaluation = Evaluated
    /\ summary' = [NotPrinted EXCEPT
                      !.status = "complete",
                      !.valid = Counted("valid_generated_responses"),
                      !.invalid = Counted("schema_pydantic_invalid"),
                      !.unrecorded = Cardinality(Cohort \ Evaluated)]
    /\ evaluation' = {}
    /\ UNCHANGED <<envelope, telemetry, corrected, unresolved, replay, replays>>

ClassifyingDies ==
    /\ evaluation # {}
    /\ evaluation' = {}
    /\ UNCHANGED <<envelope, telemetry, corrected, unresolved, replay, replays, summary>>

(***************************************************************************)
(* evaluate_stage_b_timeout_diagnostic: what the records say.  Without one *)
(* failure, the failures that are connection errors are all there are.     *)
(***************************************************************************)
With(status) == {q \in Cohort : telemetry[q].status = status}
FailedAs(category) == {q \in Cohort : telemetry[q].category = category}

Diagnosis ==
    CASE Evaluated = {} -> "INSUFFICIENT_EVIDENCE"
      [] With("success") # {} /\ With("failure") # {} -> "INTERMITTENT_RUNTIME_FAILURE"
      [] FailedAs("timeout") # {} /\ FailedAs("timeout") = With("failure") -> "CLIENT_TIMEOUT_TOO_SHORT"
      [] FailedAs("connection_error") = With("failure") -> "NETWORK_OR_CONNECTION_FAILURE"
      [] OTHER -> "OLLAMA_RUNTIME_STALL"

Diagnose ==
    /\ NothingRuns
    /\ summary' = [NotPrinted EXCEPT
                      !.status = IF Evaluated = Cohort THEN "complete" ELSE "incomplete",
                      !.diagnosis = Diagnosis]
    /\ UNCHANGED <<envelope, telemetry, corrected, unresolved, replay, replays, evaluation>>

TimeoutNext ==
    \/ StartReplay \/ SkipRecorded
    \/ Reply \/ RecordReply \/ RecordFailure
    \/ ReplayDies
    \/ RebuildCorpus
    \/ Insufficient \/ WriteCorrection \/ PrintEvaluation
    \/ ClassifyingDies
    \/ Diagnose

TimeoutSpec == TimeoutInit /\ [][TimeoutNext]_timeoutVars

-----------------------------------------------------------------------------
(* Properties. *)

(* The type invariant. *)
TimeoutTypeOK ==
    LET Kept == Bodies \cup {NoBody} IN
    /\ envelope \in [Cohort -> Kept]
    /\ telemetry \in [Cohort -> [status : {"absent", "success", "failure"},
                                 category : Failures \cup {"none"}, of : Kept]]
    /\ corrected \in [Cohort -> [outcome : {"absent", "schema_pydantic_invalid",
                                            "explicit_abstention", "final_verified_answer",
                                            "citation_quotation_failure"},
                                 of : Kept]]
    /\ unresolved \subseteq Cohort
    /\ replay \in [doing : {"nothing", "asking", "recording"}, resume : BOOLEAN,
                    at : Cohort, reply : Kept]
    /\ replays \in 0 .. MaxReplays
    /\ evaluation \subseteq Cohort

(* A record that describes a reply describes the envelope that was kept, and*)
(* so does a corrected record; the reply in hand is on disk.               *)
RepliesDescribed ==
    /\ \A q \in Cohort :
          /\ telemetry[q].of # NoBody => telemetry[q] = Described(envelope[q])
          /\ corrected[q] # NoCorrection => corrected[q].of = envelope[q]
    /\ replay.doing = "recording" => envelope[replay.at] = replay.reply

(***************************************************************************)
(* Whatever attempts, kills and evaluations follow, the first reply to a   *)
(* query stays the evidence about it; a resumed replay leaves its record   *)
(* alone; no printed evaluation lets a query of the cohort go uncounted,   *)
(* or counts one twice while the corpus holds all evidence: an answer that *)
(* raises while it is verified is counted as valid and as invalid.         *)
(***************************************************************************)
FirstReplyIsEvidence ==
    [][/\ RepliesDescribed'
       /\ \A q \in Cohort :
             /\ envelope[q] # NoBody => envelope'[q] = envelope[q]
             /\ replay.resume /\ Recorded(q) => telemetry'[q] = telemetry[q]
       /\ PrintEvaluation =>
             LET total == summary'.valid + summary'.invalid + summary'.unrecorded
             IN total >= CohortSize /\ (unresolved = {} => total = CohortSize)]_timeoutVars
=============================================================================
