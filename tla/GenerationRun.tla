---------------------------- MODULE GenerationRun ----------------------------
(***************************************************************************)
(* The resumable generation run (generation/orchestration.py with          *)
(* generation/checkpoints.py): for each query of the split, in order, it   *)
(* prepares a context, asks the policy, looks for a checkpoint to resume   *)
(* from, generates, and writes the result and then the checkpoint.  Each   *)
(* file is replaced atomically; the process may die between any two writes *)
(* and the next run may have another configuration.                        *)
(*                                                                         *)
(* Stages C and D (Strict) keep a lifecycle in both files and read the     *)
(* result before trusting a checkpoint; Stages A and B do neither.  A      *)
(* fingerprint covers the configuration and the context it was given.      *)
(***************************************************************************)
EXTENDS Naturals

CONSTANTS
    QueryCount,  \* queries of the split
    Configs,     \* configurations (model, prompt, schema, policy) runs are started with
    Strict,      \* the store requires a complete lifecycle
    Denied,      \* queries the pre-generation policy does not allow
    Reshaped     \* queries whose context changes with the jurisdiction statement

Queries == 1..QueryCount

ASSUME GenerationAssumption ==
    /\ QueryCount \in Nat
    /\ Strict \in BOOLEAN
    /\ Denied \subseteq Queries
    /\ Reshaped \subseteq Queries \ Denied
    /\ "none" \notin Configs

VARIABLES
    checkpoint,  \* checkpoint file of each query
    result,      \* result file of each query
    pc,          \* what the process does next; "idle": no process
    run,         \* its configuration and whether it resumes
    at,          \* the query it is at
    context,     \* the context it prepared: the fingerprint's second part
    outcome,     \* what it will store for the query
    resumed,     \* the queries it resumed: counts["resumed"]
    obtained     \* history: fingerprints each query was really completed under

files   == <<checkpoint, result>>
process == <<pc, run, at, context, outcome, resumed>>
vars    == <<files, process, obtained>>

(* "seed" stands for no context prepared: Stages A and B then fingerprint  *)
(* the seed pack, C and D the error, whatever the configuration.           *)
Contexts == {"seed", "first", "final"}
Fingerprints == [config : Configs \cup {"none"}, context : Contexts]
Fingerprint ==
    [config |-> IF Strict /\ context = "seed" THEN "none" ELSE run.config, context |-> context]

(* How an attempt ended: a context or policy error, an abstention by the   *)
(* policy, no response, a response whose finalization raised, a response.  *)
Outcomes == {"error", "policy", "unanswered", "unfinished", "generation"}
Complete(o) == o \in {"policy", "generation"}

NoFile == [outcome |-> "absent", config |-> "none", context |-> "seed"]
File(o, f) == [outcome |-> o, config |-> f.config, context |-> f.context]
FingerprintOf(file) == [config |-> file.config, context |-> file.context]

Init ==
    /\ checkpoint = [q \in Queries |-> NoFile]
    /\ result = [q \in Queries |-> NoFile]
    /\ pc = "idle"
    /\ run = [config |-> "none", resume |-> FALSE]
    /\ at = 1
    /\ context = "seed"
    /\ outcome = "error"
    /\ resumed = {}
    /\ obtained = [q \in Queries |-> {}]

(* Fault: the first position is zero. *)
StartRunAtZero ==
    /\ pc = "idle"
    /\ \E c \in Configs, resume \in BOOLEAN : run' = [config |-> c, resume |-> resume]
    /\ pc' = "preparing"
    /\ at' = 0
    /\ resumed' = {}
    /\ UNCHANGED <<files, context, outcome, obtained>>

StartRun ==
    /\ pc = "idle"
    /\ \E c \in Configs, resume \in BOOLEAN : run' = [config |-> c, resume |-> resume]
    /\ pc' = "preparing"
    /\ at' = 1
    /\ resumed' = {}
    /\ UNCHANGED <<files, context, outcome, obtained>>

(***************************************************************************)
(* The context is assembled once without the jurisdiction statement, and,  *)
(* if the policy allows the query, again with it.                          *)
(***************************************************************************)
FinalContext(q) == IF q \in Reshaped THEN "final" ELSE "first"

Prepared(c, o, next) ==
    /\ context' = c
    /\ outcome' = o
    /\ pc' = next
    /\ UNCHANGED <<files, run, at, resumed, obtained>>

(* The first assembly fails; or the policy allows and the second one does. *)
PrepareFails ==
    /\ pc = "preparing"
    /\ at \in Queries
    /\ \E c \in {"seed"} \cup {d \in {"first"} : at \notin Denied} :
          Prepared(c, "error", "checking")

PolicyDenies ==
    /\ pc = "preparing"
    /\ at \in Denied
    /\ Prepared("first", "policy", "checking")

(* Fault: the second assembly may return the context cached by the first. *)
PolicyAllowsAsFirst ==
    /\ pc = "preparing"
    /\ at \in Queries \ Denied
    /\ \E c \in {"first", FinalContext(at)} : Prepared(c, "unanswered", "checking")

PolicyAllows ==
    /\ pc = "preparing"
    /\ at \in Queries \ Denied
    /\ Prepared(FinalContext(at), "unanswered", "checking")

(***************************************************************************)
(* GenerationCheckpointStore.valid                                         *)
(***************************************************************************)
(* _result_proves_completion                                               *)
ResultProves(q) ==
    /\ result[q] = checkpoint[q]
    /\ Complete(result[q].outcome)

(* Fault: a matching pair of files is trusted whatever its lifecycle. *)
ValidPair(q) ==
    /\ checkpoint[q] # NoFile
    /\ FingerprintOf(checkpoint[q]) = Fingerprint
    /\ result[q] = checkpoint[q]

Valid(q) ==
    /\ checkpoint[q] # NoFile
    /\ FingerprintOf(checkpoint[q]) = Fingerprint
    /\ Strict => Complete(checkpoint[q].outcome) /\ ResultProves(q)

Resumable(q) == run.resume /\ result[q] # NoFile /\ Valid(q)

ResumeQuery ==
    /\ pc = "checking"
    /\ Resumable(at)
    /\ resumed' = resumed \cup {at}
    /\ at' = at + 1
    /\ pc' = "preparing"
    /\ UNCHANGED <<files, run, context, outcome, obtained>>

BeginQuery ==
    /\ pc = "checking"
    /\ ~Resumable(at)
    /\ pc' = IF outcome = "unanswered" THEN "generating" ELSE "storing"
    /\ obtained' = IF outcome = "policy"
                   THEN [obtained EXCEPT ![at] = @ \cup {Fingerprint}] ELSE obtained
    /\ UNCHANGED <<files, run, at, context, outcome, resumed>>

(***************************************************************************)
(* OllamaGenerator.generate, with finalize_generation.                     *)
(***************************************************************************)
(* The reply counts, valid as an answer or not, once it has been finalized.*)
ModelResponds ==
    /\ pc = "generating"
    /\ outcome' \in {"generation", "unfinished"}
    /\ obtained' = IF outcome' = "generation"
                   THEN [obtained EXCEPT ![at] = @ \cup {Fingerprint}] ELSE obtained
    /\ pc' = "storing"
    /\ UNCHANGED <<files, run, at, context, resumed>>

(* Fault: the model's last response is kept across queries. *)
ModelFailsKeepingResponse ==
    /\ pc = "generating"
    /\ outcome' \in {"unanswered", "generation"}
    /\ pc' = "storing"
    /\ UNCHANGED <<files, run, at, context, resumed, obtained>>

(* A timeout or a connection error: no raw response, an invalid result. *)
ModelFails ==
    /\ pc = "generating"
    /\ pc' = "storing"
    /\ UNCHANGED <<files, run, at, context, outcome, resumed, obtained>>

StoreResult ==
    /\ pc = "storing"
    /\ result' = [result EXCEPT ![at] = File(outcome, Fingerprint)]
    /\ pc' = "closing"
    /\ UNCHANGED <<checkpoint, run, at, context, outcome, resumed, obtained>>

StoreCheckpoint ==
    /\ pc = "closing"
    /\ checkpoint' = [checkpoint EXCEPT ![at] = File(outcome, Fingerprint)]
    /\ at' = at + 1
    /\ pc' = "preparing"
    /\ UNCHANGED <<result, run, context, outcome, resumed, obtained>>

FinishRun ==
    /\ pc = "preparing"
    /\ at \notin Queries
    /\ pc' = "idle"
    /\ UNCHANGED <<files, run, at, context, outcome, resumed, obtained>>

(* Killed, or a missing input: nothing but the files is left. *)
Crash ==
    /\ pc # "idle"
    /\ pc' = "idle"
    /\ UNCHANGED <<files, run, at, context, outcome, resumed, obtained>>

Next ==
    \/ StartRun
    \/ PrepareFails \/ PolicyDenies \/ PolicyAllows
    \/ ResumeQuery \/ BeginQuery
    \/ ModelResponds \/ ModelFails
    \/ StoreResult \/ StoreCheckpoint
    \/ FinishRun
    \/ Crash

Spec == Init /\ [][Next]_vars

(***************************************************************************)
(* Resuming one configuration: the operator starts the command again       *)
(* whenever it has ended, and neither the preparation, the model nor the   *)
(* process fails for ever at the same place.                               *)
(***************************************************************************)
NextResume == Next /\ (StartRun => run'.resume)

Fairness ==
    /\ WF_vars(NextResume)
    /\ \A q \in Queries :
          /\ SF_vars(at = q /\ (PolicyDenies \/ PolicyAllows))
          /\ SF_vars(at = q /\ outcome # "error" /\ (ResumeQuery \/ BeginQuery))
          /\ SF_vars(at = q /\ ModelResponds /\ outcome' = "generation")
          /\ SF_vars(at = q /\ Complete(outcome) /\ StoreResult)
          /\ SF_vars(at = q /\ Complete(outcome) /\ StoreCheckpoint)

ResumingSpec == Init /\ [][NextResume]_vars /\ Fairness

(***************************************************************************)
(* Properties.                                                             *)
(***************************************************************************)
Files == [outcome : Outcomes \cup {"absent"}, config : Configs \cup {"none"}, context : Contexts]

TypeOK ==
    /\ checkpoint \in [Queries -> Files]
    /\ result \in [Queries -> Files]
    /\ pc \in {"idle", "preparing", "checking", "generating", "storing", "closing"}
    /\ run \in [config : Configs \cup {"none"}, resume : BOOLEAN]
    /\ at \in 1..(QueryCount + 1)
    /\ context \in Contexts
    /\ outcome \in Outcomes
    /\ resumed \subseteq Queries
    /\ obtained \in [Queries -> SUBSET Fingerprints]

(* A file that calls its query complete, checkpoint or result, was written *)
(* by an attempt that had the model's response or the policy's refusal under*)
(* the very fingerprint it names, whatever was killed since.               *)
CompleteWasObtained ==
    \A q \in Queries : \A file \in {checkpoint[q], result[q]} :
        Complete(file.outcome) => FingerprintOf(file) \in obtained[q]

(* A query a run resumed has, as long as that run lasts, a complete result *)
(* on disk that was obtained under the run's own configuration.            *)
ResumedIsCurrent ==
    \A q \in resumed :
        /\ result[q].config = run.config
        /\ Complete(result[q].outcome)
        /\ FingerprintOf(result[q]) \in obtained[q]

(* A run that resumes a configuration overwrites a query completed under it*)
(* only when it could not prepare the query's context this time.           *)
CompletedIsKept ==
    [][\A q \in Queries :
          /\ run.resume
          /\ checkpoint[q] = result[q] /\ Complete(result[q].outcome)
          /\ result[q].config = run.config
          /\ result'[q] # result[q]
          => outcome = "error"]_vars

(* A resumed configuration completes every query: what failed is not skipped*)
(* as if it were done.                                                     *)
EveryQueryCompleted ==
    \A q \in Queries : <>(checkpoint[q] = result[q] /\ Complete(checkpoint[q].outcome))
=============================================================================
