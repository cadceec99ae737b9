---------------------------- MODULE ExtractionRun ----------------------------
(***************************************************************************)
(* The resumable hybrid extraction run (extraction/orchestration.py,       *)
(* extraction/hybrid_runtime.py, extraction/checkpoints.py).  A run takes  *)
(* its records in a fixed order and gives each at most one provider call;  *)
(* every file is replaced atomically, but a record's checkpoint, its       *)
(* result, its preserved first attempt and the published configuration are *)
(* four files, and the process may die between any two writes.             *)
(*                                                                         *)
(* Records are numbered in the order the run sorts them in.  What differs  *)
(* between configurations (source, prompt, schema, model) is their         *)
(* fingerprint.                                                            *)
(***************************************************************************)
EXTENDS Naturals, Sequences

CONSTANTS
    RecordCount,   \* records of the split
    Fingerprints,  \* fingerprints of the configurations runs are started with
    MaxRuns        \* bound: runs started

ASSUME ExtractionAssumption ==
    /\ RecordCount \in Nat
    /\ MaxRuns \in Nat
    /\ "none" \notin Fingerprints

VARIABLES
    checkpoint,  \* checkpoint file of each record
    result,      \* result file of each record
    preserved,   \* attempts/<record>/attempt-1.json
    tracked,     \* the tracked configuration: its lifecycle state and fingerprint
    private,     \* the private copy of the same metadata
    pc,          \* what the process does next; "idle": no process
    run,         \* options of the run
    at,          \* the record it is at
    attempt,     \* number and history of the attempt it is making
    failure,     \* what the except clause caught
    runs,        \* history: runs started
    retries      \* history: second attempts called since the record last started afresh

files   == <<checkpoint, result, preserved, tracked, private>>
process == <<pc, run, at, attempt, failure>>
ghosts  == <<runs, retries>>
vars    == <<files, process, ghosts>>

Records == 1..RecordCount

Failures == {"MODEL_TIMEOUT", "RUNTIME_FAILURE", "PROVIDER_VALIDATION_FAILURE"}
Attempts == [number : {1, 2}, outcome : Failures \cup {"complete"}]

(* A file that is not there has state "absent" and fingerprint "none". *)
Checkpoint(state, f, number, history) ==
    [state |-> state, fingerprint |-> f, number |-> number, history |-> history]
Result(state, f, number) == [state |-> state, fingerprint |-> f, number |-> number]
Published(state, f) == [state |-> state, fingerprint |-> f]

NoResult == Result("absent", "none", 1)

Init ==
    /\ checkpoint = [r \in Records |-> Checkpoint("absent", "none", 1, <<>>)]
    /\ result = [r \in Records |-> NoResult]
    /\ preserved = [r \in Records |-> NoResult]
    /\ tracked = Published("absent", "none")
    /\ private = Published("absent", "none")
    /\ pc = "idle"
    /\ run = [fingerprint |-> "none", resume |-> FALSE, retry |-> FALSE]
    /\ at = 1
    /\ attempt = [number |-> 1, history |-> <<>>]
    /\ failure = "RUNTIME_FAILURE"
    /\ runs = 0
    /\ retries = [r \in Records |-> 0]

(***************************************************************************)
(* run_hybrid_split: both copies of the configuration say                  *)
(* "ready_not_executed" before the first record and "complete" after the   *)
(* last.                                                                   *)
(***************************************************************************)
Start(f, resume, retry, next) ==
    /\ pc = "idle"
    /\ runs < MaxRuns
    /\ runs' = runs + 1
    /\ run' = [fingerprint |-> f, resume |-> resume, retry |-> retry]
    /\ tracked' = Published("ready_not_executed", f)
    /\ pc' = next
    /\ UNCHANGED <<checkpoint, result, preserved, private, at, attempt, failure, retries>>

StartRun == \E f \in Fingerprints, resume, retry \in BOOLEAN : Start(f, resume, retry, "ready")

(* --preflight-only insists on an empty namespace. *)
StartPreflight ==
    /\ \A r \in Records : checkpoint[r].state = "absent" /\ result[r].state = "absent"
    /\ \E f \in Fingerprints : Start(f, FALSE, FALSE, "preflight")

FinishPreflight ==
    /\ pc = "preflight"
    /\ private' = Published("ready_not_executed", run.fingerprint)
    /\ pc' = "idle"
    /\ UNCHANGED <<checkpoint, result, preserved, tracked, run, at, attempt, failure, ghosts>>

(* --retry-timeouts without --resume is refused only here, by              *)
(* run_hybrid_records, when both copies have been rewritten.               *)
BeginRecords ==
    /\ pc = "ready"
    /\ private' = Published("ready_not_executed", run.fingerprint)
    /\ pc' = IF run.retry /\ ~run.resume THEN "idle" ELSE "records"
    /\ at' = 1
    /\ UNCHANGED <<checkpoint, result, preserved, tracked, run, attempt, failure, ghosts>>

(* Fault: the tracked copy is published when the last record begins. *)
FinishRunEarly ==
    /\ pc = "records"
    /\ at >= RecordCount
    /\ tracked' = Published("complete", run.fingerprint)
    /\ pc' = "publishing"
    /\ UNCHANGED <<checkpoint, result, preserved, private, run, at, attempt, failure, ghosts>>

FinishRun ==
    /\ pc = "records"
    /\ at > RecordCount
    /\ tracked' = Published("complete", run.fingerprint)
    /\ pc' = "publishing"
    /\ UNCHANGED <<checkpoint, result, preserved, private, run, at, attempt, failure, ghosts>>

PublishPrivate ==
    /\ pc = "publishing"
    /\ private' = Published("complete", run.fingerprint)
    /\ pc' = "idle"
    /\ UNCHANGED <<checkpoint, result, preserved, tracked, run, at, attempt, failure, ghosts>>

(***************************************************************************)
(* run_hybrid_records: what to do with the record's earlier checkpoint.    *)
(***************************************************************************)
Resumes(r) == run.resume /\ checkpoint[r].fingerprint = run.fingerprint

(* ExtractionCheckpointStore.valid: the result file itself carries no      *)
(* configuration fingerprint; only its lifecycle state is looked at.       *)
Valid(r) == checkpoint[r].state = "complete" /\ result[r].state = "complete"

LastOutcome(r) == checkpoint[r].history[Len(checkpoint[r].history)].outcome

Retryable(r) ==
    /\ run.retry
    /\ LastOutcome(r) = "MODEL_TIMEOUT"
    /\ checkpoint[r].number = 1

(* Fault: --retry-timeouts never skips a failed record. *)
SkipFailedUnlessRetry(r) ==
    Resumes(r) /\ checkpoint[r].state = "failed" /\ ~run.retry

SkipComplete(r) == Resumes(r) /\ Valid(r)
SkipFailed(r) == Resumes(r) /\ checkpoint[r].state = "failed" /\ ~Retryable(r)
Retries(r) == Resumes(r) /\ checkpoint[r].state = "failed" /\ Retryable(r)

SkipRecord ==
    /\ pc = "records"
    /\ at \in Records
    /\ SkipComplete(at) \/ SkipFailed(at)
    /\ at' = at + 1
    /\ UNCHANGED <<files, pc, run, attempt, failure, ghosts>>

(* An incomplete checkpoint, whatever attempt it was left by, starts over. *)
StartFirstAttempt ==
    /\ pc = "records"
    /\ at \in Records
    /\ ~SkipComplete(at) /\ ~SkipFailed(at) /\ ~Retries(at)
    /\ attempt' = [number |-> 1, history |-> <<>>]
    /\ retries' = [retries EXCEPT ![at] = IF Resumes(at) THEN @ ELSE 0]
    /\ pc' = "preparing"
    /\ UNCHANGED <<files, run, at, failure, runs>>

StartTimeoutRetry ==
    /\ pc = "records"
    /\ at \in Records
    /\ Retries(at)
    /\ attempt' = [number |-> 2, history |-> checkpoint[at].history]
    /\ pc' = "preserving"
    /\ UNCHANGED <<files, run, at, failure, ghosts>>

(* _preserve_attempt_result copies the result file as it is. *)
PreserveAttempt ==
    /\ pc = "preserving"
    /\ preserved' = IF result[at].state = "absent" THEN preserved
                    ELSE [preserved EXCEPT ![at] = result[at]]
    /\ pc' = "preparing"
    /\ UNCHANGED <<checkpoint, result, tracked, private, run, at, attempt, failure, ghosts>>

(***************************************************************************)
(* One attempt.                                                            *)
(***************************************************************************)
WriteCheckpoint(state, history) ==
    /\ checkpoint' = [checkpoint EXCEPT ![at] =
                         Checkpoint(state, run.fingerprint, attempt.number, history)]
    /\ UNCHANGED <<result, preserved, tracked, private, run, attempt, failure, runs>>

WriteResult(state) ==
    /\ result' = [result EXCEPT ![at] = Result(state, run.fingerprint, attempt.number)]
    /\ UNCHANGED <<checkpoint, preserved, tracked, private, run, at, attempt, failure, ghosts>>

(* Fault: the attempt's number is advanced before it is recorded. *)
EndedAsNext(outcome) ==
    Append(attempt.history, [number |-> attempt.number + 1, outcome |-> outcome])

EndedAs(outcome) ==
    Append(attempt.history, [number |-> attempt.number, outcome |-> outcome])

(* context_prepared: before the try block, so an error here ends the run. *)
WritePrepared ==
    /\ pc = "preparing"
    /\ WriteCheckpoint("incomplete", attempt.history)
    /\ pc' = "prepared"
    /\ UNCHANGED <<at, retries>>

(* extraction_attempted *)
WriteAttempted ==
    /\ pc = "prepared"
    /\ WriteCheckpoint("incomplete", attempt.history)
    /\ pc' = "calling"
    /\ retries' = [retries EXCEPT ![at] = IF attempt.number = 2 THEN @ + 1 ELSE @]
    /\ UNCHANGED at

(* The provider's proposal assembles, or is schema-invalid (or carries     *)
(* diagnostics the caller does not accept).                                *)
ProviderAnswers ==
    /\ pc = "calling"
    /\ pc' \in {"storing", "rejecting"}
    /\ UNCHANGED <<files, run, at, attempt, failure, ghosts>>

ProviderTimesOut ==
    /\ pc = "calling"
    /\ pc' = "failing"
    /\ failure' = "MODEL_TIMEOUT"
    /\ UNCHANGED <<files, run, at, attempt, ghosts>>

StoreResult ==
    /\ pc = "storing"
    /\ WriteResult("complete")
    /\ pc' = "completing"

(* Fault: the checkpoint is completed before its result is on disk. *)
CompleteCheckpointEarly ==
    /\ pc \in {"storing", "completing"}
    /\ WriteCheckpoint("complete", EndedAs("complete"))
    /\ pc' = "records"
    /\ at' = at + 1
    /\ UNCHANGED retries

CompleteCheckpoint ==
    /\ pc = "completing"
    /\ WriteCheckpoint("complete", EndedAs("complete"))
    /\ pc' = "records"
    /\ at' = at + 1
    /\ UNCHANGED retries

StoreRejected ==
    /\ pc = "rejecting"
    /\ WriteResult("PROVIDER_VALIDATION_FAILURE")
    /\ pc' = "rejected"

RejectCheckpoint ==
    /\ pc = "rejected"
    /\ WriteCheckpoint("failed", EndedAs("PROVIDER_VALIDATION_FAILURE"))
    /\ pc' = "records"
    /\ at' = at + 1
    /\ UNCHANGED retries

(* Any other exception of the try block, a failed write of the result or of*)
(* the final checkpoint included.                                          *)
AttemptRaises ==
    /\ pc \in {"prepared", "calling", "storing", "completing", "rejecting", "rejected"}
    /\ pc' = "failing"
    /\ failure' = "RUNTIME_FAILURE"
    /\ UNCHANGED <<files, run, at, attempt, ghosts>>

StoreFailure ==
    /\ pc = "failing"
    /\ WriteResult(failure)
    /\ pc' = "failed"

FailCheckpoint ==
    /\ pc = "failed"
    /\ WriteCheckpoint("failed", EndedAs(failure))
    /\ pc' = "records"
    /\ at' = at + 1
    /\ UNCHANGED retries

(* The process is killed, or an error outside the try block ends the run:  *)
(* only files survive.                                                     *)
Crash ==
    /\ pc # "idle"
    /\ pc' = "idle"
    /\ UNCHANGED <<files, run, at, attempt, failure, ghosts>>

Attempt ==
    \/ WritePrepared \/ WriteAttempted
    \/ ProviderAnswers \/ ProviderTimesOut
    \/ StoreResult \/ CompleteCheckpoint
    \/ StoreRejected \/ RejectCheckpoint
    \/ AttemptRaises \/ StoreFailure \/ FailCheckpoint

Next ==
    \/ StartRun \/ StartPreflight \/ FinishPreflight \/ BeginRecords
    \/ SkipRecord \/ StartFirstAttempt \/ StartTimeoutRetry \/ PreserveAttempt
    \/ Attempt
    \/ FinishRun \/ PublishPrivate
    \/ Crash

Spec == Init /\ [][Next]_vars

(***************************************************************************)
(* Properties.                                                             *)
(***************************************************************************)
PublishedStates == {"absent", "ready_not_executed", "complete"}
CheckpointFiles == [state : {"absent", "incomplete", "complete", "failed"},
                    fingerprint : Fingerprints \cup {"none"},
                    number : {1, 2},
                    history : Seq(Attempts)]
ResultStates == {"absent", "complete"} \cup Failures
ResultFiles == [state : ResultStates, fingerprint : Fingerprints \cup {"none"}, number : {1, 2}]
ConfigurationFiles == [state : PublishedStates, fingerprint : Fingerprints \cup {"none"}]

TypeOK ==
    /\ checkpoint \in [Records -> CheckpointFiles]
    /\ result \in [Records -> ResultFiles]
    /\ preserved \in [Records -> ResultFiles]
    /\ tracked \in ConfigurationFiles
    /\ private \in ConfigurationFiles
    /\ pc \in {"idle", "preflight", "ready", "records", "preserving", "preparing", "prepared",
               "calling", "storing", "completing", "rejecting", "rejected", "failing", "failed",
               "publishing"}
    /\ run \in [fingerprint : Fingerprints \cup {"none"}, resume : BOOLEAN, retry : BOOLEAN]
    /\ at \in 1..(RecordCount + 1)
    /\ attempt \in [number : {1, 2}, history : Seq(Attempts)]
    /\ failure \in {"MODEL_TIMEOUT", "RUNTIME_FAILURE"}
    /\ runs \in Nat
    /\ retries \in [Records -> Nat]

Settled(r) == checkpoint[r].state \in {"complete", "failed"}

(* A checkpoint that calls its record settled, complete or failed, has the *)
(* result of that very attempt and configuration on disk, through any crash*)
(* and any change of configuration: valid() can trust the result's lifecycle*)
(* state although the file names no configuration.                         *)
SettledMatchesResult ==
    \A r \in Records :
        Settled(r) =>
            /\ result[r] = Result(LastOutcome(r), checkpoint[r].fingerprint, checkpoint[r].number)
            /\ checkpoint[r].state = "complete" <=> result[r].state = "complete"

(* A configuration, tracked or private, published as complete describes a  *)
(* run in which every record was settled under that configuration.         *)
PublishedMeansSettled ==
    \A copy \in {tracked, private} : copy.state = "complete" =>
        \A r \in Records : Settled(r) /\ checkpoint[r].fingerprint = copy.fingerprint

(* A second attempt follows a first that timed out, and that first result is*)
(* still there to be read in attempts/.                                    *)
SecondAttemptDocumented ==
    \A r \in Records : checkpoint[r].number = 2 =>
        /\ Head(checkpoint[r].history) = [number |-> 1, outcome |-> "MODEL_TIMEOUT"]
        /\ preserved[r] = Result("MODEL_TIMEOUT", checkpoint[r].fingerprint, 1)

(* Every settled checkpoint can be accounted for from the files beside it. *)
SettledIsDocumented == SettledMatchesResult /\ SecondAttemptDocumented

(* Resuming a configuration never touches a record it has settled, except to*)
(* give a timed-out first attempt its second chance.                       *)
ResumeKeepsSettled ==
    [][\A r \in Records :
          /\ run.resume /\ run.fingerprint = checkpoint[r].fingerprint
          /\ Settled(r)
          /\ checkpoint'[r] # checkpoint[r] \/ result'[r] # result[r]
          => LastOutcome(r) = "MODEL_TIMEOUT" /\ attempt.number = 2 /\ run.retry]_vars

(* "explicitly retry only first-attempt MODEL_TIMEOUT failures with        *)
(* --resume" (cli.py:579): a record that was given its retry gets no other *)
(* one while runs only resume it.                                          *)
RetriedAtMostOnce == \A r \in Records : retries[r] <= 1
=============================================================================
