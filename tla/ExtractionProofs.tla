-------------------------- MODULE ExtractionProofs --------------------------
(***************************************************************************)
(* Theorems of ExtractionRun, for any number of records, configurations    *)
(* and runs, of AnnotationPack, for any DEV and HOLDOUT records, of        *)
(* ExtractionEvaluation, and of MCAnnotation, where they are together.     *)
(***************************************************************************)
EXTENDS MCAnnotation, FiniteSetTheorems, FunctionTheorems, TLAPS

(***************************************************************************)
(* ExtractionRun: the inductive invariant says what each step of an attempt*)
(* may rely on having been written by the steps before it.                 *)
(***************************************************************************)

Timeout1 == [number |-> 1, outcome |-> "MODEL_TIMEOUT"]

(* From the first checkpoint of an attempt to its last. *)
OnDisk == {"prepared", "calling", "storing", "completing", "rejecting", "rejected",
           "failing", "failed"}
Underway == OnDisk \cup {"preserving", "preparing"}

(* The record's checkpoint on disk is that of the attempt being made. *)
AttemptOnDisk ==
    /\ pc \in Underway => at \in Records
    /\ pc \in OnDisk =>
          /\ checkpoint[at].state = "incomplete"
          /\ checkpoint[at].fingerprint = run.fingerprint
          /\ checkpoint[at].number = attempt.number

(* Before a final checkpoint, the result on disk is the one it will name. *)
ResultOnDisk ==
    /\ pc = "completing" => result[at] = Result("complete", run.fingerprint, attempt.number)
    /\ pc = "rejected" =>
          result[at] = Result("PROVIDER_VALIDATION_FAILURE", run.fingerprint, attempt.number)
    /\ pc = "failed" => result[at] = Result(failure, run.fingerprint, attempt.number)

(* A first attempt has no history; a second has the timeout of the first,  *)
(* preserved before anything of the second is written.                     *)
HistoryKept ==
    /\ \A r \in Records : Settled(r) /\ checkpoint[r].number = 1 =>
          Len(checkpoint[r].history) = 1 /\ checkpoint[r].history[1].number = 1
    /\ \A r \in Records : checkpoint[r].number = 2 =>
          /\ checkpoint[r].history # <<>>
          /\ checkpoint[r].history[1] = Timeout1
          /\ preserved[r] = Result("MODEL_TIMEOUT", checkpoint[r].fingerprint, 1)
    /\ pc \in Underway =>
          /\ attempt.number = 1 => attempt.history = <<>>
          /\ attempt.number = 2 => attempt.history # <<>> /\ attempt.history[1] = Timeout1
    /\ pc \in Underway \ {"preserving"} /\ attempt.number = 2 =>
          preserved[at] = Result("MODEL_TIMEOUT", run.fingerprint, 1)
    /\ pc = "preserving" =>
          /\ checkpoint[at].number = 1
          /\ attempt.number = 2
          /\ result[at] = Result("MODEL_TIMEOUT", run.fingerprint, 1)

(* A settled record of the resumed configuration is attempted again only   *)
(* after its timeout.                                                      *)
OnlyTimeoutsAgain ==
    pc \in {"preserving", "preparing"} /\ Resumes(at) /\ Settled(at) =>
        LastOutcome(at) = "MODEL_TIMEOUT" /\ attempt.number = 2 /\ run.retry

(* The records a run has passed are settled under its configuration, and   *)
(* nothing is published as complete while records are being worked on.     *)
PassedSettled ==
    /\ pc \in Underway \cup {"records"} =>
          /\ \A r \in Records : r < at => Settled(r) /\ checkpoint[r].fingerprint = run.fingerprint
          /\ private.state # "complete"
    /\ pc \in Underway \cup {"ready", "records"} => tracked.state # "complete"
    /\ pc = "publishing" =>
          \A r \in Records : Settled(r) /\ checkpoint[r].fingerprint = run.fingerprint

IInv ==
    /\ TypeOK
    /\ SettledMatchesResult
    /\ PublishedMeansSettled
    /\ AttemptOnDisk
    /\ ResultOnDisk
    /\ HistoryKept
    /\ OnlyTimeoutsAgain
    /\ PassedSettled

(* The last and the first element of an extended history. *)
LEMMA Appended ==
    ASSUME NEW S, NEW h \in Seq(S), NEW x \in S
    PROVE  /\ Append(h, x) \in Seq(S)
           /\ Append(h, x) # <<>>
           /\ Len(Append(h, x)) = Len(h) + 1
           /\ Append(h, x)[Len(h) + 1] = x
           /\ Append(h, x)[Len(Append(h, x))] = x
           /\ h # <<>> => Append(h, x)[1] = h[1]
           /\ h = <<>> => Append(h, x)[1] = x /\ Len(Append(h, x)) = 1
  OBVIOUS

(* What an attempt adds to its history. *)
LEMMA Ended ==
    ASSUME TypeOK, NEW outcome \in Failures \cup {"complete"}
    PROVE  /\ EndedAs(outcome) \in Seq(Attempts)
           /\ EndedAs(outcome) # <<>>
           /\ EndedAs(outcome)[Len(EndedAs(outcome))].outcome = outcome
           /\ attempt.history # <<>> => EndedAs(outcome)[1] = attempt.history[1]
           /\ attempt.history = <<>> =>
                 Len(EndedAs(outcome)) = 1 /\ EndedAs(outcome)[1].number = attempt.number
<1> DEFINE last == [number |-> attempt.number, outcome |-> outcome]
<1>1. last \in Attempts /\ attempt.history \in Seq(Attempts)
  BY DEF TypeOK, Attempts
<1>2. last.outcome = outcome /\ last.number = attempt.number
  OBVIOUS
<1>3. EndedAs(outcome) = Append(attempt.history, last)
  BY DEF EndedAs
<1> HIDE DEF last
<1> QED
  BY <1>1, <1>2, <1>3, Appended

(* Writing a checkpoint replaces this record's and no other. *)
LEMMA CheckpointWritten ==
    ASSUME TypeOK, NEW state \in {"incomplete", "complete", "failed"},
           NEW history \in Seq(Attempts), at \in Records, WriteCheckpoint(state, history)
    PROVE  /\ checkpoint' \in [Records -> CheckpointFiles]
           /\ checkpoint'[at] = Checkpoint(state, run.fingerprint, attempt.number, history)
           /\ \A r \in Records : r # at => checkpoint'[r] = checkpoint[r]
<1>1. Checkpoint(state, run.fingerprint, attempt.number, history) \in CheckpointFiles
  BY DEF TypeOK, Checkpoint, CheckpointFiles
<1> QED
  BY <1>1 DEF TypeOK, WriteCheckpoint

(* Writing a result replaces this record's and no other. *)
LEMMA ResultWritten ==
    ASSUME TypeOK, NEW state \in {"complete"} \cup Failures, at \in Records, WriteResult(state)
    PROVE  /\ result' \in [Records -> ResultFiles]
           /\ result'[at] = Result(state, run.fingerprint, attempt.number)
           /\ \A r \in Records : r # at => result'[r] = result[r]
<1>1. Result(state, run.fingerprint, attempt.number) \in ResultFiles
  BY DEF TypeOK, Result, ResultFiles, ResultStates, Failures
<1> QED
  BY <1>1 DEF TypeOK, WriteResult

(* The empty namespace is well typed. *)
LEMMA TypeInit == Init => TypeOK
BY ExtractionAssumption DEF Init, TypeOK, Records, Checkpoint, Result, Published, NoResult,
      CheckpointFiles, ResultFiles, ConfigurationFiles, ResultStates, PublishedStates, Attempts

(* A run that is at a record can move to the next position. *)
LEMMA NextPosition == at \in Records => at + 1 \in 1..(RecordCount + 1)
BY ExtractionAssumption DEF Records

(* Every step keeps the types; the position needs AttemptOnDisk. *)
LEMMA TypeStep == TypeOK /\ AttemptOnDisk /\ [Next]_vars => TypeOK'
<1> SUFFICES ASSUME TypeOK, AttemptOnDisk, [Next]_vars PROVE TypeOK'
  OBVIOUS
<1>1. CASE StartRun
  BY <1>1 DEF TypeOK, StartRun, Start, Published, ConfigurationFiles, PublishedStates
<1>2. CASE StartPreflight
  BY <1>2 DEF TypeOK, StartPreflight, Start, Published, ConfigurationFiles, PublishedStates
<1>3. CASE FinishPreflight
  BY <1>3 DEF TypeOK, FinishPreflight, Published, ConfigurationFiles, PublishedStates, files,
     ghosts
<1>4. CASE BeginRecords
  BY <1>4, NextPosition, ExtractionAssumption DEF TypeOK, BeginRecords, Published,
     ConfigurationFiles, PublishedStates, files, ghosts
<1>5. CASE SkipRecord
  BY <1>5, NextPosition, ExtractionAssumption DEF TypeOK, SkipRecord, Published,
     ConfigurationFiles, PublishedStates, files, ghosts
<1>6. CASE StartFirstAttempt
  BY <1>6 DEF TypeOK, StartFirstAttempt, Published, ConfigurationFiles, PublishedStates,
     files, ghosts
<1>7. CASE StartTimeoutRetry
  BY <1>7 DEF TypeOK, StartTimeoutRetry, CheckpointFiles, Published, ConfigurationFiles,
     PublishedStates, files, ghosts
<1>8. CASE PreserveAttempt
  <2>1. preserved' \in [Records -> ResultFiles]
    BY <1>8 DEF PreserveAttempt, TypeOK
  <2> QED
    BY <1>8, <2>1 DEF PreserveAttempt, TypeOK, ghosts
<1>9. CASE WritePrepared
  <2>1. at \in Records /\ attempt.history \in Seq(Attempts)
    BY <1>9 DEF WritePrepared, AttemptOnDisk, Underway, OnDisk, TypeOK
  <2>2. checkpoint' \in [Records -> CheckpointFiles]
    BY <1>9, <2>1, CheckpointWritten DEF WritePrepared
  <2>3. retries' \in [Records -> Nat]
    BY <1>9 DEF WritePrepared, TypeOK
  <2> QED
    BY <1>9, <2>2, <2>3 DEF WritePrepared, WriteCheckpoint, TypeOK
<1>10. CASE WriteAttempted
  <2>1. at \in Records /\ attempt.history \in Seq(Attempts)
    BY <1>10 DEF WriteAttempted, AttemptOnDisk, Underway, OnDisk, TypeOK
  <2>2. checkpoint' \in [Records -> CheckpointFiles]
    BY <1>10, <2>1, CheckpointWritten DEF WriteAttempted
  <2>3. retries' \in [Records -> Nat]
    <3>1. \A n \in Nat : n + 1 \in Nat
      OBVIOUS
    <3>2. retries[at] \in Nat
      BY <2>1 DEF TypeOK
    <3>3. (IF attempt.number = 2 THEN retries[at] + 1 ELSE retries[at]) \in Nat
      BY <3>1, <3>2
    <3> QED
      BY <1>10, <3>3 DEF WriteAttempted, TypeOK
  <2> QED
    BY <1>10, <2>2, <2>3 DEF WriteAttempted, WriteCheckpoint, TypeOK
<1>11. CASE ProviderAnswers
  BY <1>11 DEF TypeOK, ProviderAnswers, Published, ConfigurationFiles, PublishedStates, files,
     ghosts
<1>12. CASE ProviderTimesOut
  BY <1>12 DEF TypeOK, ProviderTimesOut, Published, ConfigurationFiles, PublishedStates,
     files, ghosts
<1>13. CASE StoreResult
  <2>1. at \in Records
    BY <1>13 DEF StoreResult, AttemptOnDisk, Underway, OnDisk
  <2>2. result' \in [Records -> ResultFiles]
    BY <1>13, <2>1, ResultWritten DEF StoreResult, TypeOK, Failures
  <2> QED
    BY <1>13, <2>2 DEF StoreResult, WriteResult, TypeOK, ghosts
<1>14. CASE CompleteCheckpoint
  <2>1. at \in Records
    BY <1>14 DEF CompleteCheckpoint, AttemptOnDisk, Underway, OnDisk
  <2>2. EndedAs("complete") \in Seq(Attempts)
    BY Ended DEF TypeOK, Failures
  <2>3. checkpoint' \in [Records -> CheckpointFiles]
    BY <1>14, <2>1, <2>2, CheckpointWritten DEF CompleteCheckpoint
  <2> QED
    BY <1>14, <2>1, <2>3, NextPosition DEF CompleteCheckpoint, WriteCheckpoint, TypeOK
<1>15. CASE StoreRejected
  <2>1. at \in Records
    BY <1>15 DEF StoreRejected, AttemptOnDisk, Underway, OnDisk
  <2>2. result' \in [Records -> ResultFiles]
    BY <1>15, <2>1, ResultWritten DEF StoreRejected, TypeOK, Failures
  <2> QED
    BY <1>15, <2>2 DEF StoreRejected, WriteResult, TypeOK, ghosts
<1>16. CASE RejectCheckpoint
  <2>1. at \in Records
    BY <1>16 DEF RejectCheckpoint, AttemptOnDisk, Underway, OnDisk
  <2>2. EndedAs("PROVIDER_VALIDATION_FAILURE") \in Seq(Attempts)
    BY Ended DEF TypeOK, Failures
  <2>3. checkpoint' \in [Records -> CheckpointFiles]
    BY <1>16, <2>1, <2>2, CheckpointWritten DEF RejectCheckpoint
  <2> QED
    BY <1>16, <2>1, <2>3, NextPosition DEF RejectCheckpoint, WriteCheckpoint, TypeOK
<1>17. CASE AttemptRaises
  BY <1>17 DEF TypeOK, AttemptRaises, Published, ConfigurationFiles, PublishedStates, files,
     ghosts
<1>18. CASE StoreFailure
  <2>1. at \in Records
    BY <1>18 DEF StoreFailure, AttemptOnDisk, Underway, OnDisk
  <2>2. result' \in [Records -> ResultFiles]
    BY <1>18, <2>1, ResultWritten DEF StoreFailure, TypeOK, Failures
  <2> QED
    BY <1>18, <2>2 DEF StoreFailure, WriteResult, TypeOK, ghosts
<1>19. CASE FailCheckpoint
  <2>1. at \in Records
    BY <1>19 DEF FailCheckpoint, AttemptOnDisk, Underway, OnDisk
  <2>2. EndedAs(failure) \in Seq(Attempts)
    BY Ended DEF TypeOK, Failures
  <2>3. checkpoint' \in [Records -> CheckpointFiles]
    BY <1>19, <2>1, <2>2, CheckpointWritten DEF FailCheckpoint
  <2> QED
    BY <1>19, <2>1, <2>3, NextPosition DEF FailCheckpoint, WriteCheckpoint, TypeOK
<1>20. CASE FinishRun
  BY <1>20 DEF TypeOK, FinishRun, Published, ConfigurationFiles, PublishedStates, files, ghosts
<1>21. CASE PublishPrivate
  BY <1>21 DEF TypeOK, PublishPrivate, Published, ConfigurationFiles, PublishedStates, files,
     ghosts
<1>22. CASE Crash
  BY <1>22 DEF TypeOK, Crash, Published, ConfigurationFiles, PublishedStates, files, ghosts
<1>23. CASE UNCHANGED vars
  BY <1>23 DEF TypeOK, vars,files,process,ghosts
<1> QED
  BY <1>1, <1>2, <1>3, <1>4, <1>5, <1>6, <1>7, <1>8, <1>9, <1>10, <1>11, <1>12, <1>13, <1>14,
     <1>15, <1>16, <1>17, <1>18, <1>19, <1>20, <1>21, <1>22, <1>23 DEF Next, Attempt

(* Every step, a crash included, keeps the inductive invariant. *)
LEMMA InvariantStep == IInv /\ [Next]_vars => IInv'
<1> SUFFICES ASSUME IInv, [Next]_vars PROVE IInv'
  OBVIOUS
<1>0. TypeOK'
  BY TypeStep DEF IInv
<1>1. CASE StartRun
  <2>1. SettledMatchesResult'
    BY <1>1 DEF IInv, SettledMatchesResult, StartRun, Start, Settled, LastOutcome, Underway,
       OnDisk, Result
  <2>2. PublishedMeansSettled'
    BY <1>1 DEF IInv, PublishedMeansSettled, PassedSettled, StartRun, Start, Settled,
       Underway, OnDisk, Published
  <2>3. AttemptOnDisk'
    BY <1>1 DEF IInv, AttemptOnDisk, StartRun, Start, Underway, OnDisk
  <2>4. ResultOnDisk'
    BY <1>1 DEF IInv, ResultOnDisk, StartRun, Start
  <2>5. HistoryKept'
    BY <1>1 DEF IInv, HistoryKept, StartRun, Start, Settled, Underway, OnDisk, Result
  <2>6. OnlyTimeoutsAgain'
    BY <1>1 DEF IInv, OnlyTimeoutsAgain, StartRun, Start, Resumes, Settled, LastOutcome
  <2>7. PassedSettled'
    BY <1>1 DEF IInv, PassedSettled, StartRun, Start, Settled, Underway, OnDisk, Published
  <2> QED
    BY <1>0, <2>1, <2>2, <2>3, <2>4, <2>5, <2>6, <2>7 DEF IInv
<1>2. CASE StartPreflight
  <2>1. SettledMatchesResult'
    BY <1>2 DEF IInv, SettledMatchesResult, StartPreflight, Start, Settled, LastOutcome,
       Underway, OnDisk, Result
  <2>2. PublishedMeansSettled'
    BY <1>2 DEF IInv, PublishedMeansSettled, PassedSettled, StartPreflight, Start, Settled,
       Underway, OnDisk, Published
  <2>3. AttemptOnDisk'
    BY <1>2 DEF IInv, AttemptOnDisk, StartPreflight, Start, Underway, OnDisk
  <2>4. ResultOnDisk'
    BY <1>2 DEF IInv, ResultOnDisk, StartPreflight, Start
  <2>5. HistoryKept'
    BY <1>2 DEF IInv, HistoryKept, StartPreflight, Start, Settled, Underway, OnDisk, Result
  <2>6. OnlyTimeoutsAgain'
    BY <1>2 DEF IInv, OnlyTimeoutsAgain, StartPreflight, Start, Resumes, Settled, LastOutcome
  <2>7. PassedSettled'
    BY <1>2 DEF IInv, PassedSettled, StartPreflight, Start, Settled, Underway, OnDisk, Published
  <2> QED
    BY <1>0, <2>1, <2>2, <2>3, <2>4, <2>5, <2>6, <2>7 DEF IInv
<1>3. CASE FinishPreflight
  <2>1. SettledMatchesResult'
    BY <1>3 DEF IInv, SettledMatchesResult, FinishPreflight, Settled, LastOutcome, Underway,
       OnDisk, Result
  <2>2. PublishedMeansSettled'
    BY <1>3 DEF IInv, PublishedMeansSettled, PassedSettled, FinishPreflight, Settled,
       Underway, OnDisk, Published
  <2>3. AttemptOnDisk'
    BY <1>3 DEF IInv, AttemptOnDisk, FinishPreflight, Underway, OnDisk
  <2>4. ResultOnDisk'
    BY <1>3 DEF IInv, ResultOnDisk, FinishPreflight
  <2>5. HistoryKept'
    BY <1>3 DEF IInv, HistoryKept, FinishPreflight, Settled, Underway, OnDisk, Result
  <2>6. OnlyTimeoutsAgain'
    BY <1>3 DEF IInv, OnlyTimeoutsAgain, FinishPreflight, Resumes, Settled, LastOutcome
  <2>7. PassedSettled'
    BY <1>3 DEF IInv, PassedSettled, FinishPreflight, Settled, Underway, OnDisk, Published
  <2> QED
    BY <1>0, <2>1, <2>2, <2>3, <2>4, <2>5, <2>6, <2>7 DEF IInv
<1>4. CASE BeginRecords
  <2>1. SettledMatchesResult'
    BY <1>4 DEF IInv, SettledMatchesResult, BeginRecords, Settled, LastOutcome, Underway,
       OnDisk, Result
  <2>2. PublishedMeansSettled'
    BY <1>4 DEF IInv, PublishedMeansSettled, PassedSettled, BeginRecords, Settled, Underway,
       OnDisk, Published
  <2>3. AttemptOnDisk'
    BY <1>4 DEF IInv, AttemptOnDisk, BeginRecords, Underway, OnDisk
  <2>4. ResultOnDisk'
    BY <1>4 DEF IInv, ResultOnDisk, BeginRecords
  <2>5. HistoryKept'
    BY <1>4 DEF IInv, HistoryKept, BeginRecords, Settled, Underway, OnDisk, Result
  <2>6. OnlyTimeoutsAgain'
    BY <1>4 DEF IInv, OnlyTimeoutsAgain, BeginRecords, Resumes, Settled, LastOutcome
  <2>7. PassedSettled'
    <3>1. \A r \in Records : ~(r < 1)
      BY DEF Records
    <3> QED
      BY <1>4, <3>1 DEF BeginRecords, PassedSettled, Underway, OnDisk, Published, IInv
  <2> QED
    BY <1>0, <2>1, <2>2, <2>3, <2>4, <2>5, <2>6, <2>7 DEF IInv
<1>5. CASE SkipRecord
  <2>1. SettledMatchesResult'
    BY <1>5 DEF IInv, SettledMatchesResult, SkipRecord, SkipComplete, SkipFailed, Retries,
       Retryable, Valid, Settled, LastOutcome, files
  <2>2. PublishedMeansSettled'
    BY <1>5 DEF IInv, PublishedMeansSettled, SkipRecord, SkipComplete, SkipFailed, Retries,
       Retryable, Valid, Settled, LastOutcome, files
  <2>3. AttemptOnDisk'
    BY <1>5 DEF IInv, AttemptOnDisk, SkipRecord, SkipComplete, SkipFailed, Retries,
       Retryable, Valid, Underway, OnDisk, files
  <2>4. ResultOnDisk'
    BY <1>5 DEF IInv, ResultOnDisk, SkipRecord, SkipComplete, SkipFailed, Retries,
       Retryable, Valid, files
  <2>5. HistoryKept'
    BY <1>5 DEF IInv, HistoryKept, SkipRecord, SkipComplete, SkipFailed, Retries, Retryable,
       Valid, Settled, Underway, OnDisk, Result, files
  <2>6. OnlyTimeoutsAgain'
    BY <1>5 DEF IInv, OnlyTimeoutsAgain, SkipRecord, SkipComplete, SkipFailed, Retries,
       Retryable, Valid, Resumes, Settled, LastOutcome, files
  <2>7. PassedSettled'
    BY <1>5 DEF IInv, TypeOK, PassedSettled, SkipRecord, SkipComplete, SkipFailed, Retries,
       Retryable, Valid, Settled, Underway, OnDisk, Resumes, files, Records
  <2> QED
    BY <1>0, <2>1, <2>2, <2>3, <2>4, <2>5, <2>6, <2>7 DEF IInv
<1>6. CASE StartFirstAttempt
  <2>1. SettledMatchesResult'
    BY <1>6 DEF IInv, SettledMatchesResult, StartFirstAttempt, SkipComplete, SkipFailed,
       Retries, Retryable, Valid, Settled, LastOutcome, files
  <2>2. PublishedMeansSettled'
    BY <1>6 DEF IInv, PublishedMeansSettled, StartFirstAttempt, SkipComplete, SkipFailed,
       Retries, Retryable, Valid, Settled, LastOutcome, files
  <2>3. AttemptOnDisk'
    BY <1>6 DEF IInv, AttemptOnDisk, StartFirstAttempt, SkipComplete, SkipFailed, Retries,
       Retryable, Valid, Underway, OnDisk, files
  <2>4. ResultOnDisk'
    BY <1>6 DEF IInv, ResultOnDisk, StartFirstAttempt, SkipComplete, SkipFailed, Retries,
       Retryable, Valid, files
  <2>5. HistoryKept'
    BY <1>6 DEF IInv, HistoryKept, SettledMatchesResult, StartFirstAttempt, SkipComplete,
       SkipFailed, Retries, Retryable, Valid, Settled, Underway, OnDisk, Result, Resumes,
       LastOutcome, files
  <2>6. OnlyTimeoutsAgain'
    BY <1>6 DEF IInv, OnlyTimeoutsAgain, SettledMatchesResult, StartFirstAttempt,
       SkipComplete, SkipFailed, Retries, Retryable, Valid, Resumes, Settled, LastOutcome,
       Result, files
  <2>7. PassedSettled'
    BY <1>6 DEF IInv, PassedSettled, StartFirstAttempt, SkipComplete, SkipFailed, Retries,
       Retryable, Valid, Settled, Underway, OnDisk, files
  <2> QED
    BY <1>0, <2>1, <2>2, <2>3, <2>4, <2>5, <2>6, <2>7 DEF IInv
<1>7. CASE StartTimeoutRetry
  <2>1. SettledMatchesResult'
    BY <1>7 DEF IInv, SettledMatchesResult, StartTimeoutRetry, SkipComplete, SkipFailed,
       Retries, Retryable, Valid, Settled, LastOutcome, files
  <2>2. PublishedMeansSettled'
    BY <1>7 DEF IInv, PublishedMeansSettled, StartTimeoutRetry, SkipComplete, SkipFailed,
       Retries, Retryable, Valid, Settled, LastOutcome, files
  <2>3. AttemptOnDisk'
    BY <1>7 DEF IInv, AttemptOnDisk, StartTimeoutRetry, SkipComplete, SkipFailed, Retries,
       Retryable, Valid, Underway, OnDisk, files
  <2>4. ResultOnDisk'
    BY <1>7 DEF IInv, ResultOnDisk, StartTimeoutRetry, SkipComplete, SkipFailed, Retries,
       Retryable, Valid, files
  <2>0. LET h == checkpoint[at].history IN Len(h) = 1 /\ h[1] = Timeout1 /\ h \in Seq(Attempts)
    <3>1. LET h == checkpoint[at].history IN
             Len(h) = 1 /\ h[1].number = 1 /\ h[1].outcome = "MODEL_TIMEOUT" /\ h \in Seq(Attempts)
      BY <1>7 DEF StartTimeoutRetry, Retries, Retryable, LastOutcome, IInv, HistoryKept,
         Settled,
            TypeOK, CheckpointFiles
    <3>2. checkpoint[at].history[1] \in Attempts
      BY <3>1
    <3> QED
      BY <3>1, <3>2 DEF Attempts, Timeout1
  <2>5. HistoryKept'
    <3>1. /\ checkpoint[at].history # <<>>
          /\ checkpoint[at].history[1] = Timeout1
      BY <2>0
    <3>2. result[at] = Result("MODEL_TIMEOUT", run.fingerprint, 1)
      BY <1>7 DEF StartTimeoutRetry, Retries, Retryable, Resumes, IInv,
         SettledMatchesResult, Settled
    <3> QED
      BY <1>7, <3>1, <3>2 DEF StartTimeoutRetry, Retries, Retryable, IInv, HistoryKept,
         Underway, OnDisk, files, Settled
  <2>6. OnlyTimeoutsAgain'
    BY <1>7 DEF IInv, OnlyTimeoutsAgain, SettledMatchesResult, StartTimeoutRetry,
       SkipComplete, SkipFailed, Retries, Retryable, Valid, Resumes, Settled, LastOutcome,
       Result, files
  <2>7. PassedSettled'
    BY <1>7 DEF IInv, PassedSettled, StartTimeoutRetry, SkipComplete, SkipFailed, Retries,
       Retryable, Valid, Settled, Underway, OnDisk, files
  <2> QED
    BY <1>0, <2>1, <2>2, <2>3, <2>4, <2>5, <2>6, <2>7 DEF IInv
<1>8. CASE PreserveAttempt
  <2>1. SettledMatchesResult'
    BY <1>8 DEF IInv, SettledMatchesResult, PreserveAttempt, Settled, LastOutcome
  <2>2. PublishedMeansSettled'
    BY <1>8 DEF IInv, PublishedMeansSettled, PreserveAttempt, Settled, LastOutcome
  <2>3. AttemptOnDisk'
    BY <1>8 DEF IInv, AttemptOnDisk, PreserveAttempt, Underway, OnDisk
  <2>4. ResultOnDisk'
    BY <1>8 DEF IInv, ResultOnDisk, PreserveAttempt
  <2>5. HistoryKept'
    BY <1>8 DEF IInv, TypeOK, HistoryKept, AttemptOnDisk, PreserveAttempt, Settled,
       Underway, OnDisk, Result
  <2>6. OnlyTimeoutsAgain'
    BY <1>8 DEF IInv, OnlyTimeoutsAgain, PreserveAttempt, Resumes, Settled, LastOutcome
  <2>7. PassedSettled'
    BY <1>8 DEF IInv, PassedSettled, PreserveAttempt, Settled, Underway, OnDisk, Published
  <2> QED
    BY <1>0, <2>1, <2>2, <2>3, <2>4, <2>5, <2>6, <2>7 DEF IInv
<1>9. CASE WritePrepared
  <2>a. at \in Records
    BY <1>9 DEF WritePrepared, IInv, AttemptOnDisk, Underway, OnDisk
  <2>b. TypeOK
    BY DEF IInv
  <2> DEFINE h == attempt.history
  <2>h. h \in Seq(Attempts)
    BY <2>b DEF TypeOK
  <2>c. /\ checkpoint'[at] = Checkpoint("incomplete", run.fingerprint, attempt.number, h)
        /\ \A r \in Records : r # at => checkpoint'[r] = checkpoint[r]
    BY <1>9, <2>a, <2>b, <2>h, CheckpointWritten DEF WritePrepared
  <2> HIDE DEF h
  <2>1. SettledMatchesResult'
    BY <1>9, <2>h, <2>a, <2>c DEF IInv, SettledMatchesResult, AttemptOnDisk, ResultOnDisk,
       WritePrepared, WriteCheckpoint, Settled, LastOutcome, Underway, OnDisk, Checkpoint,
       Result
  <2>2. PublishedMeansSettled'
    BY <1>9, <2>a, <2>c DEF IInv, PublishedMeansSettled, AttemptOnDisk, PassedSettled,
       WritePrepared, WriteCheckpoint, Settled, Underway, OnDisk, Checkpoint
  <2>3. AttemptOnDisk'
    BY <1>9, <2>a, <2>c DEF IInv, AttemptOnDisk, WritePrepared, WriteCheckpoint, Underway,
       OnDisk, Checkpoint
  <2>4. ResultOnDisk'
    BY <1>9 DEF IInv, ResultOnDisk, WritePrepared, WriteCheckpoint
  <2>5. HistoryKept'
    BY <1>9, <2>h, <2>a, <2>c DEF IInv, HistoryKept, AttemptOnDisk, WritePrepared,
       WriteCheckpoint, Settled, Underway, OnDisk, Checkpoint, Result
  <2>6. OnlyTimeoutsAgain'
    BY <1>9, <2>h, <2>a, <2>c DEF IInv, OnlyTimeoutsAgain, WritePrepared, WriteCheckpoint,
       Resumes, Settled, LastOutcome, Checkpoint
  <2>7. PassedSettled'
    BY <1>9, <2>a, <2>c DEF IInv, TypeOK, PassedSettled, AttemptOnDisk, WritePrepared,
       WriteCheckpoint, Settled, Underway, OnDisk, Checkpoint, Records
  <2> QED
    BY <1>0, <2>1, <2>2, <2>3, <2>4, <2>5, <2>6, <2>7 DEF IInv
<1>10. CASE WriteAttempted
  <2>a. at \in Records
    BY <1>10 DEF WriteAttempted, IInv, AttemptOnDisk, Underway, OnDisk
  <2>b. TypeOK
    BY DEF IInv
  <2> DEFINE h == attempt.history
  <2>h. h \in Seq(Attempts)
    BY <2>b DEF TypeOK
  <2>c. /\ checkpoint'[at] = Checkpoint("incomplete", run.fingerprint, attempt.number, h)
        /\ \A r \in Records : r # at => checkpoint'[r] = checkpoint[r]
    BY <1>10, <2>a, <2>b, <2>h, CheckpointWritten DEF WriteAttempted
  <2> HIDE DEF h
  <2>1. SettledMatchesResult'
    BY <1>10, <2>h, <2>a, <2>c DEF IInv, TypeOK, SettledMatchesResult, AttemptOnDisk,
       ResultOnDisk, WriteAttempted, WriteCheckpoint, Settled, LastOutcome, Underway,
       OnDisk, Checkpoint, Result
  <2>2. PublishedMeansSettled'
    BY <1>10, <2>a, <2>c DEF IInv, PublishedMeansSettled, AttemptOnDisk, PassedSettled,
       WriteAttempted, WriteCheckpoint, Settled, Underway, OnDisk, Checkpoint
  <2>3. AttemptOnDisk'
    BY <1>10, <2>a, <2>c DEF IInv, AttemptOnDisk, WriteAttempted, WriteCheckpoint, Underway,
       OnDisk, Checkpoint
  <2>4. ResultOnDisk'
    BY <1>10 DEF IInv, ResultOnDisk, WriteAttempted, WriteCheckpoint
  <2>5. HistoryKept'
    BY <1>10, <2>h, <2>a, <2>c DEF IInv, HistoryKept, AttemptOnDisk, WriteAttempted,
       WriteCheckpoint, Settled, Underway, OnDisk, Checkpoint, Result
  <2>6. OnlyTimeoutsAgain'
    BY <1>10, <2>h, <2>a, <2>c DEF IInv, OnlyTimeoutsAgain, WriteAttempted, WriteCheckpoint,
       Resumes, Settled, LastOutcome, Checkpoint
  <2>7. PassedSettled'
    BY <1>10, <2>a, <2>c DEF IInv, TypeOK, PassedSettled, AttemptOnDisk, WriteAttempted,
       WriteCheckpoint, Settled, Underway, OnDisk, Checkpoint, Records
  <2> QED
    BY <1>0, <2>1, <2>2, <2>3, <2>4, <2>5, <2>6, <2>7 DEF IInv
<1>11. CASE ProviderAnswers
  <2>1. SettledMatchesResult'
    BY <1>11 DEF IInv, SettledMatchesResult, ProviderAnswers, Settled, LastOutcome, files
  <2>2. PublishedMeansSettled'
    BY <1>11 DEF IInv, PublishedMeansSettled, ProviderAnswers, Settled, LastOutcome, files
  <2>3. AttemptOnDisk'
    BY <1>11 DEF IInv, AttemptOnDisk, ProviderAnswers, Underway, OnDisk, files
  <2>4. ResultOnDisk'
    BY <1>11 DEF IInv, ResultOnDisk, ProviderAnswers, files
  <2>5. HistoryKept'
    BY <1>11 DEF IInv, HistoryKept, ProviderAnswers, Settled, Underway, OnDisk, Result, files
  <2>6. OnlyTimeoutsAgain'
    BY <1>11 DEF IInv, OnlyTimeoutsAgain, ProviderAnswers, Resumes, Settled, LastOutcome, files
  <2>7. PassedSettled'
    BY <1>11 DEF IInv, PassedSettled, ProviderAnswers, Settled, Underway, OnDisk, files
  <2> QED
    BY <1>0, <2>1, <2>2, <2>3, <2>4, <2>5, <2>6, <2>7 DEF IInv
<1>12. CASE ProviderTimesOut
  <2>1. SettledMatchesResult'
    BY <1>12 DEF IInv, SettledMatchesResult, ProviderTimesOut, Settled, LastOutcome, files
  <2>2. PublishedMeansSettled'
    BY <1>12 DEF IInv, PublishedMeansSettled, ProviderTimesOut, Settled, LastOutcome, files
  <2>3. AttemptOnDisk'
    BY <1>12 DEF IInv, AttemptOnDisk, ProviderTimesOut, Underway, OnDisk, files
  <2>4. ResultOnDisk'
    BY <1>12 DEF IInv, ResultOnDisk, ProviderTimesOut, files
  <2>5. HistoryKept'
    BY <1>12 DEF IInv, HistoryKept, ProviderTimesOut, Settled, Underway, OnDisk, Result, files
  <2>6. OnlyTimeoutsAgain'
    BY <1>12 DEF IInv, OnlyTimeoutsAgain, ProviderTimesOut, Resumes, Settled, LastOutcome, files
  <2>7. PassedSettled'
    BY <1>12 DEF IInv, PassedSettled, ProviderTimesOut, Settled, Underway, OnDisk, files
  <2> QED
    BY <1>0, <2>1, <2>2, <2>3, <2>4, <2>5, <2>6, <2>7 DEF IInv
<1>13. CASE StoreResult
  <2>a. at \in Records
    BY <1>13 DEF StoreResult, IInv, AttemptOnDisk, Underway, OnDisk
  <2>b. TypeOK /\ "complete" \in Failures \cup {"complete"}
    BY DEF IInv, TypeOK, Failures
  <2>c. /\ result'[at] = Result("complete", run.fingerprint, attempt.number)
        /\ \A r \in Records : r # at => result'[r] = result[r]
    BY <1>13, <2>a, <2>b, ResultWritten DEF StoreResult
  <2>1. SettledMatchesResult'
    BY <1>13, <2>a, <2>c DEF IInv, SettledMatchesResult, AttemptOnDisk, StoreResult,
       WriteResult, Settled, LastOutcome, Underway, OnDisk, Result, ghosts
  <2>2. PublishedMeansSettled'
    BY <1>13 DEF IInv, PublishedMeansSettled, AttemptOnDisk, PassedSettled, StoreResult,
       WriteResult, Settled, Underway, OnDisk, ghosts
  <2>3. AttemptOnDisk'
    BY <1>13 DEF IInv, AttemptOnDisk, StoreResult, WriteResult, Underway, OnDisk, ghosts
  <2>4. ResultOnDisk'
    BY <1>13, <2>a, <2>c DEF IInv, ResultOnDisk, StoreResult, WriteResult, ghosts
  <2>5. HistoryKept'
    BY <1>13, <2>a, <2>c DEF IInv, HistoryKept, AttemptOnDisk, StoreResult, WriteResult,
       Settled, Underway, OnDisk, Result, ghosts
  <2>6. OnlyTimeoutsAgain'
    BY <1>13 DEF IInv, OnlyTimeoutsAgain, StoreResult, WriteResult, Resumes, Settled,
       LastOutcome, ghosts
  <2>7. PassedSettled'
    BY <1>13 DEF IInv, PassedSettled, AttemptOnDisk, StoreResult, WriteResult, Settled,
       Underway, OnDisk, ghosts
  <2> QED
    BY <1>0, <2>1, <2>2, <2>3, <2>4, <2>5, <2>6, <2>7 DEF IInv
<1>14. CASE CompleteCheckpoint
  <2>a. at \in Records
    BY <1>14 DEF CompleteCheckpoint, IInv, AttemptOnDisk, Underway, OnDisk
  <2>b. TypeOK /\ "complete" \in Failures \cup {"complete"}
    BY DEF IInv, TypeOK, Failures
  <2> DEFINE h == EndedAs("complete")
  <2>h. /\ h \in Seq(Attempts)
        /\ h # <<>>
        /\ h[Len(h)].outcome = "complete"
        /\ attempt.history # <<>> => h[1] = attempt.history[1]
        /\ attempt.history = <<>> => Len(h) = 1 /\ h[1].number = attempt.number
    BY <2>b, Ended
  <2>c. /\ checkpoint'[at] = Checkpoint("complete", run.fingerprint, attempt.number, h)
        /\ \A r \in Records : r # at => checkpoint'[r] = checkpoint[r]
    BY <1>14, <2>a, <2>b, <2>h, CheckpointWritten DEF CompleteCheckpoint
  <2> HIDE DEF h
  <2>1. SettledMatchesResult'
    BY <1>14, <2>h, <2>a, <2>c DEF IInv, SettledMatchesResult, AttemptOnDisk, ResultOnDisk,
       CompleteCheckpoint, WriteCheckpoint, Settled, LastOutcome, Underway, OnDisk,
       Checkpoint, Result
  <2>2. PublishedMeansSettled'
    BY <1>14, <2>a, <2>c DEF IInv, PublishedMeansSettled, AttemptOnDisk, PassedSettled,
       CompleteCheckpoint, WriteCheckpoint, Settled, Underway, OnDisk, Checkpoint
  <2>3. AttemptOnDisk'
    BY <1>14, <2>a, <2>c DEF IInv, AttemptOnDisk, CompleteCheckpoint, WriteCheckpoint,
       Underway, OnDisk, Checkpoint
  <2>4. ResultOnDisk'
    BY <1>14 DEF IInv, ResultOnDisk, CompleteCheckpoint, WriteCheckpoint
  <2>5. HistoryKept'
    BY <1>14, <2>h, <2>a, <2>c DEF IInv, HistoryKept, AttemptOnDisk, CompleteCheckpoint,
       WriteCheckpoint, Settled, Underway, OnDisk, Checkpoint, Result
  <2>6. OnlyTimeoutsAgain'
    BY <1>14, <2>h, <2>a, <2>c DEF IInv, OnlyTimeoutsAgain, CompleteCheckpoint,
       WriteCheckpoint, Resumes, Settled, LastOutcome, Checkpoint
  <2>7. PassedSettled'
    BY <1>14, <2>a, <2>c DEF IInv, TypeOK, PassedSettled, AttemptOnDisk, CompleteCheckpoint,
       WriteCheckpoint, Settled, Underway, OnDisk, Checkpoint, Records
  <2> QED
    BY <1>0, <2>1, <2>2, <2>3, <2>4, <2>5, <2>6, <2>7 DEF IInv
<1>15. CASE StoreRejected
  <2>a. at \in Records
    BY <1>15 DEF StoreRejected, IInv, AttemptOnDisk, Underway, OnDisk
  <2>b. TypeOK /\ "PROVIDER_VALIDATION_FAILURE" \in Failures \cup {"complete"}
    BY DEF IInv, TypeOK, Failures
  <2>c. /\ result'[at] = Result("PROVIDER_VALIDATION_FAILURE", run.fingerprint, attempt.number)
        /\ \A r \in Records : r # at => result'[r] = result[r]
    BY <1>15, <2>a, <2>b, ResultWritten DEF StoreRejected
  <2>1. SettledMatchesResult'
    BY <1>15, <2>a, <2>c DEF IInv, SettledMatchesResult, AttemptOnDisk, StoreRejected,
       WriteResult, Settled, LastOutcome, Underway, OnDisk, Result, ghosts
  <2>2. PublishedMeansSettled'
    BY <1>15 DEF IInv, PublishedMeansSettled, AttemptOnDisk, PassedSettled, StoreRejected,
       WriteResult, Settled, Underway, OnDisk, ghosts
  <2>3. AttemptOnDisk'
    BY <1>15 DEF IInv, AttemptOnDisk, StoreRejected, WriteResult, Underway, OnDisk, ghosts
  <2>4. ResultOnDisk'
    BY <1>15, <2>a, <2>c DEF IInv, ResultOnDisk, StoreRejected, WriteResult, ghosts
  <2>5. HistoryKept'
    BY <1>15, <2>a, <2>c DEF IInv, HistoryKept, AttemptOnDisk, StoreRejected, WriteResult,
       Settled, Underway, OnDisk, Result, ghosts
  <2>6. OnlyTimeoutsAgain'
    BY <1>15 DEF IInv, OnlyTimeoutsAgain, StoreRejected, WriteResult, Resumes, Settled,
       LastOutcome, ghosts
  <2>7. PassedSettled'
    BY <1>15 DEF IInv, PassedSettled, AttemptOnDisk, StoreRejected, WriteResult, Settled,
       Underway, OnDisk, ghosts
  <2> QED
    BY <1>0, <2>1, <2>2, <2>3, <2>4, <2>5, <2>6, <2>7 DEF IInv
<1>16. CASE RejectCheckpoint
  <2>a. at \in Records
    BY <1>16 DEF RejectCheckpoint, IInv, AttemptOnDisk, Underway, OnDisk
  <2>b. TypeOK /\ "PROVIDER_VALIDATION_FAILURE" \in Failures \cup {"complete"}
    BY DEF IInv, TypeOK, Failures
  <2> DEFINE h == EndedAs("PROVIDER_VALIDATION_FAILURE")
  <2>h. /\ h \in Seq(Attempts)
        /\ h # <<>>
        /\ h[Len(h)].outcome = "PROVIDER_VALIDATION_FAILURE"
        /\ attempt.history # <<>> => h[1] = attempt.history[1]
        /\ attempt.history = <<>> => Len(h) = 1 /\ h[1].number = attempt.number
    BY <2>b, Ended
  <2>c. /\ checkpoint'[at] = Checkpoint("failed", run.fingerprint, attempt.number, h)
        /\ \A r \in Records : r # at => checkpoint'[r] = checkpoint[r]
    BY <1>16, <2>a, <2>b, <2>h, CheckpointWritten DEF RejectCheckpoint
  <2> HIDE DEF h
  <2>1. SettledMatchesResult'
    BY <1>16, <2>h, <2>a, <2>c DEF IInv, SettledMatchesResult, AttemptOnDisk, ResultOnDisk,
       RejectCheckpoint, WriteCheckpoint, Settled, LastOutcome, Underway, OnDisk,
       Checkpoint, Result
  <2>2. PublishedMeansSettled'
    BY <1>16, <2>a, <2>c DEF IInv, PublishedMeansSettled, AttemptOnDisk, PassedSettled,
       RejectCheckpoint, WriteCheckpoint, Settled, Underway, OnDisk, Checkpoint
  <2>3. AttemptOnDisk'
    BY <1>16, <2>a, <2>c DEF IInv, AttemptOnDisk, RejectCheckpoint, WriteCheckpoint,
       Underway, OnDisk, Checkpoint
  <2>4. ResultOnDisk'
    BY <1>16 DEF IInv, ResultOnDisk, RejectCheckpoint, WriteCheckpoint
  <2>5. HistoryKept'
    BY <1>16, <2>h, <2>a, <2>c DEF IInv, HistoryKept, AttemptOnDisk, RejectCheckpoint,
       WriteCheckpoint, Settled, Underway, OnDisk, Checkpoint, Result
  <2>6. OnlyTimeoutsAgain'
    BY <1>16, <2>h, <2>a, <2>c DEF IInv, OnlyTimeoutsAgain, RejectCheckpoint,
       WriteCheckpoint, Resumes, Settled, LastOutcome, Checkpoint
  <2>7. PassedSettled'
    BY <1>16, <2>a, <2>c DEF IInv, TypeOK, PassedSettled, AttemptOnDisk, RejectCheckpoint,
       WriteCheckpoint, Settled, Underway, OnDisk, Checkpoint, Records
  <2> QED
    BY <1>0, <2>1, <2>2, <2>3, <2>4, <2>5, <2>6, <2>7 DEF IInv
<1>17. CASE AttemptRaises
  <2>1. SettledMatchesResult'
    BY <1>17 DEF IInv, SettledMatchesResult, AttemptRaises, Settled, LastOutcome, files
  <2>2. PublishedMeansSettled'
    BY <1>17 DEF IInv, PublishedMeansSettled, AttemptRaises, Settled, LastOutcome, files
  <2>3. AttemptOnDisk'
    BY <1>17 DEF IInv, AttemptOnDisk, AttemptRaises, Underway, OnDisk, files
  <2>4. ResultOnDisk'
    BY <1>17 DEF IInv, ResultOnDisk, AttemptRaises, files
  <2>5. HistoryKept'
    BY <1>17 DEF IInv, HistoryKept, AttemptRaises, Settled, Underway, OnDisk, Result, files
  <2>6. OnlyTimeoutsAgain'
    BY <1>17 DEF IInv, OnlyTimeoutsAgain, AttemptRaises, Resumes, Settled, LastOutcome, files
  <2>7. PassedSettled'
    BY <1>17 DEF IInv, PassedSettled, AttemptRaises, Settled, Underway, OnDisk, files
  <2> QED
    BY <1>0, <2>1, <2>2, <2>3, <2>4, <2>5, <2>6, <2>7 DEF IInv
<1>18. CASE StoreFailure
  <2>a. at \in Records
    BY <1>18 DEF StoreFailure, IInv, AttemptOnDisk, Underway, OnDisk
  <2>b. TypeOK /\ failure \in Failures \cup {"complete"}
    BY DEF IInv, TypeOK, Failures
  <2>c. /\ result'[at] = Result(failure, run.fingerprint, attempt.number)
        /\ \A r \in Records : r # at => result'[r] = result[r]
    BY <1>18, <2>a, <2>b, ResultWritten DEF StoreFailure
  <2>1. SettledMatchesResult'
    BY <1>18, <2>a, <2>c DEF IInv, SettledMatchesResult, AttemptOnDisk, StoreFailure,
       WriteResult, Settled, LastOutcome, Underway, OnDisk, Result, ghosts
  <2>2. PublishedMeansSettled'
    BY <1>18 DEF IInv, PublishedMeansSettled, AttemptOnDisk, PassedSettled, StoreFailure,
       WriteResult, Settled, Underway, OnDisk, ghosts
  <2>3. AttemptOnDisk'
    BY <1>18 DEF IInv, AttemptOnDisk, StoreFailure, WriteResult, Underway, OnDisk, ghosts
  <2>4. ResultOnDisk'
    BY <1>18, <2>a, <2>c DEF IInv, ResultOnDisk, StoreFailure, WriteResult, ghosts
  <2>5. HistoryKept'
    BY <1>18, <2>a, <2>c DEF IInv, HistoryKept, AttemptOnDisk, StoreFailure, WriteResult,
       Settled, Underway, OnDisk, Result, ghosts
  <2>6. OnlyTimeoutsAgain'
    BY <1>18 DEF IInv, OnlyTimeoutsAgain, StoreFailure, WriteResult, Resumes, Settled,
       LastOutcome, ghosts
  <2>7. PassedSettled'
    BY <1>18 DEF IInv, PassedSettled, AttemptOnDisk, StoreFailure, WriteResult, Settled,
       Underway, OnDisk, ghosts
  <2> QED
    BY <1>0, <2>1, <2>2, <2>3, <2>4, <2>5, <2>6, <2>7 DEF IInv
<1>19. CASE FailCheckpoint
  <2>a. at \in Records
    BY <1>19 DEF FailCheckpoint, IInv, AttemptOnDisk, Underway, OnDisk
  <2>b. TypeOK /\ failure \in Failures \cup {"complete"}
    BY DEF IInv, TypeOK, Failures
  <2> DEFINE h == EndedAs(failure)
  <2>h. /\ h \in Seq(Attempts)
        /\ h # <<>>
        /\ h[Len(h)].outcome = failure
        /\ attempt.history # <<>> => h[1] = attempt.history[1]
        /\ attempt.history = <<>> => Len(h) = 1 /\ h[1].number = attempt.number
    BY <2>b, Ended
  <2>c. /\ checkpoint'[at] = Checkpoint("failed", run.fingerprint, attempt.number, h)
        /\ \A r \in Records : r # at => checkpoint'[r] = checkpoint[r]
    BY <1>19, <2>a, <2>b, <2>h, CheckpointWritten DEF FailCheckpoint
  <2> HIDE DEF h
  <2>1. SettledMatchesResult'
    BY <1>19, <2>h, <2>a, <2>c DEF IInv, TypeOK, SettledMatchesResult, AttemptOnDisk,
       ResultOnDisk, FailCheckpoint, WriteCheckpoint, Settled, LastOutcome, Underway,
       OnDisk, Checkpoint, Result
  <2>2. PublishedMeansSettled'
    BY <1>19, <2>a, <2>c DEF IInv, PublishedMeansSettled, AttemptOnDisk, PassedSettled,
       FailCheckpoint, WriteCheckpoint, Settled, Underway, OnDisk, Checkpoint
  <2>3. AttemptOnDisk'
    BY <1>19, <2>a, <2>c DEF IInv, AttemptOnDisk, FailCheckpoint, WriteCheckpoint, Underway,
       OnDisk, Checkpoint
  <2>4. ResultOnDisk'
    BY <1>19 DEF IInv, ResultOnDisk, FailCheckpoint, WriteCheckpoint
  <2>5. HistoryKept'
    BY <1>19, <2>h, <2>a, <2>c DEF IInv, HistoryKept, AttemptOnDisk, FailCheckpoint,
       WriteCheckpoint, Settled, Underway, OnDisk, Checkpoint, Result
  <2>6. OnlyTimeoutsAgain'
    BY <1>19, <2>h, <2>a, <2>c DEF IInv, OnlyTimeoutsAgain, FailCheckpoint, WriteCheckpoint,
       Resumes, Settled, LastOutcome, Checkpoint
  <2>7. PassedSettled'
    BY <1>19, <2>a, <2>c DEF IInv, TypeOK, PassedSettled, AttemptOnDisk, FailCheckpoint,
       WriteCheckpoint, Settled, Underway, OnDisk, Checkpoint, Records
  <2> QED
    BY <1>0, <2>1, <2>2, <2>3, <2>4, <2>5, <2>6, <2>7 DEF IInv
<1>20. CASE FinishRun
  <2>1. SettledMatchesResult'
    BY <1>20 DEF IInv, SettledMatchesResult, FinishRun, Settled, LastOutcome, Underway,
       OnDisk, Result
  <2>0. \A r \in Records : Settled(r) /\ checkpoint[r].fingerprint = run.fingerprint
    <3>1. at > RecordCount /\ at \in Nat
      BY <1>20 DEF FinishRun, IInv, TypeOK
    <3>2. \A r \in Records : r < at
      BY <3>1, ExtractionAssumption DEF Records
    <3> QED
      BY <1>20, <3>2 DEF FinishRun, IInv, PassedSettled
  <2>2. PublishedMeansSettled'
    BY <1>20, <2>0 DEF FinishRun, IInv, PublishedMeansSettled, Settled, Published, PassedSettled
  <2>3. AttemptOnDisk'
    BY <1>20 DEF IInv, AttemptOnDisk, FinishRun, Underway, OnDisk
  <2>4. ResultOnDisk'
    BY <1>20 DEF IInv, ResultOnDisk, FinishRun
  <2>5. HistoryKept'
    BY <1>20 DEF IInv, HistoryKept, FinishRun, Settled, Underway, OnDisk, Result
  <2>6. OnlyTimeoutsAgain'
    BY <1>20 DEF IInv, OnlyTimeoutsAgain, FinishRun, Resumes, Settled, LastOutcome
  <2>7. PassedSettled'
    BY <1>20, <2>0 DEF FinishRun, PassedSettled, Underway, OnDisk, Settled
  <2> QED
    BY <1>0, <2>1, <2>2, <2>3, <2>4, <2>5, <2>6, <2>7 DEF IInv
<1>21. CASE PublishPrivate
  <2>1. SettledMatchesResult'
    BY <1>21 DEF IInv, SettledMatchesResult, PublishPrivate, Settled, LastOutcome, Underway,
       OnDisk, Result
  <2>2. PublishedMeansSettled'
    BY <1>21 DEF IInv, PublishedMeansSettled, PassedSettled, PublishPrivate, Settled,
       Underway, OnDisk, Published
  <2>3. AttemptOnDisk'
    BY <1>21 DEF IInv, AttemptOnDisk, PublishPrivate, Underway, OnDisk
  <2>4. ResultOnDisk'
    BY <1>21 DEF IInv, ResultOnDisk, PublishPrivate
  <2>5. HistoryKept'
    BY <1>21 DEF IInv, HistoryKept, PublishPrivate, Settled, Underway, OnDisk, Result
  <2>6. OnlyTimeoutsAgain'
    BY <1>21 DEF IInv, OnlyTimeoutsAgain, PublishPrivate, Resumes, Settled, LastOutcome
  <2>7. PassedSettled'
    BY <1>21 DEF IInv, PassedSettled, PublishPrivate, Settled, Underway, OnDisk, Published
  <2> QED
    BY <1>0, <2>1, <2>2, <2>3, <2>4, <2>5, <2>6, <2>7 DEF IInv
<1>22. CASE Crash
  <2>1. SettledMatchesResult'
    BY <1>22 DEF IInv, SettledMatchesResult, Crash, Settled, LastOutcome, files
  <2>2. PublishedMeansSettled'
    BY <1>22 DEF IInv, PublishedMeansSettled, Crash, Settled, LastOutcome, files
  <2>3. AttemptOnDisk'
    BY <1>22 DEF IInv, AttemptOnDisk, Crash, Underway, OnDisk, files
  <2>4. ResultOnDisk'
    BY <1>22 DEF IInv, ResultOnDisk, Crash, files
  <2>5. HistoryKept'
    BY <1>22 DEF IInv, HistoryKept, Crash, Settled, Underway, OnDisk, Result, files
  <2>6. OnlyTimeoutsAgain'
    BY <1>22 DEF IInv, OnlyTimeoutsAgain, Crash, Resumes, Settled, LastOutcome, files
  <2>7. PassedSettled'
    BY <1>22 DEF IInv, PassedSettled, Crash, Settled, Underway, OnDisk, files
  <2> QED
    BY <1>0, <2>1, <2>2, <2>3, <2>4, <2>5, <2>6, <2>7 DEF IInv
<1>23. CASE UNCHANGED vars
  BY <1>0, <1>23 DEF IInv, TypeOK, SettledMatchesResult, PublishedMeansSettled, AttemptOnDisk,
     ResultOnDisk, HistoryKept, OnlyTimeoutsAgain, PassedSettled, Settled, Resumes,
     LastOutcome, Underway, OnDisk, Records, files, ghosts, Checkpoint, Result, Published,
     vars, process
<1> QED
  BY <1>1, <1>2, <1>3, <1>4, <1>5, <1>6, <1>7, <1>8, <1>9, <1>10, <1>11, <1>12, <1>13, <1>14,
     <1>15, <1>16, <1>17, <1>18, <1>19, <1>20, <1>21, <1>22, <1>23 DEF Next, Attempt

(* The inductive invariant holds in the empty namespace. *)
LEMMA InvariantInit == Init => IInv
BY TypeInit DEF Init, IInv, SettledMatchesResult, PublishedMeansSettled, AttemptOnDisk,
   ResultOnDisk, HistoryKept, OnlyTimeoutsAgain, PassedSettled, Settled, Checkpoint, Published,
   Underway, OnDisk

(* IInv is an invariant of every run of the program. *)
THEOREM Invariant == Spec => []IInv
BY InvariantInit, InvariantStep, PTL DEF Spec

(* The files and the process always have their types. *)
THEOREM TypeCorrect == Spec => []TypeOK
<1>1. IInv => TypeOK
  BY DEF IInv
<1> QED
  BY <1>1, Invariant, PTL

(* Whatever dies and whatever configuration follows, a settled checkpoint  *)
(* has the result of its own attempt and configuration beside it.          *)
THEOREM SettledResultsMatch == Spec => []SettledMatchesResult
<1>1. IInv => SettledMatchesResult
  BY DEF IInv
<1> QED
  BY <1>1, Invariant, PTL

(* A configuration published as complete describes settled records only. *)
THEOREM PublishedRunsSettled == Spec => []PublishedMeansSettled
<1>1. IInv => PublishedMeansSettled
  BY DEF IInv
<1> QED
  BY <1>1, Invariant, PTL

(* Each second attempt can show the timeout that authorized it. *)
THEOREM SecondAttemptsDocumented == Spec => []SecondAttemptDocumented
<1>1. IInv => SecondAttemptDocumented
  BY DEF IInv, TypeOK, CheckpointFiles, HistoryKept, SecondAttemptDocumented, Timeout1
<1> QED
  BY <1>1, Invariant, PTL

(* A resumed run leaves every settled record of its configuration alone,   *)
(* apart from the authorized retry of a timeout.                           *)
THEOREM ResumingKeepsSettled == Spec => ResumeKeepsSettled
<1> DEFINE Again(r) == LastOutcome(r) = "MODEL_TIMEOUT" /\ attempt.number = 2 /\ run.retry
           Step == \A r \in Records :
                      /\ run.resume /\ run.fingerprint = checkpoint[r].fingerprint
                      /\ Settled(r)
                      /\ checkpoint'[r] # checkpoint[r] \/ result'[r] # result[r]
                      => Again(r)
<1>1. IInv /\ [Next]_vars => [Step]_vars
  <2> SUFFICES ASSUME IInv, Next, NEW r \in Records, run.resume,
                      run.fingerprint = checkpoint[r].fingerprint, Settled(r),
                      checkpoint'[r] # checkpoint[r] \/ result'[r] # result[r]
               PROVE  Again(r)
    OBVIOUS
  <2>1. \/ checkpoint' # checkpoint \/ result' # result
    OBVIOUS
  <2>2. r = at /\ (pc = "preparing" \/ pc \in OnDisk)
    <3>1. CASE WritePrepared \/ WriteAttempted \/ CompleteCheckpoint \/ RejectCheckpoint
               \/ FailCheckpoint
      BY <3>1 DEF WritePrepared, WriteAttempted, CompleteCheckpoint, RejectCheckpoint,
         FailCheckpoint, WriteCheckpoint, OnDisk, IInv, TypeOK
    <3>2. CASE StoreResult \/ StoreRejected \/ StoreFailure
      BY <3>2 DEF StoreResult, StoreRejected, StoreFailure, WriteResult, OnDisk, IInv, TypeOK
    <3> QED
      BY <2>1, <3>1, <3>2 DEF Next, Attempt, StartRun, StartPreflight, Start, FinishPreflight,
         BeginRecords, SkipRecord, StartFirstAttempt, StartTimeoutRetry, PreserveAttempt,
         ProviderAnswers, ProviderTimesOut, AttemptRaises, FinishRun, PublishPrivate, Crash, files
  <2>3. pc = "preparing"
    BY <2>2 DEF IInv, AttemptOnDisk, Settled
  <2> QED
    BY <2>2, <2>3 DEF IInv, OnlyTimeoutsAgain, Resumes
<1>2. Spec => [][Step]_vars
  BY <1>1, Invariant, PTL DEF Spec
<1> QED
  BY <1>2 DEF ResumeKeepsSettled

(* Every settled checkpoint is accounted for by the files beside it. *)
THEOREM SettledDocumented == Spec => []SettledIsDocumented
<1>1. SettledMatchesResult /\ SecondAttemptDocumented => SettledIsDocumented
  BY DEF SettledIsDocumented
<1> QED
  BY <1>1, SettledResultsMatch, SecondAttemptsDocumented, PTL

-----------------------------------------------------------------------------
(***************************************************************************)
(* AnnotationPack: what is called human was written by one, and what is    *)
(* frozen stays.                                                           *)
(***************************************************************************)
(* What a HOLDOUT record says of its text is true of it: only an           *)
(* adjudication calls a text final, only the record both reviews agreed on *)
(* is called agreed, and no person vouches for a HOLDOUT record.           *)
HoldoutTextAsNamed ==
    \A h \in HoldoutRecords :
        /\ ~pack[h].verified
        /\ pack[h].provenance = "adjudicated" => h # Agreed /\ pack[h].text = "final"
        /\ pack[h].provenance = "dual_ai_agreed" => h = Agreed /\ pack[h].text = "review"

PackInvariant ==
    /\ PackTypeOK
    /\ GoldIsHuman
    /\ HoldoutTextAsNamed
    /\ FrozenIsFinal

(* What a command puts in place of a record is a record nobody vouches for,*)
(* named after the text it carries.                                        *)
LEMMA ReplacedAsNamed ==
    ASSUME PackTypeOK, NEW record \in AllRecords
    PROVE  /\ Replaced(record) \in AnnotationRecord
           /\ ~Replaced(record).verified
           /\ Replaced(record).provenance = "adjudicated" =>
                 record # Agreed /\ Replaced(record).text = "final"
           /\ Replaced(record).provenance = "dual_ai_agreed" =>
                 record = Agreed /\ Replaced(record).text = "review"
  <1>1. pack[record] \in AnnotationRecord
    BY DEF PackTypeOK
  <1>2. CASE writing = "prepare"
    BY <1>2 DEF Replaced, Unreviewed, Record, AnnotationRecord, Statuses, Provenances
  <1>3. CASE writing = "adjudicate" /\ record # Agreed
    BY <1>1, <1>3 DEF Replaced, Adjudicated, AnnotationRecord, Statuses, Provenances
  <1>4. CASE writing = "adjudicate" /\ record = Agreed
    BY <1>1, <1>4 DEF Replaced, DualAgreed, AnnotationRecord, Statuses, Provenances
  <1>5. CASE writing \notin {"prepare", "adjudicate"}
    BY <1>1, <1>5 DEF Replaced, Reviewed, AnnotationRecord, Statuses, Provenances
  <1> QED  BY <1>2, <1>3, <1>4, <1>5

(* An update a person saves is theirs, and vouched for only as reviewed. *)
LEMMA SavedIsHuman ==
    ASSUME PackTypeOK, NEW d \in DevRecords, SaveUpdate(d)
    PROVE  \E saved \in AnnotationRecord :
              /\ pack' = [pack EXCEPT ![d] = saved]
              /\ saved.text = "human"
              /\ saved.verified => IsHumanGold(saved)
  <1>1. PICK status \in {"in_review", "reviewed"}, verified \in BOOLEAN :
           /\ ValidRecord(Saved(pack[d], status, verified))
           /\ pack' = [pack EXCEPT ![d] = Saved(pack[d], status, verified)]
    BY DEF SaveUpdate
  <1>2. pack[d] \in AnnotationRecord
    BY DEF PackTypeOK, AllRecords
  <1>3. Saved(pack[d], status, verified) \in AnnotationRecord
    BY <1>2 DEF Saved, Record, AnnotationRecord, Statuses, Provenances
  <1>4. Saved(pack[d], status, verified).text = "human"
    BY DEF Saved, Record
  <1>5. Saved(pack[d], status, verified).verified => IsHumanGold(Saved(pack[d], status, verified))
    BY <1>1, <1>3 DEF ValidRecord, IsHumanGold
  <1> QED  BY <1>1, <1>3, <1>4, <1>5

(* Replacing records one at a time, whoever does it, keeps what is said of *)
(* the pack; the release is no part of it.                                 *)
LEMMA PackFrame ==
    ASSUME PackInvariant, UNCHANGED <<pack, release>>
    PROVE  (GoldIsHuman /\ HoldoutTextAsNamed /\ FrozenIsFinal)'
  BY DEF PackInvariant, GoldIsHuman, HoldoutTextAsNamed, FrozenIsFinal

LEMMA PackInvariantInit == PackInit => PackInvariant
  <1> SUFFICES ASSUME PackInit PROVE PackInvariant
    OBVIOUS
  <1>1. AbsentRecord \in AnnotationRecord
    BY DEF AbsentRecord, Record, AnnotationRecord, Statuses, Provenances
  <1>2. pack \in [AllRecords -> AnnotationRecord] /\ release \in [HoldoutRecords -> AnnotationRecord]
    BY <1>1 DEF PackInit, NoRelease
  <1>3. PackTypeOK
    BY <1>2 DEF PackInit, PackTypeOK
  <1>4. \A record \in AllRecords : pack[record] = AbsentRecord
    BY DEF PackInit
  <1>5. ~AbsentRecord.verified /\ AbsentRecord.provenance = "unreviewed"
        /\ ~IsHumanGold(AbsentRecord)
    BY DEF AbsentRecord, Record, IsHumanGold
  <1>6. GoldIsHuman /\ HoldoutTextAsNamed
    BY <1>4, <1>5 DEF GoldIsHuman, HoldoutTextAsNamed, AllRecords
  <1>7. FrozenIsFinal
    BY DEF PackInit, FrozenIsFinal
  <1> QED  BY <1>3, <1>6, <1>7 DEF PackInvariant

LEMMA PackInvariantStep == PackInvariant /\ [PackNext]_packVars => PackInvariant'
  <1> SUFFICES ASSUME PackInvariant, [PackNext]_packVars PROVE PackInvariant'
    OBVIOUS
  <1> USE PackAssumption
  <1>0. PackTypeOK /\ GoldIsHuman /\ HoldoutTextAsNamed /\ FrozenIsFinal
    BY DEF PackInvariant
  <1>1. ASSUME NEW name \in {"prepare", "import dev", "import holdout", "adjudicate"},
               NEW targets \in SUBSET AllRecords, Begin(name, targets)
        PROVE  PackInvariant'
    <2>1. PackTypeOK'
      BY <1>0, <1>1 DEF Begin, PackTypeOK, batches, frozenRelease
    <2> QED  BY <1>1, <2>1, PackFrame DEF PackInvariant, Begin, frozenRelease
  <1>2. CASE StartPrepare \/ StartImportHoldout \/ StartAdjudication
    BY <1>1, <1>2 DEF StartPrepare, StartImportHoldout, StartAdjudication, AllRecords
  <1>3. CASE StartImportDev
    <2>1. PICK reviewed \in SUBSET DevRecords : Begin("import dev", reviewed)
      BY <1>3 DEF StartImportDev
    <2> QED  BY <1>1, <2>1 DEF AllRecords
  <1>4. CASE ReplaceRecord
    <2>1. PICK record \in unwritten :
             pack' = [pack EXCEPT ![record] = Replaced(record)] /\ unwritten' = unwritten \ {record}
      BY <1>4 DEF ReplaceRecord
    <2>2. record \in AllRecords
      BY <1>0, <2>1 DEF PackTypeOK
    <2>3. /\ pack' \in [AllRecords -> AnnotationRecord]
          /\ \A q \in AllRecords : pack'[q] = IF q = record THEN Replaced(record) ELSE pack[q]
      BY <1>0, <2>1, <2>2, ReplacedAsNamed DEF PackTypeOK
    <2>4. PackTypeOK'
      BY <1>0, <1>4, <2>1, <2>3 DEF ReplaceRecord, PackTypeOK, batches, frozenRelease
    <2>5. GoldIsHuman'
      BY <1>0, <2>2, <2>3, ReplacedAsNamed DEF GoldIsHuman, IsHumanGold
    <2>6. HoldoutTextAsNamed'
      BY <1>0, <2>2, <2>3, ReplacedAsNamed DEF HoldoutTextAsNamed, AllRecords
    <2>7. FrozenIsFinal'
      BY <1>0, <1>4 DEF ReplaceRecord, frozenRelease, FrozenIsFinal
    <2> QED  BY <2>4, <2>5, <2>6, <2>7 DEF PackInvariant
  <1>5. ASSUME NEW d \in DevRecords, SaveUpdate(d), session' \in SUBSET DevRecords
        PROVE  PackInvariant'
    <2>1. PICK saved \in AnnotationRecord :
             /\ pack' = [pack EXCEPT ![d] = saved]
             /\ saved.text = "human"
             /\ saved.verified => IsHumanGold(saved)
      BY <1>0, <1>5, SavedIsHuman
    <2>2. d \in AllRecords /\ d \notin HoldoutRecords
      BY DEF AllRecords, PackAssumption
    <2>3. /\ pack' \in [AllRecords -> AnnotationRecord]
          /\ \A q \in AllRecords : pack'[q] = IF q = d THEN saved ELSE pack[q]
      BY <1>0, <2>1, <2>2 DEF PackTypeOK
    <2>4. PackTypeOK'
      BY <1>0, <1>5, <2>3 DEF SaveUpdate, PackTypeOK, batches, writer, frozenRelease
    <2>5. IsHumanGold(saved) => saved.verified
      BY DEF IsHumanGold
    <2>6. GoldIsHuman'
      BY <1>0, <2>1, <2>3, <2>5 DEF GoldIsHuman
    <2>7. HoldoutTextAsNamed'
      BY <1>0, <2>2, <2>3 DEF HoldoutTextAsNamed, AllRecords
    <2>8. FrozenIsFinal'
      BY <1>0, <1>5 DEF SaveUpdate, frozenRelease, FrozenIsFinal
    <2> QED  BY <2>4, <2>6, <2>7, <2>8 DEF PackInvariant
  <1>6. CASE SaveSession
    <2>1. PICK d \in session : SaveUpdate(d) /\ session' = {}
      BY <1>6 DEF SaveSession
    <2> QED  BY <1>0, <1>5, <2>1 DEF PackTypeOK
  <1>7. CASE SaveFile
    BY <1>0, <1>5, <1>7 DEF SaveFile, PackTypeOK
  <1>8. CASE FinishCommand \/ KillCommand
    <2>1. UNCHANGED <<pack, release, releaseManifest, holdoutBatch, devBatch, session>>
      BY <1>8 DEF FinishCommand, KillCommand, batches, frozenRelease
    <2>2. writing' = "nothing" /\ unwritten' \in SUBSET AllRecords /\ packManifest' \in BOOLEAN
      BY <1>0, <1>8 DEF FinishCommand, KillCommand, batches, PackTypeOK
    <2>3. PackTypeOK'
      BY <1>0, <2>1, <2>2 DEF PackTypeOK
    <2> QED  BY <2>1, <2>3, PackFrame DEF PackInvariant
  <1>9. CASE ExportDev \/ ExportHoldout
    <2>1. UNCHANGED <<pack, release, releaseManifest, packManifest, writing, unwritten, session>>
      BY <1>9 DEF ExportDev, ExportHoldout, writer, frozenRelease
    <2>2. devBatch' \in BOOLEAN /\ holdoutBatch' \in BOOLEAN
      BY <1>0, <1>9 DEF ExportDev, ExportHoldout, PackTypeOK
    <2>3. PackTypeOK'
      BY <1>0, <2>1, <2>2 DEF PackTypeOK
    <2> QED  BY <2>1, <2>3, PackFrame DEF PackInvariant
  <1>10. CASE OpenSession \/ CloseSession
    <2>1. UNCHANGED <<pack, release, releaseManifest, packManifest, holdoutBatch, devBatch,
                      writing, unwritten>>
      BY <1>10 DEF OpenSession, CloseSession, batches, writer, frozenRelease
    <2>2. session' \in SUBSET DevRecords
      BY <1>10 DEF OpenSession, CloseSession
    <2>3. PackTypeOK'
      BY <1>0, <2>1, <2>2 DEF PackTypeOK
    <2> QED  BY <2>1, <2>3, PackFrame DEF PackInvariant
  <1>11. CASE FreezeRelease
    <2>1. /\ release' = [h \in HoldoutRecords |-> pack[h]]
          /\ UNCHANGED <<pack, packManifest, holdoutBatch, devBatch, session, releaseManifest>>
          /\ writing' = "freeze" /\ unwritten' = {}
      BY <1>11 DEF FreezeRelease, batches
    <2>2. release' \in [HoldoutRecords -> AnnotationRecord]
      BY <1>0, <2>1 DEF PackTypeOK, AllRecords
    <2>3. PackTypeOK'
      BY <1>0, <2>1, <2>2 DEF PackTypeOK
    <2>4. GoldIsHuman' /\ HoldoutTextAsNamed'
      BY <1>0, <2>1 DEF GoldIsHuman, HoldoutTextAsNamed
    <2>5. /\ \A h \in HoldoutRecords : pack[h].provenance \in {"adjudicated", "dual_ai_agreed"}
          /\ \E h \in HoldoutRecords : pack[h].provenance = "dual_ai_agreed"
      BY <1>11 DEF FreezeRelease, FinalHoldout
    <2>6. \A h \in HoldoutRecords :
             ~pack[h].verified /\ pack[h].text = (IF h = Agreed THEN "review" ELSE "final")
      BY <1>0, <2>5 DEF HoldoutTextAsNamed
    <2>7. FrozenIsFinal'
      BY <2>1, <2>6 DEF FrozenIsFinal
    <2> QED  BY <2>3, <2>4, <2>7 DEF PackInvariant
  <1>12. CASE FreezeManifest
    <2>1. PackTypeOK'
      BY <1>0, <1>12 DEF FreezeManifest, PackTypeOK, batches
    <2> QED  BY <1>12, <2>1, PackFrame DEF FreezeManifest, PackInvariant
  <1>13. CASE UNCHANGED packVars
    <2>1. UNCHANGED <<pack, packManifest, holdoutBatch, devBatch>>
      BY <1>13 DEF packVars, batches
    <2>2. UNCHANGED <<writing, unwritten, session, release, releaseManifest>>
      BY <1>13 DEF packVars, writer, frozenRelease
    <2>3. PackTypeOK'
      BY <1>0, <2>1, <2>2 DEF PackTypeOK
    <2> QED  BY <2>1, <2>2, <2>3, PackFrame DEF PackInvariant
  <1> QED
    BY <1>2, <1>3, <1>4, <1>6, <1>7, <1>8, <1>9, <1>10, <1>11, <1>12, <1>13 DEF PackNext

(* The invariant holds in every state of every behaviour. *)
LEMMA PackInvariantHolds == PackSpec => []PackInvariant
  BY PackInvariantInit, PackInvariantStep, PTL DEF PackSpec

(* Records, batches, sessions and the release have their types: a session  *)
(* never opens a HOLDOUT record (extraction/annotation.py).                *)
THEOREM PackTypeCorrect == PackSpec => []PackTypeOK
  <1>1. PackInvariant => PackTypeOK
    BY DEF PackInvariant
  <1> QED  BY <1>1, PackInvariantHolds, PTL

(* Human gold is a person's own text, in every order of imports, sessions, *)
(* adjudications, kills and repeated preparations (is_human_gold).         *)
THEOREM HumanGold == PackSpec => []GoldIsHuman
  <1>1. PackInvariant => GoldIsHuman
    BY DEF PackInvariant
  <1> QED  BY <1>1, PackInvariantHolds, PTL

(* What a freeze writes is adjudicated, and a freeze cut between its two   *)
(* files is never finished (freeze_holdout_annotation_release).            *)
THEOREM FreezeFinal == PackSpec => FreezeIsFinal
  <1>1. ASSUME [PackNext]_packVars, release # NoRelease, ~releaseManifest, writing # "freeze"
        PROVE  ~releaseManifest' /\ writing' # "freeze"
    <2>1. ASSUME NEW name, NEW targets, name # "freeze", Begin(name, targets)
          PROVE  ~releaseManifest' /\ writing' # "freeze"
      BY <1>1, <2>1 DEF Begin, frozenRelease
    <2>2. CASE StartPrepare \/ StartImportHoldout \/ StartAdjudication
      BY <2>1, <2>2 DEF StartPrepare, StartImportHoldout, StartAdjudication
    <2>3. CASE StartImportDev
      BY <2>1, <2>3 DEF StartImportDev
    <2>4. CASE ReplaceRecord \/ FinishCommand \/ KillCommand \/ ExportDev \/ ExportHoldout
      BY <1>1, <2>4 DEF ReplaceRecord, FinishCommand, KillCommand, ExportDev, ExportHoldout,
                        writer, frozenRelease
    <2>5. CASE OpenSession \/ CloseSession \/ SaveSession \/ SaveFile
      BY <1>1, <2>5 DEF OpenSession, CloseSession, SaveSession, SaveFile, SaveUpdate,
                        writer, frozenRelease
    <2>6. ~FreezeRelease /\ ~FreezeManifest
      BY <1>1 DEF FreezeRelease, FreezeManifest, NotFrozen
    <2>7. CASE UNCHANGED packVars
      BY <1>1, <2>7 DEF packVars, writer, frozenRelease
    <2> QED  BY <1>1, <2>2, <2>3, <2>4, <2>5, <2>6, <2>7 DEF PackNext
  <1>2. PackInvariant' /\ [PackNext]_packVars =>
           [/\ FrozenIsFinal'
            /\ release # NoRelease /\ ~releaseManifest /\ writing # "freeze"
                  => ~releaseManifest' /\ writing' # "freeze"]_packVars
    BY <1>1 DEF PackInvariant
  <1> QED  BY <1>2, PackInvariantHolds, PTL DEF PackSpec, FreezeIsFinal

-----------------------------------------------------------------------------
(***************************************************************************)
(* ExtractionEvaluation: for any number of records, rules, runs, imports   *)
(* and evaluations.  First what its reports count: pairs of a record and   *)
(* one of a family of its rules.                                           *)
(***************************************************************************)
PairsOf(S, X, family) == {pair \in S \X X : pair[2] \in family[pair[1]]}

(* Families whose sets have the same sizes have as many pairs. *)
LEMMA PairsSame ==
    ASSUME NEW S, NEW X, NEW Y, IsFiniteSet(S), IsFiniteSet(X), IsFiniteSet(Y),
           NEW one, NEW other,
           \A s \in S : one[s] \subseteq X /\ other[s] \subseteq Y,
           \A s \in S : Cardinality(one[s]) = Cardinality(other[s])
    PROVE  Cardinality(PairsOf(S, X, one)) = Cardinality(PairsOf(S, Y, other))
  <1> DEFINE matching == [s \in S |-> CHOOSE m : m \in Bijection(one[s], other[s])]
             move == [pair \in PairsOf(S, X, one) |-> <<pair[1], matching[pair[1]][pair[2]]>>]
  <1>1. \A s \in S : matching[s] \in Bijection(one[s], other[s])
    <2> SUFFICES ASSUME NEW s \in S PROVE \E m : m \in Bijection(one[s], other[s])
      OBVIOUS
    <2>1. IsFiniteSet(one[s]) /\ IsFiniteSet(other[s])
      BY FS_Subset
    <2>2. ExistsBijection(one[s], other[s])
      BY <2>1, FS_SameCardinalityBij
    <2> QED  BY <2>2, Fun_ExistsBij
  <1>2. \A s \in S : /\ matching[s] \in [one[s] -> other[s]]
                     /\ \A x, y \in one[s] : matching[s][x] = matching[s][y] => x = y
                     /\ \A z \in other[s] : \E x \in one[s] : matching[s][x] = z
    <2> SUFFICES ASSUME NEW s \in S
                 PROVE  /\ matching[s] \in [one[s] -> other[s]]
                        /\ \A x, y \in one[s] : matching[s][x] = matching[s][y] => x = y
                        /\ \A z \in other[s] : \E x \in one[s] : matching[s][x] = z
      OBVIOUS
    <2>1. matching[s] \in Bijection(one[s], other[s])
      BY <1>1
    <2> HIDE DEF matching
    <2> QED  BY <2>1, Fun_BijectionProperties
  <1> HIDE DEF matching
  <1>3. \A pair \in PairsOf(S, X, one) :
           pair[1] \in S /\ pair[2] \in one[pair[1]] /\ pair = <<pair[1], pair[2]>>
    BY DEF PairsOf
  <1>4. move \in [PairsOf(S, X, one) -> PairsOf(S, Y, other)]
    <2> SUFFICES ASSUME NEW pair \in PairsOf(S, X, one)
                 PROVE  <<pair[1], matching[pair[1]][pair[2]]>> \in PairsOf(S, Y, other)
      OBVIOUS
    <2>1. matching[pair[1]][pair[2]] \in other[pair[1]]
      BY <1>2, <1>3
    <2> QED  BY <1>3, <2>1 DEF PairsOf
  <1>5. \A p, q \in PairsOf(S, X, one) : move[p] = move[q] => p = q
    <2> SUFFICES ASSUME NEW p \in PairsOf(S, X, one), NEW q \in PairsOf(S, X, one),
                        move[p] = move[q]
                 PROVE  p = q
      OBVIOUS
    <2>1. p[1] = q[1] /\ matching[p[1]][p[2]] = matching[q[1]][q[2]]
      OBVIOUS
    <2>2. p[2] = q[2]
      BY <1>2, <1>3, <2>1
    <2> QED  BY <1>3, <2>1, <2>2
  <1>6. \A t \in PairsOf(S, Y, other) : \E p \in PairsOf(S, X, one) : move[p] = t
    <2> SUFFICES ASSUME NEW t \in PairsOf(S, Y, other)
                 PROVE  \E p \in PairsOf(S, X, one) : move[p] = t
      OBVIOUS
    <2>1. t[1] \in S /\ t[2] \in other[t[1]] /\ t = <<t[1], t[2]>>
      BY DEF PairsOf
    <2>2. PICK x \in one[t[1]] : matching[t[1]][x] = t[2]
      BY <1>2, <2>1
    <2>3. <<t[1], x>> \in PairsOf(S, X, one)
      BY <2>1, <2>2 DEF PairsOf
    <2>4. move[<<t[1], x>>] = <<t[1], matching[t[1]][x]>>
      BY <2>3
    <2> QED  BY <2>1, <2>2, <2>3, <2>4
  <1> HIDE DEF move
  <1>7. move \in Bijection(PairsOf(S, X, one), PairsOf(S, Y, other))
    BY <1>4, <1>5, <1>6, Fun_IsBij
  <1>8. IsFiniteSet(PairsOf(S, X, one))
    BY FS_Product, FS_Subset DEF PairsOf
  <1> QED  BY <1>7, <1>8, Fun_ExistsBij, FS_Bijection

(* The pairs of a difference are those of the whole but of the common part. *)
LEMMA PairsWithout ==
    ASSUME NEW S, NEW X, IsFiniteSet(S), IsFiniteSet(X),
           NEW whole, NEW common, NEW rest,
           \A s \in S : common[s] \subseteq whole[s] /\ rest[s] = whole[s] \ common[s]
    PROVE  /\ Cardinality(PairsOf(S, X, rest))
                 = Cardinality(PairsOf(S, X, whole)) - Cardinality(PairsOf(S, X, common))
           /\ Cardinality(PairsOf(S, X, whole)) \in Nat
           /\ Cardinality(PairsOf(S, X, common)) \in Nat
  <1>1. /\ PairsOf(S, X, rest) = PairsOf(S, X, whole) \ PairsOf(S, X, common)
        /\ PairsOf(S, X, whole) \cap PairsOf(S, X, common) = PairsOf(S, X, common)
    BY DEF PairsOf
  <1>2. IsFiniteSet(PairsOf(S, X, whole)) /\ IsFiniteSet(PairsOf(S, X, common))
    BY FS_Product, FS_Subset DEF PairsOf
  <1>3. Cardinality(PairsOf(S, X, whole) \ PairsOf(S, X, common))
           = Cardinality(PairsOf(S, X, whole))
               - Cardinality(PairsOf(S, X, whole) \cap PairsOf(S, X, common))
    BY <1>2, FS_Difference
  <1>4. Cardinality(PairsOf(S, X, whole)) \in Nat /\ Cardinality(PairsOf(S, X, common)) \in Nat
    BY <1>2, FS_CardinalityType
  <1> QED  BY <1>1, <1>3, <1>4

-----------------------------------------------------------------------------
(* What a failed record predicts: nothing. *)
FailedEmpty(results) == \A u \in Units : results[u].state # "complete" => results[u].rules = {}

Ranks(family) == [u \in Units |-> 1 .. Cardinality(family[u])]

(* The counts of any evaluation over its results agree. *)
LEMMA AccountsAlwaysAgree ==
    ASSUME NEW e, e.reference \in Annotations,
           \A u \in Units : e.predictions[u].rules \subseteq Rules, FailedEmpty(e.predictions)
    PROVE  AccountsAgree(e)
  <1> DEFINE gold == e.reference
             found == Predicted(e)
             completed == Completed(e)
             both == [u \in Units |-> gold[u] \cap found[u]]
             wrong == [u \in Units |-> found[u] \ gold[u]]
             missed == [u \in Units |-> gold[u] \ found[u]]
             N(records, family) == Cardinality(PairsOf(records, Rules, family))
  <1>1. /\ IsFiniteSet(Units) /\ completed \subseteq Units /\ IsFiniteSet(completed)
        /\ IsFiniteSet(Rules)
    <2>1. IsFiniteSet(Units)
      BY ExperimentAssumption, FS_Interval DEF Units
    <2>2. completed \subseteq Units
      BY DEF Completed
    <2> QED  BY <2>1, <2>2, FS_Subset, ExperimentAssumption
  <1>2. \A u \in Units : gold[u] \subseteq Rules /\ found[u] \subseteq Rules
    BY DEF Annotations, Predicted
  <1>3. \A u \in Units \ completed : found[u] = {}
    BY DEF FailedEmpty, Completed, Predicted
  <1>4. \A records : /\ View(e, records).TP = N(records, both)
                     /\ View(e, records).FP = N(records, wrong)
                     /\ View(e, records).FN = N(records, missed)
                     /\ View(e, records).support = N(records, gold)
                     /\ View(e, records).exact =
                           Cardinality({u \in records \cap completed : gold[u] = found[u]})
    BY DEF View, Pairs, PairsOf
  <1> HIDE DEF gold, found, completed
  <1>5. /\ N(Units, missed) = N(Units, gold) - N(Units, both)
        /\ N(Units, gold) \in Nat /\ N(Units, both) \in Nat
    <2>1. \A u \in Units : both[u] \subseteq gold[u] /\ missed[u] = gold[u] \ both[u]
      OBVIOUS
    <2>2. IsFiniteSet(Units) /\ IsFiniteSet(Rules)
      BY <1>1
    <2> HIDE DEF both, missed
    <2> QED  BY <2>1, <2>2, PairsWithout
  <1>6. N(Units, both) = N(completed, both) /\ N(Units, wrong) = N(completed, wrong)
    <2>1. \A u \in Units \ completed : both[u] = {} /\ wrong[u] = {}
      BY <1>3
    <2> HIDE DEF both, wrong
    <2>2. /\ PairsOf(Units, Rules, both) = PairsOf(completed, Rules, both)
          /\ PairsOf(Units, Rules, wrong) = PairsOf(completed, Rules, wrong)
      BY <1>1, <2>1 DEF PairsOf
    <2> QED  BY <2>2
  <1>7. N(Units, missed) = N(completed, missed) + N(Units \ completed, gold)
    <2>1. \A u \in Units \ completed : missed[u] = gold[u]
      BY <1>3
    <2> HIDE DEF missed
    <2>2. PairsOf(Units, Rules, missed)
             = PairsOf(completed, Rules, missed) \cup PairsOf(Units \ completed, Rules, gold)
      BY <1>1, <2>1 DEF PairsOf
    <2>3. PairsOf(completed, Rules, missed) \cap PairsOf(Units \ completed, Rules, gold) = {}
      BY DEF PairsOf
    <2>4. /\ IsFiniteSet(PairsOf(completed, Rules, missed))
          /\ IsFiniteSet(PairsOf(Units \ completed, Rules, gold))
      <3>1. IsFiniteSet(Units \ completed)
        BY <1>1, FS_Difference
      <3> QED  BY <1>1, <3>1, FS_Product, FS_Subset DEF PairsOf
    <2>5. /\ Cardinality(PairsOf(completed, Rules, missed)) \in Nat
          /\ Cardinality(PairsOf(Units \ completed, Rules, gold)) \in Nat
      BY <2>4, FS_CardinalityType
    <2>6. Cardinality({}) = 0
      BY FS_EmptySet
    <2>7. Cardinality(PairsOf(Units, Rules, missed))
             = Cardinality(PairsOf(completed, Rules, missed))
                 + Cardinality(PairsOf(Units \ completed, Rules, gold)) - 0
      <3> DEFINE A == PairsOf(completed, Rules, missed)
                 B == PairsOf(Units \ completed, Rules, gold)
      <3>1. IsFiniteSet(A) /\ IsFiniteSet(B) /\ Cardinality(A \cap B) = 0
        BY <2>3, <2>4, <2>6
      <3>2. PairsOf(Units, Rules, missed) = A \cup B
        BY <2>2
      <3> HIDE DEF A, B
      <3>3. Cardinality(A \cup B) = Cardinality(A) + Cardinality(B) - Cardinality(A \cap B)
        BY <3>1, FS_Union
      <3> QED  BY <3>1, <3>2, <3>3 DEF A, B
    <2> QED  BY <2>5, <2>7
  <1>8. View(e, Units).exact = View(e, completed).exact
    <2>1. {u \in Units \cap completed : gold[u] = found[u]}
             = {u \in completed \cap completed : gold[u] = found[u]}
      BY <1>1
    <2> QED  BY <1>4, <2>1
  <1>9. MissedExtractions(e) + N(completed, wrong) = SpuriousExtractions(e) + N(completed, missed)
    <2> DEFINE places == 1 .. Cardinality(Rules)
               R(family) == Cardinality(PairsOf(completed, places, family))
               least == [u \in Units |-> Ranks(gold)[u] \cap Ranks(found)[u]]
               more == [u \in Units |-> Ranks(gold)[u] \ least[u]]
               fewer == [u \in Units |-> Ranks(found)[u] \ least[u]]
    <2>1. Cardinality(Rules) \in Nat /\ IsFiniteSet(places)
      BY <1>1, FS_CardinalityType, FS_Interval
    <2>2. \A u \in Units :
             /\ IsFiniteSet(gold[u]) /\ Cardinality(gold[u]) \in Nat
             /\ Cardinality(gold[u]) <= Cardinality(Rules)
             /\ IsFiniteSet(found[u]) /\ Cardinality(found[u]) \in Nat
             /\ Cardinality(found[u]) <= Cardinality(Rules)
      BY <1>1, <1>2, FS_Subset, FS_CardinalityType
    <2>3. \A u \in Units : /\ Cardinality(Ranks(gold)[u]) = Cardinality(gold[u])
                           /\ Cardinality(Ranks(found)[u]) = Cardinality(found[u])
                           /\ Ranks(gold)[u] \subseteq places /\ Ranks(found)[u] \subseteq places
      <3> SUFFICES ASSUME NEW u \in Units
                   PROVE  /\ Cardinality(Ranks(gold)[u]) = Cardinality(gold[u])
                          /\ Cardinality(Ranks(found)[u]) = Cardinality(found[u])
                          /\ Ranks(gold)[u] \subseteq places /\ Ranks(found)[u] \subseteq places
        OBVIOUS
      <3>1. \A n \in Nat : Cardinality(1 .. n) = n
        BY FS_Interval
      <3> QED  BY <2>1, <2>2, <3>1 DEF Ranks
    <2>4. /\ R(Ranks(gold)) = N(completed, gold) /\ R(Ranks(found)) = N(completed, found)
      <3>1. \A u \in completed :
               /\ Ranks(gold)[u] \subseteq places /\ Ranks(found)[u] \subseteq places
               /\ gold[u] \subseteq Rules /\ found[u] \subseteq Rules
               /\ Cardinality(Ranks(gold)[u]) = Cardinality(gold[u])
               /\ Cardinality(Ranks(found)[u]) = Cardinality(found[u])
        BY <1>1, <1>2, <2>3
      <3>2. IsFiniteSet(completed) /\ IsFiniteSet(Rules) /\ IsFiniteSet(places)
        BY <1>1, <2>1
      <3> HIDE DEF places
      <3>3. Cardinality(PairsOf(completed, places, Ranks(gold)))
               = Cardinality(PairsOf(completed, Rules, gold))
        BY <3>1, <3>2, PairsSame
      <3>4. Cardinality(PairsOf(completed, places, Ranks(found)))
               = Cardinality(PairsOf(completed, Rules, found))
        BY <3>1, <3>2, PairsSame
      <3> QED  BY <3>3, <3>4
    <2>5. /\ N(completed, missed) = N(completed, gold) - N(completed, both)
          /\ N(completed, wrong) = N(completed, found) - N(completed, both)
          /\ N(completed, gold) \in Nat /\ N(completed, found) \in Nat /\ N(completed, both) \in Nat
      <3>1. \A u \in completed : /\ both[u] \subseteq gold[u] /\ missed[u] = gold[u] \ both[u]
                                 /\ both[u] \subseteq found[u] /\ wrong[u] = found[u] \ both[u]
        BY <1>1
      <3> HIDE DEF both, missed, wrong
      <3> QED  BY <1>1, <3>1, PairsWithout
    <2>6. /\ R(more) = R(Ranks(gold)) - R(least) /\ R(fewer) = R(Ranks(found)) - R(least)
          /\ R(least) \in Nat
      <3>1. \A u \in completed :
               /\ least[u] \subseteq Ranks(gold)[u] /\ more[u] = Ranks(gold)[u] \ least[u]
               /\ least[u] \subseteq Ranks(found)[u] /\ fewer[u] = Ranks(found)[u] \ least[u]
        BY <1>1
      <3>2. IsFiniteSet(completed) /\ IsFiniteSet(places)
        BY <1>1, <2>1
      <3> DEFINE larger == Ranks(gold)
                 smaller == Ranks(found)
      <3>3. \A u \in completed : least[u] \subseteq larger[u] /\ more[u] = larger[u] \ least[u]
        BY <3>1
      <3>4. \A u \in completed : least[u] \subseteq smaller[u] /\ fewer[u] = smaller[u] \ least[u]
        BY <3>1
      <3> HIDE DEF least, more, fewer, places, larger, smaller
      <3>5. /\ Cardinality(PairsOf(completed, places, more))
                   = Cardinality(PairsOf(completed, places, larger))
                        - Cardinality(PairsOf(completed, places, least))
            /\ Cardinality(PairsOf(completed, places, least)) \in Nat
        BY <3>2, <3>3, PairsWithout
      <3>6. Cardinality(PairsOf(completed, places, fewer))
               = Cardinality(PairsOf(completed, places, smaller))
                    - Cardinality(PairsOf(completed, places, least))
        BY <3>2, <3>4, PairsWithout
      <3> QED  BY <3>5, <3>6 DEF larger, smaller
    <2>7. \A u \in completed, k \in places :
             /\ k \in more[u] <=> k <= Cardinality(gold[u]) /\ k > Cardinality(found[u])
             /\ k \in fewer[u] <=> k <= Cardinality(found[u]) /\ k > Cardinality(gold[u])
      <3> SUFFICES ASSUME NEW u \in completed, NEW k \in places
                   PROVE  /\ k \in more[u] <=> k <= Cardinality(gold[u]) /\ k > Cardinality(found[u])
                          /\ k \in fewer[u] <=> k <= Cardinality(found[u]) /\ k > Cardinality(gold[u])
        OBVIOUS
      <3>1. u \in Units /\ k \in Nat /\ k >= 1
        BY <1>1, <2>1
      <3> HIDE DEF places
      <3>2. /\ k \in Ranks(gold)[u] <=> k <= Cardinality(gold[u])
            /\ k \in Ranks(found)[u] <=> k <= Cardinality(found[u])
        BY <2>2, <3>1 DEF Ranks
      <3>3. Cardinality(gold[u]) \in Nat /\ Cardinality(found[u]) \in Nat
        BY <2>2, <3>1
      <3> QED  BY <3>1, <3>2, <3>3
    <2>8. MissedExtractions(e) = R(more) /\ SpuriousExtractions(e) = R(fewer)
      <3>1. /\ MissedExtractions(e) = Cardinality({pair \in completed \X places :
                     pair[2] <= Cardinality(gold[pair[1]]) /\ pair[2] > Cardinality(found[pair[1]])})
            /\ SpuriousExtractions(e) = Cardinality({pair \in completed \X places :
                     pair[2] <= Cardinality(found[pair[1]]) /\ pair[2] > Cardinality(gold[pair[1]])})
        BY DEF MissedExtractions, SpuriousExtractions, Excess, gold, found, completed
      <3> HIDE DEF places, more, fewer
      <3>2. /\ PairsOf(completed, places, more) = {pair \in completed \X places :
                     pair[2] <= Cardinality(gold[pair[1]]) /\ pair[2] > Cardinality(found[pair[1]])}
            /\ PairsOf(completed, places, fewer) = {pair \in completed \X places :
                     pair[2] <= Cardinality(found[pair[1]]) /\ pair[2] > Cardinality(gold[pair[1]])}
        BY <2>7 DEF PairsOf
      <3> QED  BY <3>1, <3>2
    <2> HIDE DEF R, N
    <2> QED  BY <2>4, <2>5, <2>6, <2>8
  <1>10. \A n \in 0 .. Cardinality(Rules) :
            View(e, Bucket(e, n)).support = n * Cardinality(Bucket(e, n))
    <2> SUFFICES ASSUME NEW n \in 0 .. Cardinality(Rules)
                 PROVE  N(Bucket(e, n), gold) = n * Cardinality(Bucket(e, n))
      BY <1>4
    <2> DEFINE bucket == Bucket(e, n)
               first == [u \in bucket |-> 1 .. n]
    <2>1. Cardinality(Rules) \in Nat /\ n \in Nat
      BY <1>1, FS_CardinalityType
    <2>2. bucket \subseteq Units /\ \A u \in bucket : Cardinality(gold[u]) = n
      BY DEF Bucket, gold
    <2> HIDE DEF bucket
    <2>3. IsFiniteSet(bucket) /\ IsFiniteSet(1 .. n) /\ Cardinality(1 .. n) = n
          /\ Cardinality(bucket) \in Nat /\ IsFiniteSet(Rules)
      <3>1. IsFiniteSet(bucket)
        BY <1>1, <2>2, FS_Subset
      <3>2. IsFiniteSet(1 .. n) /\ Cardinality(1 .. n) = IF 1 > n THEN 0 ELSE n - 1 + 1
        BY <2>1, FS_Interval
      <3> QED  BY <1>1, <2>1, <3>1, <3>2, FS_CardinalityType
    <2>4. \A u \in bucket : /\ gold[u] \subseteq Rules /\ first[u] \subseteq 1 .. n
                            /\ Cardinality(gold[u]) = Cardinality(first[u])
      BY <1>2, <2>2, <2>3
    <2>5. PairsOf(bucket, 1 .. n, first) = bucket \X (1 .. n)
      BY DEF PairsOf
    <2> HIDE DEF first
    <2>6. N(bucket, gold) = Cardinality(PairsOf(bucket, 1 .. n, first))
      <3> DEFINE places == 1 .. n
      <3>1. IsFiniteSet(places) /\ \A u \in bucket : first[u] \subseteq places
        BY <2>3, <2>4
      <3> HIDE DEF places
      <3>2. Cardinality(PairsOf(bucket, Rules, gold)) = Cardinality(PairsOf(bucket, places, first))
        BY <2>3, <2>4, <3>1, PairsSame
      <3> QED  BY <3>2 DEF places
    <2>7. Cardinality(bucket \X (1 .. n)) = Cardinality(bucket) * n
      BY <2>3, FS_Product
    <2>8. Cardinality(bucket) * n = n * Cardinality(bucket)
      BY <2>1, <2>3
    <2> QED  BY <2>5, <2>6, <2>7, <2>8 DEF bucket
  <1>11. View(e, Completed(e)).exact = View(e, completed).exact /\ completed = Completed(e)
    BY DEF completed
  <1> HIDE DEF N
  <1> QED  BY <1>4, <1>5, <1>6, <1>7, <1>8, <1>9, <1>10, <1>11 DEF AccountsAgree

-----------------------------------------------------------------------------
(* The order runs, results and evaluations keep. *)
WorkingType ==
    /\ working \in [on : {"nothing", "dev", "experiment"}, resume : BOOLEAN, at : 1 .. Evaluated + 1]
    /\ evaluation.next \in DocumentNames \cup {"nothing"}
    /\ experiments \in 0 .. MaxExperiments

(* A complete configuration is of the run that completed it, alone unless  *)
(* it resumed others.                                                      *)
OfItsRun(results, completed) ==
    completed.state = "complete" =>
        \A u \in Units :
           /\ results[u].number <= completed.number
           /\ completed.resumed \/ results[u].number = completed.number

(* What the results and the configuration say of the runs there were: the  *)
(* one at work has not been announced complete, and begins afresh or       *)
(* resumes.                                                                *)
RunsInOrder ==
    /\ FailedEmpty(predictions) /\ OfItsRun(predictions, configuration)
    /\ \A u \in Units : predictions[u].number <= experiments
    /\ working.on = "experiment" =>
          /\ configuration.state # "complete"
          /\ ~working.resume =>
                \A u \in Units : u < working.at => predictions[u].number = experiments

(* The HOLDOUT runs under the frozen reference and the locked configuration,*)
(* and no other is ever selected.                                          *)
HoldoutAuthorized ==
    /\ working.on = "experiment" => Authorized
    /\ selected \in {NoDevConfiguration, Locked}

(* An evaluation reads what one run left, and writes it in order. *)
EvaluatesOneRun ==
    evaluation.next # "nothing" =>
        /\ FailedEmpty(evaluation.read.predictions)
        /\ OfItsRun(evaluation.read.predictions, evaluation.read.configuration)
        /\ evaluation.next \in {"diagnostic", "tracked"} => reports["metrics"] = evaluation.read
        /\ evaluation.next = "tracked" => reports["diagnostic"] = evaluation.read

ExperimentInvariant ==
    /\ ExperimentTypeOK /\ WorkingType /\ RunsInOrder /\ HoldoutAuthorized /\ EvaluatesOneRun

Configurations == [state : {"absent", "ready_not_executed", "complete"},
                   number : 0 .. MaxExperiments, resumed : BOOLEAN]
Predictions == [state : {"absent", "complete", "failed"}, rules : SUBSET Rules,
                number : 0 .. MaxExperiments]
DevConfigurations == [state : {"absent", "ready_not_executed", "complete"}, calls : 0 .. LockedCalls]
Snapshots == [reference : Annotations, predictions : [Units -> Predictions],
              configuration : Configurations]

(* The type invariant, its sets named. *)
LEMMA ExperimentTypes ==
    ExperimentTypeOK <=>
        /\ reference \in Annotations
        /\ devConfiguration \in DevConfigurations /\ selected \in DevConfigurations
        /\ configuration \in Configurations
        /\ predictions \in [Units -> Predictions]
        /\ working.at \in 1 .. Evaluated + 1
        /\ evaluation.read \in Snapshots
        /\ reports \in [DocumentNames -> Snapshots]
  BY DEF ExperimentTypeOK, Configurations, Predictions, DevConfigurations, Snapshots

LEMMA NothingTypes ==
    /\ NoDevConfiguration \in DevConfigurations /\ Locked \in DevConfigurations
    /\ NoConfiguration \in Configurations /\ NoPrediction \in Predictions
    /\ NothingRead \in Snapshots /\ 1 \in 1 .. Evaluated + 1 /\ 0 \in 0 .. MaxExperiments
  <1>1. 0 \in 0 .. MaxExperiments /\ 0 \in 0 .. LockedCalls /\ LockedCalls \in 0 .. LockedCalls
        /\ 1 \in 1 .. Evaluated + 1
    BY ExperimentAssumption
  <1>2. NoPrediction \in Predictions /\ NoConfiguration \in Configurations
    BY <1>1 DEF NoPrediction, Prediction, Predictions, NoConfiguration, Configuration, Configurations
  <1>3. NoDevConfiguration \in DevConfigurations /\ Locked \in DevConfigurations
    BY <1>1 DEF NoDevConfiguration, Locked, DevConfiguration, DevConfigurations
  <1>4. NothingRead \in Snapshots
    BY <1>2 DEF NothingRead, Snapshots, Annotations
  <1> QED  BY <1>1, <1>2, <1>3, <1>4

LEMMA ExperimentInvariantInit == ExperimentInit => ExperimentInvariant
  <1> SUFFICES ASSUME ExperimentInit PROVE ExperimentInvariant
    OBVIOUS
  <1>1. ExperimentTypeOK
    BY ExperimentTypes, NothingTypes DEF ExperimentInit, NotWorking, NotEvaluating
  <1>2. WorkingType /\ HoldoutAuthorized /\ EvaluatesOneRun
    BY NothingTypes DEF ExperimentInit, NotWorking, NotEvaluating, WorkingType, HoldoutAuthorized,
       EvaluatesOneRun
  <1>3. RunsInOrder
    <2>1. \A u \in Units : predictions[u].rules = {} /\ predictions[u].number = 0
      BY DEF ExperimentInit, NoPrediction, Prediction
    <2>2. configuration.state = "absent" /\ working.on = "nothing" /\ experiments = 0
      BY DEF ExperimentInit, NotWorking, NoConfiguration, Configuration
    <2> QED  BY <2>1, <2>2 DEF RunsInOrder, FailedEmpty, OfItsRun
  <1> QED  BY <1>1, <1>2, <1>3 DEF ExperimentInvariant

LEMMA ExperimentInvariantStep ==
    ExperimentInvariant /\ [ExperimentNext]_experimentVars => ExperimentInvariant'
  <1> SUFFICES ASSUME ExperimentInvariant, [ExperimentNext]_experimentVars
               PROVE  ExperimentInvariant'
    OBVIOUS
  <1>0. /\ ExperimentTypeOK /\ WorkingType /\ RunsInOrder /\ HoldoutAuthorized /\ EvaluatesOneRun
    BY DEF ExperimentInvariant
  <1>types. /\ reference \in Annotations
            /\ devConfiguration \in DevConfigurations /\ selected \in DevConfigurations
            /\ configuration \in Configurations /\ predictions \in [Units -> Predictions]
            /\ working.at \in 1 .. Evaluated + 1 /\ evaluation.read \in Snapshots
            /\ reports \in [DocumentNames -> Snapshots]
    BY <1>0, ExperimentTypes
  <1>works. /\ working \in [on : {"nothing", "dev", "experiment"}, resume : BOOLEAN,
                            at : 1 .. Evaluated + 1]
            /\ evaluation.next \in DocumentNames \cup {"nothing"}
            /\ experiments \in 0 .. MaxExperiments
            /\ Evaluated \in Nat /\ MaxExperiments \in Nat
    BY <1>0, ExperimentAssumption DEF WorkingType
  <1>rest. ASSUME Resting PROVE working = NotWorking /\ evaluation.next = "nothing"
    BY <1>rest DEF Resting, NotEvaluating
  <1>1. CASE ImportReference \/ FreezeReference
    <2>1. /\ reference' \in Annotations /\ working' = NotWorking /\ evaluation.next = "nothing"
          /\ UNCHANGED <<experiment, experimentFiles, working, experiments, reporting>>
      <3>1. CASE ImportReference
        <4>1. PICK u \in Units, rules \in SUBSET Rules : reference' = [reference EXCEPT ![u] = rules]
          BY <3>1 DEF ImportReference
        <4>2. reference' \in Annotations
          BY <1>types, <4>1 DEF Annotations
        <4> QED  BY <1>rest, <3>1, <4>2 DEF ImportReference
      <3>2. CASE FreezeReference
        BY <1>types, <1>rest, <3>2 DEF FreezeReference
      <3> QED  BY <1>1, <3>1, <3>2
    <2>2. ExperimentTypeOK' /\ WorkingType'
      BY <1>types, <1>works, <2>1, ExperimentTypes DEF experimentFiles, reporting, WorkingType,
         ExperimentTypeOK, Configurations, Predictions, DevConfigurations, Snapshots
    <2>3. RunsInOrder' /\ HoldoutAuthorized' /\ EvaluatesOneRun'
      BY <1>0, <2>1 DEF experimentFiles, reporting, RunsInOrder, FailedEmpty, OfItsRun,
         HoldoutAuthorized, EvaluatesOneRun, NotWorking
    <2> QED  BY <2>2, <2>3 DEF ExperimentInvariant
  <1>2. CASE StartDevExperiment \/ FinishDevExperiment \/ SelectConfiguration
    <2>1. /\ UNCHANGED <<experiment, annotations, configuration, predictions, reporting>>
          /\ working' \in [on : {"nothing", "dev"}, resume : BOOLEAN, at : {1}]
          /\ experiments' \in {experiments, experiments + 1} /\ experiments' \in 0 .. MaxExperiments
          /\ devConfiguration' \in DevConfigurations
          /\ selected' \in {NoDevConfiguration, Locked}
      <3>1. CASE StartDevExperiment
        <4>1. DevConfiguration("ready_not_executed", 0) \in DevConfigurations
          BY ExperimentAssumption DEF DevConfiguration, DevConfigurations
        <4>2. /\ experiments' = experiments + 1 /\ experiments < MaxExperiments
              /\ working' = [on |-> "dev", resume |-> FALSE, at |-> 1]
              /\ devConfiguration' = DevConfiguration("ready_not_executed", 0)
              /\ UNCHANGED <<experiment, annotations, selected, configuration, predictions, reporting>>
          BY <3>1 DEF StartDevExperiment, NotWorking
        <4>3. experiments + 1 \in 0 .. MaxExperiments
          BY <1>works, <4>2
        <4> QED  BY <1>0, <4>1, <4>2, <4>3 DEF HoldoutAuthorized
      <3>2. CASE FinishDevExperiment
        <4>1. \A calls \in 0 .. LockedCalls : DevConfiguration("complete", calls) \in DevConfigurations
          BY DEF DevConfiguration, DevConfigurations
        <4> QED  BY <1>0, <1>works, <3>2, <4>1 DEF FinishDevExperiment, NotWorking, HoldoutAuthorized
      <3>3. CASE SelectConfiguration
        BY <1>0, <1>types, <1>works, <1>rest, <3>3 DEF SelectConfiguration, NotWorking
      <3> QED  BY <1>2, <3>1, <3>2, <3>3
    <2>2. ExperimentTypeOK' /\ WorkingType'
      <3>1. working'.at = 1 /\ selected' \in DevConfigurations
        BY <2>1, NothingTypes
      <3> QED  BY <1>types, <1>works, <2>1, <3>1, NothingTypes DEF annotations, reporting, WorkingType,
         ExperimentTypeOK, Configurations, Predictions, DevConfigurations, Snapshots
    <2>3. RunsInOrder'
      <3>1. \A u \in Units : predictions[u].number \in Nat
        BY <1>types DEF Predictions
      <3> QED  BY <1>0, <1>works, <2>1, <3>1 DEF RunsInOrder, FailedEmpty, OfItsRun
    <2>4. HoldoutAuthorized' /\ EvaluatesOneRun'
      BY <1>0, <2>1 DEF annotations, reporting, HoldoutAuthorized, EvaluatesOneRun, FailedEmpty, OfItsRun
    <2> QED  BY <2>2, <2>3, <2>4 DEF ExperimentInvariant
  <1>3. ASSUME NEW resume \in BOOLEAN, StartExperiment(resume) PROVE ExperimentInvariant'
    <2>1. /\ Resting /\ Authorized /\ experiments < MaxExperiments /\ experiments' = experiments + 1
          /\ working' = [on |-> "experiment", resume |-> resume, at |-> 1]
          /\ configuration' = Configuration("ready_not_executed", experiments + 1, resume)
          /\ UNCHANGED <<experiment, annotations, devConfiguration, selected, predictions, reporting>>
      BY <1>3 DEF StartExperiment, Begins
    <2>2. experiments + 1 \in 0 .. MaxExperiments
      BY <1>works, <2>1
    <2>3. /\ configuration' \in Configurations /\ configuration'.state = "ready_not_executed"
      BY <2>1, <2>2 DEF Configuration, Configurations
    <2>4. ExperimentTypeOK' /\ WorkingType'
      BY <1>types, <1>works, <2>1, <2>2, <2>3, NothingTypes DEF annotations, reporting, WorkingType,
         ExperimentTypeOK, Configurations, Predictions, DevConfigurations, Snapshots
    <2>5. RunsInOrder'
      <3>1. \A u \in Units : predictions[u].number \in Nat /\ ~(u < 1)
        BY <1>types DEF Predictions, Units
      <3> QED  BY <1>0, <1>works, <2>1, <2>3, <3>1 DEF RunsInOrder, FailedEmpty, OfItsRun
    <2>6. HoldoutAuthorized' /\ EvaluatesOneRun'
      BY <1>0, <2>1 DEF annotations, reporting, HoldoutAuthorized, EvaluatesOneRun, FailedEmpty,
         OfItsRun, Authorized
    <2> QED  BY <2>4, <2>5, <2>6 DEF ExperimentInvariant
  <1>4. CASE Preflight
    <2>1. /\ Resting /\ configuration' = Configuration("ready_not_executed", 0, FALSE)
          /\ UNCHANGED <<experiment, annotations, devConfiguration, selected, predictions, working,
                         experiments, reporting>>
      BY <1>4 DEF Preflight
    <2>2. configuration' \in Configurations /\ configuration'.state = "ready_not_executed"
      BY <2>1, NothingTypes DEF Configuration, Configurations
    <2>3. ExperimentTypeOK' /\ WorkingType'
      BY <1>types, <1>works, <2>1, <2>2 DEF annotations, reporting, WorkingType,
         ExperimentTypeOK, Configurations, Predictions, DevConfigurations, Snapshots
    <2>4. RunsInOrder' /\ HoldoutAuthorized' /\ EvaluatesOneRun'
      BY <1>0, <2>1, <2>2 DEF annotations, reporting, RunsInOrder, HoldoutAuthorized, EvaluatesOneRun,
         FailedEmpty, OfItsRun, Authorized
    <2> QED  BY <2>3, <2>4 DEF ExperimentInvariant
  <1>5. CASE Predict
    <2>1. PICK rules \in SUBSET Rules, outcome \in {"complete", "failed"} :
             /\ outcome = "failed" => rules = {}
             /\ predictions' = [predictions EXCEPT ![working.at] = Prediction(outcome, rules, experiments)]
      BY <1>5 DEF Predict
    <2>2. /\ working.on = "experiment" /\ working.at \in Units
          /\ working' = [working EXCEPT !.at = working.at + 1]
          /\ UNCHANGED <<experiment, annotations, devConfiguration, selected, configuration,
                         experiments, reporting>>
      BY <1>5 DEF Predict
    <2>3. /\ working' \in [on : {"nothing", "dev", "experiment"}, resume : BOOLEAN, at : 1 .. Evaluated + 1]
          /\ working'.on = "experiment" /\ working'.resume = working.resume
          /\ working'.at = working.at + 1 /\ working'.at \in 1 .. Evaluated + 1
      <3>1. working.at + 1 \in 1 .. Evaluated + 1
        BY <1>works, <2>2 DEF Units
      <3> QED  BY <1>works, <2>2, <3>1
    <2>4. /\ Prediction(outcome, rules, experiments) \in Predictions
          /\ predictions' \in [Units -> Predictions]
          /\ predictions'[working.at] = Prediction(outcome, rules, experiments)
          /\ \A u \in Units : u # working.at => predictions'[u] = predictions[u]
      <3>1. Prediction(outcome, rules, experiments) \in Predictions
        BY <1>works DEF Prediction, Predictions
      <3> QED  BY <1>types, <2>1, <2>2, <3>1
    <2>5. /\ predictions'[working.at].state = outcome /\ predictions'[working.at].rules = rules
          /\ predictions'[working.at].number = experiments
      BY <2>4 DEF Prediction
    <2>6. ExperimentTypeOK' /\ WorkingType'
      BY <1>types, <1>works, <2>2, <2>3, <2>4 DEF annotations, reporting, WorkingType,
         ExperimentTypeOK, Configurations, Predictions, DevConfigurations, Snapshots
    <2>7. FailedEmpty(predictions')
      BY <1>0, <2>1, <2>4, <2>5 DEF RunsInOrder, FailedEmpty
    <2>8. configuration.state # "complete"
      BY <1>0, <2>2 DEF RunsInOrder
    <2>9. \A u \in Units : predictions'[u].number <= experiments
      BY <1>0, <1>works, <2>4, <2>5 DEF RunsInOrder
    <2>10. ~working.resume => \A u \in Units : u < working.at + 1 => predictions'[u].number = experiments
      <3>1. \A u \in Units : u < working.at + 1 => u = working.at \/ u < working.at
        BY <1>works DEF Units
      <3> QED  BY <1>0, <2>2, <2>4, <2>5, <3>1 DEF RunsInOrder
    <2>11. RunsInOrder'
      BY <2>2, <2>3, <2>7, <2>8, <2>9, <2>10 DEF RunsInOrder, FailedEmpty, OfItsRun
    <2>12. HoldoutAuthorized' /\ EvaluatesOneRun'
      BY <1>0, <2>2, <2>3 DEF annotations, reporting, HoldoutAuthorized, EvaluatesOneRun, FailedEmpty,
         OfItsRun, Authorized
    <2> QED  BY <2>6, <2>11, <2>12 DEF ExperimentInvariant
  <1>6. CASE KeepPrediction
    <2>1. /\ working.on = "experiment" /\ working.at \in Units /\ working.resume
          /\ working' = [working EXCEPT !.at = working.at + 1]
          /\ UNCHANGED <<experiment, annotations, experimentFiles, experiments, reporting>>
      BY <1>6 DEF KeepPrediction
    <2>2. /\ working' \in [on : {"nothing", "dev", "experiment"}, resume : BOOLEAN, at : 1 .. Evaluated + 1]
          /\ working'.on = "experiment" /\ working'.resume = working.resume
          /\ working'.at \in 1 .. Evaluated + 1
      <3>1. working.at + 1 \in 1 .. Evaluated + 1
        BY <1>works, <2>1 DEF Units
      <3> QED  BY <1>works, <2>1, <3>1
    <2>3. ExperimentTypeOK' /\ WorkingType'
      BY <1>types, <1>works, <2>1, <2>2 DEF annotations, experimentFiles, reporting, WorkingType,
         ExperimentTypeOK, Configurations, Predictions, DevConfigurations, Snapshots
    <2>4. RunsInOrder' /\ HoldoutAuthorized' /\ EvaluatesOneRun'
      BY <1>0, <2>1, <2>2 DEF annotations, experimentFiles, reporting, RunsInOrder, HoldoutAuthorized,
         EvaluatesOneRun, FailedEmpty, OfItsRun, Authorized
    <2> QED  BY <2>3, <2>4 DEF ExperimentInvariant
  <1>7. CASE FinishExperiment
    <2>1. /\ working.on = "experiment" /\ working.at \notin Units /\ working' = NotWorking
          /\ configuration' = Configuration("complete", experiments, working.resume)
          /\ UNCHANGED <<experiment, annotations, devConfiguration, selected, predictions,
                         experiments, reporting>>
      BY <1>7 DEF FinishExperiment
    <2>2. /\ configuration' \in Configurations /\ configuration'.number = experiments
          /\ configuration'.resumed = working.resume
      BY <1>works, <2>1 DEF Configuration, Configurations
    <2>3. ExperimentTypeOK' /\ WorkingType'
      BY <1>types, <1>works, <2>1, <2>2, NothingTypes DEF annotations, reporting, WorkingType, NotWorking,
         ExperimentTypeOK, Configurations, Predictions, DevConfigurations, Snapshots
    <2>4. \A u \in Units : u < working.at
      BY <1>works, <2>1 DEF Units
    <2>5. RunsInOrder' /\ HoldoutAuthorized' /\ EvaluatesOneRun'
      BY <1>0, <2>1, <2>2, <2>4 DEF annotations, reporting, RunsInOrder, HoldoutAuthorized,
         EvaluatesOneRun, FailedEmpty, OfItsRun, Authorized, NotWorking
    <2> QED  BY <2>3, <2>5 DEF ExperimentInvariant
  <1>8. CASE ExperimentDies
    <2>1. /\ working' = NotWorking
          /\ UNCHANGED <<experiment, annotations, experimentFiles, experiments, reporting>>
      BY <1>8 DEF ExperimentDies
    <2>2. ExperimentTypeOK' /\ WorkingType'
      BY <1>types, <1>works, <2>1, NothingTypes DEF annotations, experimentFiles, reporting, WorkingType,
         NotWorking, ExperimentTypeOK, Configurations, Predictions, DevConfigurations, Snapshots
    <2>3. RunsInOrder' /\ HoldoutAuthorized' /\ EvaluatesOneRun'
      BY <1>0, <2>1 DEF annotations, experimentFiles, reporting, RunsInOrder, HoldoutAuthorized,
         EvaluatesOneRun, FailedEmpty, OfItsRun, Authorized, NotWorking
    <2> QED  BY <2>2, <2>3 DEF ExperimentInvariant
  <1>9. CASE StartReport
    <2> DEFINE read == [reference |-> reference, predictions |-> predictions,
                        configuration |-> configuration]
    <2>1. /\ evaluation' = [next |-> "metrics", read |-> read]
          /\ UNCHANGED <<experiment, annotations, experimentFiles, working, experiments, reports>>
      BY <1>9 DEF StartReport
    <2>2. read \in Snapshots
      BY <1>types DEF Snapshots
    <2>3. ExperimentTypeOK' /\ WorkingType'
      BY <1>types, <1>works, <2>1, <2>2 DEF annotations, experimentFiles, WorkingType, DocumentNames,
         ExperimentTypeOK, Configurations, Predictions, DevConfigurations, Snapshots
    <2>4. RunsInOrder' /\ HoldoutAuthorized'
      BY <1>0, <2>1 DEF annotations, experimentFiles, RunsInOrder, HoldoutAuthorized, FailedEmpty,
         OfItsRun, Authorized
    <2>5. EvaluatesOneRun'
      BY <1>0, <2>1 DEF RunsInOrder, EvaluatesOneRun, FailedEmpty, OfItsRun
    <2> QED  BY <2>3, <2>4, <2>5 DEF ExperimentInvariant
  <1>10. ASSUME NEW name \in DocumentNames, NEW next \in DocumentNames \cup {"nothing"},
                WriteDocument(name, next),
                <<name, next>> \in {<<"metrics", "diagnostic">>, <<"diagnostic", "tracked">>,
                                    <<"tracked", "private">>, <<"private", "nothing">>}
         PROVE  ExperimentInvariant'
    <2>1. /\ evaluation.next = name /\ reports' = [reports EXCEPT ![name] = evaluation.read]
          /\ evaluation' = IF next = "nothing" THEN NotEvaluating
                           ELSE [evaluation EXCEPT !.next = next]
          /\ UNCHANGED <<experiment, annotations, experimentFiles, working, experiments>>
      BY <1>10 DEF WriteDocument
    <2>2. /\ reports' \in [DocumentNames -> Snapshots] /\ reports'[name] = evaluation.read
          /\ \A other \in DocumentNames : other # name => reports'[other] = reports[other]
      BY <1>types, <1>10, <2>1
    <2>3. /\ evaluation'.next = next /\ evaluation'.read \in Snapshots
          /\ next # "nothing" => evaluation'.read = evaluation.read
      BY <1>types, <2>1, NothingTypes DEF NotEvaluating
    <2>4. ExperimentTypeOK' /\ WorkingType'
      BY <1>types, <1>works, <1>10, <2>1, <2>2, <2>3 DEF annotations, experimentFiles, WorkingType,
         ExperimentTypeOK, Configurations, Predictions, DevConfigurations, Snapshots
    <2>5. RunsInOrder' /\ HoldoutAuthorized'
      BY <1>0, <2>1 DEF annotations, experimentFiles, RunsInOrder, HoldoutAuthorized, FailedEmpty,
         OfItsRun, Authorized
    <2>6. EvaluatesOneRun'
      BY <1>0, <1>10, <2>1, <2>2, <2>3 DEF EvaluatesOneRun, FailedEmpty, OfItsRun, DocumentNames
    <2> QED  BY <2>4, <2>5, <2>6 DEF ExperimentInvariant
  <1>11. CASE WriteReports
    BY <1>10, <1>11 DEF WriteReports, DocumentNames
  <1>12. CASE ReportDies
    <2>1. /\ evaluation' = NotEvaluating
          /\ UNCHANGED <<experiment, annotations, experimentFiles, working, experiments, reports>>
      BY <1>12 DEF ReportDies
    <2>2. ExperimentTypeOK' /\ WorkingType'
      BY <1>types, <1>works, <2>1, NothingTypes DEF annotations, experimentFiles, WorkingType,
         NotEvaluating, ExperimentTypeOK, Configurations, Predictions, DevConfigurations, Snapshots
    <2>3. RunsInOrder' /\ HoldoutAuthorized' /\ EvaluatesOneRun'
      BY <1>0, <2>1 DEF annotations, experimentFiles, RunsInOrder, HoldoutAuthorized, EvaluatesOneRun,
         FailedEmpty, OfItsRun, Authorized, NotEvaluating
    <2> QED  BY <2>2, <2>3 DEF ExperimentInvariant
  <1>13. CASE UNCHANGED experimentVars
    <2>1. /\ UNCHANGED <<experiment, annotations, experimentFiles>>
          /\ UNCHANGED <<working, experiments, evaluation, reports>>
      BY <1>13 DEF experimentVars, reporting
    <2>2. ExperimentTypeOK' /\ WorkingType'
      BY <1>0, <2>1 DEF annotations, experimentFiles, WorkingType, ExperimentTypeOK, Configurations,
         Predictions, DevConfigurations, Snapshots
    <2>3. RunsInOrder' /\ HoldoutAuthorized' /\ EvaluatesOneRun'
      BY <1>0, <2>1 DEF annotations, experimentFiles, RunsInOrder, HoldoutAuthorized, EvaluatesOneRun,
         FailedEmpty, OfItsRun, Authorized
    <2> QED  BY <2>2, <2>3 DEF ExperimentInvariant
  <1> QED  BY <1>1, <1>2, <1>3, <1>4, <1>5, <1>6, <1>7, <1>8, <1>9, <1>11, <1>12, <1>13
           DEF ExperimentNext

LEMMA ExperimentInvariantHolds == ExperimentSpec => []ExperimentInvariant
  BY ExperimentInvariantInit, ExperimentInvariantStep, PTL DEF ExperimentSpec

(* What a step writes in the tracked report, in a result or for a selected *)
(* configuration.                                                          *)
TrackedIsOfOneRun ==
    reports'["tracked"] # reports["tracked"] =>
        LET e == reports'["tracked"] IN
        /\ AccountsAgree(e)
        /\ reports["metrics"] = e /\ reports["diagnostic"] = e
        /\ e.configuration.state = "complete" =>
              \A u \in Units :
                 /\ e.predictions[u].number <= e.configuration.number
                 /\ e.configuration.resumed
                       \/ e.predictions[u].number = e.configuration.number
PredictedAuthorized ==
    predictions' # predictions /\ experiment = "b2 holdout" => reserved /\ devConfiguration = Locked
SelectedLocked == selected' # NoDevConfiguration => selected' = Locked

LEMMA TrackedOfOneRun ==
    ExperimentInvariant /\ [ExperimentNext]_experimentVars => TrackedIsOfOneRun
  <1> SUFFICES ASSUME ExperimentInvariant, [ExperimentNext]_experimentVars,
                      reports'["tracked"] # reports["tracked"]
               PROVE  LET e == reports'["tracked"] IN
                      /\ AccountsAgree(e)
                      /\ reports["metrics"] = e /\ reports["diagnostic"] = e
                      /\ OfItsRun(e.predictions, e.configuration)
    BY DEF TrackedIsOfOneRun, OfItsRun
  <1>0. ExperimentTypeOK /\ EvaluatesOneRun
    BY DEF ExperimentInvariant
  <1>types. reports \in [DocumentNames -> Snapshots] /\ evaluation.read \in Snapshots
    BY <1>0, ExperimentTypes
  <1>1. WriteDocument("tracked", "private")
    <2>1. reports' # reports
      OBVIOUS
    <2>2. WriteReports
      BY <2>1 DEF ExperimentNext, ImportReference, FreezeReference, StartDevExperiment,
         FinishDevExperiment, SelectConfiguration, StartExperiment, Begins, Preflight, Predict,
         KeepPrediction, FinishExperiment, ExperimentDies, StartReport, ReportDies,
         experimentVars, reporting
    <2>3. \A name \in {"metrics", "diagnostic", "private"}, next \in {"diagnostic", "tracked", "nothing"} :
             ~WriteDocument(name, next)
      BY <1>types DEF WriteDocument, DocumentNames
    <2> QED  BY <2>2, <2>3 DEF WriteReports
  <1>2. evaluation.next = "tracked" /\ reports'["tracked"] = evaluation.read
    BY <1>1, <1>types DEF WriteDocument, DocumentNames
  <1>3. /\ FailedEmpty(evaluation.read.predictions)
        /\ OfItsRun(evaluation.read.predictions, evaluation.read.configuration)
        /\ reports["metrics"] = evaluation.read /\ reports["diagnostic"] = evaluation.read
    BY <1>0, <1>2 DEF EvaluatesOneRun
  <1>4. AccountsAgree(evaluation.read)
    <2>1. /\ evaluation.read.reference \in Annotations
          /\ \A u \in Units : evaluation.read.predictions[u].rules \subseteq Rules
      BY <1>types DEF Snapshots, Predictions
    <2> QED  BY <1>3, <2>1, AccountsAlwaysAgree
  <1> QED  BY <1>2, <1>3, <1>4

LEMMA PredictionsAuthorized ==
    ExperimentInvariant /\ [ExperimentNext]_experimentVars => PredictedAuthorized
  <1> SUFFICES ASSUME ExperimentInvariant, [ExperimentNext]_experimentVars,
                      predictions' # predictions, experiment = "b2 holdout"
               PROVE  reserved /\ devConfiguration = Locked
    BY DEF PredictedAuthorized
  <1>1. Predict
    BY DEF ExperimentNext, ImportReference, FreezeReference, StartDevExperiment,
       FinishDevExperiment, SelectConfiguration, StartExperiment, Begins, Preflight,
       KeepPrediction, FinishExperiment, ExperimentDies, StartReport, WriteReports, WriteDocument,
       ReportDies, experimentVars, experimentFiles
  <1> QED  BY <1>1 DEF Predict, ExperimentInvariant, HoldoutAuthorized, Authorized

(* Every file of the evaluated experiments has its type. *)
THEOREM ExperimentTypeCorrect == ExperimentSpec => []ExperimentTypeOK
  <1>1. ExperimentInvariant => ExperimentTypeOK
    BY DEF ExperimentInvariant
  <1> QED  BY <1>1, ExperimentInvariantHolds, PTL

(* A report is published with a result for every record, its counts agree, *)
(* and what it says of a complete run is of that run; HOLDOUT results are  *)
(* computed under the locked configuration only, however runs are killed,  *)
(* resumed and repeated (stage_b1_evaluation.py,                           *)
(* stage_b2_holdout_evaluation.py).                                        *)
THEOREM ReportOfOneRun == ExperimentSpec => ReportIsOfOneRun
  <1>1. ExperimentInvariant /\ ExperimentInvariant' /\ [ExperimentNext]_experimentVars =>
           [/\ TrackedIsOfOneRun
            /\ PredictedAuthorized
            /\ SelectedLocked]_experimentVars
    <2>1. ExperimentInvariant' => SelectedLocked
      BY DEF ExperimentInvariant, HoldoutAuthorized, SelectedLocked
    <2> QED  BY <2>1, TrackedOfOneRun, PredictionsAuthorized
  <1> QED  BY <1>1, ExperimentInvariantHolds, PTL DEF ExperimentSpec, ReportIsOfOneRun, TrackedIsOfOneRun, PredictedAuthorized, SelectedLocked

-----------------------------------------------------------------------------
(***************************************************************************)
(* MCAnnotation: the run, the pack and the experiments, each with its      *)
(* invariant.                                                              *)
(***************************************************************************)
AnnotationInvariant == IInv /\ PackInvariant /\ ExperimentInvariant

LEMMA AnnotationInvariantStep ==
    AnnotationInvariant /\ [ExtractionNext]_<<active, vars, packVars, experimentVars>>
        => AnnotationInvariant'
  <1> SUFFICES ASSUME AnnotationInvariant,
                      [ExtractionNext]_<<active, vars, packVars, experimentVars>>
               PROVE  AnnotationInvariant'
    OBVIOUS
  <1>1. [Next]_vars /\ [PackNext]_packVars /\ [ExperimentNext]_experimentVars
    BY DEF ExtractionNext
  <1> QED  BY <1>1, InvariantStep, PackInvariantStep, ExperimentInvariantStep DEF AnnotationInvariant

(* Every file of the extraction and of its annotations has its type. *)
THEOREM AnnotationTypesCorrect == ExtractionSpec => []TypesOK
  <1>1. ExtractionInit => AnnotationInvariant
    BY InvariantInit, PackInvariantInit, ExperimentInvariantInit DEF ExtractionInit, AnnotationInvariant
  <1>2. AnnotationInvariant => TypesOK
    BY DEF AnnotationInvariant, IInv, PackInvariant, ExperimentInvariant, TypesOK
  <1> QED  BY <1>1, <1>2, AnnotationInvariantStep, PTL DEF ExtractionSpec
=============================================================================
