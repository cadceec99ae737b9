---------------------------- MODULE ContextProofs ----------------------------
(***************************************************************************)
(* Theorems of a generation run, of the components it takes its contexts   *)
(* from and of the commands that read what it left.                        *)
(***************************************************************************)
EXTENDS MCContext, GenerationRun, FiniteSetTheorems, WellFoundedInduction, TLAPS

(***************************************************************************)
(* GenerationRun: for any number of queries, configurations, runs and      *)
(* crashes.                                                                *)
(***************************************************************************)
InQuery == {"checking", "generating", "storing", "closing"}

(* What an attempt knows of its query. *)
AttemptSound ==
    /\ pc \in InQuery =>
          /\ at \in Queries
          /\ outcome # "error" => context = FinalContext(at)
    /\ pc = "checking" => outcome \in {"error", "policy", "unanswered"}
    /\ pc = "generating" => outcome = "unanswered"

(* What is about to be written as complete has been obtained. *)
StoringSound ==
    /\ pc \in {"storing", "closing"} /\ Complete(outcome) => Fingerprint \in obtained[at]
    /\ pc = "closing" => result[at] = File(outcome, Fingerprint)

(* A complete file names the context its query always ends with. *)
CompleteIsFinal ==
    \A q \in Queries : \A file \in {checkpoint[q], result[q]} :
        Complete(file.outcome) => file.context = FinalContext(q)

(* A query that is attempted again in a resumed run was not resumable. *)
NotResumable ==
    pc \in {"generating", "storing"} /\ run.resume /\ outcome # "error" =>
        ~(checkpoint[at] = result[at] /\ Complete(result[at].outcome)
          /\ FingerprintOf(result[at]) = Fingerprint)

(* The queries a run has resumed are behind it. *)
ResumedBehind == \A q \in resumed : q < at

IInv ==
    /\ TypeOK
    /\ AttemptSound
    /\ StoringSound
    /\ CompleteWasObtained
    /\ CompleteIsFinal
    /\ NotResumable
    /\ ResumedBehind
    /\ ResumedIsCurrent

(* Files written by an attempt are files. *)
LEMMA Written ==
    ASSUME TypeOK
    PROVE  /\ Fingerprint \in Fingerprints
           /\ File(outcome, Fingerprint) \in Files
           /\ FingerprintOf(File(outcome, Fingerprint)) = Fingerprint
           /\ File(outcome, Fingerprint).outcome = outcome
           /\ File(outcome, Fingerprint).context = context
BY DEF TypeOK, Fingerprint, Fingerprints, File, Files, FingerprintOf

(* The empty namespace satisfies the invariant. *)
LEMMA InvariantInit == Init => IInv
BY GenerationAssumption DEF Init, IInv, TypeOK, AttemptSound, StoringSound, CompleteWasObtained,
   CompleteIsFinal, NotResumable, ResumedBehind, ResumedIsCurrent, InQuery, NoFile, Files, Complete,
   Fingerprints, Contexts, Outcomes, Queries

(* Every step keeps it. *)
LEMMA InvariantStep == Strict /\ IInv /\ [Next]_vars => IInv'
<1> SUFFICES ASSUME Strict, IInv, [Next]_vars PROVE IInv'
  OBVIOUS
<1>0. TypeOK /\ AttemptSound
  BY DEF IInv
<1>1. CASE StartRun
  <2>1. TypeOK'
    BY <1>1, <1>0, GenerationAssumption DEF TypeOK, StartRun, files, Outcomes, Contexts
  <2>2. AttemptSound'
    BY <1>1, <1>0 DEF IInv, AttemptSound, StartRun, InQuery, Queries
  <2>3. StoringSound'
    BY <1>1, <1>0 DEF IInv, StoringSound, StartRun, Fingerprint, Complete, files
  <2>4. CompleteWasObtained'
    BY <1>1, <1>0 DEF IInv, CompleteWasObtained, StartRun, files, TypeOK
  <2>5. CompleteIsFinal'
    BY <1>1, <1>0 DEF IInv, CompleteIsFinal, StartRun, files
  <2>6. NotResumable'
    BY <1>1, <1>0 DEF IInv, NotResumable, StartRun, files
  <2>7. ResumedBehind'
    BY <1>1, <1>0 DEF IInv, ResumedBehind, StartRun, TypeOK, Queries
  <2>8. ResumedIsCurrent'
    BY <1>1, <1>0 DEF IInv, ResumedIsCurrent, StartRun, files, TypeOK
  <2> QED
    BY <2>1, <2>2, <2>3, <2>4, <2>5, <2>6, <2>7, <2>8 DEF IInv
<1>2. CASE PrepareFails
  <2>1. TypeOK'
    BY <1>2, <1>0 DEF TypeOK, PrepareFails, files, Outcomes, Contexts, Prepared, FinalContext
  <2>2. AttemptSound'
    BY <1>2, <1>0, GenerationAssumption DEF IInv, AttemptSound, PrepareFails, InQuery,
       Queries, Prepared, FinalContext
  <2>3. StoringSound'
    BY <1>2, <1>0 DEF IInv, StoringSound, PrepareFails, Fingerprint, Complete, files, Prepared
  <2>4. CompleteWasObtained'
    BY <1>2, <1>0 DEF IInv, CompleteWasObtained, PrepareFails, files, TypeOK, Prepared
  <2>5. CompleteIsFinal'
    BY <1>2, <1>0 DEF IInv, CompleteIsFinal, PrepareFails, files, Prepared
  <2>6. NotResumable'
    BY <1>2, <1>0 DEF IInv, NotResumable, PrepareFails, files, Prepared
  <2>7. ResumedBehind'
    BY <1>2, <1>0 DEF IInv, ResumedBehind, PrepareFails, TypeOK, Queries, Prepared
  <2>8. ResumedIsCurrent'
    BY <1>2, <1>0 DEF IInv, ResumedIsCurrent, PrepareFails, files, TypeOK, Prepared
  <2> QED
    BY <2>1, <2>2, <2>3, <2>4, <2>5, <2>6, <2>7, <2>8 DEF IInv
<1>3. CASE PolicyDenies
  <2>1. TypeOK'
    BY <1>3, <1>0 DEF TypeOK, PolicyDenies, files, Outcomes, Contexts, Prepared, FinalContext
  <2>2. AttemptSound'
    BY <1>3, <1>0, GenerationAssumption DEF IInv, AttemptSound, PolicyDenies, InQuery,
       Queries, Prepared, FinalContext
  <2>3. StoringSound'
    BY <1>3, <1>0 DEF IInv, StoringSound, PolicyDenies, Fingerprint, Complete, files, Prepared
  <2>4. CompleteWasObtained'
    BY <1>3, <1>0 DEF IInv, CompleteWasObtained, PolicyDenies, files, TypeOK, Prepared
  <2>5. CompleteIsFinal'
    BY <1>3, <1>0 DEF IInv, CompleteIsFinal, PolicyDenies, files, Prepared
  <2>6. NotResumable'
    BY <1>3, <1>0 DEF IInv, NotResumable, PolicyDenies, files, Prepared
  <2>7. ResumedBehind'
    BY <1>3, <1>0 DEF IInv, ResumedBehind, PolicyDenies, TypeOK, Queries, Prepared
  <2>8. ResumedIsCurrent'
    BY <1>3, <1>0 DEF IInv, ResumedIsCurrent, PolicyDenies, files, TypeOK, Prepared
  <2> QED
    BY <2>1, <2>2, <2>3, <2>4, <2>5, <2>6, <2>7, <2>8 DEF IInv
<1>4. CASE PolicyAllows
  <2>1. TypeOK'
    BY <1>4, <1>0 DEF TypeOK, PolicyAllows, files, Outcomes, Contexts, Prepared, FinalContext
  <2>2. AttemptSound'
    BY <1>4, <1>0, GenerationAssumption DEF IInv, AttemptSound, PolicyAllows, InQuery,
       Queries, Prepared, FinalContext
  <2>3. StoringSound'
    BY <1>4, <1>0 DEF IInv, StoringSound, PolicyAllows, Fingerprint, Complete, files, Prepared
  <2>4. CompleteWasObtained'
    BY <1>4, <1>0 DEF IInv, CompleteWasObtained, PolicyAllows, files, TypeOK, Prepared
  <2>5. CompleteIsFinal'
    BY <1>4, <1>0 DEF IInv, CompleteIsFinal, PolicyAllows, files, Prepared
  <2>6. NotResumable'
    BY <1>4, <1>0 DEF IInv, NotResumable, PolicyAllows, files, Prepared
  <2>7. ResumedBehind'
    BY <1>4, <1>0 DEF IInv, ResumedBehind, PolicyAllows, TypeOK, Queries, Prepared
  <2>8. ResumedIsCurrent'
    BY <1>4, <1>0 DEF IInv, ResumedIsCurrent, PolicyAllows, files, TypeOK, Prepared
  <2> QED
    BY <2>1, <2>2, <2>3, <2>4, <2>5, <2>6, <2>7, <2>8 DEF IInv
<1>5. CASE ResumeQuery
  <2>1. TypeOK'
    BY <1>5, <1>0, GenerationAssumption DEF TypeOK, ResumeQuery, files, Outcomes, Contexts,
       InQuery, AttemptSound, Queries
  <2>2. AttemptSound'
    BY <1>5, <1>0 DEF IInv, AttemptSound, ResumeQuery, InQuery, Queries
  <2>3. StoringSound'
    BY <1>5, <1>0 DEF IInv, StoringSound, ResumeQuery, Fingerprint, Complete, files
  <2>4. CompleteWasObtained'
    BY <1>5, <1>0 DEF IInv, CompleteWasObtained, ResumeQuery, files, TypeOK
  <2>5. CompleteIsFinal'
    BY <1>5, <1>0 DEF IInv, CompleteIsFinal, ResumeQuery, files
  <2>6. NotResumable'
    BY <1>5, <1>0 DEF IInv, NotResumable, ResumeQuery, files
  <2>7. ResumedBehind'
    BY <1>5, <1>0, GenerationAssumption DEF IInv, ResumedBehind, ResumeQuery, TypeOK,
       Queries, InQuery, AttemptSound
  <2>8. ResumedIsCurrent'
    BY <1>5, <1>0 DEF IInv, ResumedIsCurrent, ResumeQuery, files, TypeOK, Resumable, Valid,
       ResultProves, Complete, CompleteWasObtained, CompleteIsFinal, InQuery, AttemptSound,
       Fingerprint, FingerprintOf, FinalContext
  <2> QED
    BY <2>1, <2>2, <2>3, <2>4, <2>5, <2>6, <2>7, <2>8 DEF IInv
<1>6. CASE BeginQuery
  <2>1. TypeOK'
    BY <1>6, <1>0, Written DEF TypeOK, BeginQuery, files, Outcomes, Contexts
  <2>2. AttemptSound'
    BY <1>6, <1>0 DEF IInv, AttemptSound, BeginQuery, InQuery, Queries
  <2>3. StoringSound'
    BY <1>6, <1>0 DEF IInv, StoringSound, BeginQuery, Fingerprint, Complete, files,
       Outcomes, TypeOK, AttemptSound, InQuery
  <2>4. CompleteWasObtained'
    BY <1>6, <1>0 DEF IInv, CompleteWasObtained, BeginQuery, files, TypeOK
  <2>5. CompleteIsFinal'
    BY <1>6, <1>0 DEF IInv, CompleteIsFinal, BeginQuery, files
  <2>6. NotResumable'
    BY <1>6, <1>0 DEF IInv, NotResumable, BeginQuery, files, Resumable, Valid, ResultProves,
       Complete, NoFile, Fingerprint
  <2>7. ResumedBehind'
    BY <1>6, <1>0 DEF IInv, ResumedBehind, BeginQuery, TypeOK, Queries
  <2>8. ResumedIsCurrent'
    BY <1>6, <1>0 DEF IInv, ResumedIsCurrent, BeginQuery, files, TypeOK
  <2> QED
    BY <2>1, <2>2, <2>3, <2>4, <2>5, <2>6, <2>7, <2>8 DEF IInv
<1>7. CASE ModelResponds
  <2>1. TypeOK'
    BY <1>7, <1>0, Written DEF TypeOK, ModelResponds, files, Outcomes, Contexts
  <2>2. AttemptSound'
    BY <1>7, <1>0 DEF IInv, AttemptSound, ModelResponds, InQuery, Queries, TypeOK
  <2>3. StoringSound'
    BY <1>7, <1>0 DEF IInv, StoringSound, ModelResponds, Fingerprint, Complete, files,
       TypeOK, InQuery, AttemptSound
  <2>4. CompleteWasObtained'
    BY <1>7, <1>0 DEF IInv, CompleteWasObtained, ModelResponds, files, TypeOK
  <2>5. CompleteIsFinal'
    BY <1>7, <1>0 DEF IInv, CompleteIsFinal, ModelResponds, files
  <2>6. NotResumable'
    BY <1>7, <1>0 DEF IInv, NotResumable, ModelResponds, files, Fingerprint, Complete,
       AttemptSound, InQuery
  <2>7. ResumedBehind'
    BY <1>7, <1>0 DEF IInv, ResumedBehind, ModelResponds, TypeOK, Queries
  <2>8. ResumedIsCurrent'
    BY <1>7, <1>0 DEF IInv, ResumedIsCurrent, ModelResponds, files, TypeOK, Fingerprint,
       Complete
  <2> QED
    BY <2>1, <2>2, <2>3, <2>4, <2>5, <2>6, <2>7, <2>8 DEF IInv
<1>8. CASE ModelFails
  <2>1. TypeOK'
    BY <1>8, <1>0 DEF TypeOK, ModelFails, files, Outcomes, Contexts
  <2>2. AttemptSound'
    BY <1>8, <1>0 DEF IInv, AttemptSound, ModelFails, InQuery, Queries
  <2>3. StoringSound'
    BY <1>8, <1>0 DEF IInv, StoringSound, ModelFails, Fingerprint, Complete, files, TypeOK,
       Outcomes, AttemptSound, InQuery
  <2>4. CompleteWasObtained'
    BY <1>8, <1>0 DEF IInv, CompleteWasObtained, ModelFails, files, TypeOK
  <2>5. CompleteIsFinal'
    BY <1>8, <1>0 DEF IInv, CompleteIsFinal, ModelFails, files
  <2>6. NotResumable'
    BY <1>8, <1>0 DEF IInv, NotResumable, ModelFails, files, Fingerprint, Complete
  <2>7. ResumedBehind'
    BY <1>8, <1>0 DEF IInv, ResumedBehind, ModelFails, TypeOK, Queries
  <2>8. ResumedIsCurrent'
    BY <1>8, <1>0 DEF IInv, ResumedIsCurrent, ModelFails, files, TypeOK, Fingerprint, Complete
  <2> QED
    BY <2>1, <2>2, <2>3, <2>4, <2>5, <2>6, <2>7, <2>8 DEF IInv
<1>9. CASE StoreResult
  <2>1. TypeOK'
    BY <1>9, <1>0, Written DEF TypeOK, StoreResult, files, Outcomes, Contexts, InQuery,
       AttemptSound
  <2>2. AttemptSound'
    BY <1>9, <1>0, Written DEF IInv, AttemptSound, StoreResult, InQuery, Queries
  <2>3. StoringSound'
    BY <1>9, <1>0, Written DEF IInv, StoringSound, StoreResult, Fingerprint, Complete,
       files, InQuery, AttemptSound, TypeOK
  <2>4. CompleteWasObtained'
    BY <1>9, <1>0, Written DEF IInv, CompleteWasObtained, StoreResult, files, TypeOK,
       InQuery, AttemptSound, StoringSound
  <2>5. CompleteIsFinal'
    BY <1>9, <1>0, Written DEF IInv, CompleteIsFinal, StoreResult, files, InQuery,
       AttemptSound, Complete
  <2>6. NotResumable'
    BY <1>9, <1>0, Written DEF IInv, NotResumable, StoreResult, files, InQuery,
       AttemptSound, Fingerprint, Complete
  <2>7. ResumedBehind'
    BY <1>9, <1>0, Written DEF IInv, ResumedBehind, StoreResult, TypeOK, Queries, InQuery,
       AttemptSound
  <2>8. ResumedIsCurrent'
    BY <1>9, <1>0, Written DEF IInv, ResumedIsCurrent, StoreResult, files, TypeOK, InQuery,
       AttemptSound, ResumedBehind, Queries, Fingerprint, Complete
  <2> QED
    BY <2>1, <2>2, <2>3, <2>4, <2>5, <2>6, <2>7, <2>8 DEF IInv
<1>10. CASE StoreCheckpoint
  <2>1. TypeOK'
    BY <1>10, <1>0, Written, GenerationAssumption DEF TypeOK, StoreCheckpoint, files,
       Outcomes, Contexts, InQuery, AttemptSound, Queries
  <2>2. AttemptSound'
    BY <1>10, <1>0, Written DEF IInv, AttemptSound, StoreCheckpoint, InQuery, Queries
  <2>3. StoringSound'
    BY <1>10, <1>0, Written DEF IInv, StoringSound, StoreCheckpoint, Fingerprint, Complete,
       files, InQuery, AttemptSound
  <2>4. CompleteWasObtained'
    BY <1>10, <1>0, Written DEF IInv, CompleteWasObtained, StoreCheckpoint, files, TypeOK,
       InQuery, AttemptSound, StoringSound
  <2>5. CompleteIsFinal'
    BY <1>10, <1>0, Written DEF IInv, CompleteIsFinal, StoreCheckpoint, files, InQuery,
       AttemptSound, Complete
  <2>6. NotResumable'
    BY <1>10, <1>0, Written DEF IInv, NotResumable, StoreCheckpoint, files, InQuery,
       AttemptSound, Fingerprint, Complete
  <2>7. ResumedBehind'
    BY <1>10, <1>0, Written, GenerationAssumption DEF IInv, ResumedBehind, StoreCheckpoint,
       TypeOK, Queries, InQuery, AttemptSound
  <2>8. ResumedIsCurrent'
    BY <1>10, <1>0, Written DEF IInv, ResumedIsCurrent, StoreCheckpoint, files, TypeOK,
       InQuery, AttemptSound, ResumedBehind, Queries, Fingerprint, Complete
  <2> QED
    BY <2>1, <2>2, <2>3, <2>4, <2>5, <2>6, <2>7, <2>8 DEF IInv
<1>11. CASE FinishRun
  <2>1. TypeOK'
    BY <1>11, <1>0 DEF TypeOK, FinishRun, files, Outcomes, Contexts
  <2>2. AttemptSound'
    BY <1>11, <1>0 DEF IInv, AttemptSound, FinishRun, InQuery, Queries
  <2>3. StoringSound'
    BY <1>11, <1>0 DEF IInv, StoringSound, FinishRun, Fingerprint, Complete, files
  <2>4. CompleteWasObtained'
    BY <1>11, <1>0 DEF IInv, CompleteWasObtained, FinishRun, files, TypeOK
  <2>5. CompleteIsFinal'
    BY <1>11, <1>0 DEF IInv, CompleteIsFinal, FinishRun, files
  <2>6. NotResumable'
    BY <1>11, <1>0 DEF IInv, NotResumable, FinishRun, files
  <2>7. ResumedBehind'
    BY <1>11, <1>0 DEF IInv, ResumedBehind, FinishRun, TypeOK, Queries
  <2>8. ResumedIsCurrent'
    BY <1>11, <1>0 DEF IInv, ResumedIsCurrent, FinishRun, files, TypeOK
  <2> QED
    BY <2>1, <2>2, <2>3, <2>4, <2>5, <2>6, <2>7, <2>8 DEF IInv
<1>12. CASE Crash
  <2>1. TypeOK'
    BY <1>12, <1>0 DEF TypeOK, Crash, files, Outcomes, Contexts
  <2>2. AttemptSound'
    BY <1>12, <1>0 DEF IInv, AttemptSound, Crash, InQuery, Queries
  <2>3. StoringSound'
    BY <1>12, <1>0 DEF IInv, StoringSound, Crash, Fingerprint, Complete, files
  <2>4. CompleteWasObtained'
    BY <1>12, <1>0 DEF IInv, CompleteWasObtained, Crash, files, TypeOK
  <2>5. CompleteIsFinal'
    BY <1>12, <1>0 DEF IInv, CompleteIsFinal, Crash, files
  <2>6. NotResumable'
    BY <1>12, <1>0 DEF IInv, NotResumable, Crash, files
  <2>7. ResumedBehind'
    BY <1>12, <1>0 DEF IInv, ResumedBehind, Crash, TypeOK, Queries
  <2>8. ResumedIsCurrent'
    BY <1>12, <1>0 DEF IInv, ResumedIsCurrent, Crash, files, TypeOK
  <2> QED
    BY <2>1, <2>2, <2>3, <2>4, <2>5, <2>6, <2>7, <2>8 DEF IInv
<1>13. CASE UNCHANGED vars
  BY <1>13 DEF IInv, TypeOK, AttemptSound, StoringSound, CompleteWasObtained, CompleteIsFinal,
     NotResumable, ResumedBehind, ResumedIsCurrent, InQuery, Fingerprint, vars, process, files
<1> QED
  BY <1>1, <1>2, <1>3, <1>4, <1>5, <1>6, <1>7, <1>8, <1>9, <1>10, <1>11, <1>12, <1>13 DEF Next

(* With a store that requires the complete lifecycle, IInv is invariant. *)
THEOREM Invariant == ASSUME Strict PROVE Spec => []IInv
<1>1. IInv /\ [Next]_vars => IInv'
  BY InvariantStep
<1> QED
  BY <1>1, InvariantInit, PTL DEF Spec

(* The files and the process always have their types. *)
THEOREM TypeCorrect == ASSUME Strict PROVE Spec => []TypeOK
<1>1. IInv => TypeOK
  BY DEF IInv
<1> QED
  BY <1>1, Invariant, PTL

(* No file ever claims a completion that did not happen under its          *)
(* fingerprint.                                                            *)
THEOREM CompletionsObtained == ASSUME Strict PROVE Spec => []CompleteWasObtained
<1>1. IInv => CompleteWasObtained
  BY DEF IInv
<1> QED
  BY <1>1, Invariant, PTL

(* A resumed query's result is complete and of the run's configuration. *)
THEOREM ResumedQueriesCurrent == ASSUME Strict PROVE Spec => []ResumedIsCurrent
<1>1. IInv => ResumedIsCurrent
  BY DEF IInv
<1> QED
  BY <1>1, Invariant, PTL

(* Resuming overwrites a completed query only after a preparation error. *)
THEOREM CompletedQueriesKept == ASSUME Strict PROVE Spec => CompletedIsKept
<1> DEFINE Step == \A q \in Queries :
                      /\ run.resume
                      /\ checkpoint[q] = result[q] /\ Complete(result[q].outcome)
                      /\ result[q].config = run.config
                      /\ result'[q] # result[q]
                      => outcome = "error"
<1>1. IInv /\ [Next]_vars => [Step]_vars
  <2> SUFFICES ASSUME IInv, Next, NEW q \in Queries, run.resume,
                      checkpoint[q] = result[q], Complete(result[q].outcome),
                      result[q].config = run.config, result'[q] # result[q],
                      outcome # "error"
               PROVE  FALSE
    OBVIOUS
  <2>1. StoreResult
    BY DEF Next, StartRun, PrepareFails, PolicyDenies, PolicyAllows, Prepared, ResumeQuery,
       BeginQuery, ModelResponds, ModelFails, StoreCheckpoint, FinishRun, Crash, files
  <2>2. q = at /\ pc = "storing"
    BY <2>1 DEF StoreResult, IInv, TypeOK
  <2>3. result[q].context = context
    BY <2>2 DEF IInv, CompleteIsFinal, AttemptSound, InQuery
  <2>4. context # "seed"
    BY <2>2 DEF IInv, AttemptSound, InQuery, FinalContext
  <2>5. FingerprintOf(result[q]) = Fingerprint
    BY <2>3, <2>4 DEF FingerprintOf, Fingerprint
  <2> QED
    BY <2>2, <2>5 DEF IInv, NotResumable
<1>2. Spec => [][Step]_vars
  BY <1>1, Invariant, PTL DEF Spec
<1> QED
  BY <1>2 DEF CompletedIsKept

(***************************************************************************)
(* ContextCache: for any caps, sizes and number of attempts.               *)
(***************************************************************************)
LEMMA AssembledType ==
    ASSUME NEW b \in Nat
    PROVE  Assembled(b) \in 0..Offered
  <1>1. b \div Unit \in Nat
    BY ContextAssumption
  <1> QED  BY <1>1, ContextAssumption DEF Assembled

LEMMA PromptType ==
    ASSUME NEW r \in Requests, NEW kept \in Nat
    PROVE  Fixed(r) \in Nat /\ Prompt(r, kept) \in Nat
  <1>1. Fixed(r) \in Nat
    BY ContextAssumption DEF Fixed
  <1>2. kept * (Unit + Markup) \in Nat
    <2>1. Unit + Markup \in Nat
      BY ContextAssumption
    <2> QED  BY <2>1
  <1> QED  BY <1>1, <1>2 DEF Prompt

LEMMA BudgetType ==
    ASSUME NEW r \in Requests, HasBudget(r)
    PROVE  Budget(r) \in Nat /\ r.cap \in Nat /\ r # Nobody
  <1>1. r.cap \in Nat /\ Margin \in Nat
    BY ContextAssumption DEF Requests
  <1>2. Fixed(r) \in Nat
    BY PromptType
  <1> QED  BY <1>1, <1>2 DEF HasBudget, Budget, Nobody

(* The budget after a pack that was assembled with this one. *)
After(r, budget) ==
    LET over == Prompt(r, Assembled(budget)) - r.cap
    IN IF over <= 0 \/ over > budget THEN budget ELSE budget - over

LEMMA AfterType ==
    ASSUME NEW r \in Requests, NEW budget \in Nat
    PROVE  After(r, budget) \in Nat
  <1>1. r.cap \in Nat
    BY ContextAssumption DEF Requests
  <1>2. Assembled(budget) \in Nat
    BY AssembledType, ContextAssumption
  <1>3. Prompt(r, Assembled(budget)) \in Nat
    BY <1>2, PromptType
  <1> QED  BY <1>1, <1>3 DEF After

(* The least element of a set of naturals, for arguments by induction. *)
LEMMA LeastOf ==
    ASSUME NEW S \in SUBSET Nat, S # {}
    PROVE  \E x \in S : \A y \in S : x <= y
  <1> DEFINE R == OpToRel(<, Nat)
  <1>1. IsWellFoundedOn(R, Nat)
    BY NatLessThanWellFounded
  <1>2. \A x, y \in Nat : <<y, x>> \in R <=> y < x
    BY DEF OpToRel
  <1> HIDE DEF R
  <1>3. PICK x \in S : \A y \in S : ~(<<y, x>> \in R)
    BY <1>1, WFMin
  <1>4. ASSUME NEW y \in S PROVE x <= y
    <2>1. x \in Nat /\ y \in Nat
      OBVIOUS
    <2>2. ~(y < x)
      BY <1>2, <1>3, <2>1
    <2> QED  BY <2>1, <2>2
  <1> QED  BY <1>4

(* The budgets tried are what the recursion says they are: a first one, and*)
(* each of the others from the one before it.                              *)
LEMMA TriedBudgetsDefined ==
    ASSUME NEW r \in Requests, HasBudget(r)
    PROVE  /\ TriedBudgets(r)[0] = Budget(r)
           /\ \A i \in 1..(Attempts - 1) : TriedBudgets(r)[i] = After(r, TriedBudgets(r)[i - 1])
  <1> DEFINE Chain(n) ==
               {g \in [0..n -> Nat] :
                   /\ g[0] = Budget(r)
                   /\ \A i \in 1..n : g[i] = After(r, g[i - 1])}
             Broken == {n \in Nat : Chain(n) = {}}
  <1>1. Chain(0) # {}
    <2> DEFINE g == [i \in 0..0 |-> Budget(r)]
    <2>1. g \in [0..0 -> Nat] /\ g[0] = Budget(r)
      BY BudgetType
    <2>2. g \in Chain(0)
      BY <2>1
    <2> QED  BY <2>2
  <1>2. ASSUME NEW n \in Nat, Chain(n) # {} PROVE Chain(n + 1) # {}
    <2>1. PICK g \in Chain(n) : TRUE
      BY <1>2
    <2>2. /\ g \in [0..n -> Nat] /\ g[0] = Budget(r)
          /\ \A i \in 1..n : g[i] = After(r, g[i - 1])
      BY <2>1
    <2> DEFINE h == [i \in 0..(n + 1) |-> IF i \in 0..n THEN g[i] ELSE After(r, g[n])]
    <2>3. g[n] \in Nat
      BY <2>2
    <2>4. h \in [0..(n + 1) -> Nat]
      BY <2>2, <2>3, AfterType
    <2>5. h[0] = Budget(r)
      BY <2>2
    <2>6. ASSUME NEW i \in 1..(n + 1) PROVE h[i] = After(r, h[i - 1])
      <3>1. CASE i \in 1..n
        <4>1. i \in 0..n /\ i - 1 \in 0..n /\ i \in 0..(n + 1) /\ i - 1 \in 0..(n + 1)
          BY <3>1
        <4>2. h[i] = g[i] /\ h[i - 1] = g[i - 1]
          BY <4>1
        <4> QED  BY <2>2, <3>1, <4>2
      <3>2. CASE i = n + 1
        <4>1. i \notin 0..n /\ i \in 0..(n + 1) /\ i - 1 = n /\ n \in 0..n /\ n \in 0..(n + 1)
          BY <3>2
        <4>2. h[i] = After(r, g[n]) /\ h[i - 1] = g[n]
          BY <4>1
        <4> QED  BY <4>2
      <3> QED  BY <3>1, <3>2
    <2> HIDE DEF h
    <2>7. h \in Chain(n + 1)
      BY <2>4, <2>5, <2>6
    <2> QED  BY <2>7
  <1> HIDE DEF Chain
  <1>3. Broken = {}
    <2> SUFFICES ASSUME Broken # {} PROVE FALSE
      OBVIOUS
    <2>1. Broken \in SUBSET Nat
      OBVIOUS
    <2>2. PICK n \in Broken : \A m \in Broken : n <= m
      BY <2>1, LeastOf
    <2>3. n \in Nat /\ n # 0
      BY <1>1, <2>2
    <2>4. n - 1 \in Nat /\ n - 1 \notin Broken /\ (n - 1) + 1 = n
      BY <2>2, <2>3
    <2> QED  BY <1>2, <2>2, <2>4
  <1>4. PICK g \in Chain(Attempts - 1) : TRUE
    <2>1. Attempts - 1 \in Nat
      BY ContextAssumption
    <2> QED  BY <1>3, <2>1
  <1> DEFINE Law(f) == [i \in 0..(Attempts - 1) |->
               IF i = 0 THEN Budget(r)
               ELSE LET over == Prompt(r, Assembled(f[i - 1])) - r.cap
                    IN IF over <= 0 \/ over > f[i - 1] THEN f[i - 1] ELSE f[i - 1] - over]
  <1>5. g = Law(g)
    <2>1. g \in [0..(Attempts - 1) -> Nat] /\ g[0] = Budget(r)
          /\ \A i \in 1..(Attempts - 1) : g[i] = After(r, g[i - 1])
      BY <1>4 DEF Chain
    <2>2. ASSUME NEW i \in 0..(Attempts - 1) PROVE g[i] = Law(g)[i]
      <3>1. i = 0 \/ i \in 1..(Attempts - 1)
        BY ContextAssumption
      <3> QED  BY <2>1, <3>1 DEF After
    <2> QED  BY <2>1, <2>2
  <1>6. TriedBudgets(r) = (CHOOSE f : f = Law(f))
    BY DEF TriedBudgets
  <1>7. TriedBudgets(r) = Law(TriedBudgets(r))
    <2>1. \E f : f = Law(f)
      BY <1>5
    <2> HIDE DEF Law
    <2>2. (CHOOSE f : f = Law(f)) = Law(CHOOSE f : f = Law(f))
      BY <2>1
    <2> QED  BY <1>6, <2>2
  <1> DEFINE T == TriedBudgets(r)
  <1> HIDE DEF T
  <1>8. T = Law(T)
    BY <1>7 DEF T
  <1>9. 0 \in 0..(Attempts - 1) /\ 1..(Attempts - 1) \subseteq 0..(Attempts - 1)
        /\ \A i \in 1..(Attempts - 1) : i # 0
    BY ContextAssumption
  <1>10. T[0] = Budget(r)
    BY <1>8, <1>9
  <1>11. ASSUME NEW i \in 1..(Attempts - 1) PROVE T[i] = After(r, T[i - 1])
    BY <1>8, <1>9 DEF After
  <1> QED  BY <1>10, <1>11 DEF T

(* Every budget tried is one, and once a pack fits no other is tried. *)
LEMMA TriedBudgetsType ==
    ASSUME NEW r \in Requests, HasBudget(r), NEW i \in 0..(Attempts - 1)
    PROVE  TriedBudgets(r)[i] \in Nat
  <1> DEFINE Wrong == {j \in 0..(Attempts - 1) : TriedBudgets(r)[j] \notin Nat}
  <1> SUFFICES ASSUME Wrong # {} PROVE FALSE
    OBVIOUS
  <1>1. Wrong \in SUBSET Nat
    OBVIOUS
  <1>2. PICK j \in Wrong : \A k \in Wrong : j <= k
    BY <1>1, LeastOf
  <1>3. j # 0
    BY <1>2, TriedBudgetsDefined, BudgetType
  <1>4. j \in 1..(Attempts - 1) /\ j - 1 \in 0..(Attempts - 1) /\ ~(j <= j - 1)
    BY <1>2, <1>3, ContextAssumption
  <1>5. TriedBudgets(r)[j - 1] \in Nat
    BY <1>2, <1>4
  <1>6. TriedBudgets(r)[j] = After(r, TriedBudgets(r)[j - 1])
    BY <1>4, TriedBudgetsDefined
  <1> QED  BY <1>2, <1>5, <1>6, AfterType

LEMMA FittingEndsTrying ==
    ASSUME NEW r \in Requests, HasBudget(r), NEW n \in 0..(Attempts - 1),
           Prompt(r, Assembled(TriedBudgets(r)[n])) <= r.cap
    PROVE  Tried(r) = TriedBudgets(r)[n]
  <1> DEFINE Changed == {j \in n..(Attempts - 1) : TriedBudgets(r)[j] # TriedBudgets(r)[n]}
  <1>1. Attempts - 1 \in n..(Attempts - 1) /\ n \in Nat
    BY ContextAssumption
  <1> SUFFICES ASSUME Changed # {} PROVE FALSE
    BY <1>1 DEF Tried
  <1>2. Changed \in SUBSET Nat
    BY <1>1
  <1>3. PICK j \in Changed : \A k \in Changed : j <= k
    BY <1>2, LeastOf
  <1>4. j # n
    BY <1>3
  <1>5. j \in 1..(Attempts - 1) /\ j - 1 \in n..(Attempts - 1) /\ ~(j <= j - 1)
    BY <1>1, <1>3, <1>4, ContextAssumption
  <1>6. TriedBudgets(r)[j - 1] = TriedBudgets(r)[n]
    BY <1>3, <1>5
  <1>7. TriedBudgets(r)[j] = After(r, TriedBudgets(r)[n])
    BY <1>5, <1>6, TriedBudgetsDefined
  <1>8. r.cap \in Nat /\ TriedBudgets(r)[n] \in Nat
    BY TriedBudgetsType, BudgetType
  <1>9. Prompt(r, Assembled(TriedBudgets(r)[n])) \in Nat
    BY <1>8, AssembledType, PromptType, ContextAssumption
  <1>10. After(r, TriedBudgets(r)[n]) = TriedBudgets(r)[n]
    BY <1>8, <1>9 DEF After
  <1> QED  BY <1>3, <1>7, <1>10

(* The request in hand leaves a budget; what it tries next is the budget   *)
(* its attempts so far lead to, and a request of Stage A or B has one.     *)
RequestInHand ==
    asking # Idle =>
        LET r == asking.request IN
        /\ r \in Requests
        /\ HasBudget(r)
        /\ asking.doing # "nothing"
        /\ candidate = TriedBudgets(r)[attempt]
        /\ ~r.paired => candidate = Budget(r)
        /\ asking.doing = "registering" => r.paired /\ packFile.request = r

(* A file was written for a request that left a budget, and holds what     *)
(* assembling for that request ended with.                                 *)
PackAsTried ==
    packFile # Unwritten =>
        LET r == packFile.request IN
        /\ r \in Requests /\ HasBudget(r)
        /\ packFile.kept = Assembled(Tried(r))
        /\ Prompt(r, packFile.kept) <= r.cap

SingleAsBudgeted ==
    singleFile # Unwritten =>
        LET r == singleFile.request IN
        /\ r \in Requests /\ HasBudget(r)
        /\ singleFile.kept = Assembled(Budget(r))

ContextInvariant ==
    /\ ContextTypeOK
    /\ RequestInHand
    /\ PackAsTried
    /\ SingleAsBudgeted
    /\ ServedAsAssembled

LEMMA ContextInvariantInit == ContextInit => ContextInvariant
  <1> SUFFICES ASSUME ContextInit PROVE ContextInvariant
    OBVIOUS
  <1>1. 0 \in 0..Offered /\ 0 \in 0..(Attempts - 1)
    BY ContextAssumption
  <1>2. ContextTypeOK
    BY <1>1 DEF ContextInit, ContextTypeOK, Unwritten, NoRegistry, Nothing, Idle
  <1>3. RequestInHand /\ PackAsTried /\ SingleAsBudgeted /\ ServedAsAssembled
    BY DEF ContextInit, RequestInHand, PackAsTried, SingleAsBudgeted, ServedAsAssembled
  <1> QED  BY <1>2, <1>3 DEF ContextInvariant

(* What a request is given is what its file holds, or what was assembled. *)
LEMMA ServedOfPack ==
    ASSUME ContextInvariant, NEW r \in Requests, r.paired, HasBudget(r), packFile.request = r,
           served' = [request |-> r, kept |-> packFile.kept, quotes |-> Registry(packFile.kept)]
    PROVE  /\ served' \in [request : Requests \cup {Nobody}, kept : 0..Offered, quotes : 0..Offered]
           /\ ServedAsAssembled'
  <1>1. packFile # Unwritten
    BY BudgetType DEF Unwritten
  <1>2. packFile.kept = Assembled(Tried(r)) /\ Prompt(r, packFile.kept) <= r.cap
    BY <1>1 DEF ContextInvariant, PackAsTried
  <1>3. packFile.kept \in 0..Offered
    BY DEF ContextInvariant, ContextTypeOK
  <1>4. served'.request = r /\ served'.kept = packFile.kept /\ served'.quotes = Registry(packFile.kept)
    OBVIOUS
  <1> QED  BY <1>2, <1>3, <1>4 DEF ServedAsAssembled, Registry

LEMMA ContextInvariantStep == ContextInvariant /\ [ContextNext]_contextVars => ContextInvariant'
  <1> SUFFICES ASSUME ContextInvariant, [ContextNext]_contextVars PROVE ContextInvariant'
    OBVIOUS
  <1>0. ContextTypeOK /\ RequestInHand /\ PackAsTried /\ SingleAsBudgeted /\ ServedAsAssembled
    BY DEF ContextInvariant
  <1>files. ASSUME UNCHANGED contextFiles PROVE (PackAsTried /\ SingleAsBudgeted)'
    BY <1>0, <1>files DEF contextFiles, PackAsTried, SingleAsBudgeted
  <1>1. ASSUME NEW r \in Requests, Ask(r) PROVE ContextInvariant'
    <2>1. asking' = [request |-> r, doing |-> "looking"] /\ candidate' = Budget(r) /\ attempt' = 0
          /\ served' = Nothing /\ UNCHANGED <<packFile, registryFile, singleFile>> /\ HasBudget(r)
      BY <1>1 DEF Ask, contextFiles
    <2>2. Budget(r) \in Nat /\ Budget(r) = TriedBudgets(r)[0] /\ 0 \in 0..(Attempts - 1)
          /\ 0 \in 0..Offered
      BY <2>1, BudgetType, TriedBudgetsDefined, ContextAssumption
    <2>3. ContextTypeOK'
      BY <1>0, <2>1, <2>2 DEF ContextTypeOK, Nothing
    <2>4. RequestInHand' /\ ServedAsAssembled'
      BY <2>1, <2>2 DEF RequestInHand, ServedAsAssembled
    <2> QED  BY <1>1, <1>files, <2>3, <2>4 DEF Ask, ContextInvariant
  <1>2. ASSUME NEW r \in Requests, LoadPair(r) PROVE ContextInvariant'
    <2>1. HasBudget(r) /\ r.paired /\ PairServes(r)
      BY <1>0, <1>2 DEF LoadPair, Looking, RequestInHand, Idle
    <2>2. served' = [request |-> r, kept |-> packFile.kept, quotes |-> Registry(packFile.kept)]
      BY <1>2, <2>1 DEF LoadPair, PairServes
    <2>3. /\ served' \in [request : Requests \cup {Nobody}, kept : 0..Offered, quotes : 0..Offered]
          /\ ServedAsAssembled'
      BY <2>1, <2>2, ServedOfPack DEF PairServes
    <2>4. asking' = Idle /\ UNCHANGED <<packFile, registryFile, singleFile, candidate, attempt>>
      BY <1>2 DEF LoadPair, contextFiles
    <2>5. ContextTypeOK'
      BY <1>0, <2>3, <2>4 DEF ContextTypeOK, Idle
    <2> QED  BY <1>2, <1>files, <2>3, <2>4, <2>5 DEF LoadPair, ContextInvariant, RequestInHand
  <1>3. ASSUME NEW r \in Requests, LoadSingle(r) PROVE ContextInvariant'
    <2>1. HasBudget(r) /\ ~r.paired /\ singleFile.request = r /\ Prompt(r, singleFile.kept) <= r.cap
      BY <1>0, <1>3 DEF LoadSingle, Looking, RequestInHand, Idle, SingleServes
    <2>2. singleFile # Unwritten
      BY <2>1, BudgetType DEF Unwritten
    <2>3. singleFile.kept = Assembled(Budget(r)) /\ singleFile.kept \in 0..Offered /\ 0 \in 0..Offered
      BY <1>0, <2>1, <2>2, ContextAssumption DEF SingleAsBudgeted, ContextTypeOK
    <2>4. served' = [request |-> r, kept |-> singleFile.kept, quotes |-> 0]
          /\ asking' = Idle /\ UNCHANGED <<packFile, registryFile, singleFile, candidate, attempt>>
      BY <1>3 DEF LoadSingle, contextFiles
    <2>5. ContextTypeOK'
      BY <1>0, <2>3, <2>4 DEF ContextTypeOK, Idle
    <2>6. ServedAsAssembled'
      BY <2>1, <2>3, <2>4 DEF ServedAsAssembled
    <2> QED  BY <1>3, <1>files, <2>4, <2>5, <2>6 DEF LoadSingle, ContextInvariant, RequestInHand
  <1>4. ASSUME NEW r \in Requests, Miss(r) PROVE ContextInvariant'
    <2>1. asking = [request |-> r, doing |-> "looking"]
          /\ asking' = [request |-> r, doing |-> "assembling"]
          /\ UNCHANGED <<packFile, registryFile, singleFile, candidate, attempt, served>>
      BY <1>4 DEF Miss, Looking, contextFiles
    <2>2. RequestInHand'
      BY <1>0, <2>1 DEF RequestInHand, Idle
    <2>3. ContextTypeOK' /\ ServedAsAssembled'
      BY <1>0, <2>1 DEF ContextTypeOK, ServedAsAssembled
    <2> QED  BY <1>4, <1>files, <2>2, <2>3 DEF Miss, ContextInvariant
  <1>5. ASSUME NEW r \in Requests, SaveSingle(r) PROVE ContextInvariant'
    <2>1. HasBudget(r) /\ ~r.paired /\ candidate = Budget(r)
      BY <1>0, <1>5 DEF SaveSingle, Assembling, RequestInHand, Idle
    <2>2. /\ singleFile' = [request |-> r, kept |-> Assembled(candidate), budget |-> candidate]
          /\ served' = [request |-> r, kept |-> Assembled(candidate), quotes |-> 0]
          /\ asking' = Idle /\ UNCHANGED <<packFile, registryFile, candidate, attempt>>
      BY <1>5 DEF SaveSingle
    <2>3. candidate \in Nat /\ Assembled(candidate) \in 0..Offered /\ 0 \in 0..Offered
      BY <1>0, AssembledType, ContextAssumption DEF ContextTypeOK
    <2>4. Prompt(r, Assembled(candidate)) <= r.cap
      <3>1. Prompt(r, Assembled(candidate)) \in Nat /\ r.cap \in Nat
        BY <2>1, <2>3, PromptType, BudgetType
      <3> QED  BY <1>5, <3>1 DEF SaveSingle, TooLong
    <2>5. ContextTypeOK'
      BY <1>0, <2>2, <2>3 DEF ContextTypeOK, Idle
    <2>6. ServedAsAssembled' /\ SingleAsBudgeted'
      BY <2>1, <2>2, <2>4 DEF ServedAsAssembled, SingleAsBudgeted
    <2>7. PackAsTried' /\ RequestInHand'
      BY <1>0, <2>2 DEF PackAsTried, RequestInHand
    <2> QED  BY <2>5, <2>6, <2>7 DEF ContextInvariant
  <1>6. ASSUME NEW r \in Requests, RaiseSingle(r) \/ Surrender(r) PROVE ContextInvariant'
    <2>1. asking' = Idle /\ UNCHANGED <<packFile, registryFile, singleFile, candidate, attempt, served>>
      BY <1>6 DEF RaiseSingle, Surrender, contextFiles
    <2>2. ContextTypeOK' /\ ServedAsAssembled' /\ RequestInHand'
      BY <1>0, <2>1 DEF ContextTypeOK, ServedAsAssembled, RequestInHand, Idle
    <2> QED  BY <1>6, <1>files, <2>2 DEF RaiseSingle, Surrender, ContextInvariant
  <1>7. ASSUME NEW r \in Requests, SavePack(r) PROVE ContextInvariant'
    <2>1. asking = [request |-> r, doing |-> "assembling"] /\ r.paired
          /\ HasBudget(r) /\ candidate = TriedBudgets(r)[attempt]
      BY <1>0, <1>7 DEF SavePack, Assembling, RequestInHand, Idle
    <2>2. /\ packFile' = [request |-> r, kept |-> Assembled(candidate), budget |-> candidate]
          /\ asking' = [request |-> r, doing |-> "registering"]
          /\ UNCHANGED <<registryFile, singleFile, candidate, attempt, served>>
      BY <1>7, <2>1 DEF SavePack
    <2>3. candidate \in Nat /\ Assembled(candidate) \in 0..Offered /\ attempt \in 0..(Attempts - 1)
      BY <1>0, AssembledType DEF ContextTypeOK
    <2>4. Prompt(r, Assembled(candidate)) <= r.cap
      <3>1. Prompt(r, Assembled(candidate)) \in Nat /\ r.cap \in Nat
        BY <2>1, <2>3, PromptType, BudgetType, ContextAssumption
      <3> QED  BY <1>7, <3>1 DEF SavePack, TooLong
    <2>5. Tried(r) = candidate
      BY <2>1, <2>3, <2>4, FittingEndsTrying
    <2>6. ContextTypeOK'
      BY <1>0, <2>2, <2>3 DEF ContextTypeOK
    <2>7. PackAsTried' /\ RequestInHand'
      BY <1>0, <2>1, <2>2, <2>4, <2>5 DEF PackAsTried, RequestInHand
    <2>8. SingleAsBudgeted' /\ ServedAsAssembled'
      BY <1>0, <2>2 DEF SingleAsBudgeted, ServedAsAssembled
    <2> QED  BY <2>6, <2>7, <2>8 DEF ContextInvariant
  <1>8. ASSUME NEW r \in Requests, SaveRegistry(r) PROVE ContextInvariant'
    <2>1. asking = [request |-> r, doing |-> "registering"]
      BY <1>8 DEF SaveRegistry
    <2>2. HasBudget(r) /\ r.paired /\ packFile.request = r
      BY <1>0, <2>1 DEF RequestInHand, Idle
    <2>3. /\ registryFile' = [request |-> r, quotes |-> Registry(packFile.kept)]
          /\ served' = [request |-> r, kept |-> packFile.kept, quotes |-> Registry(packFile.kept)]
          /\ asking' = Idle /\ UNCHANGED <<packFile, singleFile, candidate, attempt>>
      BY <1>8 DEF SaveRegistry
    <2>4. /\ served' \in [request : Requests \cup {Nobody}, kept : 0..Offered, quotes : 0..Offered]
          /\ ServedAsAssembled'
      BY <2>2, <2>3, ServedOfPack
    <2>5. ContextTypeOK'
      BY <1>0, <2>3, <2>4 DEF ContextTypeOK, Idle, Registry
    <2>6. RequestInHand' /\ PackAsTried' /\ SingleAsBudgeted'
      BY <1>0, <2>3 DEF RequestInHand, PackAsTried, SingleAsBudgeted
    <2> QED  BY <2>4, <2>5, <2>6 DEF ContextInvariant
  <1>9. ASSUME NEW r \in Requests, Shrink(r) PROVE ContextInvariant'
    <2>1. asking = [request |-> r, doing |-> "assembling"] /\ r.paired
          /\ HasBudget(r) /\ candidate = TriedBudgets(r)[attempt]
      BY <1>0, <1>9 DEF Shrink, Assembling, RequestInHand, Idle
    <2>2. /\ candidate' = candidate - Excess(r) /\ attempt' = attempt + 1 /\ attempt + 1 < Attempts
          /\ UNCHANGED <<packFile, registryFile, singleFile, asking, served>>
          /\ Excess(r) <= candidate /\ TooLong(r)
      BY <1>9 DEF Shrink, contextFiles
    <2>3. candidate \in Nat /\ attempt \in 0..(Attempts - 1) /\ Assembled(candidate) \in Nat
      BY <1>0, AssembledType, ContextAssumption DEF ContextTypeOK
    <2>4. attempt' \in 1..(Attempts - 1) /\ attempt' - 1 = attempt /\ attempt' \in 0..(Attempts - 1)
      BY <2>2, <2>3, ContextAssumption
    <2>5. Prompt(r, Assembled(candidate)) \in Nat /\ r.cap \in Nat
      BY <2>1, <2>3, PromptType, BudgetType
    <2>6. After(r, candidate) = candidate' /\ candidate' \in Nat
      BY <2>2, <2>3, <2>5 DEF After, Excess, TooLong
    <2>7. candidate' = TriedBudgets(r)[attempt']
      BY <2>1, <2>4, <2>6, TriedBudgetsDefined
    <2>8. RequestInHand'
      BY <2>1, <2>2, <2>7 DEF RequestInHand
    <2>9. ContextTypeOK' /\ ServedAsAssembled'
      BY <1>0, <2>2, <2>4, <2>6 DEF ContextTypeOK, ServedAsAssembled
    <2> QED  BY <1>9, <1>files, <2>8, <2>9 DEF Shrink, ContextInvariant
  <1>10. CASE Kill
    <2>1. asking' = Idle /\ UNCHANGED <<packFile, registryFile, singleFile, candidate, attempt, served>>
      BY <1>10 DEF Kill, contextFiles
    <2>2. ContextTypeOK' /\ ServedAsAssembled' /\ RequestInHand'
      BY <1>0, <2>1 DEF ContextTypeOK, ServedAsAssembled, RequestInHand, Idle
    <2> QED  BY <1>10, <1>files, <2>2 DEF Kill, ContextInvariant
  <1>11. CASE UNCHANGED contextVars
    <2>1. UNCHANGED <<packFile, registryFile, singleFile, asking, candidate, attempt, served>>
      BY <1>11 DEF contextVars, contextFiles
    <2>2. ContextTypeOK' /\ ServedAsAssembled' /\ RequestInHand'
      BY <1>0, <2>1 DEF ContextTypeOK, ServedAsAssembled, RequestInHand
    <2> QED  BY <1>11, <1>files, <2>2 DEF contextVars, ContextInvariant
  <1> QED
    BY <1>1, <1>2, <1>3, <1>4, <1>5, <1>6, <1>7, <1>8, <1>9, <1>10, <1>11 DEF ContextNext

(* The invariant holds in every state of every behaviour. *)
LEMMA ContextInvariantHolds == ContextSpec => []ContextInvariant
  BY ContextInvariantInit, ContextInvariantStep, PTL DEF ContextSpec

(* Files, requests and budgets have their types: in particular a budget    *)
(* never shrinks below zero (generation/stage_c_context.py).               *)
THEOREM ContextTypeCorrect == ContextSpec => []ContextTypeOK
  <1>1. ContextInvariant => ContextTypeOK
    BY DEF ContextInvariant
  <1> QED  BY <1>1, ContextInvariantHolds, PTL

(* A request is given what assembling afresh would give it, whatever files *)
(* other requests, caps and kills left (assemble_or_load_stage_c_context). *)
THEOREM ContextServedFresh == ContextSpec => []ServedAsAssembled
  <1>1. ContextInvariant => ServedAsAssembled
    BY DEF ContextInvariant
  <1> QED  BY <1>1, ContextInvariantHolds, PTL

-----------------------------------------------------------------------------
(***************************************************************************)
(* TimeoutDiagnostic: for any cohort, replies and number of replays.       *)
(***************************************************************************)
(* A correction was made from an envelope; a resumed replay only asks for, *)
(* and then describes, a query no record describes yet.                    *)
CorrectedFromEnvelope == \A q \in Cohort : corrected[q] # NoCorrection => envelope[q] # NoBody
DescribesUnrecorded == replay.doing = "recording" /\ replay.resume => ~Recorded(replay.at)

TimeoutInvariant ==
    /\ TimeoutTypeOK
    /\ RepliesDescribed
    /\ CorrectedFromEnvelope
    /\ DescribesUnrecorded

LEMMA NoBodyIsNoReply == NoBody \notin Bodies
  BY TimeoutAssumption DEF NoBody, Kinds

LEMMA DescribedType ==
    ASSUME NEW body \in Bodies \cup {NoBody}
    PROVE  /\ Described(body) \in [status : {"absent", "success", "failure"},
                                   category : Failures \cup {"none"}, of : Bodies \cup {NoBody}]
           /\ Described(body).of = body
  BY DEF Described, Failures

LEMMA FailedType ==
    ASSUME NEW category \in Failures
    PROVE  /\ Failed(category) \in [status : {"absent", "success", "failure"},
                                    category : Failures \cup {"none"}, of : Bodies \cup {NoBody}]
           /\ Failed(category).of = NoBody
  BY DEF Failed

(* Going on to the next query leaves none being recorded. *)
LEMMA AdvancedType ==
    ASSUME TimeoutTypeOK, NEW q \in Cohort
    PROVE  /\ Advanced(q + 1) \in [doing : {"nothing", "asking", "recording"}, resume : BOOLEAN,
                                   at : Cohort, reply : Bodies \cup {NoBody}]
           /\ Advanced(q + 1).doing # "recording"
  <1>1. 1 \in Cohort
    BY TimeoutAssumption DEF Cohort
  <1>2. CASE q + 1 \in Cohort
    BY <1>2 DEF Advanced, TimeoutTypeOK
  <1>3. CASE q + 1 \notin Cohort
    BY <1>1, <1>3 DEF Advanced, NotReplaying
  <1> QED  BY <1>2, <1>3

LEMMA TimeoutInvariantInit == TimeoutInit => TimeoutInvariant
  <1> SUFFICES ASSUME TimeoutInit PROVE TimeoutInvariant
    OBVIOUS
  <1>1. 1 \in Cohort /\ 0 \in 0..MaxReplays
    BY TimeoutAssumption DEF Cohort
  <1>2. TimeoutTypeOK
    BY <1>1 DEF TimeoutInit, TimeoutTypeOK, NoRecord, NoCorrection, NotReplaying
  <1>3. RepliesDescribed /\ CorrectedFromEnvelope /\ DescribesUnrecorded
    BY DEF TimeoutInit, RepliesDescribed, CorrectedFromEnvelope, DescribesUnrecorded, NoRecord,
           NotReplaying
  <1> QED  BY <1>2, <1>3 DEF TimeoutInvariant

LEMMA TimeoutInvariantStep == TimeoutInvariant /\ [TimeoutNext]_timeoutVars => TimeoutInvariant'
  <1> SUFFICES ASSUME TimeoutInvariant, [TimeoutNext]_timeoutVars PROVE TimeoutInvariant'
    OBVIOUS
  <1>0. TimeoutTypeOK /\ RepliesDescribed /\ CorrectedFromEnvelope /\ DescribesUnrecorded
    BY DEF TimeoutInvariant
  <1>1. CASE StartReplay
    <2>1. replay'.doing = "asking"
          /\ replay' \in [doing : {"nothing", "asking", "recording"}, resume : BOOLEAN,
                          at : Cohort, reply : Bodies \cup {NoBody}]
      <3>1. 1 \in Cohort
        BY TimeoutAssumption DEF Cohort
      <3> QED  BY <1>1, <3>1 DEF StartReplay
    <2>2. replays' \in 0 .. MaxReplays
      BY <1>0, <1>1, TimeoutAssumption DEF StartReplay, TimeoutTypeOK
    <2>3. TimeoutTypeOK'
      BY <1>0, <1>1, <2>1, <2>2 DEF StartReplay, TimeoutTypeOK
    <2>4. (RepliesDescribed /\ CorrectedFromEnvelope /\ DescribesUnrecorded)'
      BY <1>0, <1>1, <2>1 DEF StartReplay, RepliesDescribed, CorrectedFromEnvelope, DescribesUnrecorded
    <2> QED  BY <2>3, <2>4 DEF TimeoutInvariant
  <1>2. ASSUME UNCHANGED <<envelope, telemetry, corrected, replays>>,
               replay'.doing # "recording" \/ replay' = replay,
               replay' \in [doing : {"nothing", "asking", "recording"}, resume : BOOLEAN,
                            at : Cohort, reply : Bodies \cup {NoBody}],
               unresolved' \subseteq Cohort, evaluation' \subseteq Cohort
        PROVE  TimeoutInvariant'
    <2>1. TimeoutTypeOK'
      BY <1>0, <1>2 DEF TimeoutTypeOK
    <2>2. (RepliesDescribed /\ CorrectedFromEnvelope /\ DescribesUnrecorded)'
      BY <1>0, <1>2 DEF RepliesDescribed, CorrectedFromEnvelope, DescribesUnrecorded, Recorded
    <2> QED  BY <2>1, <2>2 DEF TimeoutInvariant
  <1>3. CASE SkipRecorded
    <2>1. replay' = Advanced(replay.at + 1) /\ replay.at \in Cohort
      BY <1>0, <1>3 DEF SkipRecorded, TimeoutTypeOK
    <2> QED  BY <1>0, <1>2, <1>3, <2>1, AdvancedType DEF SkipRecorded, TimeoutTypeOK
  <1>4. CASE ReplayDies
    <2>1. replay'.doing # "recording"
          /\ replay' \in [doing : {"nothing", "asking", "recording"}, resume : BOOLEAN,
                          at : Cohort, reply : Bodies \cup {NoBody}]
      <3>1. 1 \in Cohort
        BY TimeoutAssumption DEF Cohort
      <3> QED  BY <1>4, <3>1 DEF ReplayDies, NotReplaying
    <2> QED  BY <1>0, <1>2, <1>4, <2>1 DEF ReplayDies, TimeoutTypeOK
  <1>5. CASE RebuildCorpus \/ Insufficient \/ PrintEvaluation \/ ClassifyingDies \/ Diagnose
    <2>1. UNCHANGED <<envelope, telemetry, corrected, replay, replays>>
      BY <1>5 DEF RebuildCorpus, Insufficient, PrintEvaluation, ClassifyingDies, Diagnose
    <2>2. unresolved' \subseteq Cohort /\ evaluation' \subseteq Cohort
      BY <1>0, <1>5 DEF RebuildCorpus, Insufficient, PrintEvaluation, ClassifyingDies, Diagnose,
                        TimeoutTypeOK
    <2> QED  BY <1>0, <1>2, <2>1, <2>2 DEF TimeoutTypeOK
  <1>6. ASSUME NEW q \in Cohort, NEW body \in Bodies, Asks(q), KeepEnvelope(q, body),
               UNCHANGED <<corrected, unresolved, replays, evaluation, summary>>
        PROVE  TimeoutInvariant'
    <2>1. /\ replay.at = q /\ ~(replay.resume /\ Recorded(q))
          /\ envelope[q] = NoBody \/ envelope[q] = body
          /\ envelope' = [envelope EXCEPT ![q] = body]
          /\ replay' = [replay EXCEPT !.doing = "recording", !.reply = body]
          /\ telemetry' = telemetry
      BY <1>6 DEF Asks, KeepEnvelope
    <2>2. /\ replay' \in [doing : {"nothing", "asking", "recording"}, resume : BOOLEAN,
                          at : Cohort, reply : Bodies \cup {NoBody}]
          /\ replay'.at = q /\ replay'.reply = body /\ replay'.resume = replay.resume
      BY <1>0, <2>1 DEF TimeoutTypeOK
    <2>3. /\ envelope' \in [Cohort -> Bodies \cup {NoBody}]
          /\ envelope'[q] = body
          /\ \A p \in Cohort : p # q => envelope'[p] = envelope[p]
      BY <1>0, <2>1 DEF TimeoutTypeOK
    <2>4. TimeoutTypeOK'
      BY <1>0, <1>6, <2>1, <2>2, <2>3 DEF TimeoutTypeOK
    <2>5. \A p \in Cohort : telemetry'[p].of # NoBody => telemetry'[p] = Described(envelope'[p])
      <3>1. telemetry[q].of # NoBody => envelope[q] # NoBody
        <4>1. Described(NoBody).of = NoBody
          BY DescribedType
        <4> QED  BY <1>0, <4>1 DEF RepliesDescribed
      <3> QED  BY <1>0, <2>1, <2>3, <3>1 DEF RepliesDescribed
    <2>6. \A p \in Cohort : corrected'[p] # NoCorrection =>
                             corrected'[p].of = envelope'[p] /\ envelope'[p] # NoBody
      BY <1>0, <1>6, <2>1, <2>3 DEF RepliesDescribed, CorrectedFromEnvelope
    <2>7. (RepliesDescribed /\ CorrectedFromEnvelope)'
      BY <2>2, <2>3, <2>5, <2>6 DEF RepliesDescribed, CorrectedFromEnvelope
    <2>8. DescribesUnrecorded'
      BY <2>1, <2>2 DEF DescribesUnrecorded, Recorded
    <2> QED  BY <2>4, <2>7, <2>8 DEF TimeoutInvariant
  <1>7. ASSUME NEW q \in Cohort, NEW record,
               record \in [status : {"absent", "success", "failure"},
                           category : Failures \cup {"none"}, of : Bodies \cup {NoBody}],
               record.of # NoBody => record = Described(envelope[q]),
               telemetry' = [telemetry EXCEPT ![q] = record], replay' = Advanced(q + 1),
               UNCHANGED <<envelope, corrected, unresolved, replays, evaluation, summary>>
        PROVE  TimeoutInvariant'
    <2>1. \A p \in Cohort : telemetry'[p] = IF p = q THEN record ELSE telemetry[p]
      BY <1>0, <1>7 DEF TimeoutTypeOK
    <2>2. telemetry' \in [Cohort -> [status : {"absent", "success", "failure"},
                                     category : Failures \cup {"none"}, of : Bodies \cup {NoBody}]]
      BY <1>0, <1>7 DEF TimeoutTypeOK
    <2>3. replay' \in [doing : {"nothing", "asking", "recording"}, resume : BOOLEAN,
                        at : Cohort, reply : Bodies \cup {NoBody}]
          /\ replay'.doing # "recording"
      BY <1>0, <1>7, AdvancedType
    <2>4. TimeoutTypeOK'
      BY <1>0, <1>7, <2>2, <2>3 DEF TimeoutTypeOK
    <2>5. (RepliesDescribed /\ CorrectedFromEnvelope /\ DescribesUnrecorded)'
      BY <1>0, <1>7, <2>1, <2>3 DEF RepliesDescribed, CorrectedFromEnvelope, DescribesUnrecorded
    <2> QED  BY <2>4, <2>5 DEF TimeoutInvariant
  <1>8. CASE Reply
    <2>1. PICK q \in Cohort, body \in Bodies :
             Asks(q) /\ (KeepEnvelope(q, body) \/ RefuseEnvelope(q, body))
      BY <1>8 DEF Reply
    <2>2. CASE KeepEnvelope(q, body)
      BY <1>6, <1>8, <2>1, <2>2 DEF Reply
    <2>3. CASE RefuseEnvelope(q, body)
      <3>1. "malformed_response" \in Failures
        BY DEF Failures
      <3> QED  BY <1>7, <1>8, <2>3, <3>1, FailedType DEF Reply, RefuseEnvelope
    <2> QED  BY <2>1, <2>2, <2>3
  <1>9. CASE RecordReply
    <2>1. replay.at \in Cohort /\ replay.reply \in Bodies \cup {NoBody}
          /\ envelope[replay.at] = replay.reply
      BY <1>0, <1>9 DEF RecordReply, TimeoutTypeOK, RepliesDescribed
    <2> QED  BY <1>7, <1>9, <2>1, DescribedType DEF RecordReply
  <1>10. CASE RecordFailure
    <2>1. PICK q \in Cohort, category \in Failures :
             telemetry' = [telemetry EXCEPT ![q] = Failed(category)] /\ replay' = Advanced(q + 1)
      BY <1>10 DEF RecordFailure
    <2> QED  BY <1>7, <1>10, <2>1, FailedType DEF RecordFailure
  <1>11. CASE WriteCorrection
    <2>1. PICK q \in Cohort : Correct(q) /\ evaluation' = evaluation \cup {q}
      BY <1>11 DEF WriteCorrection, Evaluated
    <2>2. /\ \A p \in Cohort : corrected'[p] = IF p = q THEN [outcome |-> Outcome(q), of |-> envelope[q]]
                                                ELSE corrected[p]
          /\ corrected' \in [Cohort -> [outcome : {"absent", "schema_pydantic_invalid",
                                            "explicit_abstention", "final_verified_answer",
                                            "citation_quotation_failure"},
                                        of : Bodies \cup {NoBody}]]
      BY <1>0, <2>1 DEF Correct, Outcome, TimeoutTypeOK
    <2>3. TimeoutTypeOK'
      BY <1>0, <1>11, <2>1, <2>2 DEF WriteCorrection, TimeoutTypeOK
    <2>4. (RepliesDescribed /\ CorrectedFromEnvelope /\ DescribesUnrecorded)'
      BY <1>0, <1>11, <2>2 DEF WriteCorrection, HasEnvelopes, RepliesDescribed, CorrectedFromEnvelope,
                               DescribesUnrecorded, Recorded
    <2> QED  BY <2>3, <2>4 DEF TimeoutInvariant
  <1>12. CASE UNCHANGED timeoutVars
    <2>1. UNCHANGED <<envelope, telemetry, corrected, replay, replays>>
      BY <1>12 DEF timeoutVars
    <2>2. UNCHANGED <<unresolved, evaluation>>
      BY <1>12 DEF timeoutVars
    <2> QED  BY <1>0, <1>2, <2>1, <2>2 DEF TimeoutTypeOK
  <1> QED
    BY <1>1, <1>3, <1>4, <1>5, <1>8, <1>9, <1>10, <1>11, <1>12 DEF TimeoutNext

(* The invariant holds in every state of every behaviour. *)
LEMMA TimeoutInvariantHolds == TimeoutSpec => []TimeoutInvariant
  BY TimeoutInvariantInit, TimeoutInvariantStep, PTL DEF TimeoutSpec

(* Every query of the cohort is counted at least once, and while every     *)
(* context can be read exactly once.                                       *)
LEMMA EveryQueryCounted ==
    LET total == Counted("valid_generated_responses") + Counted("schema_pydantic_invalid")
                    + Cardinality(Cohort \ Evaluated)
    IN total >= CohortSize /\ (unresolved = {} => total = CohortSize)
  <1> DEFINE V == {q \in Evaluated : "valid_generated_responses" \in Counters(q)}
             I == {q \in Evaluated : "schema_pydantic_invalid" \in Counters(q)}
  <1>1. IsFiniteSet(Cohort) /\ Cardinality(Cohort) = CohortSize
    <2>1. IsFiniteSet(1 .. CohortSize)
          /\ Cardinality(1 .. CohortSize) = IF 1 > CohortSize THEN 0 ELSE CohortSize - 1 + 1
      BY TimeoutAssumption, FS_Interval
    <2> QED  BY <2>1, TimeoutAssumption DEF Cohort
  <1>2. Evaluated \subseteq Cohort /\ V \subseteq Evaluated /\ I \subseteq Evaluated
    BY DEF Evaluated
  <1>3. IsFiniteSet(Evaluated) /\ IsFiniteSet(V) /\ IsFiniteSet(I)
    BY <1>1, <1>2, FS_Subset
  <1>4. V \cup I = Evaluated
    BY DEF Counters
  <1>5. unresolved = {} => V \cap I = {}
    BY DEF Counters
  <1> HIDE DEF V, I
  <1>6. Cardinality(Evaluated) = Cardinality(V) + Cardinality(I) - Cardinality(V \cap I)
    BY <1>3, <1>4, FS_Union
  <1>7. Cardinality(Cohort \ Evaluated) = Cardinality(Cohort) - Cardinality(Evaluated)
    <2>1. Cohort \cap Evaluated = Evaluated
      BY <1>2
    <2> QED  BY <1>1, <2>1, FS_Difference
  <1>8. Cardinality(V \cap I) \in Nat /\ Cardinality(Evaluated) \in Nat
        /\ Cardinality(V) \in Nat /\ Cardinality(I) \in Nat
    <2>1. IsFiniteSet(V \cap I)
      BY <1>3, FS_Intersection
    <2> QED  BY <1>3, <2>1, FS_CardinalityType
  <1>9. unresolved = {} => Cardinality(V \cap I) = 0
    BY <1>5, FS_EmptySet
  <1>10. Counted("valid_generated_responses") = Cardinality(V)
         /\ Counted("schema_pydantic_invalid") = Cardinality(I)
    BY DEF Counted, V, I
  <1> QED  BY <1>1, <1>6, <1>7, <1>8, <1>9, <1>10, TimeoutAssumption

(* Cohort, envelopes and records have their types. *)
THEOREM TimeoutTypeCorrect == TimeoutSpec => []TimeoutTypeOK
  <1>1. TimeoutInvariant => TimeoutTypeOK
    BY DEF TimeoutInvariant
  <1> QED  BY <1>1, TimeoutInvariantHolds, PTL

(* The first reply stays the evidence, a resumed replay leaves records     *)
(* alone, and a printed evaluation counts every query                      *)
(* (generation/timeout_diagnostic.py).                                     *)
THEOREM FirstReplyKept == TimeoutSpec => FirstReplyIsEvidence
  <1>1. ASSUME TimeoutInvariant, [TimeoutNext]_timeoutVars, NEW q \in Cohort
        PROVE  /\ envelope[q] # NoBody => envelope'[q] = envelope[q]
               /\ replay.resume /\ Recorded(q) => telemetry'[q] = telemetry[q]
    <2>1. CASE Reply
      <3>1. PICK p \in Cohort, body \in Bodies :
               Asks(p) /\ (KeepEnvelope(p, body) \/ RefuseEnvelope(p, body))
        BY <2>1 DEF Reply
      <3>2. ~(replay.resume /\ Recorded(p))
        BY <3>1 DEF Asks
      <3>3. envelope \in [Cohort -> Bodies \cup {NoBody}] /\ DOMAIN telemetry = Cohort
        BY <1>1 DEF TimeoutInvariant, TimeoutTypeOK
      <3>4. CASE KeepEnvelope(p, body)
        BY <3>3, <3>4 DEF KeepEnvelope
      <3>5. CASE RefuseEnvelope(p, body)
        BY <3>2, <3>3, <3>5 DEF RefuseEnvelope
      <3> QED  BY <3>1, <3>4, <3>5
    <2>2. CASE RecordReply
      <3>1. replay.resume => ~Recorded(replay.at)
        BY <1>1, <2>2 DEF RecordReply, TimeoutInvariant, DescribesUnrecorded
      <3>2. DOMAIN telemetry = Cohort
        BY <1>1 DEF TimeoutInvariant, TimeoutTypeOK
      <3> QED  BY <2>2, <3>1, <3>2 DEF RecordReply
    <2>3. CASE RecordFailure
      <3>1. PICK p \in Cohort, category \in Failures :
               Asks(p) /\ telemetry' = [telemetry EXCEPT ![p] = Failed(category)]
        BY <2>3 DEF RecordFailure
      <3>2. DOMAIN telemetry = Cohort
        BY <1>1 DEF TimeoutInvariant, TimeoutTypeOK
      <3> QED  BY <2>3, <3>1, <3>2 DEF RecordFailure, Asks
    <2>4. CASE StartReplay \/ SkipRecorded \/ ReplayDies \/ RebuildCorpus
      BY <2>4 DEF StartReplay, SkipRecorded, ReplayDies, RebuildCorpus
    <2>5. CASE Insufficient \/ WriteCorrection \/ PrintEvaluation \/ ClassifyingDies \/ Diagnose
      BY <2>5 DEF Insufficient, WriteCorrection, PrintEvaluation, ClassifyingDies, Diagnose
    <2>6. CASE UNCHANGED timeoutVars
      BY <2>6 DEF timeoutVars
    <2> QED  BY <1>1, <2>1, <2>2, <2>3, <2>4, <2>5, <2>6 DEF TimeoutNext
  <1>2. ASSUME PrintEvaluation
        PROVE  LET total == summary'.valid + summary'.invalid + summary'.unrecorded
               IN total >= CohortSize /\ (unresolved = {} => total = CohortSize)
    <2>1. /\ summary'.valid = Counted("valid_generated_responses")
          /\ summary'.invalid = Counted("schema_pydantic_invalid")
          /\ summary'.unrecorded = Cardinality(Cohort \ Evaluated)
      BY <1>2 DEF PrintEvaluation, NotPrinted
    <2> QED  BY <2>1, EveryQueryCounted
  <1>3. TimeoutInvariant /\ TimeoutInvariant' /\ [TimeoutNext]_timeoutVars =>
           [/\ RepliesDescribed'
            /\ \A q \in Cohort :
                  /\ envelope[q] # NoBody => envelope'[q] = envelope[q]
                  /\ replay.resume /\ Recorded(q) => telemetry'[q] = telemetry[q]
            /\ PrintEvaluation =>
                  LET total == summary'.valid + summary'.invalid + summary'.unrecorded
                  IN total >= CohortSize /\ (unresolved = {} => total = CohortSize)]_timeoutVars
    BY <1>1, <1>2 DEF TimeoutInvariant
  <1> QED  BY <1>3, TimeoutInvariantHolds, PTL DEF TimeoutSpec, FirstReplyIsEvidence

-----------------------------------------------------------------------------
(***************************************************************************)
(* StageEvaluation: for any configurations, queries and populations.       *)
(***************************************************************************)
(* The documents of a stage are in order, none twice, the report last.     *)
LEMMA DocumentsInOrder ==
    ASSUME stage \in {"A", "D"}
    PROVE  /\ Len(Documents(stage)) \in Nat \ {0}
           /\ Documents(stage)[Len(Documents(stage))] = "report"
           /\ \A i \in 1 .. Len(Documents(stage)) :
                 /\ Documents(stage)[i] \in Names
                 /\ \A j \in 1 .. Len(Documents(stage)) :
                       Documents(stage)[i] = Documents(stage)[j] => i = j
  <1>1. CASE stage = "A"
    <2> DEFINE D == Documents(stage)
    <2>1. Len(D) = 4 /\ D[1] = "metrics" /\ D[2] = "outcomes" /\ D[3] = "comparison" /\ D[4] = "report"
      BY <1>1 DEF Documents
    <2> HIDE DEF D
    <2>2. \A i \in 1 .. 4 : i = 1 \/ i = 2 \/ i = 3 \/ i = 4
      OBVIOUS
    <2>3. \A i \in 1 .. 4 : D[i] \in Names /\ \A j \in 1 .. 4 : D[i] = D[j] => i = j
      BY <2>1, <2>2 DEF Names
    <2> QED  BY <2>1, <2>3 DEF D
  <1>2. CASE stage = "D"
    <2> DEFINE D == Documents(stage)
    <2>1. /\ Len(D) = 6 /\ D[1] = "reviews" /\ D[2] = "metrics" /\ D[3] = "outcomes"
          /\ D[4] = "policy" /\ D[5] = "comparison" /\ D[6] = "report"
      BY <1>2 DEF Documents
    <2> HIDE DEF D
    <2>2. \A i \in 1 .. 6 : i = 1 \/ i = 2 \/ i = 3 \/ i = 4 \/ i = 5 \/ i = 6
      OBVIOUS
    <2>3. \A i \in 1 .. 6 : D[i] \in Names /\ \A j \in 1 .. 6 : D[i] = D[j] => i = j
      BY <2>1, <2>2 DEF Names
    <2> QED  BY <2>1, <2>3 DEF D
  <1> QED  BY <1>1, <1>2

LEMMA FollowingDocument ==
    ASSUME stage \in {"A", "D"}, NEW i \in 1 .. Len(Documents(stage))
    PROVE  Following(Documents(stage)[i]) =
              IF i = Len(Documents(stage)) THEN "none" ELSE Documents(stage)[i + 1]
  <1>1. Position(Documents(stage)[i]) = i
    BY DocumentsInOrder DEF Position
  <1>2. Documents(stage)[i] = "report" <=> i = Len(Documents(stage))
    BY DocumentsInOrder
  <1> QED  BY <1>1, <1>2 DEF Following

(* What any ending is counted as: answered exactly when an answer was      *)
(* decided, and then the model had replied with one; a policy's when it    *)
(* ended before the model was asked.                                       *)
LEMMA EndingCounted ==
    ASSUME stage \in {"A", "D"}, NEW e \in EndingsOf(stage)
    PROVE  /\ e.decision \in {"answer", "abstain"}
           /\ e.decision = "answer" <=> OutcomeOf(e) = "successful_final_verified_answer"
           /\ e.decision = "answer" => e.raw = "answer"
           /\ e.completion = "policy" => OutcomeOf(e) \in PolicyOutcomes
           /\ \E category \in Categories : OutcomeOf(e) \in category
  <1> USE DEF OutcomeOf, FirstDecisiveOutcome, StageDOutcome, PolicyOutcomes, FailureOutcomes,
              Categories, Ending
  <1>1. CASE e = Ending("none", "timeout", "none", "abstain", "invalid")
    BY <1>1
  <1>2. CASE e = Ending("policy", "none", "none", "abstain", "policy")
    BY <1>2
  <1>3. CASE e = Ending("generation", "none", "answer", "answer", "none")
    BY <1>3
  <1>4. CASE e = Ending("generation", "none", "abstain", "abstain", "none")
    BY <1>4
  <1>5. CASE e = Ending("generation", "other", "invalid", "abstain", "invalid")
    BY <1>5
  <1>6. CASE e = Ending("generation", "other", "answer", "abstain", "quote")
    BY <1>6
  <1>7. CASE e = Ending("generation", "none", "answer", "abstain", "citation")
    BY <1>7
  <1>8. CASE stage = "A" /\ e = Ending("generation", "none", "answer", "abstain", "semantic support")
    BY <1>8
  <1> QED
    BY <1>1, <1>2, <1>3, <1>4, <1>5, <1>6, <1>7, <1>8 DEF EndingsOf, Endings, Unsupported

(* No outcome is of two categories. *)
LEMMA CategoriesDisjoint ==
    ASSUME NEW given \in Categories, NEW other \in Categories,
           NEW ending, ending \in given, ending \in other
    PROVE  given = other
  BY DEF Categories, PolicyOutcomes, FailureOutcomes

(* A document of stored results agrees with itself. *)
LEMMA StoredAgree ==
    ASSUME stage \in {"A", "D"}, NEW records \in [DevQueries -> StageFiles]
    PROVE  Agree(records)
  <1> DEFINE answered == {"successful_final_verified_answer"}
             top8 == "answerable_gold_in_top8"
             unanswerable == "explicitly_unanswerable"
             answers == Deciding(records, "answer")
  <1>1. \A q \in DevQueries : records[q].ending \in EndingsOf(stage)
    BY DEF StageFiles
  <1>2. \A S \in SUBSET DevQueries : IsFiniteSet(S) /\ Cardinality(S) \in Nat
    BY EvaluationAssumption, FS_Subset, FS_CardinalityType
  <1>3. \A q \in DevQueries :
           \E category \in Categories :
              {given \in Categories : OutcomeOf(records[q].ending) \in given} = {category}
    <2> SUFFICES ASSUME NEW q \in DevQueries
                 PROVE  \E category \in Categories :
                           {given \in Categories : OutcomeOf(records[q].ending) \in given} = {category}
      OBVIOUS
    <2>1. PICK category \in Categories : OutcomeOf(records[q].ending) \in category
      BY <1>1, EndingCounted
    <2>2. \A given \in Categories : OutcomeOf(records[q].ending) \in given => given = category
      BY <2>1, CategoriesDisjoint
    <2> QED  BY <2>1, <2>2
  <1>4. answers = Having(records, answered)
    BY <1>1, EndingCounted DEF Deciding, Having
  <1>5. answers \subseteq Replying(records, "answer") /\ Replying(records, "answer") \subseteq DevQueries
    BY <1>1, EndingCounted DEF Deciding, Replying
  <1>6. Deciding(records, "abstain") = DevQueries \ answers /\ answers \subseteq DevQueries
    BY <1>1, EndingCounted DEF Deciding
  <1>7. \A p \in Populations : InPopulation(p) \subseteq DevQueries
    BY DEF InPopulation
  <1>8. \A given \in Categories, p \in Populations :
           Row(records, p)[given] = Cardinality(Having(records, given) \cap InPopulation(p))
    BY DEF Row
  <1>9. answered \in Categories /\ PolicyOutcomes \in Categories
        /\ top8 \in Populations /\ unanswerable \in Populations
    BY DEF Categories, Populations
  <1> DEFINE M == Metrics(records)
             raw == RawFinal(records)
  <1>10. /\ M.answers = Cardinality(answers)
         /\ M.falseAnswers = Cardinality(answers \cap InPopulation(unanswerable))
         /\ M.falseAbstentions = Cardinality(Deciding(records, "abstain") \cap InPopulation(top8))
    BY DEF Metrics
  <1>11. /\ raw.rawAnswers = Cardinality(Replying(records, "answer"))
         /\ raw.failedClosed = Cardinality(Replying(records, "answer") \cap Deciding(records, "abstain"))
         /\ raw.finalAnswers = Cardinality(answers)
    BY DEF RawFinal
  <1> HIDE DEF answered, top8, unanswerable, answers, M, raw
  <1>12. raw.failedClosed = raw.rawAnswers - raw.finalAnswers
    <2>1. Replying(records, "answer") \cap Deciding(records, "abstain") = Replying(records, "answer") \ answers
      BY <1>5, <1>6
    <2>2. Replying(records, "answer") \cap answers = answers
      BY <1>5
    <2>3. IsFiniteSet(Replying(records, "answer"))
      BY <1>2, <1>5
    <2> QED  BY <1>11, <2>1, <2>2, <2>3, FS_Difference
  <1>13. M.falseAbstentions = Cardinality(InPopulation(top8)) - Row(records, top8)[answered]
    <2>1. Deciding(records, "abstain") \cap InPopulation(top8) = InPopulation(top8) \ answers
      BY <1>6, <1>7, <1>9
    <2>2. InPopulation(top8) \cap answers = Having(records, answered) \cap InPopulation(top8)
      BY <1>4
    <2>3. IsFiniteSet(InPopulation(top8))
      BY <1>2, <1>7, <1>9
    <2>4. Cardinality(InPopulation(top8) \ answers)
             = Cardinality(InPopulation(top8)) - Cardinality(InPopulation(top8) \cap answers)
      BY <2>3, FS_Difference
    <2> QED  BY <1>8, <1>9, <1>10, <2>1, <2>2, <2>4
  <1>14. Cardinality(PolicyRejections(records)) <= Row(records, top8)[PolicyOutcomes]
    <2>1. PolicyRejections(records) \subseteq Having(records, PolicyOutcomes) \cap InPopulation(top8)
      BY <1>1, EndingCounted DEF PolicyRejections, Having, InPopulation, top8
    <2>2. IsFiniteSet(Having(records, PolicyOutcomes) \cap InPopulation(top8))
      BY <1>2, <1>7, <1>9
    <2>3. Cardinality(PolicyRejections(records))
             <= Cardinality(Having(records, PolicyOutcomes) \cap InPopulation(top8))
      BY <2>1, <2>2, FS_Subset
    <2> QED  BY <1>8, <1>9, <2>3
  <1>15. Decision(records) = "NEEDS_QUALITATIVE_REVIEW" => Row(records, unanswerable)[answered] = 0
    <2>1. Decision(records) = "NEEDS_QUALITATIVE_REVIEW" => M.falseAnswers = 0
      BY DEF Decision, M
    <2> QED  BY <1>4, <1>8, <1>9, <1>10, <2>1
  <1> QED
    BY <1>3, <1>4, <1>10, <1>11, <1>12, <1>13, <1>14, <1>15
       DEF Agree, M, raw, answered, top8, unanswerable

(* An evaluation in progress trusts every query under one configuration,   *)
(* and the documents before the next are of what it trusts.                *)
PublishingInOrder ==
    publishing # "none" =>
        /\ \E config \in Configurations : \A q \in DevQueries : Trusted(q, config)
        /\ \E i \in 1 .. Len(Documents(stage)) :
              /\ publishing = Documents(stage)[i]
              /\ \A j \in 1 .. (i - 1) : documents[Documents(stage)[j]] = resultFile

(* A document there is holds a stored result of every query. *)
DocumentsStored ==
    \A name \in Names : documents[name] # NoDocument => documents[name] \in [DevQueries -> StageFiles]

EvaluationInvariant ==
    /\ EvaluationTypeOK
    /\ PublishingInOrder
    /\ DocumentsStored

(* What is trusted was stored. *)
LEMMA TrustedStored ==
    ASSUME EvaluationTypeOK, NEW config \in Configurations, \A q \in DevQueries : Trusted(q, config)
    PROVE  /\ resultFile \in [DevQueries -> StageFiles]
           /\ \A q \in DevQueries : /\ resultFile[q].config = config
                                     /\ stage = "D" => IsComplete(resultFile[q])
  <1>1. \A q \in DevQueries : resultFile[q].config = config
    BY DEF Trusted, Matches
  <1>2. \A q \in DevQueries : resultFile[q] # NotStored
    BY <1>1, EvaluationAssumption DEF NotStored
  <1>3. resultFile \in [DevQueries -> StageFiles]
    BY <1>2 DEF EvaluationTypeOK
  <1> QED  BY <1>1, <1>3 DEF Trusted

LEMMA EvaluationInvariantInit == EvaluationInit => EvaluationInvariant
  <1> SUFFICES ASSUME EvaluationInit PROVE EvaluationInvariant
    OBVIOUS
  <1>1. 0 \in 0 .. MaxStores /\ 0 \in 0 .. MaxEvaluations
    BY EvaluationAssumption
  <1>2. EvaluationTypeOK
    BY <1>1 DEF EvaluationInit, EvaluationTypeOK, NoDocument
  <1>3. PublishingInOrder /\ DocumentsStored
    BY DEF EvaluationInit, PublishingInOrder, DocumentsStored
  <1> QED  BY <1>2, <1>3 DEF EvaluationInvariant

(* The next document is published: it and those before it are of what the  *)
(* evaluation trusts.                                                      *)
LEMMA PublishStep ==
    ASSUME EvaluationInvariant, Publish
    PROVE  /\ EvaluationInvariant'
           /\ publishing = "report" =>
                 \A j \in 1 .. Len(Documents(stage)) : documents'[Documents(stage)[j]] = resultFile
           /\ \A name \in Names :
                 documents'[name] = IF name = publishing THEN resultFile ELSE documents[name]
  <1>0. EvaluationTypeOK /\ PublishingInOrder /\ DocumentsStored /\ stage \in {"A", "D"}
    BY DEF EvaluationInvariant, EvaluationTypeOK
  <1>1. /\ publishing # "none" /\ publishing' = Following(publishing)
        /\ documents' = [documents EXCEPT ![publishing] = resultFile]
        /\ UNCHANGED <<stage, resultFile, checkpointFile, stores, evaluations>>
    BY DEF Publish, evaluationFiles
  <1>2. PICK config \in Configurations : \A q \in DevQueries : Trusted(q, config)
    BY <1>0, <1>1 DEF PublishingInOrder
  <1>3. resultFile \in [DevQueries -> StageFiles]
    BY <1>0, <1>2, TrustedStored
  <1>4. PICK i \in 1 .. Len(Documents(stage)) :
           /\ publishing = Documents(stage)[i]
           /\ \A j \in 1 .. (i - 1) : documents[Documents(stage)[j]] = resultFile
    BY <1>0, <1>1 DEF PublishingInOrder
  <1>5. \A name \in Names :
           documents'[name] = IF name = publishing THEN resultFile ELSE documents[name]
    BY <1>0, <1>1 DEF EvaluationTypeOK
  <1>6. publishing' = IF i = Len(Documents(stage)) THEN "none" ELSE Documents(stage)[i + 1]
    BY <1>0, <1>1, <1>4, FollowingDocument
  <1>7. Len(Documents(stage)) \in Nat /\ i \in Nat
    BY <1>0, DocumentsInOrder
  <1>8. \A j \in 1 .. i : documents'[Documents(stage)[j]] = resultFile
    <2> SUFFICES ASSUME NEW j \in 1 .. i PROVE documents'[Documents(stage)[j]] = resultFile
      OBVIOUS
    <2>1. j \in 1 .. Len(Documents(stage)) /\ (j = i \/ j \in 1 .. (i - 1))
      BY <1>7
    <2>2. Documents(stage)[j] \in Names
      BY <1>0, <2>1, DocumentsInOrder
    <2> QED  BY <1>4, <1>5, <2>1, <2>2
  <1>9. publishing = "report" => i = Len(Documents(stage))
    <2>1. Len(Documents(stage)) \in 1 .. Len(Documents(stage))
      BY <1>7, <1>4
    <2> QED  BY <1>0, <1>4, <2>1, DocumentsInOrder
  <1>10. StageFiles' = StageFiles /\ (\A q \in DevQueries : Trusted(q, config)')
    BY <1>1, <1>2 DEF StageFiles, Trusted, Matches
  <1>11. EvaluationTypeOK'
    <2>1. publishing' \in Names \cup {"none"}
      <3>1. CASE i # Len(Documents(stage))
        <4>1. i + 1 \in 1 .. Len(Documents(stage))
          BY <1>7, <3>1
        <4> QED  BY <1>0, <1>6, <3>1, <4>1, DocumentsInOrder
      <3> QED  BY <1>6, <3>1
    <2>2. documents' \in [Names -> [DevQueries -> StageFiles \cup {NotStored}]]
      BY <1>0, <1>1 DEF EvaluationTypeOK
    <2> QED  BY <1>0, <1>1, <1>10, <2>1, <2>2 DEF EvaluationTypeOK
  <1>12. PublishingInOrder'
    <2>1. CASE i = Len(Documents(stage))
      BY <1>6, <2>1 DEF PublishingInOrder
    <2>2. CASE i # Len(Documents(stage))
      <3>1. i + 1 \in 1 .. Len(Documents(stage)) /\ (i + 1) - 1 = i
        BY <1>7, <2>2
      <3>2. publishing' = Documents(stage)[i + 1]
            /\ \A j \in 1 .. ((i + 1) - 1) : documents'[Documents(stage)[j]] = resultFile
        BY <1>6, <1>8, <2>2, <3>1
      <3>3. stage' = stage /\ resultFile' = resultFile
        BY <1>1
      <3> QED  BY <1>10, <3>1, <3>2, <3>3 DEF PublishingInOrder
    <2> QED  BY <2>1, <2>2
  <1>13. DocumentsStored'
    BY <1>0, <1>3, <1>5, <1>10 DEF DocumentsStored
  <1> QED  BY <1>5, <1>8, <1>9, <1>11, <1>12, <1>13 DEF EvaluationInvariant

LEMMA EvaluationInvariantStep ==
    EvaluationInvariant /\ [EvaluationNext]_evaluationVars => EvaluationInvariant'
  <1> SUFFICES ASSUME EvaluationInvariant, [EvaluationNext]_evaluationVars PROVE EvaluationInvariant'
    OBVIOUS
  <1>0. EvaluationTypeOK /\ PublishingInOrder /\ DocumentsStored /\ stage \in {"A", "D"}
    BY DEF EvaluationInvariant, EvaluationTypeOK
  <1>frame. ASSUME UNCHANGED <<stage, documents>> PROVE StageFiles' = StageFiles /\ DocumentsStored'
    BY <1>0, <1>frame DEF StageFiles, DocumentsStored
  <1>1. CASE StoresResult
    <2>1. PICK q \in DevQueries, file \in StageFiles : resultFile' = [resultFile EXCEPT ![q] = file]
      BY <1>1 DEF StoresResult
    <2>2. resultFile' \in [DevQueries -> StageFiles \cup {NotStored}]
      BY <1>0, <2>1 DEF EvaluationTypeOK
    <2>3. stores' \in 0 .. MaxStores
      BY <1>0, <1>1, EvaluationAssumption DEF StoresResult, EvaluationTypeOK
    <2> QED
      BY <1>0, <1>1, <1>frame, <2>2, <2>3 DEF StoresResult, EvaluationInvariant, EvaluationTypeOK,
                                              PublishingInOrder
  <1>2. CASE StoresCheckpoint
    <2>1. checkpointFile' \in [DevQueries -> StageFiles \cup {NotStored}]
      BY <1>0, <1>2 DEF StoresCheckpoint, EvaluationTypeOK
    <2> QED
      BY <1>0, <1>2, <1>frame, <2>1 DEF StoresCheckpoint, EvaluationInvariant, EvaluationTypeOK,
                                        PublishingInOrder
  <1>3. CASE LoadRecords
    <2>1. PICK config \in Configurations : \A q \in DevQueries : Trusted(q, config)
      BY <1>3 DEF LoadRecords
    <2>2. /\ publishing' = Documents(stage)[1]
          /\ UNCHANGED <<stage, resultFile, checkpointFile, stores, documents>>
      BY <1>3 DEF LoadRecords, evaluationFiles
    <2>3. 1 \in 1 .. Len(Documents(stage)) /\ Documents(stage)[1] \in Names
      BY <1>0, DocumentsInOrder
    <2>4. evaluations' \in 0 .. MaxEvaluations
      BY <1>0, <1>3, EvaluationAssumption DEF LoadRecords, EvaluationTypeOK
    <2>5. EvaluationTypeOK'
      BY <1>0, <1>frame, <2>2, <2>3, <2>4 DEF EvaluationTypeOK
    <2>6. \A q \in DevQueries : Trusted(q, config)'
      BY <2>1, <2>2 DEF Trusted, Matches
    <2>7. PublishingInOrder'
      <3>1. Documents(stage)' = Documents(stage) /\ 1 .. (1 - 1) = {}
        BY <2>2
      <3> QED  BY <2>2, <2>3, <2>6, <3>1 DEF PublishingInOrder
    <2> QED  BY <1>frame, <2>2, <2>5, <2>7 DEF EvaluationInvariant
  <1>4. CASE Publish
    BY <1>4, PublishStep
  <1>5. CASE EvaluationDies
    BY <1>0, <1>5, <1>frame DEF EvaluationDies, evaluationFiles, EvaluationInvariant, EvaluationTypeOK,
                                PublishingInOrder
  <1>6. CASE UNCHANGED evaluationVars
    <2>1. UNCHANGED <<stage, resultFile, checkpointFile, stores, evaluations, publishing, documents>>
      BY <1>6 DEF evaluationVars, evaluationFiles
    <2>2. PublishingInOrder'
      BY <1>0, <2>1 DEF PublishingInOrder, Trusted, Matches
    <2> QED  BY <1>0, <1>frame, <2>1, <2>2 DEF EvaluationInvariant, EvaluationTypeOK
  <1> QED  BY <1>1, <1>2, <1>3, <1>4, <1>5, <1>6 DEF EvaluationNext

(* The invariant holds in every state of every behaviour. *)
LEMMA EvaluationInvariantHolds == EvaluationSpec => []EvaluationInvariant
  BY EvaluationInvariantInit, EvaluationInvariantStep, PTL DEF EvaluationSpec

(* Files and documents have their types. *)
THEOREM EvaluationTypeCorrect == EvaluationSpec => []EvaluationTypeOK
  <1>1. EvaluationInvariant => EvaluationTypeOK
    BY DEF EvaluationInvariant
  <1> QED  BY <1>1, EvaluationInvariantHolds, PTL

(* A report and all the documents beside it are of one evaluation, under   *)
(* one configuration, and every document's counts agree                    *)
(* (generation/evaluation.py, generation/stage_d_evaluation.py).           *)
THEOREM ReportOfOneEvaluation == EvaluationSpec => ReportIsOfOneEvaluation
  <1>1. ASSUME EvaluationInvariant, EvaluationInvariant', [EvaluationNext]_evaluationVars,
               NEW name \in Names, documents'[name] # NoDocument
        PROVE  Agree(documents'[name])
    <2>1. stage' = stage /\ stage \in {"A", "D"}
      BY <1>1 DEF EvaluationNext, StoresResult, StoresCheckpoint, LoadRecords, Publish, EvaluationDies,
                  evaluationVars, EvaluationInvariant, EvaluationTypeOK
    <2>2. StageFiles' = StageFiles
      BY <2>1 DEF StageFiles
    <2>3. documents'[name] \in [DevQueries -> StageFiles]
      BY <1>1, <2>2 DEF EvaluationInvariant, DocumentsStored
    <2> QED  BY <2>1, <2>3, StoredAgree
  <1>2. ASSUME EvaluationInvariant, [EvaluationNext]_evaluationVars
        PROVE  documents'["report"] # documents["report"] =>
                  /\ \A i \in 1 .. Len(Documents(stage)) :
                        documents'[Documents(stage)[i]] = documents'["report"]
                  /\ \E config \in Configurations : \A q \in DevQueries :
                        /\ documents'["report"][q].config = config
                        /\ stage = "D" => IsComplete(documents'["report"][q])
    <2> SUFFICES ASSUME documents'["report"] # documents["report"]
                 PROVE  /\ \A i \in 1 .. Len(Documents(stage)) :
                              documents'[Documents(stage)[i]] = documents'["report"]
                        /\ \E config \in Configurations : \A q \in DevQueries :
                              /\ documents'["report"][q].config = config
                              /\ stage = "D" => IsComplete(documents'["report"][q])
      OBVIOUS
    <2>1. Publish
      BY <1>2 DEF EvaluationNext, StoresResult, StoresCheckpoint, LoadRecords, EvaluationDies,
                  evaluationVars
    <2>2. publishing = "report" /\ documents'["report"] = resultFile
      BY <1>2, <2>1, PublishStep DEF Names
    <2>3. \A i \in 1 .. Len(Documents(stage)) : documents'[Documents(stage)[i]] = resultFile
      BY <1>2, <2>1, <2>2, PublishStep
    <2>4. PICK config \in Configurations : \A q \in DevQueries : Trusted(q, config)
      BY <1>2, <2>2 DEF EvaluationInvariant, PublishingInOrder
    <2>5. \A q \in DevQueries : resultFile[q].config = config /\ (stage = "D" => IsComplete(resultFile[q]))
      BY <2>4 DEF Trusted, Matches
    <2> QED  BY <2>2, <2>3, <2>5
  <1>3. EvaluationInvariant /\ EvaluationInvariant' /\ [EvaluationNext]_evaluationVars =>
           [/\ \A name \in Names : documents'[name] # NoDocument => Agree(documents'[name])
            /\ documents'["report"] # documents["report"] =>
                  /\ \A i \in 1 .. Len(Documents(stage)) :
                        documents'[Documents(stage)[i]] = documents'["report"]
                  /\ \E config \in Configurations : \A q \in DevQueries :
                        /\ documents'["report"][q].config = config
                        /\ stage = "D" => IsComplete(documents'["report"][q])]_evaluationVars
    BY <1>1, <1>2
  <1> QED  BY <1>3, EvaluationInvariantHolds, PTL DEF EvaluationSpec, ReportIsOfOneEvaluation

-----------------------------------------------------------------------------
(***************************************************************************)
(* ContextAudit: for any chunks, units, budgets and number of audits.      *)
(***************************************************************************)
LEMMA AuditedDocuments ==
    /\ DOMAIN AuditedInOrder = 1 .. 4
    /\ \A i \in 1 .. 4 : AuditedInOrder[i] \in AuditedFiles
    /\ \A name \in AuditedFiles : \E i \in 1 .. 4 : name = AuditedInOrder[i]
    /\ \A i, j \in 1 .. 4 : AuditedInOrder[i] = AuditedInOrder[j] => i = j
    /\ Cardinality(AuditedFiles) = 4
  <1> DEFINE D == AuditedInOrder
  <1>1. /\ D[1] = "policy" /\ D[2] = "schema" /\ D[3] = "contexts" /\ D[4] = "citations"
        /\ DOMAIN D = 1 .. 4
    BY DEF AuditedInOrder
  <1> HIDE DEF D
  <1>2. \A i \in 1 .. 4 : i = 1 \/ i = 2 \/ i = 3 \/ i = 4
    OBVIOUS
  <1>3. AuditedFiles = {D[i] : i \in DOMAIN D}
    BY DEF AuditedFiles, D
  <1>4. AuditedFiles = {"policy", "schema", "contexts", "citations"}
    BY <1>1, <1>2, <1>3
  <1>5. Cardinality({"policy", "schema", "contexts", "citations"}) = 4
    <2>1. IsFiniteSet({}) /\ Cardinality({}) = 0
      BY FS_EmptySet
    <2>2. IsFiniteSet({"policy"}) /\ Cardinality({"policy"}) = 1
      BY FS_Singleton
    <2>3. IsFiniteSet({"policy", "schema"}) /\ Cardinality({"policy", "schema"}) = 2
      <3>1. {"policy"} \cup {"schema"} = {"policy", "schema"} /\ "schema" \notin {"policy"}
        OBVIOUS
      <3> QED  BY <2>2, <3>1, FS_AddElement
    <2>4. IsFiniteSet({"policy", "schema", "contexts"}) /\ Cardinality({"policy", "schema", "contexts"}) = 3
      <3>1. {"policy", "schema"} \cup {"contexts"} = {"policy", "schema", "contexts"}
            /\ "contexts" \notin {"policy", "schema"}
        OBVIOUS
      <3> QED  BY <2>3, <3>1, FS_AddElement
    <2> QED
      <3>1. {"policy", "schema", "contexts"} \cup {"citations"} = {"policy", "schema", "contexts", "citations"}
            /\ "citations" \notin {"policy", "schema", "contexts"}
        OBVIOUS
      <3> QED  BY <2>4, <3>1, FS_AddElement
  <1>6. \A i \in 1 .. 4 : D[i] \in AuditedFiles
    BY <1>1, <1>3
  <1>7. \A name \in AuditedFiles : \E i \in 1 .. 4 : name = D[i]
    BY <1>1, <1>3
  <1>8. \A i, j \in 1 .. 4 : D[i] = D[j] => i = j
    BY <1>1, <1>2
  <1> QED  BY <1>1, <1>4, <1>5, <1>6, <1>7, <1>8 DEF D

(* The frozen inputs are what they were made: a chunk has units, and what  *)
(* is judged relevant was retrieved.                                       *)
InputsFrozen ==
    /\ chunkUnits \in [Chunks -> (SUBSET EvidenceUnits) \ {{}}]
    /\ goldChunks \in SUBSET Chunks

(* The packs are of the audit in progress, and so is every document it has *)
(* written.                                                                *)
AuditInOrder ==
    auditing # NotAuditing =>
        /\ auditing.next \in 1 .. 5
        /\ packsOf = auditing.limit
        /\ \A i \in 1 .. (auditing.next - 1) : auditedFiles[AuditedInOrder[i]] = auditing.limit

AuditInvariant ==
    /\ AuditTypeOK
    /\ InputsFrozen
    /\ AuditInOrder

(* What is lost of the relevant chunks is lost to the budget: each of them *)
(* has a unit, and the unbounded assembly leaves no unit out.              *)
LEMMA CountsAlwaysAgree ==
    ASSUME InputsFrozen, NEW limit
    PROVE  CountsAgree(limit)
  <1> DEFINE units == Pack(limit)
             kept == RetainedGold(units)
             lost == goldChunks \ kept
             retention == Retention(units)
             metrics == ConditionalRetention(units)
  <1> HIDE DEF units
  <1>1. IsFiniteSet(goldChunks) /\ kept \subseteq goldChunks
    <2>1. IsFiniteSet(1 .. ChunkCount)
      BY AuditAssumption, FS_Interval
    <2> QED  BY <2>1, FS_Subset DEF InputsFrozen, Chunks, RetainedGold
  <1>2. \A n \in Chunks : Represented(n, Unbounded)
    <2> SUFFICES ASSUME NEW n \in Chunks PROVE Represented(n, Unbounded)
      OBVIOUS
    <2>1. chunkUnits[n] # {}
      BY DEF InputsFrozen
    <2>2. chunkUnits[n] \subseteq InputUnits
      BY DEF InputUnits
    <2> QED  BY <2>1, <2>2 DEF Represented, Unbounded
  <1>3. Losses(units)["token budget"] = Cardinality(lost)
    <2> DEFINE reasons == [n \in lost |->
                  IF Represented(n, Unbounded) THEN "token budget" ELSE LossReason(n)]
    <2>1. \A n \in lost : reasons[n] = "token budget"
      BY <1>2 DEF InputsFrozen
    <2>2. {n \in lost : reasons[n] = "token budget"} = lost
      BY <2>1
    <2>3. Losses(units)["token budget"] = Cardinality({n \in lost : reasons[n] = "token budget"})
      BY DEF Losses
    <2> QED  BY <2>2, <2>3
  <1>4. RetainedGold(Unbounded) = goldChunks
    BY <1>2 DEF RetainedGold, InputsFrozen
  <1>5. Cardinality(lost) = Cardinality(goldChunks) - Cardinality(kept)
        /\ Cardinality(goldChunks) \in Nat /\ Cardinality(kept) \in Nat
    <2>1. goldChunks \cap kept = kept /\ IsFiniteSet(kept)
      BY <1>1, FS_Subset
    <2> QED  BY <1>1, <2>1, FS_Difference, FS_CardinalityType
  <1>6. /\ retention.gold = Cardinality(goldChunks)
        /\ retention.budgeted = Cardinality(kept)
        /\ retention.unbounded = Cardinality(RetainedGold(Unbounded))
        /\ retention.losses["token budget"] = Cardinality(lost)
        /\ retention.lostQueries = One(goldChunks # {}) - One(kept # {})
    BY <1>3 DEF Retention
  <1>7. /\ metrics.goldQueries = One(goldChunks # {})
        /\ metrics.retainedQueries = One(kept # {})
        /\ metrics.completeQueries = One(AllEvidence(InputUnits))
        /\ metrics.retainedComplete = One(AllEvidence(InputUnits) /\ AllEvidence(units))
    BY DEF ConditionalRetention
  <1> HIDE DEF kept, lost, retention, metrics
  <1>8. /\ retention.budgeted + retention.losses["token budget"] = retention.gold
        /\ retention.unbounded = retention.gold
        /\ BudgetOnlyLosses(retention) = retention.losses["token budget"]
    <2> DEFINE gold == retention.gold
               budgeted == retention.budgeted
               losses == retention.losses["token budget"]
    <2>1. budgeted \in Nat /\ gold \in Nat /\ retention.unbounded = gold /\ losses = gold - budgeted
      BY <1>4, <1>5, <1>6
    <2>2. BudgetOnlyLosses(retention) = (gold - budgeted) - (gold - gold)
      BY <2>1 DEF BudgetOnlyLosses
    <2> HIDE DEF gold, budgeted, losses
    <2>3. budgeted + losses = gold /\ (gold - budgeted) - (gold - gold) = losses
      BY <2>1
    <2> QED  BY <2>1, <2>2, <2>3 DEF gold, budgeted, losses
  <1>9. metrics.retainedComplete <= metrics.completeQueries
    <2>1. CASE AllEvidence(InputUnits)
      BY <1>7, <2>1 DEF One
    <2>2. CASE ~AllEvidence(InputUnits)
      BY <1>7, <2>2 DEF One
    <2> QED  BY <2>1, <2>2
  <1>10. CompleteEvidence(units) <=> evidence = {} \/ metrics.retainedComplete = 1
    <2>1. metrics.retainedComplete = 1 <=> AllEvidence(InputUnits) /\ AllEvidence(units)
      BY <1>7 DEF One
    <2> QED  BY <2>1 DEF CompleteEvidence, AllEvidence, AllGroups
  <1> QED  BY <1>6, <1>7, <1>8, <1>9, <1>10 DEF CountsAgree, units, retention, metrics

LEMMA AuditInvariantInit == AuditInit => AuditInvariant
  <1> SUFFICES ASSUME AuditInit PROVE AuditInvariant
    OBVIOUS
  <1>1. InputsFrozen /\ AuditInOrder
    BY DEF AuditInit, InputsFrozen, AuditInOrder
  <1>2. AuditTypeOK
    <2>1. Blank \in [AuditedFiles -> Limits \cup {Unaudited}]
      BY DEF Blank
    <2>2. 0 \in 0 .. (Cardinality(AuditedFiles) + 1) /\ 0 \in 0 .. MaxAudits
      BY AuditedDocuments, AuditAssumption
    <2> QED  BY <2>1, <2>2 DEF AuditInit, AuditTypeOK, NotAuditing, AuditReport
  <1> QED  BY <1>1, <1>2 DEF AuditInvariant

LEMMA AuditInvariantStep == AuditInvariant /\ [AuditNext]_auditVars => AuditInvariant'
  <1> SUFFICES ASSUME AuditInvariant, [AuditNext]_auditVars PROVE AuditInvariant'
    OBVIOUS
  <1>0. AuditTypeOK /\ InputsFrozen /\ AuditInOrder
    BY DEF AuditInvariant
  <1>1. InputsFrozen'
    <2>1. UNCHANGED <<chunkUnits, goldChunks>>
      BY DEF AuditNext, AssembleDev, StartAudit, WriteAudited, WriteReport, AuditDies, auditVars,
             frozenInputs
    <2> QED  BY <1>0, <2>1 DEF InputsFrozen, Chunks, EvidenceUnits
  <1>2. ASSUME NEW limit \in Limits, AssembleDev(limit) PROVE AuditInvariant'
    BY <1>0, <1>1, <1>2 DEF AssembleDev, AuditInvariant, AuditTypeOK, AuditInOrder
  <1>3. ASSUME NEW limit \in Limits, StartAudit(limit) PROVE AuditInvariant'
    <2>1. audits' \in 0 .. MaxAudits /\ 1 \in 0 .. (Cardinality(AuditedFiles) + 1)
      BY <1>0, <1>3, AuditedDocuments, AuditAssumption DEF StartAudit, AuditTypeOK
    <2>2. AuditTypeOK'
      BY <1>0, <1>3, <2>1 DEF StartAudit, AuditTypeOK
    <2>3. AuditInOrder'
      BY <1>3 DEF StartAudit, AuditInOrder
    <2> QED  BY <1>1, <2>2, <2>3 DEF AuditInvariant
  <1>4. CASE WriteAudited
    <2> DEFINE n == auditing.next
    <2>1. n \in 1 .. 4 /\ auditing # NotAuditing /\ packsOf = auditing.limit
          /\ \A i \in 1 .. (n - 1) : auditedFiles[AuditedInOrder[i]] = auditing.limit
      BY <1>0, <1>4, AuditedDocuments DEF WriteAudited, NotAuditing, AuditInOrder
    <2>2. /\ auditedFiles' = [auditedFiles EXCEPT ![AuditedInOrder[n]] = packsOf]
          /\ auditing' = [auditing EXCEPT !.next = n + 1]
          /\ UNCHANGED <<packsOf, audits, auditReport>>
      BY <1>4 DEF WriteAudited
    <2>3. /\ auditing' \in [limit : Limits \cup {Unaudited}, next : 0 .. (Cardinality(AuditedFiles) + 1)]
          /\ auditing'.next = n + 1 /\ auditing'.limit = auditing.limit
      <3>1. n + 1 \in 0 .. (Cardinality(AuditedFiles) + 1)
        BY <2>1, AuditedDocuments
      <3> QED  BY <1>0, <2>2, <3>1 DEF AuditTypeOK
    <2>4. auditedFiles' \in [AuditedFiles -> Limits \cup {Unaudited}]
      BY <1>0, <2>2 DEF AuditTypeOK
    <2>5. AuditTypeOK'
      BY <1>0, <2>2, <2>3, <2>4 DEF AuditTypeOK
    <2>6. \A i \in 1 .. n : auditedFiles'[AuditedInOrder[i]] = auditing.limit
      <3> SUFFICES ASSUME NEW i \in 1 .. n PROVE auditedFiles'[AuditedInOrder[i]] = auditing.limit
        OBVIOUS
      <3>1. i \in 1 .. 4 /\ (i = n \/ i \in 1 .. (n - 1))
        BY <2>1
      <3>2. AuditedInOrder[i] \in AuditedFiles
        BY <3>1, AuditedDocuments
      <3> QED  BY <1>0, <2>1, <2>2, <3>1, <3>2 DEF AuditTypeOK
    <2>7. n + 1 \in 1 .. 5 /\ (n + 1) - 1 = n
      BY <2>1
    <2> HIDE DEF n
    <2>8. AuditInOrder'
      BY <2>1, <2>2, <2>3, <2>6, <2>7 DEF AuditInOrder
    <2> QED  BY <1>1, <2>5, <2>8 DEF AuditInvariant
  <1>5. CASE WriteReport
    <2>1. /\ auditReport' = [limit |-> auditing.limit, hashed |-> auditedFiles]
          /\ auditing' = NotAuditing /\ UNCHANGED <<packsOf, auditedFiles, audits>>
      BY <1>5 DEF WriteReport, AuditReport
    <2>2. 0 \in 0 .. (Cardinality(AuditedFiles) + 1)
      BY AuditedDocuments
    <2>3. AuditTypeOK'
      BY <1>0, <2>1, <2>2 DEF AuditTypeOK, NotAuditing
    <2> QED  BY <1>1, <2>1, <2>3 DEF AuditInvariant, AuditInOrder
  <1>6. CASE AuditDies
    <2>1. auditing' = NotAuditing /\ UNCHANGED <<packsOf, audits, auditReport>>
      BY <1>6 DEF AuditDies
    <2>2. auditedFiles' \in [AuditedFiles -> Limits \cup {Unaudited}]
      BY <1>0, <1>6 DEF AuditDies, AuditTypeOK
    <2>3. 0 \in 0 .. (Cardinality(AuditedFiles) + 1)
      BY AuditedDocuments
    <2>4. AuditTypeOK'
      BY <1>0, <2>1, <2>2, <2>3 DEF AuditTypeOK, NotAuditing
    <2> QED  BY <1>1, <2>1, <2>4 DEF AuditInvariant, AuditInOrder
  <1>7. CASE UNCHANGED auditVars
    BY <1>0, <1>1, <1>7 DEF auditVars, AuditInvariant, AuditTypeOK, AuditInOrder
  <1> QED  BY <1>2, <1>3, <1>4, <1>5, <1>6, <1>7 DEF AuditNext

(* The invariant holds in every state of every behaviour. *)
LEMMA AuditInvariantHolds == AuditSpec => []AuditInvariant
  BY AuditInvariantInit, AuditInvariantStep, PTL DEF AuditSpec

(* What one step may publish. *)
LEMMA AuditStepSound == AuditInvariant /\ [AuditNext]_auditVars => AuditIsSound
  <1> SUFFICES ASSUME AuditInvariant, [AuditNext]_auditVars, auditReport' # auditReport
               PROVE  /\ \A name \in AuditedFiles : auditReport'.hashed[name] = auditReport'.limit
                      /\ CountsAgree(auditReport'.limit)
    BY DEF AuditIsSound
  <1>1. WriteReport
    BY DEF AuditNext, AssembleDev, StartAudit, WriteAudited, WriteReport, AuditDies, auditVars
  <1>2. auditing # NotAuditing /\ auditing.next \notin 1 .. 4 /\ auditing.next \in 1 .. 5
        /\ \A i \in 1 .. (auditing.next - 1) : auditedFiles[AuditedInOrder[i]] = auditing.limit
    BY <1>1, AuditedDocuments DEF WriteReport, AuditInvariant, AuditInOrder
  <1>3. \A i \in 1 .. 4 : auditedFiles[AuditedInOrder[i]] = auditing.limit
    BY <1>2
  <1>4. \A name \in AuditedFiles : auditedFiles[name] = auditing.limit
    BY <1>3, AuditedDocuments
  <1>5. auditReport'.hashed = auditedFiles /\ auditReport'.limit = auditing.limit
    BY <1>1 DEF WriteReport, AuditReport
  <1>6. \A limit : CountsAgree(limit)
    BY CountsAlwaysAgree DEF AuditInvariant
  <1> QED  BY <1>4, <1>5, <1>6

(* A published report is over four documents of its own audit, and its     *)
(* counts agree (grounding/dev.py, grounding/evaluation.py).               *)
THEOREM AuditSound == AuditSpec => [][AuditIsSound]_auditVars
  BY AuditStepSound, AuditInvariantHolds, PTL DEF AuditSpec

-----------------------------------------------------------------------------
(***************************************************************************)
(* Readiness: for any number of queries, prompts, policies and contexts.   *)
(***************************************************************************)
LEMMA QueriesFinite ==
    /\ IsFiniteSet(ReadyQueries) /\ Cardinality(ReadyQueries) = ReadyCount
    /\ \A S \in SUBSET ReadyQueries : IsFiniteSet(S) /\ Cardinality(S) \in 0 .. ReadyCount
  <1>1. IsFiniteSet(1 .. ReadyCount)
        /\ Cardinality(1 .. ReadyCount) = IF 1 > ReadyCount THEN 0 ELSE ReadyCount - 1 + 1
    BY ReadinessAssumption, FS_Interval
  <1>2. IsFiniteSet(ReadyQueries) /\ Cardinality(ReadyQueries) = ReadyCount
    BY <1>1, ReadinessAssumption DEF ReadyQueries
  <1>3. ASSUME NEW S \in SUBSET ReadyQueries
        PROVE  IsFiniteSet(S) /\ Cardinality(S) \in 0 .. ReadyCount
    <2>1. IsFiniteSet(S) /\ Cardinality(S) <= ReadyCount
      BY <1>2, FS_Subset
    <2>2. Cardinality(S) \in Nat
      BY <2>1, FS_CardinalityType
    <2> QED  BY <2>1, <2>2, ReadinessAssumption
  <1> QED  BY <1>2, <1>3

(* Of queries there are, one has the longest prompt: the one fewest prompts*)
(* are longer than.                                                        *)
LEMMA LongestPrompt ==
    ASSUME NEW S \in SUBSET ReadyQueries, S # {}
    PROVE  \E g \in S : \A q \in S : PromptTokens[q] <= PromptTokens[g]
  <1> DEFINE Longer(x) == {q \in S : PromptTokens[q] > PromptTokens[x]}
             K == {Cardinality(Longer(x)) : x \in S}
  <1>0. \A q \in S : PromptTokens[q] \in Nat
    BY ReadinessAssumption
  <1>1. \A x \in S : Longer(x) \in SUBSET S /\ IsFiniteSet(Longer(x)) /\ Cardinality(Longer(x)) \in Nat
    BY QueriesFinite
  <1>2. K \in SUBSET Nat /\ K # {}
    BY <1>1
  <1>3. PICK k \in K : \A j \in K : k <= j
    BY <1>2, LeastOf
  <1>4. PICK g \in S : k = Cardinality(Longer(g))
    BY <1>3
  <1>5. ASSUME NEW q \in S, PromptTokens[q] > PromptTokens[g] PROVE FALSE
    <2>1. Longer(q) \in SUBSET Longer(g) /\ q \in Longer(g) /\ q \notin Longer(q)
      BY <1>0, <1>5
    <2>2. Cardinality(Longer(q)) <= Cardinality(Longer(g)) /\ Cardinality(Longer(g)) # Cardinality(Longer(q))
      BY <1>1, <2>1, FS_Subset
    <2>3. Cardinality(Longer(q)) \in K
      OBVIOUS
    <2> HIDE DEF Longer
    <2> QED  BY <1>1, <1>3, <1>4, <2>2, <2>3
  <1> HIDE DEF Longer
  <1> QED  BY <1>0, <1>5

(* How many prompts are no longer, and how many must not be. *)
NoLonger(queries, v) == Cardinality({q \in queries : PromptTokens[q] <= v})
Place100(queries, percent) == (percent * Cardinality(queries) + 99) \div 100

LEMMA NearestRankDefined ==
    ASSUME NEW queries \in SUBSET ReadyQueries, queries # {}, NEW percent \in 1 .. 100
    PROVE  /\ NearestRank(queries, percent) \in {PromptTokens[q] : q \in queries}
           /\ NoLonger(queries, NearestRank(queries, percent)) >= Place100(queries, percent)
           /\ \A q \in queries : PromptTokens[q] < NearestRank(queries, percent) =>
                 NoLonger(queries, PromptTokens[q]) < Place100(queries, percent)
  <1> DEFINE place == Place100(queries, percent)
             V == {PromptTokens[q] : q \in queries}
             W == {v \in V : NoLonger(queries, v) >= place}
  <1>0. V \in SUBSET Nat
    BY ReadinessAssumption
  <1>1. \A v \in V : NoLonger(queries, v) \in Nat
    <2> SUFFICES ASSUME NEW v \in V PROVE NoLonger(queries, v) \in Nat
      OBVIOUS
    <2>1. {q \in queries : PromptTokens[q] <= v} \in SUBSET ReadyQueries
      OBVIOUS
    <2> QED  BY <2>1, QueriesFinite DEF NoLonger
  <1>2. Cardinality(queries) \in Nat
    BY QueriesFinite
  <1>3. place \in Nat /\ place <= Cardinality(queries)
    <2> DEFINE n == Cardinality(queries)
    <2>1. n \in Nat
      BY <1>2
    <2> HIDE DEF n
    <2>2. percent * n \in Nat /\ percent * n <= 100 * n
      BY <2>1
    <2>3. (percent * n + 99) \div 100 \in Nat /\ (percent * n + 99) \div 100 <= n
      BY <2>1, <2>2
    <2> QED  BY <2>3 DEF n, Place100
  <1>4. W # {}
    <2>1. PICK g \in queries : \A q \in queries : PromptTokens[q] <= PromptTokens[g]
      BY LongestPrompt
    <2>2. {q \in queries : PromptTokens[q] <= PromptTokens[g]} = queries
      BY <2>1
    <2>3. NoLonger(queries, PromptTokens[g]) >= place
      BY <1>2, <1>3, <2>2 DEF NoLonger
    <2> QED  BY <2>3
  <1>5. PICK v \in W : \A w \in W : v <= w
    BY <1>0, <1>4, LeastOf
  <1>6. ASSUME NEW q \in queries, PromptTokens[q] < v PROVE NoLonger(queries, PromptTokens[q]) < place
    <2>1. PromptTokens[q] \in V /\ PromptTokens[q] \in Nat /\ v \in Nat
      BY <1>0
    <2>2. PromptTokens[q] \notin W
      BY <1>5, <1>6, <2>1
    <2> QED  BY <1>1, <1>3, <2>1, <2>2
  <1> DEFINE Fit(x) == /\ NoLonger(queries, x) >= place
                       /\ \A q \in queries : PromptTokens[q] < x =>
                             NoLonger(queries, PromptTokens[q]) < place
  <1>7. NearestRank(queries, percent) = CHOOSE x \in V : Fit(x)
    BY DEF NearestRank, NoLonger, Place100
  <1>8. v \in V /\ Fit(v)
    BY <1>5, <1>6
  <1> HIDE DEF V, Fit
  <1>9. NearestRank(queries, percent) \in V /\ Fit(NearestRank(queries, percent))
    BY <1>7, <1>8
  <1> QED  BY <1>9 DEF V, Fit

(* What the percentiles of any prompts are. *)
LEMMA TokensAlwaysSummed ==
    ASSUME NEW queries \in SUBSET ReadyQueries
    PROVE  TokensSummed(queries, TokenSummary(queries))
  <1> DEFINE n == Cardinality(queries)
             Shorter(v) == Cardinality({q \in queries : PromptTokens[q] < v})
             tokens == TokenSummary(queries)
  <1>1. /\ n \in Nat
        /\ \A v : NoLonger(queries, v) \in Nat /\ NoLonger(queries, v) <= n
        /\ \A v : Shorter(v) \in Nat
    <2>1. n \in Nat /\ IsFiniteSet(queries)
      BY QueriesFinite
    <2>2. ASSUME NEW v PROVE NoLonger(queries, v) \in Nat /\ NoLonger(queries, v) <= n
      <3>1. {q \in queries : PromptTokens[q] <= v} \in SUBSET queries
        OBVIOUS
      <3>2. NoLonger(queries, v) <= n /\ NoLonger(queries, v) \in Nat
        BY <2>1, <3>1, FS_Subset, FS_CardinalityType DEF NoLonger
      <3> QED  BY <2>1, <3>2
    <2>3. ASSUME NEW v PROVE Shorter(v) \in Nat
      <3>1. {q \in queries : PromptTokens[q] < v} \in SUBSET queries
        OBVIOUS
      <3> QED  BY <2>1, <3>1, FS_Subset, FS_CardinalityType
    <2> QED  BY <2>1, <2>2, <2>3
  <1>2. CASE queries = {}
    <2>1. n = 0
      BY <1>2, FS_EmptySet
    <2>2. \A v : NoLonger(queries, v) = 0
      BY <1>1, <2>1
    <2> QED  BY <2>1, <2>2 DEF TokensSummed, NoLonger
  <1>3. CASE queries # {}
    <2> DEFINE p50 == NearestRank(queries, 50)
               p95 == NearestRank(queries, 95)
               max == NearestRank(queries, 100)
    <2>0. tokens.p50 = p50 /\ tokens.p95 = p95 /\ tokens.max = max
      BY <1>3 DEF TokenSummary
    <2>1. n > 0
      <3>1. n # 0
        BY <1>3, QueriesFinite, FS_EmptySet
      <3> QED  BY <1>1, <3>1
    <2>2. 2 * NoLonger(queries, p50) >= n
      <3>1. NoLonger(queries, p50) >= (50 * n + 99) \div 100
        BY <1>3, NearestRankDefined DEF Place100
      <3>2. n \in Nat /\ NoLonger(queries, p50) \in Nat /\ NoLonger(queries, p50) <= n
        BY <1>1
      <3> HIDE DEF n, p50
      <3> QED  BY <3>1, <3>2
    <2>3. 20 * NoLonger(queries, p95) >= 19 * n
      <3>1. NoLonger(queries, p95) >= (95 * n + 99) \div 100
        BY <1>3, NearestRankDefined DEF Place100
      <3>2. n \in Nat /\ NoLonger(queries, p95) \in Nat /\ NoLonger(queries, p95) <= n
        BY <1>1
      <3> HIDE DEF n, p95
      <3> QED  BY <3>1, <3>2
    <2>4. NoLonger(queries, max) = n
      <3>1. NoLonger(queries, max) >= (100 * n + 99) \div 100
        BY <1>3, NearestRankDefined DEF Place100
      <3>2. n \in Nat /\ NoLonger(queries, max) \in Nat /\ NoLonger(queries, max) <= n
        BY <1>1
      <3> HIDE DEF n, max
      <3> QED  BY <3>1, <3>2
    <2>5. 2 * Shorter(p50) < n
      <3> DEFINE T == {q \in queries : PromptTokens[q] < p50}
      <3>1. CASE T = {}
        BY <2>1, <3>1, FS_EmptySet
      <3>2. CASE T # {}
        <4>1. PICK g \in T : \A q \in T : PromptTokens[q] <= PromptTokens[g]
          BY <3>2, LongestPrompt
        <4>2. p50 \in Nat /\ \A q \in queries : PromptTokens[q] \in Nat
          BY <1>3, NearestRankDefined, ReadinessAssumption
        <4>3. T = {q \in queries : PromptTokens[q] <= PromptTokens[g]}
          BY <4>1, <4>2
        <4>4. NoLonger(queries, PromptTokens[g]) < (50 * n + 99) \div 100
          BY <1>3, <4>1, NearestRankDefined DEF Place100
        <4>5. Shorter(p50) = NoLonger(queries, PromptTokens[g])
          BY <4>3 DEF NoLonger
        <4>6. n \in Nat /\ NoLonger(queries, PromptTokens[g]) \in Nat
          BY <1>1
        <4> HIDE DEF n, Shorter
        <4> QED  BY <4>4, <4>5, <4>6
      <3> QED  BY <3>1, <3>2
    <2> HIDE DEF p50, p95, max, tokens
    <2> QED  BY <2>0, <2>2, <2>3, <2>4, <2>5 DEF TokensSummed, NoLonger, tokens
  <1> QED  BY <1>2, <1>3

(* The stage, what can be assembled and what the policy says are given. *)
StageGiven ==
    /\ generatorName \in Stages
    /\ fits \in [ReadyQueries -> Fits]
    /\ policy \in [ReadyQueries -> IF generatorName = "D" THEN Verdicts ELSE Verdicts \ {"raises"}]

HasContext(q) == packs[q] # "absent" /\ (Paired => registries[q] # "absent")

(* A command at work has failed for fewer queries than it has come to.  It *)
(* only decides and generates in a run, on a context it prepared; Stage D's*)
(* record waits for the summary of the same counts.                        *)
CommandInOrder ==
    command # NoCommand =>
        /\ command.does \in {"readiness", "generation"}
        /\ command.query \in 1 .. (ReadyCount + 1)
        /\ command.errors <= command.query - 1
        /\ command.step \in {"deciding", "generating", "failing"} => command.does = "generation"
        /\ command.step \in {"deciding", "generating"} => command.query \in preparedFor
        /\ command.step = "quoting" => Paired /\ packs[command.query] = command.request
        /\ command.does = "readiness" =>
              command.request = IF generatorName = "D" THEN "plain" ELSE "text"
        /\ command.step = "recording" =>
              /\ generatorName = "D" /\ command.does = "readiness"
              /\ tracked = Counts
              /\ \A q \in preparedFor : policy[q] # "raises"

(* A pack is only there if it could be assembled, a registry only after it. *)
FilesPossible ==
    \A q \in ReadyQueries :
        /\ packs[q] # "absent" => CanPrepare(q, packs[q])
        /\ Paired /\ registries[q] # "absent" => packs[q] # "absent"

(* What a command prepared has its files, with the jurisdiction's text when*)
(* readiness asked for it; so has what a run completed, and Stage C is only*)
(* ready with all of them.                                                 *)
PreparedHad ==
    \A q \in preparedFor :
        /\ HasContext(q)
        /\ command.does = "readiness" /\ generatorName # "D" => CanPrepare(q, "text")

CompletedHad == Paired => \A q \in ReadyQueries : recorded[q] = "completed" => HasContext(q)

ReadyHad ==
    generatorName = "C" /\ ready # NoReport =>
        \A q \in ReadyQueries : CanPrepare(q, "text") /\ HasContext(q)

ReadinessInvariant ==
    /\ ReadinessTypeOK
    /\ StageGiven
    /\ CommandInOrder
    /\ FilesPossible
    /\ PreparedHad
    /\ CompletedHad
    /\ ReadyHad

Requested == {"absent", "plain", "text"}
Commands == [does : {"nothing", "readiness", "generation"}, query : 0 .. (ReadyCount + 1),
             request : {"plain", "text"},
             step : {"asking", "quoting", "deciding", "generating", "failing", "recording"},
             errors : 0 .. ReadyCount]
TokenValues == {PromptTokens[q] : q \in ReadyQueries} \cup {0}
Reports == [contexts : 0 .. ReadyCount, eligible : 0 .. ReadyCount, abstained : 0 .. ReadyCount,
            tokens : [p50 : TokenValues, p95 : TokenValues, max : TokenValues]]

LEMMA ReadinessTypes ==
    ReadinessTypeOK <=>
        /\ packs \in [ReadyQueries -> Requested]
        /\ registries \in [ReadyQueries -> Requested]
        /\ recorded \in [ReadyQueries -> {"absent", "completed", "incomplete"}]
        /\ command \in Commands
        /\ preparedFor \subseteq ReadyQueries
        /\ tracked \in Reports /\ ready \in Reports
  BY DEF ReadinessTypeOK, Requested, Commands, TokenValues, Reports

LEMMA NoCommandType == NoCommand \in Commands /\ NoCommand.does = "nothing"
  BY ReadinessAssumption DEF NoCommand, Commands

LEMMA CountsType ==
    ASSUME preparedFor \in SUBSET ReadyQueries
    PROVE  Counts \in Reports
  <1>1. Eligible \in SUBSET ReadyQueries /\ Abstained \in SUBSET ReadyQueries
    BY DEF Eligible, Abstained
  <1>2. /\ Cardinality(preparedFor) \in 0 .. ReadyCount
        /\ Cardinality(Eligible) \in 0 .. ReadyCount
        /\ Cardinality(Abstained) \in 0 .. ReadyCount
    BY <1>1, QueriesFinite
  <1>3. TokenSummary(Eligible) \in [p50 : TokenValues, p95 : TokenValues, max : TokenValues]
    <2>1. CASE Eligible = {}
      BY <2>1 DEF TokenSummary, NoTokens, TokenValues
    <2>2. CASE Eligible # {}
      <3>1. /\ NearestRank(Eligible, 50) \in TokenValues
            /\ NearestRank(Eligible, 95) \in TokenValues
            /\ NearestRank(Eligible, 100) \in TokenValues
        <4>1. ASSUME NEW percent \in 1 .. 100 PROVE NearestRank(Eligible, percent) \in TokenValues
          BY <1>1, <2>2, NearestRankDefined DEF TokenValues
        <4> QED  BY <4>1
      <3> QED  BY <2>2, <3>1 DEF TokenSummary
    <2> QED  BY <2>1, <2>2
  <1> QED  BY <1>2, <1>3 DEF Counts, Reports

LEMMA ReadinessInvariantInit == ReadinessInit => ReadinessInvariant
  <1> SUFFICES ASSUME ReadinessInit PROVE ReadinessInvariant
    OBVIOUS
  <1>1. NoReport \in Reports
    BY ReadinessAssumption DEF NoReport, NoTokens, Reports, TokenValues
  <1>2. packs \in [ReadyQueries -> {"absent"}] /\ registries = packs /\ recorded = packs
    BY DEF ReadinessInit
  <1>3. ReadinessTypeOK
    BY <1>1, <1>2, NoCommandType, ReadinessTypes DEF ReadinessInit, Requested
  <1>4. StageGiven
    BY DEF ReadinessInit, StageGiven
  <1>5. FilesPossible /\ CompletedHad
    BY <1>2 DEF FilesPossible, CompletedHad
  <1>6. CommandInOrder /\ PreparedHad /\ ReadyHad
    BY DEF ReadinessInit, CommandInOrder, PreparedHad, ReadyHad
  <1> QED  BY <1>3, <1>4, <1>5, <1>6 DEF ReadinessInvariant

(* A step that leaves files, results and reports alone, and what was       *)
(* prepared, disturbs only the command.                                    *)
LEMMA CommandFrame ==
    ASSUME ReadinessInvariant, UNCHANGED <<givenStage, caches, recorded, preparedFor, tracked, ready>>,
           command' \in Commands, CommandInOrder', command'.does \in {command.does, "nothing"}
    PROVE  ReadinessInvariant'
  <1>1. UNCHANGED <<generatorName, fits, policy, packs, registries, recorded, preparedFor, tracked, ready>>
    BY DEF givenStage, caches
  <1>2. ReadinessTypeOK'
    <2>1. ReadinessTypeOK
      BY DEF ReadinessInvariant
    <2> QED  BY <1>1, <2>1 DEF ReadinessTypeOK, Commands
  <1>3. (StageGiven /\ FilesPossible /\ CompletedHad /\ ReadyHad)'
    BY <1>1 DEF ReadinessInvariant, StageGiven, FilesPossible, CompletedHad, ReadyHad, HasContext, Paired,
                CanPrepare
  <1>4. PreparedHad'
    BY <1>1 DEF ReadinessInvariant, PreparedHad, HasContext, Paired, CanPrepare
  <1> QED  BY <1>2, <1>3, <1>4 DEF ReadinessInvariant

(* A command stops, whatever it had done. *)
LEMMA CommandStops ==
    ASSUME ReadinessInvariant, UNCHANGED <<givenStage, caches, preparedFor>>, command' = NoCommand,
           recorded' \in [ReadyQueries -> {"absent", "completed", "incomplete"}],
           \A q \in ReadyQueries : recorded'[q] = "completed" => recorded[q] = "completed",
           tracked' = tracked, ready' \in Reports,
           generatorName = "C" /\ ready' # NoReport =>
              \A q \in ReadyQueries : CanPrepare(q, "text") /\ HasContext(q)
    PROVE  ReadinessInvariant'
  <1>1. UNCHANGED <<generatorName, fits, policy, packs, registries, preparedFor, tracked>>
    BY DEF givenStage, caches
  <1>2. ReadinessTypeOK'
    <2>1. ReadinessTypeOK
      BY DEF ReadinessInvariant
    <2> QED  BY <1>1, <2>1, NoCommandType DEF ReadinessTypeOK, Commands, Reports, TokenValues
  <1>3. (StageGiven /\ FilesPossible)'
    BY <1>1 DEF ReadinessInvariant, StageGiven, FilesPossible, Paired, CanPrepare
  <1>4. CommandInOrder'
    BY DEF CommandInOrder
  <1>5. PreparedHad'
    BY <1>1, NoCommandType DEF ReadinessInvariant, PreparedHad, HasContext, Paired
  <1>6. CompletedHad' /\ ReadyHad'
    BY <1>1 DEF ReadinessInvariant, CompletedHad, ReadyHad, HasContext, Paired, CanPrepare
  <1> QED  BY <1>2, <1>3, <1>4, <1>5, <1>6 DEF ReadinessInvariant

(* A context is there for the query in hand: on to the next step. *)
LEMMA PreparedStep ==
    ASSUME ReadinessInvariant, NEW q \in ReadyQueries, command.query = q,
           command.step \in {"asking", "quoting"}, NowPrepared(q),
           UNCHANGED <<givenStage, recorded, tracked, ready>>,
           packs' \in [ReadyQueries -> Requested], registries' \in [ReadyQueries -> Requested],
           FilesPossible', packs'[q] = command.request, Paired => registries'[q] # "absent",
           \A p \in ReadyQueries : /\ packs[p] # "absent" => packs'[p] # "absent"
                                   /\ registries[p] # "absent" => registries'[p] # "absent"
    PROVE  ReadinessInvariant'
  <1>0. ReadinessTypeOK /\ StageGiven /\ CommandInOrder /\ PreparedHad /\ CompletedHad /\ ReadyHad
    BY DEF ReadinessInvariant
  <1>1. UNCHANGED <<generatorName, fits, policy, recorded, tracked, ready>> /\ Paired' = Paired
    BY DEF givenStage, Paired
  <1>2. command # NoCommand /\ command \in Commands /\ q \in Nat /\ q <= ReadyCount
    BY <1>0, ReadinessTypes, ReadinessAssumption DEF NoCommand, ReadyQueries
  <1>3. /\ command.does \in {"readiness", "generation"} /\ command.errors <= q - 1
        /\ command.does = "readiness" => command.request = IF generatorName = "D" THEN "plain" ELSE "text"
    BY <1>0, <1>2 DEF CommandInOrder
  <1>4. command' = AfterPrepared(q) /\ preparedFor' = preparedFor \cup {q}
    BY DEF NowPrepared
  <1>types. command.errors \in Nat /\ 1 <= q /\ q + 1 <= ReadyCount + 1
    BY <1>2, ReadinessAssumption DEF Commands, ReadyQueries
  <1>5. /\ command' \in Commands /\ command'.does = command.does /\ command'.request = command.request
        /\ command'.query \in 1 .. (ReadyCount + 1) /\ command'.errors <= command'.query - 1
        /\ command'.step \in {"asking", "deciding", "generating"}
        /\ command'.step \in {"deciding", "generating"} =>
              command'.does = "generation" /\ command'.query = q
    <2>1. CASE command.does = "readiness" /\ policy[q] = "raises"
      <3>1. command' = [command EXCEPT !.query = q + 1, !.step = "asking", !.errors = command.errors + 1]
        BY <1>4, <2>1 DEF AfterPrepared
      <3>2. /\ q + 1 \in 0 .. (ReadyCount + 1) /\ q + 1 \in 1 .. (ReadyCount + 1)
            /\ command.errors + 1 \in 0 .. ReadyCount /\ command.errors + 1 <= (q + 1) - 1
        BY <1>2, <1>3, <1>types, ReadinessAssumption DEF Commands
      <3>3. /\ command' \in Commands /\ command'.query = q + 1 /\ command'.errors = command.errors + 1
            /\ command'.step = "asking" /\ command'.does = command.does /\ command'.request = command.request
        BY <1>2, <3>1, <3>2 DEF Commands
      <3> QED  BY <3>2, <3>3
    <2>2. CASE command.does = "readiness" /\ policy[q] # "raises"
      <3>1. command' = [command EXCEPT !.query = q + 1, !.step = "asking", !.errors = command.errors]
        BY <1>4, <2>2 DEF AfterPrepared
      <3>2. /\ q + 1 \in 0 .. (ReadyCount + 1) /\ q + 1 \in 1 .. (ReadyCount + 1)
            /\ command.errors \in 0 .. ReadyCount /\ command.errors <= (q + 1) - 1
        BY <1>2, <1>3, <1>types, ReadinessAssumption DEF Commands
      <3>3. /\ command' \in Commands /\ command'.query = q + 1 /\ command'.errors = command.errors
            /\ command'.step = "asking" /\ command'.does = command.does /\ command'.request = command.request
        BY <1>2, <3>1, <3>2 DEF Commands
      <3> QED  BY <3>2, <3>3
    <2>3. CASE command.does = "generation"
      <3>1. \E step \in {"deciding", "generating"} : command' = [command EXCEPT !.step = step]
        BY <1>4, <2>3 DEF AfterPrepared
      <3>2. q \in 1 .. (ReadyCount + 1)
        BY <1>2, ReadinessAssumption DEF ReadyQueries
      <3> QED  BY <1>2, <1>3, <2>3, <3>1, <3>2 DEF Commands
    <2> QED  BY <1>3, <2>1, <2>2, <2>3
  <1>6. ReadinessTypeOK'
    <2>1. preparedFor' \subseteq ReadyQueries
      BY <1>0, <1>4, ReadinessTypes
    <2> QED  BY <1>0, <1>1, <1>5, <2>1 DEF ReadinessTypeOK, Commands, Requested
  <1>7. StageGiven'
    BY <1>0, <1>1 DEF StageGiven
  <1>8. CommandInOrder'
    BY <1>1, <1>3, <1>4, <1>5 DEF CommandInOrder
  <1>9. \A p \in ReadyQueries : HasContext(p) => HasContext(p)'
    BY <1>1 DEF HasContext
  <1>10. HasContext(q)'
    BY <1>1, <1>2 DEF HasContext, Commands
  <1>11. \A p \in ReadyQueries : CanPrepare(p, "text")' = CanPrepare(p, "text")
    BY <1>1 DEF CanPrepare
  <1>12. command.does = "readiness" /\ generatorName # "D" => CanPrepare(q, "text")
    BY <1>1, <1>3 DEF FilesPossible, CanPrepare
  <1>13. preparedFor \subseteq ReadyQueries
    BY <1>0, ReadinessTypes
  <1>14. PreparedHad'
    BY <1>0, <1>1, <1>4, <1>5, <1>9, <1>10, <1>11, <1>12, <1>13 DEF PreparedHad
  <1>15. CompletedHad'
    BY <1>0, <1>1, <1>9 DEF CompletedHad
  <1>16. ReadyHad'
    BY <1>0, <1>1, <1>9, <1>11 DEF ReadyHad
  <1> QED  BY <1>6, <1>7, <1>8, <1>14, <1>15, <1>16 DEF ReadinessInvariant

LEMMA ReadinessInvariantStep ==
    ReadinessInvariant /\ [ReadinessNext]_readinessVars => ReadinessInvariant'
  <1> SUFFICES ASSUME ReadinessInvariant, [ReadinessNext]_readinessVars PROVE ReadinessInvariant'
    OBVIOUS
  <1>0. /\ ReadinessTypeOK /\ StageGiven /\ CommandInOrder /\ FilesPossible /\ PreparedHad
        /\ CompletedHad /\ ReadyHad
    BY DEF ReadinessInvariant
  <1>types. /\ packs \in [ReadyQueries -> Requested] /\ registries \in [ReadyQueries -> Requested]
            /\ recorded \in [ReadyQueries -> {"absent", "completed", "incomplete"}]
            /\ command \in Commands /\ preparedFor \subseteq ReadyQueries
            /\ tracked \in Reports /\ ready \in Reports
    BY <1>0, ReadinessTypes
  <1>query. ASSUME NEW q \in ReadyQueries, command.query = q
            PROVE  command # NoCommand /\ q \in Nat /\ q <= ReadyCount /\ q \in 1 .. (ReadyCount + 1)
    BY <1>query, ReadinessAssumption DEF NoCommand, ReadyQueries
  <1>1. CASE StartReadiness \/ StartGeneration
    <2>1. /\ preparedFor' = {} /\ UNCHANGED <<packs, registries, recorded, tracked, ready>>
          /\ UNCHANGED <<generatorName, fits, policy>>
      BY <1>1 DEF StartReadiness, StartGeneration, givenStage, caches
    <2>2. /\ command' \in Commands /\ command'.does \in {"readiness", "generation"}
          /\ command'.query = 1 /\ command'.errors = 0 /\ command'.step = "asking"
          /\ command'.does = "readiness" =>
                command'.request = IF generatorName = "D" THEN "plain" ELSE "text"
      <3>1. 1 \in 0 .. (ReadyCount + 1) /\ 0 \in 0 .. ReadyCount
        BY ReadinessAssumption
      <3>2. CASE StartReadiness
        <4>1. command' = [does |-> "readiness", query |-> 1,
                          request |-> IF generatorName = "D" THEN "plain" ELSE "text",
                          step |-> "asking", errors |-> 0]
          BY <3>2 DEF StartReadiness, NoCommand
        <4> QED  BY <3>1, <4>1 DEF Commands
      <3>3. CASE StartGeneration
        <4>1. command' = [does |-> "generation", query |-> 1, request |-> "plain",
                          step |-> "asking", errors |-> 0]
          BY <3>3 DEF StartGeneration, NoCommand
        <4> QED  BY <3>1, <4>1 DEF Commands
      <3> QED  BY <1>1, <3>2, <3>3
    <2>3. ReadinessTypeOK'
      BY <1>types, <2>1, <2>2 DEF ReadinessTypeOK, Commands, Requested, Reports, TokenValues
    <2>4. CommandInOrder'
      BY <2>1, <2>2, ReadinessAssumption DEF CommandInOrder
    <2>5. (StageGiven /\ FilesPossible /\ CompletedHad /\ ReadyHad)'
      BY <1>0, <2>1 DEF StageGiven, FilesPossible, CompletedHad, ReadyHad, HasContext, Paired, CanPrepare
    <2>6. PreparedHad'
      BY <2>1 DEF PreparedHad
    <2> QED  BY <2>3, <2>4, <2>5, <2>6 DEF ReadinessInvariant
  <1>2. ASSUME NEW q \in ReadyQueries, LoadPrepared(q) PROVE ReadinessInvariant'
    <2>1. /\ command.query = q /\ command.step = "asking" /\ packs[q] = command.request
          /\ Paired => registries[q] = command.request
          /\ NowPrepared(q)
          /\ UNCHANGED <<givenStage, packs, registries, recorded, tracked, ready>>
      BY <1>2 DEF LoadPrepared, Asking, caches
    <2>2. FilesPossible'
      BY <1>0, <2>1 DEF FilesPossible, givenStage, Paired, CanPrepare
    <2>3. command.request # "absent"
      BY <1>types DEF Commands
    <2> QED  BY <1>types, <2>1, <2>2, <2>3, PreparedStep
  <1>3. ASSUME NEW q \in ReadyQueries, WritePack(q) PROVE ReadinessInvariant'
    <2>1. /\ command.query = q /\ command.step = "asking" /\ CanPrepare(q, command.request)
          /\ packs' = [packs EXCEPT ![q] = command.request]
          /\ UNCHANGED <<generatorName, fits, policy, registries, recorded, tracked, ready>>
          /\ UNCHANGED givenStage
      BY <1>3 DEF WritePack, Asking, givenStage
    <2>2. /\ packs' \in [ReadyQueries -> Requested] /\ packs'[q] = command.request
          /\ command.request # "absent" /\ \A p \in ReadyQueries \ {q} : packs'[p] = packs[p]
      BY <1>types, <2>1 DEF Commands, Requested
    <2>3. Paired' = Paired /\ \A p \in ReadyQueries, r \in Requested : CanPrepare(p, r)' = CanPrepare(p, r)
      BY <2>1 DEF Paired, CanPrepare
    <2>4. FilesPossible'
      <3>1. fits'[q] = "both" \/ (fits'[q] = "plain" /\ packs'[q] = "plain")
        BY <2>1, <2>2 DEF CanPrepare
      <3>2. \A p \in ReadyQueries \ {q} : packs'[p] # "absent" =>
                fits'[p] = "both" \/ (fits'[p] = "plain" /\ packs'[p] = "plain")
        BY <1>0, <2>1, <2>2 DEF FilesPossible, CanPrepare
      <3>3. \A p \in ReadyQueries : packs[p] # "absent" => packs'[p] # "absent"
        BY <2>1, <2>2
      <3> QED  BY <1>0, <2>1, <2>3, <3>1, <3>2, <3>3 DEF FilesPossible, CanPrepare
    <2>5. CASE ~Paired
      BY <1>3, <1>types, <2>1, <2>2, <2>4, <2>5, PreparedStep DEF WritePack
    <2>6. CASE Paired
      <3>1. command' = [command EXCEPT !.step = "quoting"] /\ preparedFor' = preparedFor
        BY <1>3, <2>6 DEF WritePack
      <3>2. /\ command' \in Commands /\ command'.step = "quoting" /\ command'.does = command.does
            /\ command'.query = q /\ command'.errors = command.errors /\ command'.request = command.request
        BY <1>types, <2>1, <3>1 DEF Commands
      <3>3. ReadinessTypeOK'
        BY <1>0, <2>1, <2>2, <3>1, <3>2 DEF ReadinessTypeOK, Commands, Requested
      <3>4. CommandInOrder'
        BY <1>0, <1>query, <2>1, <2>2, <2>3, <2>6, <3>2 DEF CommandInOrder
      <3>5. \A p \in ReadyQueries : HasContext(p) => HasContext(p)'
        BY <2>1, <2>2, <2>3 DEF HasContext
      <3>6. \A p \in ReadyQueries : CanPrepare(p, "text")' = CanPrepare(p, "text")
        BY <2>3 DEF Requested
      <3>7. PreparedHad'
        BY <1>0, <1>types, <2>1, <3>1, <3>2, <3>5, <3>6 DEF PreparedHad
      <3>8. CompletedHad'
        BY <1>0, <2>1, <2>3, <3>5 DEF CompletedHad
      <3>9. ReadyHad'
        BY <1>0, <2>1, <3>5, <3>6 DEF ReadyHad
      <3>10. StageGiven'
        BY <1>0, <2>1 DEF StageGiven
      <3> QED  BY <2>4, <3>3, <3>4, <3>7, <3>8, <3>9, <3>10 DEF ReadinessInvariant
    <2> QED  BY <2>5, <2>6
  <1>4. ASSUME NEW q \in ReadyQueries, WriteRegistry(q) PROVE ReadinessInvariant'
    <2>1. /\ command.query = q /\ command.step = "quoting" /\ NowPrepared(q)
          /\ registries' = [registries EXCEPT ![q] = command.request]
          /\ UNCHANGED <<givenStage, packs, recorded, tracked, ready>>
      BY <1>4 DEF WriteRegistry
    <2>2. Paired /\ packs[q] = command.request /\ command.request \in {"plain", "text"}
      BY <1>0, <1>query, <1>types, <2>1 DEF CommandInOrder, Commands
    <2>3. /\ registries' \in [ReadyQueries -> Requested] /\ registries'[q] = command.request
          /\ \A p \in ReadyQueries \ {q} : registries'[p] = registries[p]
      BY <1>types, <2>1, <2>2 DEF Requested
    <2>4. FilesPossible'
      BY <1>0, <2>1, <2>2, <2>3 DEF FilesPossible, givenStage, Paired, CanPrepare
    <2> QED  BY <1>types, <2>1, <2>2, <2>3, <2>4, PreparedStep
  <1>5. ASSUME NEW q \in ReadyQueries, PreparationFails(q) PROVE ReadinessInvariant'
    <2>1. /\ command.query = q /\ command.step \in {"asking", "quoting"}
          /\ UNCHANGED <<givenStage, caches, recorded, preparedFor, tracked, ready>>
      BY <1>5 DEF PreparationFails
    <2>2. /\ command.does \in {"readiness", "generation"} /\ command.errors <= q - 1
          /\ command.does = "readiness" => command.request = IF generatorName = "D" THEN "plain" ELSE "text"
      BY <1>0, <1>query, <2>1 DEF CommandInOrder
    <2>3. CASE command.does = "readiness"
      <3>1. command' = [command EXCEPT !.query = q + 1, !.step = "asking", !.errors = command.errors + 1]
        BY <1>5, <2>1, <2>3 DEF PreparationFails
      <3>2. q + 1 \in 1 .. (ReadyCount + 1) /\ q + 1 \in 0 .. (ReadyCount + 1)
            /\ command.errors + 1 \in 0 .. ReadyCount /\ command.errors + 1 <= (q + 1) - 1
        BY <1>query, <1>types, <2>1, <2>2, ReadinessAssumption DEF Commands
      <3>3. /\ command' \in Commands /\ command'.query = q + 1 /\ command'.errors = command.errors + 1
            /\ command'.step = "asking" /\ command'.does = command.does /\ command'.request = command.request
        BY <1>types, <3>1, <3>2 DEF Commands
      <3>4. CommandInOrder'
        BY <2>1, <2>2, <3>2, <3>3 DEF CommandInOrder, givenStage
      <3> QED  BY <2>1, <3>3, <3>4, CommandFrame
    <2>4. CASE command.does = "generation"
      <3>1. command' = [command EXCEPT !.step = "failing"]
        BY <1>5, <2>4 DEF PreparationFails
      <3>2. /\ command' \in Commands /\ command'.query = q /\ command'.errors = command.errors
            /\ command'.step = "failing" /\ command'.does = "generation"
        BY <1>types, <2>1, <2>4, <3>1 DEF Commands
      <3>3. CommandInOrder'
        BY <1>query, <2>1, <2>2, <3>2 DEF CommandInOrder
      <3> QED  BY <2>1, <2>4, <3>2, <3>3, CommandFrame
    <2> QED  BY <2>2, <2>3, <2>4
  <1>6. ASSUME NEW q \in ReadyQueries, Decide(q) PROVE ReadinessInvariant'
    <2>1. /\ command.query = q /\ command.step = "deciding"
          /\ UNCHANGED <<givenStage, caches, recorded, preparedFor, tracked, ready>>
      BY <1>6 DEF Decide
    <2>2. command.does = "generation" /\ command.errors <= q - 1 /\ q \in preparedFor
      BY <1>0, <1>query, <2>1 DEF CommandInOrder
    <2>3. /\ command' \in Commands /\ command'.query = q /\ command'.errors = command.errors
          /\ command'.step \in {"asking", "generating"} /\ command'.does = "generation"
      BY <1>6, <1>types, <2>1, <2>2 DEF Decide, Commands
    <2>4. CommandInOrder'
      BY <1>query, <2>1, <2>2, <2>3 DEF CommandInOrder
    <2> QED  BY <2>1, <2>2, <2>3, <2>4, CommandFrame
  <1>7. ASSUME NEW q \in ReadyQueries, Generate(q) PROVE ReadinessInvariant'
    <2>1. /\ command.query = q /\ command.step \in {"generating", "failing"} /\ command' = NextQuery
          /\ UNCHANGED <<generatorName, fits, policy, packs, registries, preparedFor, tracked, ready>>
      BY <1>7 DEF Generate, givenStage, caches
    <2>2. /\ command.does = "generation" /\ command.errors <= q - 1
          /\ command.step = "generating" => q \in preparedFor
      BY <1>0, <1>query, <2>1 DEF CommandInOrder
    <2>3. /\ command' \in Commands /\ command'.query = q + 1 /\ command'.errors = command.errors
          /\ command'.step = "asking" /\ command'.does = "generation"
      <3>1. q + 1 \in 0 .. (ReadyCount + 1)
        BY <1>query, <2>1, ReadinessAssumption
      <3>2. command' = [command EXCEPT !.query = q + 1, !.step = "asking", !.request = "plain"]
        BY <2>1 DEF NextQuery
      <3> QED  BY <1>types, <2>2, <3>1, <3>2 DEF Commands
    <2>4. /\ recorded' \in [ReadyQueries -> {"absent", "completed", "incomplete"}]
          /\ \A p \in ReadyQueries : recorded'[p] = "completed" => recorded[p] = "completed" \/ p \in preparedFor
      BY <1>7, <1>types, <2>2 DEF Generate
    <2>5. ReadinessTypeOK'
      BY <1>0, <2>1, <2>3, <2>4 DEF ReadinessTypeOK, Commands
    <2>6. CommandInOrder'
      <3>1. q + 1 \in 1 .. (ReadyCount + 1) /\ command.errors <= (q + 1) - 1
        BY <1>query, <1>types, <2>1, <2>2, ReadinessAssumption DEF Commands
      <3> QED  BY <2>3, <3>1 DEF CommandInOrder
    <2>7. (StageGiven /\ FilesPossible /\ ReadyHad)'
      BY <1>0, <2>1 DEF StageGiven, FilesPossible, ReadyHad, HasContext, Paired, CanPrepare
    <2>8. PreparedHad'
      BY <1>0, <2>1, <2>3 DEF PreparedHad, HasContext, Paired
    <2>9. CompletedHad'
      BY <1>0, <2>1, <2>4 DEF CompletedHad, PreparedHad, HasContext, Paired
    <2> QED  BY <2>5, <2>6, <2>7, <2>8, <2>9 DEF ReadinessInvariant
  <1>8. CASE ReadinessDies
    <2>1. /\ recorded' \in [ReadyQueries -> {"absent", "completed", "incomplete"}]
          /\ \A q \in ReadyQueries : recorded'[q] = "completed" => recorded[q] = "completed"
      BY <1>8, <1>types DEF ReadinessDies
    <2>2. generatorName = "C" /\ ready # NoReport =>
             \A q \in ReadyQueries : CanPrepare(q, "text") /\ HasContext(q)
      BY <1>0 DEF ReadyHad
    <2> QED  BY <1>8, <1>types, <2>1, <2>2, CommandStops DEF ReadinessDies
  <1>9. CASE GenerationEnds
    BY <1>0, <1>9, <1>types, CommandStops DEF GenerationEnds, ReadyHad
  <1>10. CASE RecordPrepared
    <2>1. /\ AllAsked /\ command.does = "readiness" /\ generatorName # "D"
          /\ ready' = IF generatorName = "C" /\ AllPrepared THEN Counts ELSE ready
          /\ command' = NoCommand
          /\ UNCHANGED <<givenStage, caches, recorded, preparedFor, tracked>>
      BY <1>10 DEF RecordPrepared
    <2>2. ready' \in Reports
      BY <1>types, <2>1, CountsType
    <2>3. generatorName = "C" /\ ready' # NoReport =>
             \A q \in ReadyQueries : CanPrepare(q, "text") /\ HasContext(q)
      <3>1. CASE AllPrepared
        BY <1>0, <2>1, <3>1 DEF AllPrepared, PreparedHad
      <3>2. CASE ~AllPrepared
        BY <1>0, <2>1, <3>2 DEF ReadyHad
      <3> QED  BY <3>1, <3>2
    <2> QED  BY <1>types, <2>1, <2>2, <2>3, CommandStops
  <1>11. CASE TrackReadiness
    <2>1. /\ command # NoCommand /\ command.does = "readiness" /\ generatorName = "D"
          /\ \A q \in preparedFor : policy[q] # "raises"
          /\ tracked' = Counts /\ command' = [command EXCEPT !.step = "recording"]
          /\ UNCHANGED <<generatorName, fits, policy, packs, registries, recorded, preparedFor, ready>>
      BY <1>11 DEF TrackReadiness, AllAsked, givenStage, caches
    <2>2. /\ command' \in Commands /\ command'.query = command.query /\ command'.errors = command.errors
          /\ command'.step = "recording" /\ command'.does = "readiness"
          /\ command'.request = command.request
      BY <1>types, <2>1 DEF Commands
    <2>3. tracked' \in Reports
      BY <1>types, <2>1, CountsType
    <2>4. ReadinessTypeOK'
      BY <1>0, <2>1, <2>2, <2>3 DEF ReadinessTypeOK, Commands, Reports, TokenValues
    <2>5. Counts' = Counts
      BY <2>1 DEF Counts, Eligible, Abstained
    <2>6. CommandInOrder'
      BY <1>0, <2>1, <2>2, <2>5 DEF CommandInOrder
    <2>7. (StageGiven /\ FilesPossible /\ CompletedHad /\ ReadyHad)'
      BY <1>0, <2>1 DEF StageGiven, FilesPossible, CompletedHad, ReadyHad, HasContext, Paired, CanPrepare
    <2>8. PreparedHad'
      BY <1>0, <2>1, <2>2 DEF PreparedHad, HasContext, Paired
    <2> QED  BY <2>4, <2>6, <2>7, <2>8 DEF ReadinessInvariant
  <1>12. CASE RecordReadiness
    <2>1. /\ command # NoCommand /\ command.step = "recording" /\ ready' = Counts /\ command' = NoCommand
          /\ UNCHANGED <<givenStage, caches, recorded, preparedFor, tracked>>
      BY <1>12 DEF RecordReadiness, AllAsked
    <2>2. generatorName = "D"
      BY <1>0, <2>1 DEF CommandInOrder
    <2>3. ready' \in Reports
      BY <1>types, <2>1, CountsType
    <2> QED  BY <1>types, <2>1, <2>2, <2>3, CommandStops
  <1>13. CASE UNCHANGED readinessVars
    <2>1. UNCHANGED <<givenStage, caches, recorded, preparedFor, tracked, ready>> /\ command' = command
      BY <1>13 DEF readinessVars
    <2>2. CommandInOrder'
      <3>1. UNCHANGED <<generatorName, policy, packs>>
        BY <2>1 DEF givenStage, caches
      <3> QED  BY <1>0, <2>1, <3>1 DEF CommandInOrder, Paired, Counts, Eligible, Abstained
    <2> QED  BY <1>types, <2>1, <2>2, CommandFrame
  <1> QED
    BY <1>1, <1>2, <1>3, <1>4, <1>5, <1>6, <1>7, <1>8, <1>9, <1>10, <1>11, <1>12, <1>13
       DEF ReadinessNext

(* The invariant holds in every state of every behaviour. *)
LEMMA ReadinessInvariantHolds == ReadinessSpec => []ReadinessInvariant
  BY ReadinessInvariantInit, ReadinessInvariantStep, PTL DEF ReadinessSpec

(* The status accounts for every query. *)
LEMMA StatusAlwaysAccounts == ReadinessInvariant => StatusAccounts
  <1> SUFFICES ASSUME ReadinessInvariant PROVE StatusAccounts
    OBVIOUS
  <1>1. Cardinality(CompletedQueries) + Cardinality(IncompleteQueries) + Missing = ReadyCount
    <2> DEFINE P == Present(recorded)
               C == CompletedQueries
    <2>1. P \in SUBSET ReadyQueries /\ C \in SUBSET P
      BY DEF Present, CompletedQueries
    <2>2. IsFiniteSet(P) /\ IsFiniteSet(C) /\ Cardinality(P) \in Nat /\ Cardinality(C) \in Nat
      BY <2>1, QueriesFinite, FS_Subset, FS_CardinalityType
    <2>3. P \cap C = C
      BY <2>1
    <2>4. Cardinality(P \ C) = Cardinality(P) - Cardinality(C)
      BY <2>2, <2>3, FS_Difference
    <2>5. IncompleteQueries = P \ C /\ Missing = ReadyCount - Cardinality(P)
      BY DEF IncompleteQueries, Missing
    <2> HIDE DEF P, C
    <2>6. Cardinality(C) + (Cardinality(P) - Cardinality(C)) + (ReadyCount - Cardinality(P)) = ReadyCount
      BY <2>2, ReadinessAssumption
    <2> QED  BY <2>4, <2>5, <2>6 DEF C
  <1>2. Paired => \A q \in CompletedQueries : packs[q] # "absent" /\ registries[q] # "absent"
    BY DEF ReadinessInvariant, CompletedHad, CompletedQueries, HasContext
  <1>3. Paired => Present(registries) \subseteq Present(packs)
    BY DEF ReadinessInvariant, FilesPossible, Present
  <1> QED  BY <1>1, <1>2, <1>3 DEF StatusAccounts

(* What one step may record. *)
LEMMA ReadinessStepSound ==
    ReadinessInvariant /\ ReadinessInvariant' /\ [ReadinessNext]_readinessVars => ReadinessIsSound
  <1> SUFFICES ASSUME ReadinessInvariant, ReadinessInvariant', [ReadinessNext]_readinessVars
               PROVE  ReadinessIsSound
    OBVIOUS
  <1>1. StatusAccounts'
    <2>1. ReadinessInvariant' => StatusAccounts'
      BY StatusAlwaysAccounts, PTL
    <2> QED  BY <2>1
  <1>2. UNCHANGED <<generatorName, fits, policy>>
    BY DEF ReadinessNext, StartReadiness, StartGeneration, LoadPrepared, WritePack, WriteRegistry,
           PreparationFails, Decide, Generate, GenerationEnds, RecordPrepared, TrackReadiness,
           RecordReadiness, ReadinessDies, readinessVars, givenStage
  <1>3. generatorName = "C" /\ ready' # NoReport =>
           \A q \in ReadyQueries :
              CanPrepare(q, "text") /\ packs'[q] # "absent" /\ registries'[q] # "absent"
    BY <1>2 DEF ReadinessInvariant, ReadyHad, HasContext, Paired, CanPrepare
  <1>4. ASSUME ready' # ready
        PROVE  /\ ready'.eligible + ready'.abstained = ready'.contexts
               /\ TokensSummed(Eligible, ready'.tokens)
               /\ generatorName = "D" => ready' = tracked
    <2>1. RecordPrepared \/ RecordReadiness
      BY <1>4 DEF ReadinessNext, StartReadiness, StartGeneration, LoadPrepared, WritePack, WriteRegistry,
                  PreparationFails, Decide, Generate, GenerationEnds, TrackReadiness, ReadinessDies,
                  readinessVars
    <2>2. ready' = Counts
      BY <1>4, <2>1 DEF RecordPrepared, RecordReadiness
    <2>3. (\A q \in preparedFor : policy[q] # "raises") /\ (generatorName = "D" => tracked = Counts)
      <3>1. CASE RecordReadiness
        BY <3>1 DEF RecordReadiness, AllAsked, ReadinessInvariant, CommandInOrder
      <3>2. CASE RecordPrepared
        <4>1. generatorName # "D" /\ preparedFor \subseteq ReadyQueries
          BY <3>2, ReadinessTypes DEF RecordPrepared, ReadinessInvariant
        <4>2. policy \in [ReadyQueries -> Verdicts \ {"raises"}]
          BY <4>1 DEF ReadinessInvariant, StageGiven
        <4> QED  BY <4>1, <4>2
      <3> QED  BY <2>1, <3>1, <3>2
    <2>4. preparedFor \in SUBSET ReadyQueries
      BY ReadinessTypes DEF ReadinessInvariant
    <2>5. \A q \in ReadyQueries : policy[q] \in Verdicts
      BY DEF ReadinessInvariant, StageGiven
    <2>6. Eligible \cup Abstained = preparedFor /\ Eligible \cap Abstained = {}
      BY <2>3, <2>4, <2>5 DEF Eligible, Abstained, Verdicts
    <2>7. Eligible \in SUBSET ReadyQueries /\ Abstained \in SUBSET ReadyQueries
      BY <2>4 DEF Eligible, Abstained
    <2>8. Cardinality(Eligible) + Cardinality(Abstained) = Cardinality(preparedFor)
      <3>1. IsFiniteSet(Eligible) /\ IsFiniteSet(Abstained)
            /\ Cardinality(Eligible) \in Nat /\ Cardinality(Abstained) \in Nat
        BY <2>7, QueriesFinite
      <3>2. Cardinality(preparedFor) = Cardinality(Eligible) + Cardinality(Abstained) - Cardinality({})
        BY <2>6, <3>1, FS_Union
      <3>3. Cardinality({}) = 0
        BY FS_EmptySet
      <3> QED  BY <3>1, <3>2, <3>3
    <2>9. TokensSummed(Eligible, TokenSummary(Eligible))
      BY <2>7, TokensAlwaysSummed
    <2>10. /\ ready'.eligible = Cardinality(Eligible) /\ ready'.abstained = Cardinality(Abstained)
           /\ ready'.contexts = Cardinality(preparedFor) /\ ready'.tokens = TokenSummary(Eligible)
      BY <2>2 DEF Counts
    <2> QED  BY <2>2, <2>3, <2>8, <2>9, <2>10
  <1> QED  BY <1>1, <1>3, <1>4 DEF ReadinessIsSound

(* The status accounts for every query, and what is recorded as ready can  *)
(* be had, as it is recorded (generation/orchestration.py).                *)
THEOREM ReadinessSound == ReadinessSpec => [][ReadinessIsSound]_readinessVars
  BY ReadinessStepSound, ReadinessInvariantHolds, PTL DEF ReadinessSpec

-----------------------------------------------------------------------------
(***************************************************************************)
(* MCContext: the run and the components it meets, each with its invariant.*)
(***************************************************************************)
GenerationInvariant ==
    /\ IInv /\ ContextInvariant /\ TimeoutInvariant
    /\ EvaluationInvariant /\ AuditInvariant /\ ReadinessInvariant

LEMMA GenerationInvariantInit == ASSUME Strict PROVE GenerationInit => GenerationInvariant
  BY InvariantInit, ContextInvariantInit, TimeoutInvariantInit, EvaluationInvariantInit,
     AuditInvariantInit, ReadinessInvariantInit DEF GenerationInit, GenerationInvariant

(* A step of one component, and of the others a stutter. *)
LEMMA GenerationSteps ==
    [GenerationNext]_generationVars =>
        /\ [Next]_vars /\ [ContextNext]_contextVars /\ [TimeoutNext]_timeoutVars
        /\ [EvaluationNext]_evaluationVars /\ [AuditNext]_auditVars
        /\ [ReadinessNext]_readinessVars
  BY DEF GenerationNext, generationVars

LEMMA GenerationInvariantStep ==
    Strict /\ GenerationInvariant /\ [GenerationNext]_generationVars => GenerationInvariant'
  BY GenerationSteps, InvariantStep, ContextInvariantStep, TimeoutInvariantStep,
     EvaluationInvariantStep, AuditInvariantStep, ReadinessInvariantStep DEF GenerationInvariant

LEMMA GenerationInvariantHolds == ASSUME Strict PROVE GenerationSpec => []GenerationInvariant
<1>1. GenerationInit => GenerationInvariant
  BY GenerationInvariantInit
<1>2. GenerationInvariant /\ [GenerationNext]_generationVars => GenerationInvariant'
  BY GenerationInvariantStep
<1> QED
  BY <1>1, <1>2, PTL DEF GenerationSpec

(* Every file a generation run, its context cache and the commands over    *)
(* them keep has its type.                                                 *)
THEOREM GenerationTypesCorrect == ASSUME Strict PROVE GenerationSpec => []TypesOK
<1>1. GenerationInvariant => TypesOK
  BY DEF GenerationInvariant, TypesOK, IInv, ContextInvariant, TimeoutInvariant,
     EvaluationInvariant, AuditInvariant, ReadinessInvariant
<1> QED
  BY <1>1, GenerationInvariantHolds, PTL

(* An audit's report is of one audit and its counts agree, and the status  *)
(* and what is recorded as ready account for every query, whatever else of *)
(* the generation happens (audit_dev, generation_status,                   *)
(* stage_c_readiness, stage_d_readiness).                                  *)
THEOREM PreparedIsAsReported == ASSUME Strict PROVE GenerationSpec => PreparedAsReported
<1>1. GenerationInvariant /\ GenerationInvariant' /\ [GenerationNext]_generationVars
         => [AuditIsSound /\ ReadinessIsSound]_generationVars
  BY GenerationSteps, AuditStepSound, ReadinessStepSound DEF GenerationInvariant
<1> QED
  BY <1>1, GenerationInvariantHolds, PTL DEF GenerationSpec, PreparedAsReported
=============================================================================
