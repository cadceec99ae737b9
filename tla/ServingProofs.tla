---------------------------- MODULE ServingProofs ----------------------------
(***************************************************************************)
(* Safety of Serving for every set of requests, any number of permits, any *)
(* rate limit and window, both profiles.                                   *)
(***************************************************************************)
EXTENDS Serving, FiniteSetTheorems, SequenceTheorems, TLAPS

(* Whatever assets are found, initializers are queued for components only. *)
LEMMA InitializersType ==
    ASSUME NEW assets
    PROVE  Initializers(assets) \in Seq(Components)
<1> DEFINE registered == IF PublicDemo THEN {"retrieval"} ELSE BuiltServices(assets)
           ifBuilt(c) == IF c \in registered THEN <<c>> ELSE <<>>
<1>1. ASSUME NEW c \in Components PROVE ifBuilt(c) \in Seq(Components)
  <2>1. <<>> \in Seq(Components) /\ <<c>> \in Seq(Components)
      OBVIOUS
  <2>2. QED
      BY <2>1
<1>2. {"retrieval", "answer", "extraction_hybrid"} \subseteq Components
    BY DEF Components
<1>3. ifBuilt("retrieval") \o ifBuilt("answer") \in Seq(Components)
    BY <1>1, <1>2, ConcatProperties
<1>4. (ifBuilt("retrieval") \o ifBuilt("answer")) \o ifBuilt("extraction_hybrid")
          \in Seq(Components)
    BY <1>1, <1>2, <1>3, ConcatProperties
<1>5. QED
    BY <1>4, Zenon DEF Initializers

(* What eviction leaves is a sequence of times. *)
LEMMA EvictionType ==
    ASSUME timestamps \in Seq(Nat), NEW k \in 0..Len(timestamps)
    PROVE  /\ AfterEviction(k) \in Seq(Nat)
           /\ Len(AfterEviction(k)) = Len(timestamps) - k
           /\ \A i \in 1..(Len(timestamps) - k) : AfterEviction(k)[i] = timestamps[k + i]
    BY DEF AfterEviction

LEMMA InitType == Init => TypeOK
<1> SUFFICES ASSUME Init PROVE TypeOK
    OBVIOUS
<1>1. ContainerTypeOK
  <2>1. initialized \in BOOLEAN /\ closed \in BOOLEAN
      BY DEF Init, ContainerInit
  <2>2. stage \in Stages /\ services \subseteq Components /\ pendingInit \in Seq(Components)
      BY DEF Init, ContainerInit, Stages
  <2>3. ready \in [Components -> BOOLEAN]
      BY DEF Init, ContainerInit
  <2>4. QED
      BY <2>1, <2>2, <2>3 DEF ContainerTypeOK
<1>2. QED
    BY <1>1, ServingAssumption DEF Init, TypeOK, Statuses, Outcomes

(* The container's own steps keep the types of its variables. *)
LEMMA ContainerStepType ==
    ASSUME ContainerTypeOK, Startup \/ BeginShutdown \/ Close
    PROVE  ContainerTypeOK'
<1> USE DEF ContainerTypeOK, Stages
<1>1. CASE BuildContainer
  <2>1. PICK assets \in SUBSET AssetNames :
            /\ services' = BuiltServices(assets)
            /\ ready' = DeclaredReady(assets)
            /\ pendingInit' = Initializers(assets)
      BY <1>1 DEF BuildContainer
  <2>2. services' \subseteq Components
      BY <2>1 DEF BuiltServices, Components
  <2>3. ready' \in [Components -> BOOLEAN]
      BY <2>1 DEF DeclaredReady
  <2>4. pendingInit' \in Seq(Components)
      BY <2>1, InitializersType
  <2>5. QED
      BY <1>1, <2>2, <2>3, <2>4 DEF BuildContainer
<1>2. CASE BuildRaises
    BY <1>2 DEF BuildRaises
<1>3. CASE ComponentInitialized
    BY <1>3 DEF ComponentInitialized
<1>4. CASE ComponentUnavailable
    BY <1>4 DEF ComponentUnavailable
<1>5. CASE InitializerRaises
    BY <1>5 DEF InitializerRaises
<1>6. CASE FinishInitialize
    BY <1>6 DEF FinishInitialize
<1>7. CASE BeginShutdown
    BY <1>7 DEF BeginShutdown
<1>8. CASE Close
    BY <1>8 DEF Close
<1>9. QED
    BY <1>1, <1>2, <1>3, <1>4, <1>5, <1>6, <1>7, <1>8 DEF Startup

(* Handing work over keeps the types of the variables it writes. *)
LEMMA SubmitType ==
    ASSUME TypeOK, NEW r \in Requests, NEW e \in Endpoints, Submit(r, e)
    PROVE  /\ ContainerTypeOK'
           /\ phase' \in [Requests -> {"new", "waiting", "answered"}]
           /\ endpoint' \in [Requests -> Endpoints \cup {"none"}]
           /\ response' \in [Requests -> Statuses]
           /\ job' \in [Requests -> {"none", "queued", "running", "finished", "cancelled"}]
           /\ result' \in [Requests -> Outcomes \cup {"none"}]
           /\ queue' \in Seq(Requests)
           /\ clock' \in Nat
<1>1. ContainerTypeOK'
    BY DEF Submit, TypeOK, ContainerTypeOK, containerVars
<1>2. QED
    BY <1>1 DEF Submit, TypeOK

(* Every step keeps every variable in its type. *)
LEMMA StepType == TypeOK /\ [Next]_vars => TypeOK'
<1> SUFFICES ASSUME TypeOK, [Next]_vars PROVE TypeOK'
    OBVIOUS
<1> USE DEF TypeOK
<1>1. CASE Lifecycle
    BY <1>1, ContainerStepType DEF Lifecycle, handlerVars, jobVars, limiterVars
<1>2. CASE CloseContainer
    BY <1>2, ContainerStepType DEF CloseContainer, handlerVars, jobVars, limiterVars
<1>3. CASE StartJob
    BY <1>3 DEF StartJob, containerVars, ContainerTypeOK, handlerVars, limiterVars
<1>4. CASE Tick
    BY <1>4 DEF Tick, containerVars, ContainerTypeOK, handlerVars, jobVars
<1>5. ASSUME NEW r \in Requests, Arrival(r) PROVE TypeOK'
  <2> USE DEF Statuses, jobVars, limiterVars, containerVars, ContainerTypeOK
  <2>1. CASE RejectedByContract(r)
      BY <2>1 DEF RejectedByContract, Answer
  <2>2. CASE HealthProbed(r)
      BY <2>2 DEF HealthProbed, Answer
  <2>3. ASSUME NEW e \in Endpoints, RejectedUnavailable(r, e) PROVE TypeOK'
      BY <2>3 DEF RejectedUnavailable, Answer
  <2>4. ASSUME NEW e \in Endpoints, RejectedTooLong(r, e) PROVE TypeOK'
      BY <2>4 DEF RejectedTooLong, Answer
  <2>5. ASSUME NEW e \in Endpoints, RejectedByRate(r, e) PROVE TypeOK'
      BY <2>5, EvictionType DEF RejectedByRate, Answer
  <2>6. ASSUME NEW e \in Endpoints, RejectedBusy(r, e) PROVE TypeOK'
      BY <2>6, EvictionType DEF RejectedBusy, Answer
  <2>7. ASSUME NEW e \in Endpoints, AdmittedUnguarded(r, e) PROVE TypeOK'
      BY <2>7, SubmitType DEF AdmittedUnguarded
  <2>8. ASSUME NEW e \in Endpoints, AdmittedGuarded(r, e) PROVE TypeOK'
    <3>1. Submit(r, e)
        BY <2>8 DEF AdmittedGuarded
    <3>2. timestamps' \in Seq(Nat) /\ admissions' \in Seq(Nat)
        BY <2>8, EvictionType DEF AdmittedGuarded
    <3>3. permits' \in Nat /\ held' \in [Requests -> BOOLEAN]
        BY <2>8 DEF AdmittedGuarded
    <3>4. QED
        BY <3>1, <3>2, <3>3, SubmitType
  <2>9. QED
      BY <1>5, <2>1, <2>2, <2>3, <2>4, <2>5, <2>6, <2>7, <2>8 DEF Arrival
<1>6. ASSUME NEW r \in Requests, FinishJob(r) PROVE TypeOK'
  <2>1. result' \in [Requests -> Outcomes \cup {"none"}]
      BY <1>6 DEF FinishJob, PossibleOutcomes, Outcomes
  <2>2. job' \in [Requests -> {"none", "queued", "running", "finished", "cancelled"}]
      BY <1>6 DEF FinishJob
  <2>3. QED
      BY <1>6, <2>1, <2>2 DEF FinishJob, containerVars, ContainerTypeOK, handlerVars, limiterVars
<1>7. ASSUME NEW r \in Requests, Deliver(r) PROVE TypeOK'
    BY <1>7 DEF Deliver, Answer, Release, StatusOf, Statuses, containerVars, ContainerTypeOK
<1>8. ASSUME NEW r \in Requests, Timeout(r) PROVE TypeOK'
    BY <1>8 DEF Timeout, Answer, Release, Statuses, containerVars, ContainerTypeOK
<1>9. CASE UNCHANGED vars
    BY <1>9 DEF vars, containerVars, ContainerTypeOK, handlerVars, jobVars, limiterVars
<1>10. QED
    BY <1>1, <1>2, <1>3, <1>4, <1>5, <1>6, <1>7, <1>8, <1>9 DEF Next

(* Every variable keeps its type in every behaviour. *)
THEOREM TypeCorrect == Spec => []TypeOK
    BY InitType, StepType, PTL DEF Spec

(***************************************************************************)
(* Slots: permits and suspended guarded handlers.                          *)
(***************************************************************************)
(* The holders are some of the finitely many requests.                     *)
LEMMA HoldersFinite == IsFiniteSet(Holders) /\ Cardinality(Holders) \in Nat
    BY FS_Subset, FS_CardinalityType, ServingAssumption DEF Holders

(* A step that leaves phases, guards, endpoints and permits alone. *)
LEMMA SlotsUntouched ==
    ASSUME SlotAccounting, UNCHANGED <<phase, held, endpoint, permits>>
    PROVE  SlotAccounting'
    BY DEF SlotAccounting, Holders, Waiting, Guarded

(* A rejection answers a request that holds nothing. *)
LEMMA SlotsAfterRejection ==
    ASSUME TypeOK, SlotAccounting, NEW r \in Requests, phase[r] = "new",
           NEW status, Answer(r, status), UNCHANGED <<held, endpoint, permits>>
    PROVE  SlotAccounting'
    BY DEF SlotAccounting, Holders, Waiting, Guarded, Answer, TypeOK

(* A released handler is answered and gives back the permit it held. *)
LEMMA SlotsAfterRelease ==
    ASSUME TypeOK, SlotAccounting, NEW r \in Requests, NEW status,
           Answer(r, status), Release(r), UNCHANGED endpoint
    PROVE  SlotAccounting'
<1>1. Holders' = Holders \ {r}
    BY DEF Holders, Release, TypeOK
<1>2. Cardinality(Holders \ {r}) = Cardinality(Holders) - (IF held[r] THEN 1 ELSE 0)
  <2>1. r \in Holders <=> held[r]
      BY DEF Holders
  <2>2. Cardinality(Holders \ {r}) = IF r \in Holders THEN Cardinality(Holders) - 1
                                                   ELSE Cardinality(Holders)
      BY HoldersFinite, FS_RemoveElement
  <2>3. QED
      BY <2>1, <2>2, HoldersFinite
<1>3. permits' + Cardinality(Holders') = MaxConcurrent
    BY <1>1, <1>2, HoldersFinite DEF Release, SlotAccounting, TypeOK
<1>4. QED
    BY <1>3 DEF SlotAccounting, Waiting, Guarded, Answer, Release, TypeOK

(* Admission through the guard takes exactly one permit. *)
LEMMA SlotsAfterAdmission ==
    ASSUME TypeOK, SlotAccounting, NEW r \in Requests, NEW e \in Endpoints,
           AdmittedGuarded(r, e)
    PROVE  SlotAccounting'
<1>1. /\ phase[r] = "new" /\ Guarded(e) /\ permits > 0
      /\ phase' = [phase EXCEPT ![r] = "waiting"]
      /\ endpoint' = [endpoint EXCEPT ![r] = e]
      /\ held' = [held EXCEPT ![r] = TRUE]
      /\ permits' = permits - 1
    BY DEF AdmittedGuarded, Arrives, Submit
<1>2. r \notin Holders /\ Holders' = Holders \cup {r}
    BY <1>1 DEF Holders, SlotAccounting, TypeOK
<1>3. Cardinality(Holders \cup {r}) = Cardinality(Holders) + 1
    BY <1>2, HoldersFinite, FS_AddElement
<1>4. permits' + Cardinality(Holders') = MaxConcurrent
    BY <1>1, <1>2, <1>3, HoldersFinite DEF SlotAccounting, TypeOK
<1>5. QED
    BY <1>1, <1>4 DEF SlotAccounting, Waiting, Guarded, TypeOK

LEMMA SlotStep == TypeOK /\ SlotAccounting /\ [Next]_vars => SlotAccounting'
<1> SUFFICES ASSUME TypeOK, SlotAccounting, [Next]_vars PROVE SlotAccounting'
    OBVIOUS
<1> USE DEF handlerVars, limiterVars
<1>1. CASE Lifecycle
    BY <1>1, SlotsUntouched DEF Lifecycle
<1>2. CASE CloseContainer
    BY <1>2, SlotsUntouched DEF CloseContainer
<1>3. CASE StartJob
    BY <1>3, SlotsUntouched DEF StartJob
<1>4. CASE Tick
    BY <1>4, SlotsUntouched DEF Tick
<1>5. ASSUME NEW r \in Requests, Arrival(r) PROVE SlotAccounting'
  <2>1. CASE RejectedByContract(r)
      BY <2>1, SlotsAfterRejection DEF RejectedByContract
  <2>2. CASE HealthProbed(r)
      BY <2>2, SlotsAfterRejection DEF HealthProbed
  <2>3. ASSUME NEW e \in Endpoints, RejectedUnavailable(r, e) PROVE SlotAccounting'
      BY <2>3, SlotsAfterRejection DEF RejectedUnavailable, Arrives
  <2>4. ASSUME NEW e \in Endpoints, RejectedTooLong(r, e) PROVE SlotAccounting'
      BY <2>4, SlotsAfterRejection DEF RejectedTooLong, Arrives
  <2>5. ASSUME NEW e \in Endpoints, RejectedByRate(r, e) PROVE SlotAccounting'
      BY <2>5, SlotsAfterRejection DEF RejectedByRate, Arrives
  <2>6. ASSUME NEW e \in Endpoints, RejectedBusy(r, e) PROVE SlotAccounting'
      BY <2>6, SlotsAfterRejection DEF RejectedBusy, Arrives
  <2>7. ASSUME NEW e \in Endpoints, AdmittedUnguarded(r, e) PROVE SlotAccounting'
    <3>1. /\ phase' = [phase EXCEPT ![r] = "waiting"]
          /\ endpoint' = [endpoint EXCEPT ![r] = e]
          /\ UNCHANGED <<held, permits>>
          /\ phase[r] = "new" /\ ~Guarded(e)
        BY <2>7 DEF AdmittedUnguarded, Submit, Arrives
    <3>2. QED
        BY <3>1 DEF SlotAccounting, Holders, Waiting, Guarded, TypeOK
  <2>8. ASSUME NEW e \in Endpoints, AdmittedGuarded(r, e) PROVE SlotAccounting'
      BY <2>8, SlotsAfterAdmission
  <2>9. QED
      BY <1>5, <2>1, <2>2, <2>3, <2>4, <2>5, <2>6, <2>7, <2>8 DEF Arrival
<1>6. ASSUME NEW r \in Requests, FinishJob(r) PROVE SlotAccounting'
    BY <1>6, SlotsUntouched DEF FinishJob
<1>7. ASSUME NEW r \in Requests, Deliver(r) PROVE SlotAccounting'
    BY <1>7, SlotsAfterRelease DEF Deliver
<1>8. ASSUME NEW r \in Requests, Timeout(r) PROVE SlotAccounting'
    BY <1>8, SlotsAfterRelease DEF Timeout
<1>9. CASE UNCHANGED vars
    BY <1>9, SlotsUntouched DEF vars
<1>10. QED
    BY <1>1, <1>2, <1>3, <1>4, <1>5, <1>6, <1>7, <1>8, <1>9 DEF Next

(* No behaviour leaks a permit or gives one back twice: the demo semaphore *)
(* and the suspended guarded handlers always add up to MaxConcurrent.      *)
THEOREM SlotsAccounted == Spec => []SlotAccounting
<1>1. Init => SlotAccounting
  <2> SUFFICES ASSUME Init PROVE SlotAccounting
      OBVIOUS
  <2>1. Holders = {} /\ Waiting = {}
      BY DEF Init, Holders, Waiting
  <2>2. QED
      BY <2>1, FS_EmptySet, ServingAssumption DEF Init, SlotAccounting
<1>2. QED
    BY <1>1, TypeCorrect, SlotStep, PTL DEF Spec

(***************************************************************************)
(* The rate budget.  The deque is the recent end of the admission history: *)
(* everything before it left the window, nothing is newer than the clock.  *)
(***************************************************************************)
Forgotten == Len(admissions) - Len(timestamps)

LimiterInv ==
    /\ Forgotten >= 0
    /\ \A i \in 1..Len(timestamps) : timestamps[i] = admissions[Forgotten + i]
    /\ \A i \in 1..Len(admissions) : admissions[i] <= clock
    /\ \A i \in 1..Forgotten : clock - admissions[i] >= Window
    /\ RateBudget

LEMMA LimiterTypes ==
    ASSUME TypeOK, LimiterInv
    PROVE  /\ timestamps \in Seq(Nat) /\ Len(timestamps) \in Nat
           /\ admissions \in Seq(Nat) /\ Len(admissions) \in Nat
           /\ clock \in Nat /\ Forgotten \in Nat
           /\ RateLimit \in Nat /\ RateLimit > 0 /\ Window \in Nat
    BY ServingAssumption DEF TypeOK, LimiterInv, Forgotten

(* Dropping expired timestamps keeps the link between deque and history. *)
LEMMA EvictionForgetsExpired ==
    ASSUME TypeOK, LimiterInv, NEW k \in 0..Len(timestamps), Evicts(k)
    PROVE  /\ \A i \in 1..(Len(timestamps) - k) :
                  AfterEviction(k)[i] = admissions[Forgotten + k + i]
           /\ \A i \in 1..(Forgotten + k) : clock - admissions[i] >= Window
<1>1. Len(timestamps) \in Nat /\ Len(admissions) \in Nat /\ Forgotten \in Nat
    BY DEF TypeOK, LimiterInv, Forgotten
<1>2. \A i \in 1..(Len(timestamps) - k) : AfterEviction(k)[i] = admissions[Forgotten + k + i]
  <2> TAKE i \in 1..(Len(timestamps) - k)
  <2>1. AfterEviction(k)[i] = timestamps[k + i]
      BY EvictionType DEF TypeOK
  <2>2. k + i \in 1..Len(timestamps)
      BY <1>1
  <2>3. timestamps[k + i] = admissions[Forgotten + (k + i)]
      BY <2>2 DEF LimiterInv
  <2>4. QED
      BY <2>1, <2>3, <1>1
<1>3. ASSUME NEW i \in 1..(Forgotten + k) PROVE clock - admissions[i] >= Window
  <2>1. CASE i <= Forgotten
      BY <2>1, <1>1 DEF LimiterInv
  <2>2. CASE i > Forgotten
    <3> DEFINE j == i - Forgotten
    <3>1. j \in 1..k /\ j \in 1..Len(timestamps) /\ Forgotten + j = i
        BY <2>2, <1>1
    <3>2. timestamps[j] = admissions[i]
        BY <3>1 DEF LimiterInv
    <3>3. ~(clock - timestamps[j] < Window)
        BY <3>1 DEF Evicts, InWindow
    <3>4. clock \in Nat /\ timestamps[j] \in Nat
        BY <3>1 DEF TypeOK
    <3>5. QED
        BY <3>2, <3>3, <3>4, LimiterTypes
  <2>3. QED
      BY <2>1, <2>2, <1>1
<1>4. QED
    BY <1>2, <1>3

(* A step that only evicts. *)
LEMMA LimiterAfterRejection ==
    ASSUME TypeOK, LimiterInv, NEW k \in 0..Len(timestamps), Evicts(k),
           timestamps' = AfterEviction(k), UNCHANGED <<clock, admissions>>
    PROVE  LimiterInv'
<1>1. /\ timestamps \in Seq(Nat) /\ Len(timestamps) \in Nat
      /\ Len(admissions) \in Nat /\ Forgotten \in Nat
    BY DEF TypeOK, LimiterInv, Forgotten
<1>2. Len(timestamps') = Len(timestamps) - k
    BY <1>1, EvictionType
<1>3. Forgotten' = Forgotten + k
    BY <1>1, <1>2 DEF Forgotten
<1>4. \A i \in 1..Len(timestamps') : timestamps'[i] = admissions[Forgotten' + i]
    BY <1>2, <1>3, EvictionForgetsExpired
<1>5. \A i \in 1..Forgotten' : clock - admissions[i] >= Window
    BY <1>3, EvictionForgetsExpired
<1>6. QED
    BY <1>1, <1>3, <1>4, <1>5 DEF LimiterInv, RateBudget

(* A request admitted now is at least a window younger than the one that   *)
(* came RateLimit admissions earlier.                                      *)
LEMMA AdmissionWithinBudget ==
    ASSUME TypeOK, LimiterInv, NEW k \in 0..Len(timestamps), Evicts(k),
           Len(timestamps) - k < RateLimit
    PROVE  Len(admissions) >= RateLimit =>
               clock - admissions[Len(admissions) + 1 - RateLimit] >= Window
<1> SUFFICES ASSUME Len(admissions) >= RateLimit
             PROVE  clock - admissions[Len(admissions) + 1 - RateLimit] >= Window
    OBVIOUS
<1>1. Len(admissions) + 1 - RateLimit \in 1..(Forgotten + k)
    BY LimiterTypes DEF Forgotten
<1>2. QED
    BY <1>1, EvictionForgetsExpired

LEMMA LimiterAfterAdmission ==
    ASSUME TypeOK, LimiterInv, NEW k \in 0..Len(timestamps), Evicts(k),
           Len(timestamps) - k < RateLimit,
           timestamps' = Append(AfterEviction(k), clock),
           admissions' = Append(admissions, clock),
           UNCHANGED clock
    PROVE  LimiterInv'
<1> DEFINE n == Len(admissions)
           m == Len(timestamps) - k
           kept == AfterEviction(k)
<1>1. /\ n \in Nat /\ m \in Nat /\ clock \in Nat /\ Window \in Nat /\ Forgotten \in Nat
      /\ RateLimit \in Nat /\ RateLimit > 0
    BY LimiterTypes
<1>2. kept \in Seq(Nat) /\ Len(kept) = m
    BY LimiterTypes, EvictionType
<1>3. /\ Len(timestamps') = m + 1 /\ timestamps'[m + 1] = clock
      /\ \A i \in 1..m : timestamps'[i] = kept[i]
    BY <1>1, <1>2
<1>4. /\ Len(admissions') = n + 1 /\ admissions'[n + 1] = clock
      /\ \A i \in 1..n : admissions'[i] = admissions[i]
    BY LimiterTypes
<1>5. Forgotten' = n - m /\ Forgotten + k = n - m
    BY LimiterTypes, <1>3, <1>4 DEF Forgotten
<1>6. /\ \A i \in 1..m : kept[i] = admissions[n - m + i]
      /\ \A i \in 1..(n - m) : clock - admissions[i] >= Window
    BY <1>5, EvictionForgetsExpired
<1>7. n >= RateLimit => clock - admissions[n + 1 - RateLimit] >= Window
    BY AdmissionWithinBudget
<1>8. n - m \in Nat
    BY <1>1, <1>5
<1>9. /\ \A i \in 1..n : admissions[i] \in Nat /\ admissions[i] <= clock
      /\ \A i \in 1..n : i > RateLimit => admissions[i] - admissions[i - RateLimit] >= Window
    BY LimiterTypes DEF LimiterInv, RateBudget
<1> HIDE DEF n, m, kept
<1>10. ASSUME NEW i \in 1..(m + 1) PROVE timestamps'[i] = admissions'[Forgotten' + i]
  <2>1. CASE i = m + 1
    <3>1. Forgotten' + i = n + 1
        BY <2>1, <1>1, <1>5
    <3>2. QED
        BY <3>1, <2>1, <1>3, <1>4
  <2>2. CASE i \in 1..m
    <3>1. n - m + i \in 1..n
        BY <2>2, <1>1, <1>8
    <3>2. QED
        BY <3>1, <2>2, <1>3, <1>4, <1>5, <1>6
  <2>3. i = m + 1 \/ i \in 1..m
      BY <1>1
  <2>4. QED
      BY <2>1, <2>2, <2>3
<1>11. ASSUME NEW i \in 1..(n + 1) PROVE admissions'[i] <= clock
    BY <1>1, <1>4, <1>9
<1>12. ASSUME NEW i \in 1..(n - m) PROVE clock - admissions'[i] >= Window
  <2>1. i \in 1..n
      BY <1>1, <1>8
  <2>2. QED
      BY <2>1, <1>4, <1>6
<1>13. ASSUME NEW i \in 1..(n + 1), i > RateLimit
       PROVE  admissions'[i] - admissions'[i - RateLimit] >= Window
  <2>1. i - RateLimit \in 1..n
      BY <1>1, <1>13
  <2>2. admissions'[i - RateLimit] = admissions[i - RateLimit]
      BY <2>1, <1>4
  <2>3. CASE i = n + 1
      BY <1>1, <1>4, <1>7, <1>13, <2>2, <2>3
  <2>4. CASE i \in 1..n
      BY <1>4, <1>9, <1>13, <2>2, <2>4
  <2>5. i = n + 1 \/ i \in 1..n
      BY <1>1
  <2>6. QED
      BY <2>3, <2>4, <2>5
<1>14. Forgotten' >= 0
    BY <1>1, <1>5, <1>8
<1>15. RateBudget'
    BY <1>4, <1>13 DEF RateBudget
<1>16. QED
    BY <1>3, <1>4, <1>5, <1>10, <1>11, <1>12, <1>14, <1>15 DEF LimiterInv

LEMMA LimiterUntouched ==
    ASSUME LimiterInv, UNCHANGED <<clock, timestamps, admissions>>
    PROVE  LimiterInv'
    BY DEF LimiterInv, RateBudget, Forgotten

LEMMA LimiterStep == TypeOK /\ LimiterInv /\ [Next]_vars => LimiterInv'
<1> SUFFICES ASSUME TypeOK, LimiterInv, [Next]_vars PROVE LimiterInv'
    OBVIOUS
<1> USE DEF limiterVars
<1>1. CASE Lifecycle
    BY <1>1, LimiterUntouched DEF Lifecycle
<1>2. CASE CloseContainer
    BY <1>2, LimiterUntouched DEF CloseContainer
<1>3. CASE StartJob
    BY <1>3, LimiterUntouched DEF StartJob
<1>4. CASE Tick
  <2>1. clock' = clock + 1 /\ UNCHANGED <<timestamps, admissions>>
      BY <1>4 DEF Tick
  <2>2. \A i \in 1..Len(admissions) : admissions[i] \in Nat
      BY LimiterTypes
  <2>3. \A i \in 1..Forgotten : i \in 1..Len(admissions)
      BY LimiterTypes DEF Forgotten
  <2>4. Forgotten' = Forgotten /\ RateBudget'
      BY <2>1 DEF LimiterInv, RateBudget, Forgotten
  <2>5. \A i \in 1..Len(admissions) : admissions[i] <= clock'
      BY <2>1, <2>2, LimiterTypes DEF LimiterInv
  <2>6. \A i \in 1..Forgotten : clock' - admissions[i] >= Window
      BY <2>1, <2>2, <2>3, LimiterTypes DEF LimiterInv
  <2>7. QED
      BY <2>1, <2>4, <2>5, <2>6 DEF LimiterInv
<1>5. ASSUME NEW r \in Requests, Arrival(r) PROVE LimiterInv'
  <2>1. CASE RejectedByContract(r)
      BY <2>1, LimiterUntouched DEF RejectedByContract
  <2>2. CASE HealthProbed(r)
      BY <2>2, LimiterUntouched DEF HealthProbed
  <2>3. ASSUME NEW e \in Endpoints, RejectedUnavailable(r, e) PROVE LimiterInv'
      BY <2>3, LimiterUntouched DEF RejectedUnavailable
  <2>4. ASSUME NEW e \in Endpoints, RejectedTooLong(r, e) PROVE LimiterInv'
      BY <2>4, LimiterUntouched DEF RejectedTooLong
  <2>5. ASSUME NEW e \in Endpoints, RejectedByRate(r, e) PROVE LimiterInv'
      BY <2>5, LimiterAfterRejection DEF RejectedByRate
  <2>6. ASSUME NEW e \in Endpoints, RejectedBusy(r, e) PROVE LimiterInv'
      BY <2>6, LimiterAfterRejection DEF RejectedBusy
  <2>7. ASSUME NEW e \in Endpoints, AdmittedUnguarded(r, e) PROVE LimiterInv'
      BY <2>7, LimiterUntouched DEF AdmittedUnguarded, Submit
  <2>8. ASSUME NEW e \in Endpoints, AdmittedGuarded(r, e) PROVE LimiterInv'
    <3>1. UNCHANGED clock /\ admissions' = Append(admissions, clock)
        BY <2>8 DEF AdmittedGuarded, Submit
    <3>2. PICK k \in 0..Len(timestamps) :
              /\ Evicts(k)
              /\ Len(timestamps) - k < RateLimit
              /\ timestamps' = Append(AfterEviction(k), clock)
        BY <2>8 DEF AdmittedGuarded
    <3>3. QED
        BY <3>1, <3>2, LimiterAfterAdmission
  <2>9. QED
      BY <1>5, <2>1, <2>2, <2>3, <2>4, <2>5, <2>6, <2>7, <2>8 DEF Arrival
<1>6. ASSUME NEW r \in Requests, FinishJob(r) PROVE LimiterInv'
    BY <1>6, LimiterUntouched DEF FinishJob
<1>7. ASSUME NEW r \in Requests, Deliver(r) PROVE LimiterInv'
    BY <1>7, LimiterUntouched DEF Deliver
<1>8. ASSUME NEW r \in Requests, Timeout(r) PROVE LimiterInv'
    BY <1>8, LimiterUntouched DEF Timeout
<1>9. CASE UNCHANGED vars
    BY <1>9, LimiterUntouched DEF vars
<1>10. QED
    BY <1>1, <1>2, <1>3, <1>4, <1>5, <1>6, <1>7, <1>8, <1>9 DEF Next

LEMMA LimiterInvariant == Spec => []LimiterInv
<1>1. Init => LimiterInv
    BY DEF Init, LimiterInv, RateBudget, Forgotten
<1>2. QED
    BY <1>1, TypeCorrect, LimiterStep, PTL DEF Spec

(* No window of the configured length ever sees more than RateLimit        *)
(* admissions, for every rate, window and number of requests.              *)
THEOREM RateBudgetKept == Spec => []RateBudget
<1>1. LimiterInv => RateBudget
    BY DEF LimiterInv
<1>2. QED
    BY <1>1, LimiterInvariant, PTL

(***************************************************************************)
(* Responses: a result exists only while its handler is suspended, and a   *)
(* handler that answered never answers again.                              *)
(***************************************************************************)
ResponseInv ==
    \A r \in Requests :
        /\ response[r] # "none" => phase[r] = "answered"
        /\ result[r] # "none" => phase[r] = "waiting" /\ job[r] = "finished"
        /\ phase[r] = "new" => job[r] = "none"
        /\ job[r] = "queued" => phase[r] = "waiting"
        /\ job[r] = "running" => phase[r] = "waiting" \/ response[r] = "504"

LEMMA ResponseStep == TypeOK /\ ResponseInv /\ [Next]_vars => ResponseInv'
<1> SUFFICES ASSUME TypeOK, ResponseInv, [Next]_vars PROVE ResponseInv'
    OBVIOUS
<1> USE DEF ResponseInv, TypeOK
<1>1. CASE Lifecycle
    BY <1>1 DEF Lifecycle, handlerVars, jobVars
<1>2. CASE CloseContainer
    BY <1>2 DEF CloseContainer, handlerVars, jobVars
<1>3. CASE StartJob
    BY <1>3 DEF StartJob, handlerVars
<1>4. CASE Tick
    BY <1>4 DEF Tick, handlerVars, jobVars
<1>5. ASSUME NEW r \in Requests, Arrival(r) PROVE ResponseInv'
  <2> USE DEF jobVars, Answer, Arrives
  <2>1. CASE RejectedByContract(r)
      BY <2>1 DEF RejectedByContract
  <2>2. CASE HealthProbed(r)
      BY <2>2 DEF HealthProbed
  <2>3. ASSUME NEW e \in Endpoints, RejectedUnavailable(r, e) PROVE ResponseInv'
      BY <2>3 DEF RejectedUnavailable
  <2>4. ASSUME NEW e \in Endpoints, RejectedTooLong(r, e) PROVE ResponseInv'
      BY <2>4 DEF RejectedTooLong
  <2>5. ASSUME NEW e \in Endpoints, RejectedByRate(r, e) PROVE ResponseInv'
      BY <2>5 DEF RejectedByRate
  <2>6. ASSUME NEW e \in Endpoints, RejectedBusy(r, e) PROVE ResponseInv'
      BY <2>6 DEF RejectedBusy
  <2>7. ASSUME NEW e \in Endpoints, AdmittedUnguarded(r, e) PROVE ResponseInv'
      BY <2>7 DEF AdmittedUnguarded, Submit
  <2>8. ASSUME NEW e \in Endpoints, AdmittedGuarded(r, e) PROVE ResponseInv'
      BY <2>8 DEF AdmittedGuarded, Submit
  <2>9. QED
      BY <1>5, <2>1, <2>2, <2>3, <2>4, <2>5, <2>6, <2>7, <2>8 DEF Arrival
<1>6. ASSUME NEW r \in Requests, FinishJob(r) PROVE ResponseInv'
    BY <1>6 DEF FinishJob, handlerVars
<1>7. ASSUME NEW r \in Requests, Deliver(r) PROVE ResponseInv'
    BY <1>7 DEF Deliver, Answer
<1>8. ASSUME NEW r \in Requests, Timeout(r) PROVE ResponseInv'
    BY <1>8 DEF Timeout, Answer
<1>9. CASE UNCHANGED vars
    BY <1>9 DEF vars, handlerVars, jobVars
<1>10. QED
    BY <1>1, <1>2, <1>3, <1>4, <1>5, <1>6, <1>7, <1>8, <1>9 DEF Next

(* What one step does to responses already sent or about to be. *)
LEMMA ResponseStepIsFinal ==
    ASSUME TypeOK, ResponseInv, [Next]_vars, NEW q \in Requests
    PROVE  /\ response[q] # "none" => response'[q] = response[q]
           /\ phase[q] = "waiting" /\ response'[q] = "200" => job[q] = "finished"
<1> USE DEF ResponseInv, TypeOK
<1>1. CASE UNCHANGED response
    BY <1>1
<1>2. ASSUME NEW r \in Requests, NEW status, phase[r] = "new", Answer(r, status)
      PROVE  /\ response[q] # "none" => response'[q] = response[q]
             /\ phase[q] = "waiting" /\ response'[q] = "200" => job[q] = "finished"
    BY <1>2 DEF Answer
<1>3. ASSUME NEW r \in Requests, Arrival(r)
      PROVE  /\ response[q] # "none" => response'[q] = response[q]
             /\ phase[q] = "waiting" /\ response'[q] = "200" => job[q] = "finished"
  <2>1. \/ UNCHANGED response
        \/ phase[r] = "new" /\ \E status : Answer(r, status)
      BY <1>3 DEF Arrival, Arrives, RejectedByContract, HealthProbed, RejectedUnavailable,
                  RejectedTooLong, RejectedByRate, RejectedBusy, AdmittedUnguarded,
                  AdmittedGuarded, Submit
  <2>2. QED
      BY <2>1, <1>1, <1>2
<1>4. ASSUME NEW r \in Requests, Deliver(r)
      PROVE  /\ response[q] # "none" => response'[q] = response[q]
             /\ phase[q] = "waiting" /\ response'[q] = "200" => job[q] = "finished"
    BY <1>4 DEF Deliver, Answer
<1>5. ASSUME NEW r \in Requests, Timeout(r)
      PROVE  /\ response[q] # "none" => response'[q] = response[q]
             /\ phase[q] = "waiting" /\ response'[q] = "200" => job[q] = "finished"
    BY <1>5 DEF Timeout, Answer
<1>6. QED
    BY <1>1, <1>3, <1>4, <1>5
       DEF Next, Lifecycle, CloseContainer, StartJob, Tick, FinishJob, vars, handlerVars

(* A response is never replaced, and a suspended handler says 200 only when*)
(* its own work has finished: late results of timed-out work are lost.     *)
THEOREM ResponsesAreFinal == Spec => ResponseIsFinal
<1>1. Init => ResponseInv
    BY DEF Init, ResponseInv
<1>2. Spec => []ResponseInv
    BY <1>1, TypeCorrect, ResponseStep, PTL DEF Spec
<1>3. TypeOK /\ ResponseInv /\ [Next]_vars =>
          [\A r \in Requests :
              /\ response[r] # "none" => response'[r] = response[r]
              /\ phase[r] = "waiting" /\ response'[r] = "200" => job[r] = "finished"]_vars
    BY ResponseStepIsFinal
<1>4. QED
    BY <1>2, <1>3, TypeCorrect, PTL DEF Spec, ResponseIsFinal

(***************************************************************************)
(* Readiness: flags, services and the initializers still to run.           *)
(***************************************************************************)
Composed == {"initializing", "serving", "draining", "stopped"}

(* A component that is ready, or whose initializer is still to run, has its*)
(* service; documents only where the corpus is required.                   *)
ServiceBehindFlag ==
    stage \in Composed =>
        /\ \A c \in {"retrieval", "answer"} : ready[c] => c \in services
        /\ ~PublicDemo /\ ready["corpus"] => "corpus" \in services
        /\ \A i \in 1..Len(pendingInit) : pendingInit[i] \in services

(* Answering is initialized last but for the hybrid extractor, and only    *)
(* when retrieval is up; in the demo it is declared ready, but nothing is  *)
(* served before retrieval is.                                             *)
AnswerAfterRetrieval ==
    stage \in Composed =>
        /\ \A i, j \in 1..Len(pendingInit) :
               i < j /\ pendingInit[i] = "answer" => pendingInit[j] = "extraction_hybrid"
        /\ ~PublicDemo /\ ready["answer"] =>
               /\ ready["retrieval"]
               /\ \A i \in 1..Len(pendingInit) : pendingInit[i] = "extraction_hybrid"
        /\ PublicDemo => ready["retrieval"] \/ pendingInit = <<"retrieval">>

(* The container closes when nobody waits any more, and nobody comes after.*)
NobodyWaitsAtTheEnd ==
    /\ stage # "initializing" /\ stage \in Composed => pendingInit = <<>>
    /\ stage = "stopped" => Waiting = {}

ReadinessInv ==
    ResponseInv /\ ServiceBehindFlag /\ AnswerAfterRetrieval /\ NobodyWaitsAtTheEnd

(* Initializers run in the order retrieval, answer, hybrid extraction, those*)
(* of composed services only; the demo's container has one.                *)
LEMMA InitializersOrdered ==
    ASSUME NEW assets
    PROVE  /\ \A i \in 1..Len(Initializers(assets)) :
                  Initializers(assets)[i] \in BuiltServices(assets)
           /\ \A i, j \in 1..Len(Initializers(assets)) :
                  i < j /\ Initializers(assets)[i] = "answer"
                      => Initializers(assets)[j] = "extraction_hybrid"
           /\ PublicDemo => Initializers(assets) = <<"retrieval">>
<1> DEFINE registered == IF PublicDemo THEN {"retrieval"} ELSE BuiltServices(assets)
           ifBuilt(c) == IF c \in registered THEN <<c>> ELSE <<>>
           s == (ifBuilt("retrieval") \o ifBuilt("answer")) \o ifBuilt("extraction_hybrid")
<1>1. Initializers(assets) = s
    BY Zenon DEF Initializers
<1>2. registered \subseteq BuiltServices(assets)
    BY DEF BuiltServices
<1>3. PublicDemo => /\ "retrieval" \in registered
                    /\ "answer" \notin registered
                    /\ "extraction_hybrid" \notin registered
    OBVIOUS
<1> HIDE DEF registered
<1>4. CASE "retrieval" \in registered /\ "answer" \in registered
  <2>1. CASE "extraction_hybrid" \in registered
    <3>1. Len(s) = 3 /\ s[1] = "retrieval" /\ s[2] = "answer" /\ s[3] = "extraction_hybrid"
        BY <1>4, <2>1
    <3>2. QED
        BY <1>1, <1>2, <1>3, <1>4, <2>1, <3>1
  <2>2. CASE "extraction_hybrid" \notin registered
    <3>1. Len(s) = 2 /\ s[1] = "retrieval" /\ s[2] = "answer"
        BY <1>4, <2>2
    <3>2. QED
        BY <1>1, <1>2, <1>3, <1>4, <2>2, <3>1
  <2>3. QED
      BY <2>1, <2>2
<1>5. CASE "retrieval" \in registered /\ "answer" \notin registered
  <2>1. CASE "extraction_hybrid" \in registered
    <3>1. Len(s) = 2 /\ s[1] = "retrieval" /\ s[2] = "extraction_hybrid"
        BY <1>5, <2>1
    <3>2. QED
        BY <1>1, <1>2, <1>3, <1>5, <2>1, <3>1
  <2>2. CASE "extraction_hybrid" \notin registered
    <3>1. s = <<"retrieval">>
        BY <1>5, <2>2
    <3>2. QED
        BY <1>1, <1>2, <1>3, <1>5, <2>2, <3>1
  <2>3. QED
      BY <2>1, <2>2
<1>6. CASE "retrieval" \notin registered /\ "answer" \in registered
  <2>1. CASE "extraction_hybrid" \in registered
    <3>1. Len(s) = 2 /\ s[1] = "answer" /\ s[2] = "extraction_hybrid"
        BY <1>6, <2>1
    <3>2. QED
        BY <1>1, <1>2, <1>3, <1>6, <2>1, <3>1
  <2>2. CASE "extraction_hybrid" \notin registered
    <3>1. s = <<"answer">>
        BY <1>6, <2>2
    <3>2. QED
        BY <1>1, <1>2, <1>3, <1>6, <2>2, <3>1
  <2>3. QED
      BY <2>1, <2>2
<1>7. CASE "retrieval" \notin registered /\ "answer" \notin registered
  <2>1. CASE "extraction_hybrid" \in registered
    <3>1. s = <<"extraction_hybrid">>
        BY <1>7, <2>1
    <3>2. QED
        BY <1>1, <1>2, <1>3, <1>7, <2>1, <3>1
  <2>2. CASE "extraction_hybrid" \notin registered
    <3>1. s = <<>>
        BY <1>7, <2>2
    <3>2. QED
        BY <1>1, <1>2, <1>3, <1>7, <2>2, <3>1
  <2>3. QED
      BY <2>1, <2>2
<1>8. QED
    BY <1>4, <1>5, <1>6, <1>7

(* Composition establishes both, whatever assets it finds. *)
LEMMA ReadinessBuilt ==
    ASSUME TypeOK, BuildContainer
    PROVE  ServiceBehindFlag' /\ AnswerAfterRetrieval'
<1>1. PICK assets \in SUBSET AssetNames :
          /\ services' = BuiltServices(assets)
          /\ ready' = DeclaredReady(assets)
          /\ pendingInit' = Initializers(assets)
    BY DEF BuildContainer
<1>2. /\ ~ready'["retrieval"]
      /\ ready'["answer"] => PublicDemo
      /\ ~PublicDemo /\ ready'["corpus"] => "corpus" \in assets
  <2>1. ASSUME NEW c \in Components
        PROVE  ready'[c] = (\/ c = "extraction_deterministic"
                            \/ c = "corpus" /\ (PublicDemo \/ "corpus" \in assets)
                            \/ c = "answer" /\ PublicDemo)
    <3>1. ready'[c] = DeclaredReady(assets)[c]
        BY <1>1
    <3>2. DeclaredReady(assets)[c] = (\/ c = "extraction_deterministic"
                                      \/ c = "corpus" /\ (PublicDemo \/ "corpus" \in assets)
                                      \/ c = "answer" /\ PublicDemo)
        BY Zenon DEF DeclaredReady
    <3>3. QED
        BY <3>1, <3>2
  <2>2. {"corpus", "retrieval", "answer"} \subseteq Components
      BY DEF Components
  <2>3. QED
      BY <2>1, <2>2
<1>3. ServiceBehindFlag'
    BY <1>1, <1>2, InitializersOrdered DEF ServiceBehindFlag, BuiltServices, PublicDemo
<1>4. AnswerAfterRetrieval'
    BY <1>1, <1>2, InitializersOrdered DEF AnswerAfterRetrieval, PublicDemo
<1>5. QED
    BY <1>3, <1>4

(* Initializers that are still to run keep their order when one has run.   *)
LEMMA InitializersLeft ==
    ASSUME TypeOK, pendingInit # <<>>, pendingInit' = Tail(pendingInit)
    PROVE  /\ Len(pendingInit') = Len(pendingInit) - 1
           /\ \A i \in 1..Len(pendingInit') :
                  i + 1 \in 1..Len(pendingInit) /\ pendingInit'[i] = pendingInit[i + 1]
           /\ Head(pendingInit) = pendingInit[1] /\ 1 \in 1..Len(pendingInit)
           /\ Head(pendingInit) \in Components
    BY DEF TypeOK, ContainerTypeOK

LEMMA ReadinessInitialized ==
    ASSUME TypeOK, ServiceBehindFlag, AnswerAfterRetrieval, ComponentInitialized
    PROVE  ServiceBehindFlag' /\ AnswerAfterRetrieval'
<1> DEFINE c == Head(pendingInit)
<1>1. /\ stage = "initializing" /\ stage' = stage /\ services' = services
      /\ pendingInit # <<>> /\ pendingInit' = Tail(pendingInit)
      /\ ready' = [ready EXCEPT ![c] = TRUE]
      /\ c = "answer" => ready["retrieval"]
    BY DEF ComponentInitialized, MayInitialize
<1>2. \A d \in Components : ready'[d] = (d = c \/ ready[d])
    BY <1>1, InitializersLeft DEF TypeOK, ContainerTypeOK
<1>3. {"corpus", "retrieval", "answer"} \subseteq Components
    BY DEF Components
<1>4. c \in services
    BY <1>1, InitializersLeft DEF ServiceBehindFlag, Composed
<1>5. ServiceBehindFlag'
  <2>1. \A i \in 1..Len(pendingInit') : pendingInit'[i] \in services
      BY <1>1, InitializersLeft DEF ServiceBehindFlag, Composed
  <2>2. \A d \in {"retrieval", "answer"} : ready'[d] => d \in services
      BY <1>1, <1>2, <1>3, <1>4 DEF ServiceBehindFlag, Composed
  <2>3. ~PublicDemo /\ ready'["corpus"] => "corpus" \in services
      BY <1>1, <1>2, <1>3, <1>4 DEF ServiceBehindFlag, Composed
  <2>4. QED
      BY <1>1, <2>1, <2>2, <2>3 DEF ServiceBehindFlag, PublicDemo
<1>6. AnswerAfterRetrieval'
  <2>1. \A i, j \in 1..Len(pendingInit') :
            i < j /\ pendingInit'[i] = "answer" => pendingInit'[j] = "extraction_hybrid"
      BY <1>1, InitializersLeft DEF AnswerAfterRetrieval, Composed
  <2>2. ASSUME ~PublicDemo, ready'["answer"]
        PROVE  /\ ready'["retrieval"]
               /\ \A i \in 1..Len(pendingInit') : pendingInit'[i] = "extraction_hybrid"
    <3>1. CASE c = "answer"
      <4>1. \A i \in 1..Len(pendingInit') : pendingInit'[i] = "extraction_hybrid"
          BY <1>1, <3>1, InitializersLeft DEF AnswerAfterRetrieval, Composed
      <4>2. QED
          BY <1>1, <1>2, <1>3, <3>1, <4>1
    <3>2. CASE c # "answer"
      <4>1. ready["answer"] /\ ready["retrieval"]
          BY <1>1, <1>2, <1>3, <2>2, <3>2 DEF AnswerAfterRetrieval, Composed
      <4>2. \A i \in 1..Len(pendingInit') : pendingInit'[i] = "extraction_hybrid"
          BY <1>1, <2>2, <4>1, InitializersLeft DEF AnswerAfterRetrieval, Composed
      <4>3. QED
          BY <1>2, <1>3, <4>1, <4>2
    <3>3. QED
        BY <3>1, <3>2
  <2>3. PublicDemo => ready'["retrieval"]
    <3>1. PublicDemo => ready["retrieval"] \/ pendingInit = <<"retrieval">>
        BY <1>1 DEF AnswerAfterRetrieval, Composed
    <3>2. pendingInit = <<"retrieval">> => c = "retrieval"
        OBVIOUS
    <3>3. QED
        BY <1>2, <1>3, <3>1, <3>2
  <2>4. QED
      BY <1>1, <2>1, <2>2, <2>3 DEF AnswerAfterRetrieval, PublicDemo
<1>7. QED
    BY <1>5, <1>6

LEMMA ReadinessUnavailable ==
    ASSUME TypeOK, ServiceBehindFlag, AnswerAfterRetrieval, ComponentUnavailable
    PROVE  ServiceBehindFlag' /\ AnswerAfterRetrieval'
<1> DEFINE c == Head(pendingInit)
<1>1. /\ stage = "initializing" /\ stage' = stage /\ services' = services
      /\ pendingInit # <<>> /\ pendingInit' = Tail(pendingInit)
      /\ ready' = [ready EXCEPT ![c] = FALSE]
      /\ ~PublicDemo
    BY DEF ComponentUnavailable
<1>2. \A d \in Components : ready'[d] = (d # c /\ ready[d])
    BY <1>1, InitializersLeft DEF TypeOK, ContainerTypeOK
<1>3. {"corpus", "retrieval", "answer"} \subseteq Components
    BY DEF Components
<1>4. ServiceBehindFlag'
  <2>1. \A i \in 1..Len(pendingInit') : pendingInit'[i] \in services
      BY <1>1, InitializersLeft DEF ServiceBehindFlag, Composed
  <2>2. QED
      BY <1>1, <1>2, <1>3, <2>1 DEF ServiceBehindFlag, Composed, PublicDemo
<1>5. AnswerAfterRetrieval'
  <2>1. \A i, j \in 1..Len(pendingInit') :
            i < j /\ pendingInit'[i] = "answer" => pendingInit'[j] = "extraction_hybrid"
      BY <1>1, InitializersLeft DEF AnswerAfterRetrieval, Composed
  <2>2. ASSUME ready'["answer"]
        PROVE  /\ ready'["retrieval"]
               /\ \A i \in 1..Len(pendingInit') : pendingInit'[i] = "extraction_hybrid"
    <3>1. /\ ready["retrieval"]
          /\ \A i \in 1..Len(pendingInit) : pendingInit[i] = "extraction_hybrid"
        BY <1>1, <1>2, <1>3, <2>2 DEF AnswerAfterRetrieval, Composed
    <3>2. c = "extraction_hybrid"
        BY <1>1, <3>1, InitializersLeft
    <3>3. QED
        BY <1>1, <1>2, <1>3, <3>1, <3>2, InitializersLeft
  <2>3. QED
      BY <1>1, <2>1, <2>2 DEF AnswerAfterRetrieval, PublicDemo
<1>6. QED
    BY <1>4, <1>5

(* What the container's other steps and the handlers leave alone. *)
LEMMA ReadinessUntouched ==
    ASSUME ServiceBehindFlag, AnswerAfterRetrieval,
           UNCHANGED <<services, ready, pendingInit>>,
           stage' \in Composed => stage \in Composed
    PROVE  ServiceBehindFlag' /\ AnswerAfterRetrieval'
<1>1. ServiceBehindFlag'
    BY DEF ServiceBehindFlag, Composed, PublicDemo
<1>2. AnswerAfterRetrieval'
    BY DEF AnswerAfterRetrieval, Composed, PublicDemo
<1>3. QED
    BY <1>1, <1>2

(* Nothing but the end of initialization lets requests in, and nothing but *)
(* an arrival makes a handler wait.                                        *)
LEMMA NobodyWaitsStep ==
    ASSUME TypeOK, NobodyWaitsAtTheEnd, [Next]_vars
    PROVE  NobodyWaitsAtTheEnd'
<1> USE DEF NobodyWaitsAtTheEnd, Composed
<1>1. CASE Lifecycle
  <2>1. Waiting' = Waiting
      BY <1>1 DEF Lifecycle, Waiting, handlerVars
  <2>2. /\ stage' # "stopped"
        /\ stage' \in {"initializing", "failed"} \/ pendingInit' = <<>>
    BY <1>1 DEF Lifecycle, Startup, BuildContainer, BuildRaises, ComponentInitialized,
                ComponentUnavailable, InitializerRaises, FinishInitialize, BeginShutdown
  <2>3. QED
      BY <2>1, <2>2
<1>2. CASE CloseContainer
    BY <1>2 DEF CloseContainer, Close, Waiting, handlerVars
<1>3. CASE StartJob
    BY <1>3 DEF StartJob, containerVars, handlerVars, Waiting
<1>4. CASE Tick
    BY <1>4 DEF Tick, containerVars, handlerVars, Waiting
<1>5. ASSUME NEW r \in Requests, Arrival(r) PROVE NobodyWaitsAtTheEnd'
    BY <1>5 DEF Arrival, Arrives, RejectedByContract, HealthProbed, RejectedUnavailable,
                RejectedTooLong, RejectedByRate, RejectedBusy, AdmittedUnguarded,
                AdmittedGuarded, Submit, containerVars
<1>6. ASSUME NEW r \in Requests, FinishJob(r) PROVE NobodyWaitsAtTheEnd'
    BY <1>6 DEF FinishJob, containerVars, handlerVars, Waiting
<1>7. ASSUME NEW r \in Requests, Deliver(r) \/ Timeout(r) PROVE NobodyWaitsAtTheEnd'
  <2>1. UNCHANGED containerVars /\ Waiting' \subseteq Waiting
      BY <1>7 DEF Deliver, Timeout, Answer, Waiting, TypeOK
  <2>2. QED
      BY <2>1 DEF containerVars
<1>8. CASE UNCHANGED vars
    BY <1>8 DEF vars, containerVars, handlerVars, Waiting
<1>9. QED
    BY <1>1, <1>2, <1>3, <1>4, <1>5, <1>6, <1>7, <1>8 DEF Next

LEMMA ReadinessStep == TypeOK /\ ReadinessInv /\ [Next]_vars => ReadinessInv'
<1> SUFFICES ASSUME TypeOK, ReadinessInv, [Next]_vars PROVE ReadinessInv'
    OBVIOUS
<1> USE DEF ReadinessInv
<1>1. ResponseInv' /\ NobodyWaitsAtTheEnd'
    BY ResponseStep, NobodyWaitsStep
<1>2. CASE Startup
  <2>1. CASE BuildContainer
      BY <1>1, <2>1, ReadinessBuilt
  <2>2. CASE BuildRaises \/ InitializerRaises
      BY <1>1, <2>2 DEF BuildRaises, InitializerRaises, ServiceBehindFlag, AnswerAfterRetrieval, Composed
  <2>3. CASE ComponentInitialized
      BY <1>1, <2>3, ReadinessInitialized
  <2>4. CASE ComponentUnavailable
      BY <1>1, <2>4, ReadinessUnavailable
  <2>5. CASE FinishInitialize
      BY <1>1, <2>5, ReadinessUntouched DEF FinishInitialize, Composed
  <2>6. QED
      BY <1>2, <2>1, <2>2, <2>3, <2>4, <2>5 DEF Startup
<1>3. CASE ~Startup
  <2>1. \/ UNCHANGED containerVars
        \/ BeginShutdown \/ Close
      BY <1>3 DEF Next, Lifecycle, CloseContainer, StartJob, Tick, Arrival, RejectedByContract,
                  HealthProbed, RejectedUnavailable, RejectedTooLong, RejectedByRate, RejectedBusy,
                  AdmittedUnguarded, AdmittedGuarded, Submit, FinishJob, Deliver, Timeout, vars
  <2>2. /\ UNCHANGED <<services, ready, pendingInit>>
        /\ stage' \in Composed => stage \in Composed
      BY <2>1 DEF BeginShutdown, Close, containerVars, Composed
  <2>3. QED
      BY <1>1, <2>2, ReadinessUntouched
<1>4. QED
    BY <1>2, <1>3

LEMMA ReadinessGivesHonesty == TypeOK /\ ReadinessInv => ReadinessIsHonest
<1> SUFFICES ASSUME TypeOK, ReadinessInv PROVE ReadinessIsHonest
    OBVIOUS
<1> USE DEF ReadinessInv
<1>1. AnswerNeedsRetrieval
    BY DEF AnswerNeedsRetrieval, AnswerAfterRetrieval, NobodyWaitsAtTheEnd, Composed
<1>2. ASSUME stage \in {"serving", "draining"}, Healthy,
             NEW e \in {"search", "answer"} \cup {d \in {"documents"} : ~PublicDemo}
      PROVE  Available(e)
  <2>1. /\ ready["retrieval"] /\ ready["answer"]
        /\ ~PublicDemo => ready["corpus"]
      BY <1>2 DEF Healthy, Required
  <2>2. /\ "retrieval" \in services /\ "answer" \in services
        /\ ~PublicDemo => "corpus" \in services
      BY <1>2, <2>1 DEF ServiceBehindFlag, Composed
  <2>3. QED
      BY <2>1, <2>2 DEF Available
<1>3. ASSUME stage = "stopped", NEW r \in Running PROVE response[r] = "504"
    BY <1>3 DEF Running, Waiting, ResponseInv, NobodyWaitsAtTheEnd
<1>4. QED
    BY <1>1, <1>2, <1>3 DEF ReadinessIsHonest, HealthMeansService

(* A healthy container's endpoints accept work, answering is never up      *)
(* without retrieval, and what runs after close was told 504: for every set*)
(* of assets, every failing initializer and any number of requests.        *)
THEOREM ReadinessHonest == Spec => []ReadinessIsHonest
<1>1. Init => ReadinessInv
    BY DEF Init, ContainerInit, ReadinessInv, ResponseInv, ServiceBehindFlag,
           AnswerAfterRetrieval, NobodyWaitsAtTheEnd, Composed
<1>2. Spec => []ReadinessInv
    BY <1>1, TypeCorrect, ReadinessStep, PTL DEF Spec
<1>3. QED
    BY <1>2, TypeCorrect, ReadinessGivesHonesty, PTL

(***************************************************************************)
(* Refinement: the limiter, its deque and the handlers' finally blocks     *)
(* implement the abstract admission contract.                              *)
(***************************************************************************)
LEMMA AdmissionStart == Init => AdmissionView!AdmissionInit
    BY DEF Init, AdmissionView!AdmissionInit, Holders

(* Steps that neither take nor return a permit stutter in the abstraction. *)
LEMMA AdmissionStutter ==
    ASSUME UNCHANGED <<clock, held, admissions>>
    PROVE  UNCHANGED AdmissionView!admissionVars
    BY DEF AdmissionView!admissionVars, Holders

(* Releasing is leaving, for whoever holds a permit. *)
LEMMA AdmissionLeave ==
    ASSUME TypeOK, NEW r \in Requests, Release(r), UNCHANGED <<clock, admissions>>
    PROVE  [AdmissionView!AdmissionNext]_AdmissionView!admissionVars
<1>1. Holders' = Holders \ {r}
    BY DEF Release, Holders, TypeOK
<1>2. CASE r \in Holders
    BY <1>1, <1>2 DEF AdmissionView!AdmissionNext, AdmissionView!Leave
<1>3. CASE r \notin Holders
    BY <1>1, <1>3 DEF AdmissionView!admissionVars
<1>4. QED
    BY <1>2, <1>3

LEMMA AdmissionEnter ==
    ASSUME TypeOK, SlotAccounting, LimiterInv,
           NEW r \in Requests, NEW e \in Endpoints, AdmittedGuarded(r, e)
    PROVE  AdmissionView!Enter(r)
<1>1. /\ phase[r] = "new" /\ permits > 0
      /\ held' = [held EXCEPT ![r] = TRUE]
      /\ admissions' = Append(admissions, clock)
      /\ UNCHANGED clock
    BY DEF AdmittedGuarded, Arrives, Submit
<1>2. r \notin Holders /\ Holders' = Holders \cup {r}
    BY <1>1 DEF Holders, SlotAccounting, TypeOK
<1>3. Cardinality(Holders) < MaxConcurrent
    BY <1>1, HoldersFinite, ServingAssumption DEF SlotAccounting, TypeOK
<1>4. Len(admissions) >= RateLimit =>
          clock - admissions[Len(admissions) + 1 - RateLimit] >= Window
    BY AdmissionWithinBudget DEF AdmittedGuarded
<1>5. AdmissionView!Cardinality(Holders) = Cardinality(Holders)
    BY DEF AdmissionView!Cardinality, Cardinality
<1>6. QED
    BY <1>1, <1>2, <1>3, <1>4, <1>5 DEF AdmissionView!Enter, AdmissionView!WithinBudget

LEMMA AdmissionStep ==
    ASSUME TypeOK, SlotAccounting, LimiterInv, [Next]_vars
    PROVE  [AdmissionView!AdmissionNext]_AdmissionView!admissionVars
<1> USE DEF handlerVars, limiterVars
<1>1. CASE Lifecycle
    BY <1>1, AdmissionStutter DEF Lifecycle
<1>2. CASE CloseContainer
    BY <1>2, AdmissionStutter DEF CloseContainer
<1>3. CASE StartJob
    BY <1>3, AdmissionStutter DEF StartJob
<1>4. CASE Tick
    BY <1>4 DEF Tick, Holders, AdmissionView!AdmissionNext, AdmissionView!Elapse
<1>5. ASSUME NEW r \in Requests, Arrival(r)
      PROVE  [AdmissionView!AdmissionNext]_AdmissionView!admissionVars
  <2>1. ASSUME NEW e \in Endpoints, AdmittedGuarded(r, e)
        PROVE  [AdmissionView!AdmissionNext]_AdmissionView!admissionVars
      BY <2>1, AdmissionEnter DEF AdmissionView!AdmissionNext
  <2>2. ASSUME NEW e \in Endpoints, AdmittedUnguarded(r, e)
        PROVE  UNCHANGED <<clock, held, admissions>>
      BY <2>2 DEF AdmittedUnguarded, Submit
  <2>3. QED
      BY <1>5, <2>1, <2>2, AdmissionStutter
         DEF Arrival, RejectedByContract, HealthProbed, RejectedUnavailable,
             RejectedTooLong, RejectedByRate, RejectedBusy
<1>6. ASSUME NEW r \in Requests, FinishJob(r)
      PROVE  [AdmissionView!AdmissionNext]_AdmissionView!admissionVars
    BY <1>6, AdmissionStutter DEF FinishJob
<1>7. ASSUME NEW r \in Requests, Deliver(r)
      PROVE  [AdmissionView!AdmissionNext]_AdmissionView!admissionVars
    BY <1>7, AdmissionLeave DEF Deliver
<1>8. ASSUME NEW r \in Requests, Timeout(r)
      PROVE  [AdmissionView!AdmissionNext]_AdmissionView!admissionVars
    BY <1>8, AdmissionLeave DEF Timeout
<1>9. CASE UNCHANGED vars
    BY <1>9, AdmissionStutter DEF vars
<1>10. QED
    BY <1>1, <1>2, <1>3, <1>4, <1>5, <1>6, <1>7, <1>8, <1>9 DEF Next

(* The serving boundary implements the admission contract, step by step. *)
THEOREM ServingImplementsAdmission == Spec => ImplementsAdmission
<1>1. TypeOK /\ SlotAccounting /\ LimiterInv /\ [Next]_vars
          => [AdmissionView!AdmissionNext]_AdmissionView!admissionVars
    BY AdmissionStep
<1>2. QED
    BY <1>1, AdmissionStart, TypeCorrect, SlotsAccounted, LimiterInvariant, PTL
       DEF Spec, ImplementsAdmission, AdmissionView!AdmissionSpec
=============================================================================
