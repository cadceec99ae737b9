------------------------------- MODULE Serving -------------------------------
(***************************************************************************)
(* The HTTP boundary: requests handled on one event loop, their synchronous*)
(* work on the loop's thread pool, a timeout around each piece of work, and*)
(* the public demo's concurrency and rate limiter (api/routers.py,         *)
(* api/middleware.py, demo/limits.py), on top of the container's lifecycle.*)
(*                                                                         *)
(* A handler runs without interruption from its first line to the await in *)
(* _run_with_timeout, and from that await to its end: each is one action.  *)
(***************************************************************************)
EXTENDS Container, Integers, FiniteSets

CONSTANTS
    Requests,       \* request identifiers; each is sent at most once
    Endpoints,      \* the endpoints the clients use
    Workers,        \* threads of the default executor
    MaxConcurrent,  \* permits of the demo semaphore
    RateLimit,      \* admissions per window
    Window,         \* window length, in clock units
    MaxClock        \* bound: the clock stops here

AllEndpoints == {"search", "answer", "extract_deterministic", "extract_hybrid", "documents"}

ASSUME ServingAssumption ==
    /\ Endpoints \subseteq AllEndpoints
    /\ IsFiniteSet(Requests)
    /\ Workers \in Nat \ {0}
    /\ MaxConcurrent \in Nat \ {0}
    /\ RateLimit \in Nat \ {0}
    /\ Window \in Nat
    /\ MaxClock \in Nat

VARIABLES
    phase,       \* "new", "waiting" (handler suspended in wait_for), "answered"
    endpoint,    \* what each request asked for
    response,    \* status code class sent, "none" before
    held,        \* the handler's demo_guard is not None and not yet released
    job,         \* its work item: "none", "queued", "running", "finished", "cancelled"
    result,      \* outcome of finished work the handler has not seen yet
    queue,       \* work items waiting for a thread, FIFO
    permits,     \* value of the bounded semaphore
    timestamps,  \* the limiter's deque of recent admission times
    clock,       \* time.monotonic()
    admissions   \* history: every admission time ever appended

handlerVars == <<phase, endpoint, response, held>>
jobVars     == <<job, result, queue>>
limiterVars == <<permits, timestamps, clock, admissions>>
vars        == <<containerVars, handlerVars, jobVars, limiterVars>>

Statuses == {"none", "200", "404", "413", "422", "429", "500", "503", "504"}
Outcomes == {"value", "missing", "error", "model_unavailable"}

Init ==
    /\ ContainerInit
    /\ phase = [r \in Requests |-> "new"]
    /\ endpoint = [r \in Requests |-> "none"]
    /\ response = [r \in Requests |-> "none"]
    /\ held = [r \in Requests |-> FALSE]
    /\ job = [r \in Requests |-> "none"]
    /\ result = [r \in Requests |-> "none"]
    /\ queue = <<>>
    /\ permits = MaxConcurrent
    /\ timestamps = <<>>
    /\ clock = 0
    /\ admissions = <<>>

Waiting == {r \in Requests : phase[r] = "waiting"}
Running == {r \in Requests : job[r] = "running"}
Holders == {r \in Requests : held[r]}

(* Only the demo container carries a guard, and only the three AI handlers *)
(* enter it; document browsing never does.                                 *)
Guarded(e) == PublicDemo /\ e # "documents"

(* The readiness test each handler makes before anything else. *)
Available(e) ==
    CASE e = "search"    -> "retrieval" \in services /\ ready["retrieval"]
      [] e = "answer"    -> "answer" \in services /\ ready["answer"]
      [] e = "documents" -> "corpus" \in services /\ ready["corpus"]
      [] e = "extract_hybrid" ->
             "extraction_deterministic" \in services /\ ready["extraction_hybrid"]
      [] OTHER           -> "extraction_deterministic" \in services

(***************************************************************************)
(* The limiter.  Timestamps are evicted from the front only, up to the     *)
(* first one still inside the window.                                      *)
(***************************************************************************)
InWindow(i) == clock - timestamps[i] < Window

(* Fault: the deque is popped once before its front is tested. *)
EvictsOneTooMany(k) ==
    /\ k \in 0..Len(timestamps)
    /\ \A i \in 1..(k - 1) : ~InWindow(i)
    /\ k < Len(timestamps) => InWindow(k + 1)

(* k of the oldest timestamps have left the window and go. *)
Evicts(k) ==
    /\ k \in 0..Len(timestamps)
    /\ \A i \in 1..k : ~InWindow(i)
    /\ k < Len(timestamps) => InWindow(k + 1)

AfterEviction(k) == SubSeq(timestamps, k + 1, Len(timestamps))

(***************************************************************************)
(* A request arrives.                                                      *)
(***************************************************************************)
Answer(r, status) ==
    /\ phase' = [phase EXCEPT ![r] = "answered"]
    /\ response' = [response EXCEPT ![r] = status]

Arrives(r, e) == stage = "serving" /\ phase[r] = "new" /\ e \in Endpoints

(* ServingMiddleware, request validation and the check of a document id    *)
(* reject before the readiness test: a body over 128 KiB, a contract       *)
(* violation, an id that is not a single path segment.                     *)
RejectedByContract(r) ==
    /\ stage = "serving"
    /\ phase[r] = "new"
    /\ \E status \in {"404", "413", "422"} : Answer(r, status)
    /\ UNCHANGED <<containerVars, endpoint, held, jobVars, limiterVars>>

RejectedUnavailable(r, e) ==
    /\ Arrives(r, e)
    /\ ~Available(e)
    /\ Answer(r, "503")
    /\ UNCHANGED <<containerVars, endpoint, held, jobVars, limiterVars>>

(* validate_query / validate_extraction fail before acquire is called. *)
RejectedTooLong(r, e) ==
    /\ Arrives(r, e)
    /\ Available(e) /\ Guarded(e)
    /\ Answer(r, "413")
    /\ UNCHANGED <<containerVars, endpoint, held, jobVars, limiterVars>>

(* acquire: the window is full.  What was evicted stays evicted. *)
RejectedByRate(r, e) ==
    /\ Arrives(r, e)
    /\ Available(e) /\ Guarded(e)
    /\ \E k \in 0..Len(timestamps) :
          /\ Evicts(k)
          /\ Len(timestamps) - k >= RateLimit
          /\ timestamps' = AfterEviction(k)
    /\ Answer(r, "429")
    /\ UNCHANGED <<containerVars, endpoint, held, jobVars, permits, clock, admissions>>

(* acquire: no permit left.  A rejected request is not counted in the window. *)
RejectedBusy(r, e) ==
    /\ Arrives(r, e)
    /\ Available(e) /\ Guarded(e)
    /\ \E k \in 0..Len(timestamps) :
          /\ Evicts(k)
          /\ Len(timestamps) - k < RateLimit
          /\ timestamps' = AfterEviction(k)
    /\ permits = 0
    /\ Answer(r, "429")
    /\ UNCHANGED <<containerVars, endpoint, held, jobVars, permits, clock, admissions>>

(* The health handler never suspends: it reads the readiness flags. *)
HealthProbed(r) ==
    /\ stage = "serving"
    /\ phase[r] = "new"
    /\ Answer(r, IF Healthy THEN "200" ELSE "503")
    /\ UNCHANGED <<containerVars, endpoint, held, jobVars, limiterVars>>

(* The handler hands its work to the executor and suspends in wait_for. *)
Submit(r, e) ==
    /\ phase' = [phase EXCEPT ![r] = "waiting"]
    /\ endpoint' = [endpoint EXCEPT ![r] = e]
    /\ job' = [job EXCEPT ![r] = "queued"]
    /\ queue' = Append(queue, r)
    /\ UNCHANGED <<containerVars, response, result, clock>>

AdmittedUnguarded(r, e) ==
    /\ Arrives(r, e)
    /\ Available(e) /\ ~Guarded(e)
    /\ Submit(r, e)
    /\ UNCHANGED <<held, permits, timestamps, admissions>>

(* Fault: the semaphore is taken without looking whether a permit is left. *)
AdmittedWithoutPermit(r, e) ==
    /\ Arrives(r, e)
    /\ Available(e) /\ Guarded(e)
    /\ timestamps' = Append(timestamps, clock)
    /\ admissions' = Append(admissions, clock)
    /\ permits' = permits - 1
    /\ held' = [held EXCEPT ![r] = TRUE]
    /\ Submit(r, e)

AdmittedGuarded(r, e) ==
    /\ Arrives(r, e)
    /\ Available(e) /\ Guarded(e)
    /\ permits > 0
    /\ \E k \in 0..Len(timestamps) :
          /\ Evicts(k)
          /\ Len(timestamps) - k < RateLimit
          /\ timestamps' = Append(AfterEviction(k), clock)
    /\ admissions' = Append(admissions, clock)
    /\ permits' = permits - 1
    /\ held' = [held EXCEPT ![r] = TRUE]
    /\ Submit(r, e)

(***************************************************************************)
(* The thread pool.                                                        *)
(***************************************************************************)
(* Fault: a cancelled work item is not dropped.                            *)
StartJobIfQueued ==
    /\ queue # <<>>
    /\ job[Head(queue)] = "queued"
    /\ Cardinality(Running) < Workers
    /\ job' = [job EXCEPT ![Head(queue)] = "running"]
    /\ queue' = Tail(queue)
    /\ UNCHANGED <<containerVars, handlerVars, result, limiterVars>>

(* An idle thread takes the next work item; a cancelled one is dropped. *)
StartJob ==
    /\ queue # <<>>
    /\ Cardinality(Running) < Workers
    /\ job' = [job EXCEPT ![Head(queue)] = IF @ = "queued" THEN "running" ELSE @]
    /\ queue' = Tail(queue)
    /\ UNCHANGED <<containerVars, handlerVars, result, limiterVars>>

(* Only the hybrid extractor turns a provider outage into an error of its  *)
(* own; the Stage-D provider reports one as an invalid generation, a value.*)
(* Only a document lookup can come back empty.                             *)
PossibleOutcomes(e) ==
    {"value", "error"}
    \cup {o \in {"model_unavailable"} : e = "extract_hybrid"}
    \cup {o \in {"missing"} : e = "documents"}

(* Fault: a late result reaches a handler that has already given up. *)
FinishJobUnconditionally(r) ==
    /\ job[r] = "running"
    /\ job' = [job EXCEPT ![r] = "finished"]
    /\ \E o \in PossibleOutcomes(endpoint[r]) : result' = [result EXCEPT ![r] = o]
    /\ UNCHANGED <<containerVars, handlerVars, queue, limiterVars>>

(* The future of a cancelled wait ignores what its thread returns. *)
FinishJob(r) ==
    /\ job[r] = "running"
    /\ job' = [job EXCEPT ![r] = "finished"]
    /\ IF phase[r] = "waiting"
       THEN \E o \in PossibleOutcomes(endpoint[r]) : result' = [result EXCEPT ![r] = o]
       ELSE UNCHANGED result
    /\ UNCHANGED <<containerVars, handlerVars, queue, limiterVars>>

(***************************************************************************)
(* The handler resumes.  Its finally block releases the guard either way.  *)
(***************************************************************************)
Release(r) ==
    /\ held' = [held EXCEPT ![r] = FALSE]
    /\ permits' = permits + (IF held[r] THEN 1 ELSE 0)

StatusOf(outcome) ==
    CASE outcome = "value"             -> "200"
      [] outcome = "missing"           -> "404"
      [] outcome = "model_unavailable" -> "503"
      [] OTHER                         -> "500"

Deliver(r) ==
    /\ result[r] # "none"
    /\ Answer(r, StatusOf(result[r]))
    /\ Release(r)
    /\ result' = [result EXCEPT ![r] = "none"]
    /\ UNCHANGED <<containerVars, endpoint, job, queue, timestamps, clock, admissions>>

(* Fault: only the normal path releases the guard. *)
TimeoutWithoutFinally(r) ==
    /\ phase[r] = "waiting"
    /\ Answer(r, "504")
    /\ result' = [result EXCEPT ![r] = "none"]
    /\ job' = [job EXCEPT ![r] = IF @ = "queued" THEN "cancelled" ELSE @]
    /\ UNCHANGED <<containerVars, endpoint, held, queue, limiterVars>>

(* Fault: the timer covers the time in the queue only. *)
TimeoutInQueueOnly(r) ==
    /\ phase[r] = "waiting" /\ job[r] = "queued"
    /\ Answer(r, "504")
    /\ Release(r)
    /\ result' = [result EXCEPT ![r] = "none"]
    /\ job' = [job EXCEPT ![r] = "cancelled"]
    /\ UNCHANGED <<containerVars, endpoint, queue, timestamps, clock, admissions>>

(* wait_for gives up.  A queued work item is cancelled; a running one cannot*)
(* be: its thread goes on, and nobody will see its result.  The timer may  *)
(* still win against a result the loop has not delivered yet.              *)
Timeout(r) ==
    /\ phase[r] = "waiting"
    /\ Answer(r, "504")
    /\ Release(r)
    /\ result' = [result EXCEPT ![r] = "none"]
    /\ job' = [job EXCEPT ![r] = IF @ = "queued" THEN "cancelled" ELSE @]
    /\ UNCHANGED <<containerVars, endpoint, queue, timestamps, clock, admissions>>

Tick ==
    /\ clock < MaxClock
    /\ clock' = clock + 1
    /\ UNCHANGED <<containerVars, handlerVars, jobVars, permits, timestamps, admissions>>

(* Shutdown: the server has answered every accepted request, then runs     *)
(* container.close on a thread of the same pool.                           *)
CloseContainer ==
    /\ Waiting = {}
    /\ queue = <<>>
    /\ Cardinality(Running) < Workers
    /\ Close
    /\ UNCHANGED <<handlerVars, jobVars, limiterVars>>

Lifecycle ==
    /\ Startup \/ BeginShutdown
    /\ UNCHANGED <<handlerVars, jobVars, limiterVars>>

Arrival(r) ==
    \/ RejectedByContract(r)
    \/ HealthProbed(r)
    \/ \E e \in Endpoints :
          \/ RejectedUnavailable(r, e) \/ RejectedTooLong(r, e)
          \/ RejectedByRate(r, e) \/ RejectedBusy(r, e)
          \/ AdmittedUnguarded(r, e) \/ AdmittedGuarded(r, e)

Next ==
    \/ Lifecycle
    \/ CloseContainer
    \/ StartJob
    \/ Tick
    \/ \E r \in Requests : Arrival(r) \/ FinishJob(r) \/ Deliver(r) \/ Timeout(r)

Spec == Init /\ [][Next]_vars

(* The event loop runs its timers and callbacks and the pool picks up work.*)
(* Nothing says that work ends: a model call may hang.                     *)
LoopFairness ==
    /\ \A r \in Requests : WF_vars(Deliver(r)) /\ WF_vars(Timeout(r))
    /\ WF_vars(StartJob)
    /\ WF_vars(CloseContainer)

FairSpec == Spec /\ LoopFairness

(***************************************************************************)
(* Properties.                                                             *)
(***************************************************************************)
TypeOK ==
    /\ ContainerTypeOK
    /\ phase \in [Requests -> {"new", "waiting", "answered"}]
    /\ endpoint \in [Requests -> Endpoints \cup {"none"}]
    /\ response \in [Requests -> Statuses]
    /\ held \in [Requests -> BOOLEAN]
    /\ job \in [Requests -> {"none", "queued", "running", "finished", "cancelled"}]
    /\ result \in [Requests -> Outcomes \cup {"none"}]
    /\ queue \in Seq(Requests)
    /\ permits \in Nat
    /\ timestamps \in Seq(Nat)
    /\ clock \in Nat
    /\ admissions \in Seq(Nat)

(* The semaphore's permits and the guarded handlers still suspended always *)
(* add up: no path out of a handler (result, error, timeout) leaks a permit*)
(* or gives one back twice, which BoundedSemaphore would turn into an error.*)
SlotAccounting ==
    /\ permits + Cardinality(Holders) = MaxConcurrent
    /\ \A r \in Requests : held[r] => phase[r] = "waiting" /\ Guarded(endpoint[r])
    /\ \A r \in Waiting : Guarded(endpoint[r]) => held[r]

(* Any RateLimit + 1 consecutive admissions span at least a whole window:  *)
(* the deque, evicted only from its front, never forgets one too early.    *)
RateBudget ==
    \A i \in 1..Len(admissions) :
        i > RateLimit => admissions[i] - admissions[i - RateLimit] >= Window

(* The demo's limiter implements the abstract admission contract. *)
AdmissionView == INSTANCE Admission WITH inside <- Holders, log <- admissions
ImplementsAdmission == AdmissionView!AdmissionSpec

(* What the health endpoint and the handlers say agrees: when every required*)
(* component is ready the endpoints that need one accept work, although    *)
(* readiness flags and service objects are set in different places; and what*)
(* runs after close is only work whose client was told 504.                *)
HealthMeansService ==
    /\ stage \in {"serving", "draining"} /\ Healthy
          => \A e \in {"search", "answer"} \cup {d \in {"documents"} : ~PublicDemo} :
                 Available(e)
    /\ stage = "stopped" => \A r \in Running : response[r] = "504"

(* What readiness says is true of the services, of the endpoints and of the*)
(* order in which answering depends on retrieval.                          *)
ReadinessIsHonest == HealthMeansService /\ AnswerNeedsRetrieval

(* A response is sent once: a late result of timed-out work never replaces *)
(* the 504, and a suspended handler answers 200 only with finished work.   *)
ResponseIsFinal ==
    [][\A r \in Requests :
          /\ response[r] # "none" => response'[r] = response[r]
          /\ phase[r] = "waiting" /\ response'[r] = "200" => job[r] = "finished"]_vars

(* "concurrent AI/retrieval work to one request"                           *)
(* (docs/deployment/public-demo.md:37-38): work running for guarded requests*)
(* never exceeds the semaphore.                                            *)
ConcurrentWorkBounded ==
    Cardinality({r \in Running : Guarded(endpoint[r])}) <= MaxConcurrent

(* Whatever the work does, even hang, a suspended handler answers its client*)
(* (and, with SlotAccounting, a taken permit comes back).                  *)
EveryRequestAnswered == \A r \in Requests : phase[r] = "waiting" ~> phase[r] = "answered"

(* Shutdown completes if no piece of work runs for ever: orphaned work can *)
(* hold every thread of the pool that container.close needs until it returns.*)
ShutdownCompletes ==
    (\A r \in Requests : []<>(job[r] # "running")) => (stage = "draining" ~> stage = "stopped")
=============================================================================
