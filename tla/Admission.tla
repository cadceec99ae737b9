------------------------------ MODULE Admission ------------------------------
(***************************************************************************)
(* What the public demo promises about admission, whatever queue, thread   *)
(* pool or deque implements it: never more than MaxConcurrent requests     *)
(* inside at once, never more than RateLimit admissions in any window, and *)
(* every place is given back exactly once, by the request that took it.    *)
(***************************************************************************)
EXTENDS Integers, Sequences, FiniteSets

CONSTANTS Requests, MaxConcurrent, RateLimit, Window

VARIABLES
    clock,   \* time
    inside,  \* requests admitted and not yet left
    log      \* admission times, oldest first

admissionVars == <<clock, inside, log>>

AdmissionInit ==
    /\ clock = 0
    /\ inside = {}
    /\ log = <<>>

(* The RateLimit-th most recent admission, if there is one, left the window. *)
WithinBudget ==
    Len(log) >= RateLimit => clock - log[Len(log) + 1 - RateLimit] >= Window

Enter(r) ==
    /\ r \notin inside
    /\ Cardinality(inside) < MaxConcurrent
    /\ WithinBudget
    /\ inside' = inside \cup {r}
    /\ log' = Append(log, clock)
    /\ UNCHANGED clock

Leave(r) ==
    /\ r \in inside
    /\ inside' = inside \ {r}
    /\ UNCHANGED <<clock, log>>

Elapse ==
    /\ clock' = clock + 1
    /\ UNCHANGED <<inside, log>>

AdmissionNext == Elapse \/ \E r \in Requests : Enter(r) \/ Leave(r)

AdmissionSpec == AdmissionInit /\ [][AdmissionNext]_admissionVars
=============================================================================
