----------------------------- MODULE MCServing -----------------------------
(* Model values for Serving: interchangeable requests. *)
EXTENDS Serving, TLC

CONSTANTS r1, r2, r3

TwoRequests == {r1, r2}
ThreeRequests == {r1, r2, r3}
Symmetry == Permutations(Requests)
=============================================================================
