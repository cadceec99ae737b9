------------------------------ MODULE MCHybrid ------------------------------
(* An instance of HybridExperiment with two devices and two interchangeable*)
(* results of a holdout query.                                             *)
EXTENDS HybridExperiment, TLC

CONSTANTS cpu, gpu, x, y

TwoDevices == {cpu, gpu}
OneDevice == {cpu}
TwoResults == {x, y}
Symmetry == Permutations(Results)
=============================================================================
