---------------------------- MODULE MCGeneration ----------------------------
(* Instances of GenerationRun: the first query is denied by the policy, the*)
(* second allowed, its context reshaped by the jurisdiction statement or not.*)
EXTENDS GenerationRun, TLC

CONSTANTS c, d

OneConfiguration == {c}
TwoConfigurations == {c, d}
FirstQuery == {1}
SecondQuery == {2}
NoQuery == {}
Symmetry == Permutations(Configs)
=============================================================================
