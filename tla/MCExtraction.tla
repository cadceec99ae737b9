---------------------------- MODULE MCExtraction ----------------------------
(* Instances of ExtractionRun: fingerprints are interchangeable. *)
EXTENDS ExtractionRun, TLC

CONSTANTS f, g

OneConfiguration == {f}
TwoConfigurations == {f, g}
Symmetry == Permutations(Fingerprints)
=============================================================================
