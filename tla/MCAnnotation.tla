---------------------------- MODULE MCAnnotation ----------------------------
(* Instances of ExtractionRun, of the annotation pack and of the evaluated *)
(* experiments, checked in one run: a behaviour is one of the three.       *)
EXTENDS ExtractionRun, AnnotationPack, ExtractionEvaluation, TLC

CONSTANTS f, g, d1, d2, h1, h2, r1

TwoConfigurations == {f, g}
DevUnits == {d1, d2}
HoldoutUnits == {h1, h2}
OneRule == {r1}
Symmetry == Permutations(Fingerprints)

VARIABLE active   \* the component of this behaviour

(* What is not active starts anywhere it may, once. *)
AnyExperiment == experiment = "b1 dev" /\ reference = [u \in Units |-> {}]

ExtractionInit ==
    /\ active \in {"run", "pack", "experiment"}
    /\ Init
    /\ PackInit
    /\ ExperimentInit
    /\ active # "experiment" => AnyExperiment

ExtractionNext ==
    /\ UNCHANGED active
    /\ \/ active = "run" /\ Next /\ UNCHANGED <<packVars, experimentVars>>
       \/ active = "pack" /\ PackNext /\ UNCHANGED <<vars, experimentVars>>
       \/ active = "experiment" /\ ExperimentNext /\ UNCHANGED <<vars, packVars>>

(* The types of all. *)
TypesOK == TypeOK /\ PackTypeOK /\ ExperimentTypeOK

ExtractionSpec == ExtractionInit /\ [][ExtractionNext]_<<active, vars, packVars, experimentVars>>
=============================================================================
