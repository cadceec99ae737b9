------------------------------ MODULE MCPipeline ------------------------------
(* The experiments and the data they begin with: HybridExperiment as in    *)
(* MCHybrid, Acquisition and CanonicalCorpus, which share no file that     *)
(* changes.  A behaviour is one of one component.                          *)
EXTENDS MCHybrid, Acquisition, CanonicalCorpus

(* One source of one imported file, one of two files from the hub. *)
TwoSources == <<"arabiccr", "saudi-moj-derived">>
TheirFiles == [s \in {"arabiccr", "saudi-moj-derived"} |->
                  IF s = "arabiccr" THEN <<"ArabiCCR-dataset.csv">> ELSE <<"README.md", "data">>]
OneHub == {"saudi-moj-derived"}
TwoFiles == {"csv", "cut csv"}
TheirVersions == [s \in {"arabiccr", "saudi-moj-derived"} |-> IF s = "arabiccr" THEN 1 ELSE 2]
TwoCorpora == {"arabiccr", "saudi-moj-derived"}

VARIABLE active   \* the component of this behaviour

PipelineInit ==
    /\ active \in {"hybrid", "acquisition", "corpus"}
    /\ Init /\ (active # "hybrid" => ~gate)
    /\ AcquisitionInit
    /\ CorpusInit /\ (active # "corpus" => phase = 4 /\ inventories = NoRevisions)

PipelineNext ==
    /\ UNCHANGED active
    /\ \/ active = "hybrid" /\ Next
       \/ active # "hybrid" /\ UNCHANGED vars
    /\ \/ active = "acquisition" /\ AcquisitionNext
       \/ active # "acquisition" /\ UNCHANGED acquisitionVars
    /\ \/ active = "corpus" /\ CorpusNext
       \/ active # "corpus" /\ UNCHANGED corpusVars

pipelineVars == <<active, vars, acquisitionVars, corpusVars>>

(* The types of all. *)
TypesOK == TypeOK /\ AcquisitionTypeOK /\ CorpusTypeOK

PipelineSpec == PipelineInit /\ [][PipelineNext]_pipelineVars
=============================================================================
