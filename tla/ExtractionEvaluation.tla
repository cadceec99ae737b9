-------------------------- MODULE ExtractionEvaluation --------------------------
(***************************************************************************)
(* The two evaluated extraction experiments: Stage B1 on DEV               *)
(* (extraction/stage_b1_evaluation.py) and the protected HOLDOUT run of    *)
(* Stage B2 (extraction/stage_b2_holdout_evaluation.py), with what guards  *)
(* the latter in extraction/orchestration.py: the frozen reference and the *)
(* DEV configuration whose hash is locked.                                 *)
(*                                                                         *)
(* An evaluation reads the annotation records, the result files and the    *)
(* experiment's configuration as they are, whatever checkpoints say of     *)
(* them, and writes four documents.  ExtractionRun models the run in       *)
(* detail and AnnotationPack the records; here a run is a result per       *)
(* record, an annotation the rules it holds, and commands follow one       *)
(* another, killed anywhere.  A rule is its key (_rule_key).               *)
(***************************************************************************)
EXTENDS Naturals, FiniteSets

CONSTANTS
    Evaluated,       \* number of records of the split
    Rules,           \* keys of rules
    LockedCalls,     \* model calls of the DEV experiment whose configuration is locked
    MaxExperiments,  \* experiments run
    MaxImports,      \* annotations changed
    MaxReports       \* evaluations that found every result

ASSUME ExperimentAssumption ==
    /\ Evaluated \in Nat \ {0}
    /\ IsFiniteSet(Rules)
    /\ {LockedCalls, MaxExperiments, MaxImports, MaxReports} \subseteq Nat

VARIABLES
    experiment,        \* "b1 dev" or "b2 holdout"
    reference,         \* rules annotated in each record
    reserved,          \* the HOLDOUT reference is frozen
    devConfiguration,  \* configuration file of the Stage B2 DEV experiment
    selected,          \* configuration the selection manifest names
    configuration,     \* configuration file of the experiment
    predictions,       \* result file of each record
    working,           \* the run in progress
    experiments,       \* experiments run
    imports,           \* annotations changed
    evaluation,        \* the evaluation in progress: what it read, its next document
    reportsBegun,      \* evaluations begun
    reports            \* what each document describes

annotations == <<reference, reserved, imports>>
experimentFiles == <<devConfiguration, selected, configuration, predictions>>
reporting == <<evaluation, reportsBegun, reports>>
experimentVars ==
    <<experiment, annotations, experimentFiles, working, experiments, reporting>>

Units == 1 .. Evaluated
Annotations == [Units -> SUBSET Rules]

(* A configuration says "ready" from the start of a run and "complete", with*)
(* the calls it made, from its end.                                        *)
DevConfiguration(state, calls) == [state |-> state, calls |-> calls]
NoDevConfiguration == DevConfiguration("absent", 0)
Locked == DevConfiguration("complete", LockedCalls)

Configuration(state, number, resumed) ==
    [state |-> state, number |-> number, resumed |-> resumed]
NoConfiguration == Configuration("absent", 0, FALSE)

Prediction(state, rules, number) == [state |-> state, rules |-> rules, number |-> number]
NoPrediction == Prediction("absent", {}, 0)

NotWorking == [on |-> "nothing", resume |-> FALSE, at |-> 1]

NothingRead ==
    [reference |-> [u \in Units |-> {}], predictions |-> [u \in Units |-> NoPrediction],
     configuration |-> NoConfiguration]
NotEvaluating == [next |-> "nothing", read |-> NothingRead]
DocumentNames == {"metrics", "diagnostic", "tracked", "private"}

ExperimentInit ==
    /\ experiment \in {"b1 dev", "b2 holdout"}
    /\ reference \in Annotations
    /\ reserved = FALSE
    /\ devConfiguration = NoDevConfiguration
    /\ selected = NoDevConfiguration
    /\ configuration = NoConfiguration
    /\ predictions = [u \in Units |-> NoPrediction]
    /\ working = NotWorking
    /\ experiments = 0
    /\ imports = 0
    /\ evaluation = NotEvaluating
    /\ reportsBegun = 0
    /\ reports = [name \in DocumentNames |-> NothingRead]

Resting == working = NotWorking /\ evaluation = NotEvaluating

(***************************************************************************)
(* Annotations.  An import changes records before and after the freeze.    *)
(***************************************************************************)
ImportReference ==
    /\ Resting
    /\ imports < MaxImports
    /\ imports' = imports + 1
    /\ \E u \in Units, rules \in SUBSET Rules :
          /\ rules # reference[u]
          /\ reference' = [reference EXCEPT ![u] = rules]
    /\ UNCHANGED <<experiment, reserved, experimentFiles, working, experiments, reporting>>

FreezeReference ==
    /\ Resting
    /\ experiment = "b2 holdout"
    /\ ~reserved
    /\ reserved' = TRUE
    /\ UNCHANGED <<experiment, reference, imports, experimentFiles, working, experiments,
                   reporting>>

(***************************************************************************)
(* The Stage B2 DEV experiment, seen from its configuration file, and its  *)
(* selection (freeze_stage_b2_configuration): the comparison names the     *)
(* locked configuration by hash, and a manifest already there is replaced. *)
(***************************************************************************)
StartDevExperiment ==
    /\ Resting
    /\ experiment = "b2 holdout"
    /\ experiments < MaxExperiments
    /\ experiments' = experiments + 1
    /\ devConfiguration' = DevConfiguration("ready_not_executed", 0)
    /\ working' = [NotWorking EXCEPT !.on = "dev"]
    /\ UNCHANGED <<experiment, annotations, selected, configuration, predictions, reporting>>

FinishDevExperiment ==
    /\ working.on = "dev"
    /\ \E calls \in 0 .. LockedCalls : devConfiguration' = DevConfiguration("complete", calls)
    /\ working' = NotWorking
    /\ UNCHANGED <<experiment, annotations, selected, configuration, predictions, experiments,
                   reporting>>

SelectConfiguration ==
    /\ Resting
    /\ devConfiguration = Locked
    /\ selected' = devConfiguration
    /\ UNCHANGED <<experiment, annotations, devConfiguration, configuration, predictions,
                   working, experiments, reporting>>

(***************************************************************************)
(* The experiment (run_hybrid_split).                                      *)
(***************************************************************************)
(* The HOLDOUT takes a frozen reference and the locked DEV configuration.  *)
Authorized ==
    experiment = "b2 holdout" => reserved /\ devConfiguration = Locked

Begins(resume) ==
    /\ Resting
    /\ Authorized
    /\ experiments < MaxExperiments
    /\ experiments' = experiments + 1
    /\ working' = [on |-> "experiment", resume |-> resume, at |-> 1]
    /\ UNCHANGED <<experiment, annotations, devConfiguration, selected, predictions, reporting>>

(* Fault: the configuration is only written at the end of the run. *)
StartExperimentUnannounced(resume) == Begins(resume) /\ UNCHANGED configuration

StartExperiment(resume) ==
    /\ Begins(resume)
    /\ configuration' = Configuration("ready_not_executed", experiments', resume)

(* --preflight-only, of Stage B2. *)
Preflight ==
    /\ Resting
    /\ experiment = "b2 holdout" /\ Authorized
    /\ \A u \in Units : predictions[u] = NoPrediction
    /\ configuration' = Configuration("ready_not_executed", 0, FALSE)
    /\ UNCHANGED <<experiment, annotations, devConfiguration, selected, predictions, working,
                   experiments, reporting>>

(* A record without a settled attempt of this run's settings.  A resumed   *)
(* run looks at checkpoints, so it also computes again a complete result   *)
(* that a run killed before its checkpoint, or with other settings, left.  *)
Predict ==
    /\ working.on = "experiment" /\ working.at \in Units
    /\ \E rules \in SUBSET Rules, state \in {"complete", "failed"} :
          /\ state = "failed" => rules = {}
          /\ predictions' = [predictions EXCEPT ![working.at] =
                                Prediction(state, rules, experiments)]
    /\ working' = [working EXCEPT !.at = @ + 1]
    /\ UNCHANGED <<experiment, annotations, devConfiguration, selected, configuration,
                   experiments, reporting>>

KeepPrediction ==
    /\ working.on = "experiment" /\ working.at \in Units
    /\ working.resume /\ predictions[working.at] # NoPrediction
    /\ working' = [working EXCEPT !.at = @ + 1]
    /\ UNCHANGED <<experiment, annotations, experimentFiles, experiments, reporting>>

FinishExperiment ==
    /\ working.on = "experiment" /\ working.at \notin Units
    /\ configuration' = Configuration("complete", experiments, working.resume)
    /\ working' = NotWorking
    /\ UNCHANGED <<experiment, annotations, devConfiguration, selected, predictions,
                   experiments, reporting>>

ExperimentDies ==
    /\ working # NotWorking
    /\ working' = NotWorking
    /\ UNCHANGED <<experiment, annotations, experimentFiles, experiments, reporting>>

(***************************************************************************)
(* evaluate_clean_stage_b1_dev and evaluate_clean_stage_b2_holdout         *)
(***************************************************************************)
Completed(e) == {u \in Units : e.predictions[u].state = "complete"}

(* A result that is not there ends the evaluation, and so does the rate of *)
(* complete provenance when nothing was completed.  The HOLDOUT also reads *)
(* the selection manifest.                                                 *)
StartReport ==
    LET read == [reference |-> reference, predictions |-> predictions,
                 configuration |-> configuration]
    IN
    /\ Resting
    /\ reportsBegun < MaxReports
    /\ reportsBegun' = reportsBegun + 1
    /\ experiment = "b2 holdout" => reserved /\ selected # NoDevConfiguration
    /\ configuration # NoConfiguration
    /\ \A u \in Units : predictions[u] # NoPrediction
    /\ Completed(read) # {}
    /\ evaluation' = [next |-> "metrics", read |-> read]
    /\ UNCHANGED <<experiment, annotations, experimentFiles, working, experiments, reports>>

WriteDocument(name, next) ==
    /\ evaluation.next = name
    /\ reports' = [reports EXCEPT ![name] = evaluation.read]
    /\ evaluation' = IF next = "nothing" THEN NotEvaluating
                     ELSE [evaluation EXCEPT !.next = next]
    /\ UNCHANGED <<experiment, annotations, experimentFiles, working, experiments, reportsBegun>>

WriteReports ==
    \/ WriteDocument("metrics", "diagnostic")
    \/ WriteDocument("diagnostic", "tracked")
    \/ WriteDocument("tracked", "private")
    \/ WriteDocument("private", "nothing")

ReportDies ==
    /\ evaluation # NotEvaluating
    /\ evaluation' = NotEvaluating
    /\ UNCHANGED <<experiment, annotations, experimentFiles, working, experiments, reportsBegun,
                   reports>>

ExperimentNext ==
    \/ ImportReference \/ FreezeReference
    \/ StartDevExperiment \/ FinishDevExperiment \/ SelectConfiguration
    \/ (\E resume \in BOOLEAN : StartExperiment(resume)) \/ Preflight
    \/ Predict \/ KeepPrediction \/ FinishExperiment
    \/ ExperimentDies
    \/ StartReport \/ WriteReports \/ ReportDies

ExperimentSpec == ExperimentInit /\ [][ExperimentNext]_experimentVars

(***************************************************************************)
(* What a report counts.                                                   *)
(***************************************************************************)
(* _empty_prediction: nothing is predicted for a failed record.            *)
Predicted(e) == [u \in Units |-> e.predictions[u].rules]

Pairs(records, rules) == Cardinality({pair \in records \X Rules : pair[2] \in rules[pair[1]]})

(* _aggregate_view: over the completed records, and over all of them. *)
View(e, records) ==
    LET gold == e.reference
        found == Predicted(e)
    IN [TP |-> Pairs(records, [u \in Units |-> gold[u] \cap found[u]]),
        FP |-> Pairs(records, [u \in Units |-> found[u] \ gold[u]]),
        FN |-> Pairs(records, [u \in Units |-> gold[u] \ found[u]]),
        support |-> Pairs(records, gold),
        exact |-> Cardinality({u \in records \cap Completed(e) : gold[u] = found[u]})]

(* _complexity_breakdown: by the rules annotated. *)
Bucket(e, n) == {u \in Units : Cardinality(e.reference[u]) = n}

(* _taxonomy: of the completed records, those with more rules on one side. *)
Excess(e, more, fewer) ==
    Cardinality({pair \in Completed(e) \X (1 .. Cardinality(Rules)) :
                    /\ pair[2] <= Cardinality(more[pair[1]])
                    /\ pair[2] > Cardinality(fewer[pair[1]])})

MissedExtractions(e) == Excess(e, e.reference, Predicted(e))
SpuriousExtractions(e) == Excess(e, Predicted(e), e.reference)

-----------------------------------------------------------------------------
(* Properties. *)

(* The type invariant. *)
ExperimentTypeOK ==
    LET Configurations == [state : {"absent", "ready_not_executed", "complete"},
                           number : 0 .. MaxExperiments, resumed : BOOLEAN]
        Predictions == [state : {"absent", "complete", "failed"}, rules : SUBSET Rules,
                        number : 0 .. MaxExperiments]
        Snapshots == [reference : Annotations, predictions : [Units -> Predictions],
                      configuration : Configurations]
    IN
    /\ reference \in Annotations
    /\ {devConfiguration, selected} \subseteq
          [state : {"absent", "ready_not_executed", "complete"}, calls : 0 .. LockedCalls]
    /\ configuration \in Configurations
    /\ predictions \in [Units -> Predictions]
    /\ working.at \in 1 .. Evaluated + 1
    /\ evaluation.read \in Snapshots
    /\ reports \in [DocumentNames -> Snapshots]

(* Both views of a report agree: what failed only adds to what was missed, *)
(* never to what was found or matched exactly; the taxonomy's totals and the*)
(* buckets' are those of the views.                                        *)
AccountsAgree(e) ==
    LET conditional == View(e, Completed(e))
        endToEnd == View(e, Units)
        failed == View(e, Units \ Completed(e))
    IN
    /\ endToEnd.TP + endToEnd.FN = endToEnd.support
    /\ endToEnd.TP = conditional.TP /\ endToEnd.FP = conditional.FP
    /\ endToEnd.FN = conditional.FN + failed.support
    /\ endToEnd.exact = conditional.exact
    /\ MissedExtractions(e) + conditional.FP = SpuriousExtractions(e) + conditional.FN
    /\ \A n \in 0 .. Cardinality(Rules) :
          View(e, Bucket(e, n)).support = n * Cardinality(Bucket(e, n))

(***************************************************************************)
(* However runs are killed, resumed and repeated between evaluations: a    *)
(* report is published only with a result for every record, whose counts   *)
(* agree, after the private documents of the same evaluation; one that     *)
(* names a complete configuration is of the run that completed it, alone   *)
(* unless that run resumed others; and the HOLDOUT's results were all      *)
(* computed under the locked DEV configuration, which any later DEV run    *)
(* but an identical one takes away for good.                               *)
(***************************************************************************)
ReportIsOfOneRun ==
    [][/\ reports'["tracked"] # reports["tracked"] =>
             LET e == reports'["tracked"] IN
             /\ AccountsAgree(e)
             /\ reports["metrics"] = e /\ reports["diagnostic"] = e
             /\ e.configuration.state = "complete" =>
                   \A u \in Units :
                      /\ e.predictions[u].number <= e.configuration.number
                      /\ e.configuration.resumed
                            \/ e.predictions[u].number = e.configuration.number
       /\ predictions' # predictions /\ experiment = "b2 holdout" =>
             reserved /\ devConfiguration = Locked
       /\ selected' # NoDevConfiguration => selected' = Locked]_experimentVars
=============================================================================
