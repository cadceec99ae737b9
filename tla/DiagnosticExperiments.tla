----------------------- MODULE DiagnosticExperiments -----------------------
(***************************************************************************)
(* The experiments of phase 15 and the evidence they stand on: the frozen  *)
(* plan, model lock and registry, the dialect variants and the matrix      *)
(* scored over them, the content audit, the other experiments, and what    *)
(* finalize asks of them (phase15/orchestrator.py, real_experiments.py,    *)
(* content_audit.py, evidence.py).                                         *)
(*                                                                         *)
(* Every JSON file is replaced whole; numpy.save writes in place.  A       *)
(* command may end between any two writes, and may be repeated.  A         *)
(* tracked file is Committed, from the repository's clone, or has the      *)
(* number of the variants it was made from.                                *)
(***************************************************************************)
EXTENDS Integers

CONSTANTS
    ValidIds,     \* variants' number -> the identifiers the audit finds valid
    MaxVariants,  \* times the variants are generated
    MaxCommands,  \* commands given
    MaxEvidence,  \* contents the registered evidence may have
    Subset        \* queries of the generator's subset

ASSUME ExperimentsAssumption ==
    /\ MaxVariants \in Nat \ {0} /\ MaxCommands \in Nat /\ MaxEvidence \in Nat \ {0}
    /\ Subset \in Nat \ {0}
    /\ DOMAIN ValidIds = 0 .. MaxVariants

Missing == -1
NotRun == -2
Committed == 0

Published == {Missing, NotRun, Committed} \cup 1 .. MaxVariants
Generated == {Missing} \cup 1 .. MaxVariants

Experiments ==
    {"embedding", "dialect", "reranking", "generator",
     "counterfactual", "abstention", "latency"}

(* raw, light and aggressive *)
Normalizations == 1 .. 3

VARIABLES
    writtenOnce,      \* which of the plan and the model lock are written
    registry,         \* the evidence the registry names, 0 without one
    evidence,         \* the registered files as they are
    dialectManifest,  \* tracked: the base intents and the variants' hashes
    subsetManifest,   \* tracked: the generator's subset
    variants,         \* private: the dialect variants
    dialectRankings,  \* private: the variants' rankings
    contentPrivate,   \* private: the content audit, per variant
    contentTracked,   \* tracked: its aggregate
    corpusVectors,    \* private: the Arabic model's corpus vectors
    outputs,          \* private: the generator's outputs that are there
    metrics,          \* tracked: each experiment's metrics
    doing,            \* what the command in hand does next
    reached,          \* how far it is
    given             \* commands given

dialectFiles == <<dialectManifest, variants, dialectRankings, contentPrivate, contentTracked>>
registryFiles == <<writtenOnce, registry, evidence>>
otherFiles == <<subsetManifest, corpusVectors, outputs>>
experimentVars ==
    <<registryFiles, dialectFiles, otherFiles, metrics, doing, reached, given>>

Doing ==
    {"nothing", "dialect manifest", "dialect metrics", "content aggregate",
     "vectors", "saving", "embedding metrics", "outputs", "status"}

ExperimentsTypeOK ==
    /\ writtenOnce \subseteq {"plan", "lock"}
    /\ registry \in 0 .. MaxEvidence /\ evidence \in 1 .. MaxEvidence
    /\ {dialectManifest, subsetManifest, contentTracked} \subseteq Published
    /\ {variants, dialectRankings, contentPrivate} \subseteq Generated
    /\ corpusVectors \in [Normalizations -> {"absent", "torn", "whole"}]
    /\ outputs \in 0 .. Subset
    /\ metrics \in [Experiments -> Published]
    /\ doing \in Doing /\ reached \in 1 .. Subset + 8
    /\ given \in 0 .. MaxCommands

(* A clone, with every tracked file, or a tree from before the phase. *)
ExperimentsInit ==
    /\ evidence = 1
    /\ variants = Missing /\ dialectRankings = Missing /\ contentPrivate = Missing
    /\ corpusVectors = [n \in Normalizations |-> "absent"]
    /\ outputs = 0
    /\ doing = "nothing" /\ reached = 1 /\ given = 0
    /\ \/ /\ writtenOnce = {"plan", "lock"} /\ registry = 1
          /\ dialectManifest = Committed /\ subsetManifest = Committed
          /\ contentTracked = Committed
          /\ metrics = [e \in Experiments |-> Committed]
       \/ /\ writtenOnce = {} /\ registry = 0
          /\ dialectManifest = Missing /\ subsetManifest = Missing
          /\ contentTracked = Missing
          /\ metrics = [e \in Experiments |-> Missing]

Command ==
    /\ doing = "nothing"
    /\ given < MaxCommands
    /\ given' = given + 1

Ends == doing' = "nothing" /\ reached' = 1 /\ UNCHANGED given

Publish(e, number) == metrics' = [metrics EXCEPT ![e] = number]

---------------------------------------------------------------------------
(* plan, generation-preflight and freeze *)

(* Each is written once; their contents are the code's. *)
Freeze(file) ==
    /\ Command
    /\ writtenOnce' = writtenOnce \cup {file}
    /\ UNCHANGED <<registry, evidence, dialectFiles, otherFiles, metrics, doing, reached>>

(* freeze is both and then the registry: written once, and verified against*)
(* the registered files when it is there; it raises when they changed.     *)
FreezeRegistry ==
    /\ Command
    /\ writtenOnce = {"plan", "lock"}
    /\ registry \in {0, evidence}
    /\ registry' = evidence
    /\ UNCHANGED <<writtenOnce, evidence, dialectFiles, otherFiles, metrics, doing, reached>>

(* A command of an earlier phase replaces a registered file. *)
EvidenceChanges ==
    /\ Command
    /\ evidence' \in (1 .. MaxEvidence) \ {evidence}
    /\ UNCHANGED <<writtenOnce, registry, dialectFiles, otherFiles, metrics, doing, reached>>

---------------------------------------------------------------------------
(* dialect-prepare *)

HasBaseIntents == dialectManifest \notin {Missing, NotRun}

(* Sixty variants are generated and validated before anything is written;  *)
(* each run's are others.                                                  *)
PrepareDialects ==
    /\ Command
    /\ HasBaseIntents
    /\ variants' = IF variants = Missing THEN 1 ELSE variants + 1
    /\ variants' <= MaxVariants
    /\ doing' = "dialect manifest"
    /\ UNCHANGED <<registryFiles, dialectManifest, dialectRankings, contentPrivate, contentTracked,
                   otherFiles, metrics, reached>>

WriteDialectManifest ==
    /\ doing = "dialect manifest"
    /\ dialectManifest' = variants
    /\ Ends
    /\ UNCHANGED <<registryFiles, variants, dialectRankings, contentPrivate, contentTracked,
                   otherFiles, metrics>>

---------------------------------------------------------------------------
(* dialect-evaluate *)

(* Fault: the metrics are published before the rankings they are of. *)
ScoreDialectsLast ==
    /\ Command
    /\ variants # Missing
    /\ HasBaseIntents
    /\ Publish("dialect", variants)
    /\ doing' = "dialect metrics"
    /\ UNCHANGED <<registryFiles, dialectFiles, otherFiles, reached>>

(* The variants are read as they are, whichever the manifest is of. *)
ScoreDialects ==
    /\ Command
    /\ variants # Missing
    /\ HasBaseIntents
    /\ dialectRankings' = variants
    /\ doing' = "dialect metrics"
    /\ UNCHANGED <<registryFiles, dialectManifest, variants, contentPrivate, contentTracked,
                   otherFiles, metrics, reached>>

WriteDialectMetrics ==
    /\ doing = "dialect metrics"
    /\ Publish("dialect", dialectRankings)
    /\ Ends
    /\ UNCHANGED <<registryFiles, dialectFiles, otherFiles>>

---------------------------------------------------------------------------
(* The content audit of the variants *)

AuditContent ==
    /\ Command
    /\ variants # Missing
    /\ contentPrivate' = variants
    /\ doing' = "content aggregate"
    /\ UNCHANGED <<registryFiles, dialectManifest, variants, dialectRankings, contentTracked,
                   otherFiles, metrics, reached>>

WriteContentAggregate ==
    /\ doing = "content aggregate"
    /\ contentTracked' = contentPrivate
    /\ Ends
    /\ UNCHANGED <<registryFiles, dialectManifest, variants, dialectRankings, contentPrivate,
                   otherFiles, metrics>>

---------------------------------------------------------------------------
(* embedding: the corpus is encoded once per normalization *)

Embedding ==
    /\ Command
    /\ doing' = "vectors"
    /\ UNCHANGED <<registryFiles, dialectFiles, otherFiles, metrics, reached>>

NextNormalization ==
    IF reached < 3
    THEN reached' = reached + 1 /\ doing' = "vectors"
    ELSE reached' = 1 /\ doing' = "embedding metrics"

(* A file that is there is loaded; one cut short raises, and stays. *)
LoadVectors ==
    /\ doing = "vectors"
    /\ corpusVectors[reached] = "whole"
    /\ NextNormalization
    /\ UNCHANGED <<registryFiles, dialectFiles, otherFiles, metrics, given>>

EncodeCorpus ==
    /\ doing = "vectors"
    /\ corpusVectors[reached] = "absent"
    /\ corpusVectors' = [corpusVectors EXCEPT ![reached] = "torn"]
    /\ doing' = "saving"
    /\ UNCHANGED <<registryFiles, dialectFiles, subsetManifest, outputs, metrics, reached, given>>

SaveVectors ==
    /\ doing = "saving"
    /\ corpusVectors' = [corpusVectors EXCEPT ![reached] = "whole"]
    /\ NextNormalization
    /\ UNCHANGED <<registryFiles, dialectFiles, subsetManifest, outputs, metrics, given>>

WriteEmbeddingMetrics ==
    /\ doing = "embedding metrics"
    /\ Publish("embedding", 1)
    /\ Ends
    /\ UNCHANGED <<registryFiles, dialectFiles, otherFiles>>

---------------------------------------------------------------------------
(* The experiments that read frozen inputs and write one file *)

Measure(e) ==
    /\ Command
    /\ Publish(e, 1)
    /\ UNCHANGED <<registryFiles, dialectFiles, otherFiles, doing, reached>>

Reranking == Measure("reranking")
Counterfactuals == Measure("counterfactual")
Abstention == Measure("abstention")

(* latency searches the raw vectors embedding left. *)
Latency == corpusVectors[1] = "whole" /\ Measure("latency")

---------------------------------------------------------------------------
(* generation-run *)

FreezeSubset ==
    /\ Command
    /\ subsetManifest' = 1
    /\ doing' = "outputs"
    /\ UNCHANGED <<registryFiles, dialectFiles, corpusVectors, outputs, metrics, reached>>

(* Every query is generated again, in order, whatever an earlier run left. *)
WriteOutput ==
    /\ doing = "outputs" /\ reached <= Subset
    /\ outputs' = IF reached > outputs THEN reached ELSE outputs
    /\ reached' = reached + 1
    /\ UNCHANGED <<registryFiles, dialectFiles, subsetManifest, corpusVectors, metrics,
                   doing, given>>

WriteGeneratorMetrics ==
    /\ doing = "outputs" /\ reached = Subset + 1
    /\ Publish("generator", 1)
    /\ Ends
    /\ UNCHANGED <<registryFiles, dialectFiles, otherFiles>>

---------------------------------------------------------------------------
(* write_phase15_status_artifacts: the two manifests, which are frozen, and*)
(* then every experiment's metrics                                         *)

StatusOrder ==
    <<"embedding", "dialect", "reranking", "generator",
      "counterfactual", "abstention", "latency">>

RecordStatus ==
    /\ Command
    /\ dialectManifest \in {Missing, NotRun}
    /\ dialectManifest' = NotRun
    /\ doing' = "status"
    /\ UNCHANGED <<registryFiles, variants, dialectRankings, contentPrivate, contentTracked,
                   otherFiles, metrics, reached>>

RecordSubsetStatus ==
    /\ doing = "status" /\ reached = 1
    /\ subsetManifest \in {Missing, NotRun}
    /\ subsetManifest' = NotRun
    /\ reached' = 2
    /\ UNCHANGED <<registryFiles, dialectFiles, corpusVectors, outputs, metrics, doing, given>>

RecordMetricStatus ==
    /\ doing = "status" /\ reached \in 2 .. 8
    /\ Publish(StatusOrder[reached - 1], NotRun)
    /\ IF reached = 8 THEN Ends ELSE reached' = reached + 1 /\ UNCHANGED <<doing, given>>
    /\ UNCHANGED <<registryFiles, dialectFiles, otherFiles>>

(* The command raises, or its process ends, before its next write. *)
CommandEnds ==
    /\ doing # "nothing"
    /\ Ends
    /\ UNCHANGED <<registryFiles, dialectFiles, otherFiles, metrics>>

---------------------------------------------------------------------------
(* finalize: what it asks of the evidence, the experiments and the content *)
(* audit.                                                                  *)
ExperimentsGate ==
    /\ registry = evidence
    /\ \A e \in Experiments : metrics[e] >= 0
    /\ contentPrivate # Missing /\ contentTracked >= 0
    /\ ValidIds[contentPrivate] = ValidIds[contentTracked]

ExperimentsNext ==
    \/ Freeze("plan") \/ Freeze("lock") \/ FreezeRegistry \/ EvidenceChanges
    \/ PrepareDialects \/ WriteDialectManifest
    \/ ScoreDialects \/ WriteDialectMetrics
    \/ AuditContent \/ WriteContentAggregate
    \/ Embedding \/ LoadVectors \/ EncodeCorpus \/ SaveVectors \/ WriteEmbeddingMetrics
    \/ Reranking \/ Counterfactuals \/ Abstention \/ Latency
    \/ FreezeSubset \/ WriteOutput \/ WriteGeneratorMetrics
    \/ RecordStatus \/ RecordSubsetStatus \/ RecordMetricStatus
    \/ CommandEnds

ExperimentsSpec == ExperimentsInit /\ [][ExperimentsNext]_experimentVars

---------------------------------------------------------------------------
(* Nothing published here is ahead of the private evidence it is computed  *)
(* from, wherever a command ended: hashes of variants that were not kept,  *)
(* metrics of rankings not yet written, an aggregate of no audit, metrics  *)
(* over vectors that were cut short.                                       *)
EvidenceBehind ==
    /\ dialectManifest > 0 => dialectManifest <= variants
    /\ metrics["dialect"] > 0 => metrics["dialect"] <= dialectRankings
    /\ dialectRankings <= variants /\ contentPrivate <= variants
    /\ contentTracked > 0 => contentTracked <= contentPrivate
    /\ metrics["embedding"] = 1 => \A n \in Normalizations : corpusVectors[n] = "whole"
    /\ metrics["latency"] = 1 => corpusVectors[1] = "whole"
    /\ metrics["generator"] = 1 => outputs = Subset

(* The registry is never replaced, though the evidence is.  Once finalize  *)
(* would pass, no status replaces a result: only other evidence or another *)
(* audit closes it again.  And vectors a run left half written stay so:    *)
(* every later embedding and latency run raises.                           *)
EvidenceHeld ==
    [][ /\ EvidenceBehind'
        /\ registry # 0 => registry' = registry
        /\ ExperimentsGate /\ ~ExperimentsGate'
               => evidence' # evidence \/ contentPrivate' # contentPrivate
        /\ \A n \in Normalizations :
               corpusVectors[n] = "torn" /\ ~(doing = "saving" /\ reached = n)
                   => corpusVectors'[n] = "torn"
      ]_experimentVars
=============================================================================
