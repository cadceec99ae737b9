------------------------ MODULE RetrievalBaselines ------------------------
(***************************************************************************)
(* The baseline retrieval experiment (retrieval/orchestrator.py): DEV      *)
(* metrics and comparisons, the frozen selection, the holdout that may be  *)
(* evaluated once, the replay that recovers its artifacts, the manifest of *)
(* hashes and the final report.  One command runs at a time; `stage` is    *)
(* what it writes next, and it may end between any two writes, killed or   *)
(* on an error.                                                            *)
(*                                                                         *)
(* A file is what it says that a command tells apart.  A measurement is    *)
(* the timings of one evaluation: metrics repeat, latencies need not.      *)
(* Corpus, model lock and configuration do not change; the E5 vectors are  *)
(* there from the start, as no command encodes them.                       *)
(***************************************************************************)
EXTENDS Naturals

CONSTANTS
    Measurements,  \* timings an evaluation may record
    Pinned         \* the measurement whose selection the code names by hash

ASSUME BaselinesAssumption ==
    /\ Pinned \in Measurements
    /\ "none" \notin Measurements

VARIABLES
    corpusManifest,  \* phase7 corpus manifest exists
    modelLock,       \* model revisions are locked
    bge,             \* BGE cache: blocks missing, all blocks, combined too
    rankings,        \* queries in the private DEV rankings of each method
    devMetrics,      \* status and measurement of the DEV metrics
    comparison,      \* queries compared, methods with a robustness summary
    selection,       \* DEV metrics the frozen selection was made from
    sanity,          \* the dense sanity manifest exists
    holdout,         \* measurement of the holdout metrics
    replayRankings,  \* methods whose replayed holdout rankings are saved
    replay,          \* what the replay file says
    finalManifest,   \* hashes in the final manifest
    report,          \* what the final report says
    stage            \* "idle", or what the running command does next

devFiles == <<rankings, devMetrics, comparison>>
frozenFiles == <<corpusManifest, modelLock, selection, sanity>>
testFiles == <<holdout, replayRankings, replay, finalManifest>>
baselineVars == <<bge, devFiles, frozenFiles, testFiles, report, stage>>

Methods == {"keyword", "bm25", "e5", "bge"}
None == "none"
NoDevMetrics == [status |-> None, measured |-> None]
NoComparison == [queries |-> None, summaries |-> {}]
NoReplay == [original |-> None, summaries |-> {}]
NoFinalManifest == [selection |-> None, holdout |-> None, replay |-> NoReplay]
NoReport == [complete |-> FALSE, holdout |-> None, selection |-> None, recovered |-> {}]

Stages ==
    {"idle", "smoke keyword", "smoke bm25", "keyword", "bm25", "lexical metrics", "e5",
     "bge", "metrics", "comparison", "combine", "holdout metrics", "holdout manifest",
     "replay rankings", "replay", "replay manifest", "refresh replay"}

BaselinesInit ==
    /\ corpusManifest = FALSE
    /\ modelLock = FALSE
    /\ bge = "partial"
    /\ rankings = [m \in Methods |-> None]
    /\ devMetrics = NoDevMetrics
    /\ comparison = NoComparison
    /\ selection = None
    /\ sanity = FALSE
    /\ holdout = None
    /\ replayRankings = {}
    /\ replay = NoReplay
    /\ finalManifest = NoFinalManifest
    /\ report = NoReport
    /\ stage = "idle"

(* A command ends before it is done. *)
EndCommand ==
    /\ stage # "idle"
    /\ stage' = "idle"
    /\ UNCHANGED <<bge, devFiles, frozenFiles, testFiles, report>>

BuildCorpus ==
    /\ stage = "idle"
    /\ corpusManifest' = TRUE
    /\ UNCHANGED <<bge, devFiles, modelLock, selection, sanity, testFiles, report, stage>>

(* The smoke check ranks twenty DEV queries, and saves the rankings where  *)
(* the evaluation saves its own.                                           *)
StartSmoke ==
    /\ stage = "idle"
    /\ stage' = "smoke keyword"
    /\ UNCHANGED <<bge, devFiles, frozenFiles, testFiles, report>>

SaveLexical(method, queries, next) ==
    /\ rankings' = [rankings EXCEPT ![method] = queries]
    /\ stage' = next
    /\ UNCHANGED <<bge, devMetrics, comparison, frozenFiles, testFiles, report>>

Smoke ==
    \/ stage = "smoke keyword" /\ SaveLexical("keyword", "smoke", "smoke bm25")
    \/ stage = "smoke bm25" /\ SaveLexical("bm25", "smoke", "idle")

(* Blocks are written first and combined when the last of them counts; the *)
(* command needs --resume and begins where the last one ended.             *)
EncodeBlocks ==
    /\ stage = "idle"
    /\ bge' = IF bge = "partial" THEN "blocks" ELSE bge
    /\ modelLock' = TRUE
    /\ stage' = "combine"
    /\ UNCHANGED <<devFiles, corpusManifest, selection, sanity, testFiles, report>>

CombineBlocks ==
    /\ stage = "combine"
    /\ bge' = "combined"
    /\ stage' = "idle"
    /\ UNCHANGED <<devFiles, frozenFiles, testFiles, report>>

(* Lexical results are used again when the metrics hold some and the ranking*)
(* files exist, whatever queries those rank.                               *)
LexicalComplete ==
    /\ devMetrics.status # None
    /\ \A m \in {"keyword", "bm25"} : rankings[m] # None

StartDev ==
    /\ stage = "idle"
    /\ stage' = IF LexicalComplete THEN "e5" ELSE "keyword"
    /\ UNCHANGED <<bge, devFiles, frozenFiles, testFiles, report>>

LexicalResults ==
    \/ stage = "keyword" /\ SaveLexical("keyword", "dev", "bm25")
    \/ stage = "bm25" /\ SaveLexical("bm25", "dev", "lexical metrics")

SaveLexicalMetrics ==
    /\ stage = "lexical metrics"
    /\ \E m \in Measurements : devMetrics' = [status |-> "lexical", measured |-> m]
    /\ stage' = "e5"
    /\ UNCHANGED <<bge, rankings, comparison, frozenFiles, testFiles, report>>

DenseDev ==
    \/ /\ stage = "e5"
       /\ modelLock' = TRUE
       /\ rankings' = [rankings EXCEPT !["e5"] = "dev"]
       /\ stage' = "bge"
       /\ UNCHANGED <<bge, devMetrics, comparison, corpusManifest, selection, sanity,
                      testFiles, report>>
    \/ /\ stage = "bge"
       /\ bge = "combined"
       /\ rankings' = [rankings EXCEPT !["bge"] = "dev"]
       /\ stage' = "metrics"
       /\ UNCHANGED <<bge, devMetrics, comparison, frozenFiles, testFiles, report>>

SaveDevMetrics ==
    /\ stage = "metrics"
    /\ \E m \in Measurements : devMetrics' = [status |-> "complete", measured |-> m]
    /\ stage' = "comparison"
    /\ UNCHANGED <<bge, rankings, comparison, frozenFiles, testFiles, report>>

(* Two methods are compared on the queries both of them rank. *)
CompareDev ==
    /\ stage = "comparison"
    /\ comparison' = [queries |-> rankings["bm25"], summaries |-> {"bm25", "e5", "bge"}]
    /\ stage' = "idle"
    /\ UNCHANGED <<bge, rankings, devMetrics, frozenFiles, testFiles, report>>

(* The selection names the DEV metrics by hash; it is frozen once. *)
FreezeSelection ==
    /\ stage = "idle"
    /\ devMetrics.status = "complete"
    /\ selection \in {None, devMetrics.measured}
    /\ selection' = devMetrics.measured
    /\ modelLock' = TRUE
    /\ UNCHANGED <<bge, devFiles, corpusManifest, sanity, testFiles, report, stage>>

AuditDense ==
    /\ stage = "idle"
    /\ selection = Pinned
    /\ bge = "combined"
    /\ sanity' = TRUE
    /\ modelLock' = TRUE
    /\ UNCHANGED <<bge, devFiles, corpusManifest, selection, testFiles, report, stage>>

(* Fault: only the final manifest tells that the holdout has run. *)
ReadyByManifest ==
    /\ corpusManifest
    /\ selection = Pinned
    /\ finalManifest = NoFinalManifest
    /\ bge # "partial"

(* The blocks of BGE are counted; whether they were combined is not asked. *)
HoldoutReady ==
    /\ corpusManifest
    /\ selection = Pinned
    /\ holdout = None
    /\ finalManifest = NoFinalManifest
    /\ bge # "partial"

StartHoldout ==
    /\ stage = "idle"
    /\ HoldoutReady
    /\ modelLock' = TRUE
    /\ stage' = "holdout metrics"
    /\ UNCHANGED <<bge, devFiles, corpusManifest, selection, sanity, testFiles, report>>

SaveHoldout ==
    /\ stage = "holdout metrics"
    /\ bge = "combined"
    /\ holdout' \in Measurements
    /\ stage' = "holdout manifest"
    /\ UNCHANGED <<bge, devFiles, frozenFiles, replayRankings, replay, finalManifest, report>>

(* The hashes of the files there are, of which those of the DEV files are  *)
(* left out: no command compares them.                                     *)
ManifestNow == [selection |-> selection, holdout |-> holdout, replay |-> replay]

SaveManifest ==
    /\ stage \in {"holdout manifest", "replay manifest"}
    /\ finalManifest # NoFinalManifest => finalManifest.selection = selection
    /\ finalManifest' = ManifestNow
    /\ stage' = "idle"
    /\ UNCHANGED <<bge, devFiles, frozenFiles, holdout, replayRankings, replay, report>>

Recoverable ==
    /\ selection = Pinned
    /\ holdout # None
    /\ finalManifest # NoFinalManifest
    /\ bge # "partial"

(* The holdout is run again, and must repeat every metric, before a file is*)
(* written.                                                                *)
StartRecovery ==
    /\ stage = "idle"
    /\ replay = NoReplay
    /\ Recoverable
    /\ bge = "combined"
    /\ modelLock' = TRUE
    /\ stage' = "replay rankings"
    /\ UNCHANGED <<bge, devFiles, corpusManifest, selection, sanity, testFiles, report>>

SaveReplayRankings ==
    /\ stage = "replay rankings"
    /\ \/ /\ \E m \in Methods : replayRankings' = replayRankings \cup {m}
          /\ UNCHANGED stage
       \/ /\ replayRankings = Methods
          /\ stage' = "replay"
          /\ UNCHANGED replayRankings
    /\ UNCHANGED <<bge, devFiles, frozenFiles, holdout, replay, finalManifest, report>>

SaveReplay ==
    /\ stage = "replay"
    /\ replay' = [original |-> holdout, summaries |-> {"bm25", "e5", "bge"}]
    /\ stage' = "replay manifest"
    /\ UNCHANGED <<bge, devFiles, frozenFiles, holdout, replayRankings, finalManifest, report>>

(* Robustness summaries are written again, of every method; no hash is. *)
RefreshRobustness ==
    /\ stage = "idle"
    /\ comparison # NoComparison
    /\ \A m \in Methods : rankings[m] # None
    /\ comparison' = [comparison EXCEPT !.summaries = Methods]
    /\ stage' = IF replay = NoReplay THEN "idle" ELSE "refresh replay"
    /\ UNCHANGED <<bge, rankings, devMetrics, frozenFiles, testFiles, report>>

RefreshReplay ==
    /\ stage = "refresh replay"
    /\ replay' = [replay EXCEPT !.summaries = replayRankings]
    /\ stage' = "idle"
    /\ UNCHANGED <<bge, devFiles, frozenFiles, holdout, replayRankings, finalManifest, report>>

(* Every file but the replay is required, and every method summarised. *)
FinalReport ==
    /\ stage = "idle"
    /\ devMetrics.status = "complete"
    /\ holdout # None
    /\ selection # None
    /\ comparison.summaries = Methods
    /\ report' = [complete |-> replay # NoReplay, holdout |-> holdout,
                  selection |-> selection, recovered |-> replayRankings]
    /\ UNCHANGED <<bge, devFiles, frozenFiles, testFiles, stage>>

BaselinesNext ==
    \/ EndCommand
    \/ BuildCorpus
    \/ StartSmoke \/ Smoke
    \/ EncodeBlocks \/ CombineBlocks
    \/ StartDev \/ LexicalResults \/ SaveLexicalMetrics \/ DenseDev
    \/ SaveDevMetrics \/ CompareDev
    \/ FreezeSelection \/ AuditDense
    \/ StartHoldout \/ SaveHoldout \/ SaveManifest
    \/ StartRecovery \/ SaveReplayRankings \/ SaveReplay
    \/ RefreshRobustness \/ RefreshReplay
    \/ FinalReport

BaselinesSpec == BaselinesInit /\ [][BaselinesNext]_baselineVars
-----------------------------------------------------------------------------
(* What a replay, a manifest and a report may be. *)
Replay == [original : Measurements, summaries : SUBSET Methods]
Metrics == {NoDevMetrics} \cup [status : {"lexical", "complete"}, measured : Measurements]
Comparison == [queries : {None, "smoke", "dev"}, summaries : SUBSET Methods]
Report ==
    [complete : BOOLEAN, holdout : Measurements, selection : Measurements,
     recovered : SUBSET Methods]

(* Every variable holds a value of its kind. *)
BaselinesTypeOK ==
    /\ corpusManifest \in BOOLEAN
    /\ modelLock \in BOOLEAN
    /\ bge \in {"partial", "blocks", "combined"}
    /\ rankings \in [Methods -> {None, "smoke", "dev"}]
    /\ devMetrics \in Metrics
    /\ comparison \in Comparison
    /\ selection \in Measurements \cup {None}
    /\ sanity \in BOOLEAN
    /\ holdout \in Measurements \cup {None}
    /\ replayRankings \in SUBSET Methods
    /\ replay \in Replay \cup {NoReplay}
    /\ finalManifest \in {NoFinalManifest} \cup
          [selection : Measurements, holdout : Measurements, replay : Replay \cup {NoReplay}]
    /\ report \in Report \cup {NoReport}
    /\ stage \in Stages

(* The holdout is evaluated on the selection the code names, and what the  *)
(* manifest says of the holdout and of the selection stays true, however   *)
(* often DEV is evaluated and frozen again (freeze_selection_manifest,     *)
(* verify_holdout_readiness, _write_final_manifest).                       *)
HoldoutOnRecord ==
    /\ holdout # None => selection = Pinned
    /\ finalManifest # NoFinalManifest =>
          /\ finalManifest.holdout = holdout
          /\ finalManifest.selection = selection

(* A replay is of the holdout metrics on disk, and the rankings of every   *)
(* method were saved before it (recover_holdout_artifacts).                *)
ReplayWhole ==
    replay # NoReplay => replay.original = holdout /\ replayRankings = Methods

(* A report that says the exit criteria are met was built from a replay with*)
(* every method's rankings, and no report outlives the holdout and the     *)
(* selection it describes (build_final_report).                            *)
ReportOfOneHoldout ==
    report # NoReport =>
        /\ report.holdout = holdout
        /\ report.selection = selection
        /\ report.complete => replay # NoReplay /\ report.recovered = Methods

(* Manifest, replay and report are of the one holdout there is, which is   *)
(* measured once.  A command that ended between the holdout metrics and the*)
(* final manifest cannot be made good: evaluate_holdout refuses because the*)
(* metrics exist, recover_holdout_artifacts because the manifest does not. *)
HoldoutIsFinal ==
    [][ /\ (HoldoutOnRecord /\ ReplayWhole /\ ReportOfOneHoldout)'
        /\ holdout # None => holdout' = holdout
        /\ stage = "idle" /\ holdout # None /\ finalManifest = NoFinalManifest
               => finalManifest' = NoFinalManifest /\ replay' = NoReplay ]_baselineVars
=============================================================================
