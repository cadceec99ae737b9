-------------------------- MODULE HybridExperiment --------------------------
(***************************************************************************)
(* The one-shot hybrid retrieval experiment (retrieval/hybrid): rankings   *)
(* are fused and reranked on the DEV queries, the DEV selection is frozen, *)
(* the holdout queries are ranked once under it, and the final artifacts   *)
(* are written so that they never change.                                  *)
(*                                                                         *)
(* Each part is a command of one operator, run again at will; one command  *)
(* runs at a time, it replaces each file atomically, and it may end        *)
(* between any two writes.  Files no command reads back (reports of        *)
(* metrics, the readiness manifest) are left out.  Reranking a query again *)
(* may give another result: the scores depend on the machine, and a        *)
(* holdout result records how long it took.                                *)
(***************************************************************************)
EXTENDS Naturals, Sequences

CONSTANTS
    DevCount,      \* DEV queries
    HoldoutCount,  \* holdout queries
    Devices,       \* devices the reranker can be started on
    Validated,     \* the device whose checkpoints the selection accepts
    Results        \* results that reranking a query may have

Dev == 1..DevCount
Holdout == 1..HoldoutCount

ASSUME HybridAssumption ==
    /\ DevCount \in Nat \ {0}
    /\ HoldoutCount \in Nat \ {0}
    /\ Validated \in Devices
    /\ "absent" \notin Devices
    /\ "absent" \notin Results

Scored == [device : Devices, result : Results]
NoRow == [device |-> "absent", result |-> "absent"]

VARIABLES
    cached,     \* the Phase 7 embedding cache can be loaded (DenseCache)
    fused,      \* fusion outputs that exist: "rankings", "selection", "metadata"
    revision,   \* the reranker revision in the model lock
    gate,       \* the reranked DEV metrics pass the selection rule
    rows,       \* rerank checkpoint of each DEV query: its device and its result
    store,      \* rerank manifest: its fingerprint's device and the queries listed
    selection,  \* the frozen DEV selection: the checkpoints it rests on
    metrics,    \* the DEV metrics: the checkpoints they were computed from
    rankings,   \* result file of each holdout query
    holdout,    \* holdout manifest: its status and the queries listed
    final,      \* the final artifacts: what each was computed from
    step,       \* what the running command does next; "idle": none runs
    at,         \* the query or file it is at
    run         \* its --resume and --device

dev      == <<fused, revision, rows, store, metrics, selection>>
evidence == <<rankings, holdout, final>>
world    == <<cached, gate>>
vars     == <<world, dev, evidence, step, at, run>>

NoRows == [q \in Dev |-> NoRow]
NoRankings == [q \in Holdout |-> "absent"]

(* The order finalize_phase8_holdout writes them in. *)
Artifacts == <<"metrics", "comparison", "report", "manifest">>
ArtifactNames == {Artifacts[i] : i \in 1..4}
Nothing == [rankings |-> NoRankings, metrics |-> NoRows]

Init ==
    /\ cached = FALSE
    /\ fused = {}
    /\ revision = "absent"
    /\ gate \in BOOLEAN
    /\ rows = NoRows
    /\ store = [device |-> "absent", queries |-> {}]
    /\ metrics = NoRows
    /\ selection = NoRows
    /\ rankings = NoRankings
    /\ holdout = [status |-> "absent", queries |-> {}]
    /\ final = [a \in ArtifactNames |-> Nothing]
    /\ step = "idle"
    /\ at = 1
    /\ run = [resume |-> FALSE, device |-> Validated]

(* The corpus has been encoded: DenseCache's consolidated files are there. *)
EncodeCorpus ==
    /\ step = "idle"
    /\ ~cached
    /\ cached' = TRUE
    /\ UNCHANGED <<gate, dev, evidence, step, at, run>>

(* The operator pins the reranker revision in the lock fusion has written. *)
LockRevision ==
    /\ step = "idle"
    /\ revision = "pending"
    /\ revision' = "locked"
    /\ UNCHANGED <<world, fused, rows, store, metrics, selection, evidence, step, at, run>>

Frozen == selection # NoRows

Ends == step' = "idle" /\ UNCHANGED at

-----------------------------------------------------------------------------
(* DEV fusion: rankings, provisional selection, lock, metadata coverage. *)

StartFusion ==
    /\ step = "idle"
    /\ cached
    /\ step' = "fusing"
    /\ at' = 1
    /\ UNCHANGED <<world, dev, evidence, run>>

WriteFusionFile ==
    /\ step = "fusing"
    /\ at \in 1..2
    /\ fused' = fused \cup {<<"rankings", "selection">>[at]}
    /\ at' = at + 1
    /\ UNCHANGED <<world, revision, rows, store, metrics, selection, evidence, step, run>>

(* A revision already locked is kept. *)
WriteLock ==
    /\ step = "fusing"
    /\ at = 3
    /\ revision' = IF revision = "absent" THEN "pending" ELSE revision
    /\ at' = at + 1
    /\ UNCHANGED <<world, fused, rows, store, metrics, selection, evidence, step, run>>

WriteMetadata ==
    /\ step = "fusing"
    /\ at = 4
    /\ fused' = fused \cup {"metadata"}
    /\ Ends
    /\ UNCHANGED <<world, revision, rows, store, metrics, selection, evidence, run>>

-----------------------------------------------------------------------------
(* DEV reranking, a checkpoint per query. *)

StartReranking(resume, device) ==
    /\ step = "idle"
    /\ revision = "locked"
    /\ {"rankings", "selection"} \subseteq fused
    /\ store' = IF store.device = "absent" THEN [store EXCEPT !.device = device] ELSE store
    /\ run' = [resume |-> resume, device |-> device]
    /\ step' = "reranking"
    /\ at' = 1
    /\ UNCHANGED <<world, fused, revision, rows, metrics, selection, evidence>>

(* CheckpointStore.valid: the manifest and the row have this fingerprint. *)
RowValid(q) == store.device = run.device /\ q \in store.queries /\ rows[q].device = run.device

SkipRow ==
    /\ step = "reranking"
    /\ at \in Dev
    /\ run.resume /\ RowValid(at)
    /\ at' = at + 1
    /\ UNCHANGED <<world, dev, evidence, step, run>>

(* CheckpointStore.write replaces the row before it looks at the manifest. *)
WriteRow ==
    /\ step = "reranking"
    /\ at \in Dev
    /\ ~(run.resume /\ RowValid(at))
    /\ \E r \in Results : rows' = [rows EXCEPT ![at] = [device |-> run.device, result |-> r]]
    /\ step' = "listing row"
    /\ UNCHANGED <<world, fused, revision, store, metrics, selection, evidence, at, run>>

ListRow ==
    /\ step = "listing row"
    /\ store.device = run.device
    /\ store' = [store EXCEPT !.queries = @ \cup {at}]
    /\ at' = at + 1
    /\ step' = "reranking"
    /\ UNCHANGED <<world, fused, revision, rows, metrics, selection, evidence, run>>

(* The manifest is of another device: write raises. *)
RefuseRow ==
    /\ step = "listing row"
    /\ store.device # run.device
    /\ Ends
    /\ UNCHANGED <<world, dev, evidence, run>>

FinishReranking ==
    /\ step = "reranking"
    /\ at > DevCount
    /\ Ends
    /\ UNCHANGED <<world, dev, evidence, run>>

-----------------------------------------------------------------------------
(* Freezing the DEV selection. *)

(* Fault: the manifest is trusted, the rows are not opened. *)
DevValidByManifest ==
    /\ cached /\ revision = "locked" /\ {"rankings", "selection"} \subseteq fused
    /\ store.device = Validated
    /\ store.queries = Dev

(* validate_phase8_dev_reranker_artifacts: every query is listed, and every*)
(* row has the fingerprint this configuration and the CPU would give it.   *)
DevValid ==
    /\ cached /\ revision = "locked" /\ {"rankings", "selection"} \subseteq fused
    /\ store.device = Validated
    /\ store.queries = Dev
    /\ \A q \in Dev : rows[q].device = Validated

StartFreezing ==
    /\ step = "idle"
    /\ DevValid
    /\ "metadata" \in fused
    /\ step' = "evaluating"
    /\ at' = 1
    /\ UNCHANGED <<world, dev, evidence, run>>

(* The metrics are replaced before the selection is compared. *)
WriteDevMetrics ==
    /\ step = "evaluating"
    /\ metrics' = rows
    /\ step' = "freezing"
    /\ UNCHANGED <<world, fused, revision, rows, store, selection, evidence, at, run>>

(* The selection holds the metrics; it is written once, and a later one must*)
(* equal it.                                                               *)
FreezeSelection ==
    /\ step = "freezing"
    /\ selection' = IF Frozen THEN selection ELSE rows
    /\ Ends
    /\ UNCHANGED <<world, fused, revision, rows, store, metrics, evidence, run>>

-----------------------------------------------------------------------------
(* The holdout: a result per query, then its entry in the manifest. *)

(* The reranker, and its lock, are loaded only if the selection uses it. *)
StartHoldout(resume, device) ==
    /\ step = "idle"
    /\ Frozen
    /\ cached
    /\ gate => revision = "locked"
    /\ run' = [resume |-> resume, device |-> device]
    /\ step' = "ranking"
    /\ at' = 1
    /\ UNCHANGED <<world, dev, evidence>>

(* Fault: a result is reused only if the manifest lists it. *)
ReusedIfListed(q) == run.resume /\ rankings[q] # "absent" /\ q \in holdout.queries

(* The file itself decides; every result is of the one frozen selection. *)
Reused(q) == run.resume /\ rankings[q] # "absent"

SkipRanking ==
    /\ step = "ranking"
    /\ at \in Holdout
    /\ Reused(at)
    /\ at' = at + 1
    /\ UNCHANGED <<world, dev, evidence, step, run>>

RankQuery ==
    /\ step = "ranking"
    /\ at \in Holdout
    /\ ~Reused(at)
    /\ \E r \in Results : rankings' = [rankings EXCEPT ![at] = r]
    /\ step' = "listing ranking"
    /\ UNCHANGED <<world, dev, holdout, final, at, run>>

(* A manifest already complete keeps that status while queries are ranked. *)
ListRanking ==
    /\ step = "listing ranking"
    /\ holdout' = [status  |-> IF holdout.status = "complete" THEN "complete" ELSE "in_progress",
                   queries |-> holdout.queries \cup {at}]
    /\ at' = at + 1
    /\ step' = "ranking"
    /\ UNCHANGED <<world, dev, rankings, final, run>>

CompleteHoldout ==
    /\ step = "ranking"
    /\ at > HoldoutCount
    /\ holdout' = [holdout EXCEPT !.status = "complete"]
    /\ Ends
    /\ UNCHANGED <<world, dev, rankings, final, run>>

-----------------------------------------------------------------------------
(* The final artifacts. *)

(* Fault: a complete manifest is enough. *)
HoldoutValidByStatus == holdout.status = "complete"

(* validate_phase8_holdout_artifacts; what is listed has a result file. *)
HoldoutValid ==
    /\ holdout.status = "complete"
    /\ holdout.queries = Holdout
    /\ \A q \in Holdout : rankings[q] # "absent"

StartReport ==
    /\ step = "idle"
    /\ Frozen /\ gate
    /\ cached /\ revision = "locked" /\ "metadata" \in fused
    /\ HoldoutValid
    /\ step' = "reporting"
    /\ at' = 1
    /\ UNCHANGED <<world, dev, evidence, run>>

(* The results are loaded by the manifest's list; the comparison and what is*)
(* written after it also hold the DEV metrics.                             *)
Loaded == [q \in Holdout |-> IF q \in holdout.queries THEN rankings[q] ELSE "absent"]
Computed(a) == [rankings |-> Loaded, metrics |-> IF a = "metrics" THEN NoRows ELSE metrics]

Written(a) == final[a] # Nothing

(* Fault: the command goes on after the last artifact. *)
WriteArtifactAndGoOn ==
    /\ step = "reporting"
    /\ at \in 1..4
    /\ final[Artifacts[at]] \in {Nothing, Computed(Artifacts[at])}
    /\ final' = [final EXCEPT ![Artifacts[at]] = Computed(Artifacts[at])]
    /\ at' = at + 1
    /\ UNCHANGED <<world, dev, rankings, holdout, step, run>>

(* _write_immutable: an artifact that is there must equal the one computed. *)
WriteArtifact ==
    /\ step = "reporting"
    /\ final[Artifacts[at]] \in {Nothing, Computed(Artifacts[at])}
    /\ final' = [final EXCEPT ![Artifacts[at]] = Computed(Artifacts[at])]
    /\ IF at = 4 THEN Ends ELSE at' = at + 1 /\ UNCHANGED step
    /\ UNCHANGED <<world, dev, rankings, holdout, run>>

RefuseArtifact ==
    /\ step = "reporting"
    /\ final[Artifacts[at]] \notin {Nothing, Computed(Artifacts[at])}
    /\ Ends
    /\ UNCHANGED <<world, dev, evidence, run>>

-----------------------------------------------------------------------------

(* The command is killed, or an input it reads raises. *)
Stop ==
    /\ step # "idle"
    /\ Ends
    /\ UNCHANGED <<world, dev, evidence, run>>

Fusing == StartFusion \/ WriteFusionFile \/ WriteLock \/ WriteMetadata

Reranking ==
    \/ \E resume \in BOOLEAN, device \in Devices : StartReranking(resume, device)
    \/ SkipRow
    \/ WriteRow
    \/ ListRow
    \/ RefuseRow
    \/ FinishReranking

Freezing == StartFreezing \/ WriteDevMetrics \/ FreezeSelection

Ranking ==
    \/ \E resume \in BOOLEAN, device \in Devices : StartHoldout(resume, device)
    \/ SkipRanking
    \/ RankQuery
    \/ ListRanking
    \/ CompleteHoldout

Reporting == StartReport \/ WriteArtifact \/ RefuseArtifact

Next ==
    \/ EncodeCorpus
    \/ LockRevision
    \/ Fusing
    \/ Reranking
    \/ Freezing
    \/ Ranking
    \/ Reporting
    \/ Stop

Spec == Init /\ [][Next]_vars

-----------------------------------------------------------------------------
(* Properties. *)

Steps == {"idle", "fusing", "reranking", "listing row", "evaluating", "freezing", "ranking",
          "listing ranking", "reporting"}

(* The type invariant, and where each command can be in its files. *)
TypeOK ==
    /\ cached \in BOOLEAN
    /\ fused \subseteq {"rankings", "selection", "metadata"}
    /\ revision \in {"absent", "pending", "locked"}
    /\ gate \in BOOLEAN
    /\ rows \in [Dev -> Scored \cup {NoRow}]
    /\ store \in [device : Devices \cup {"absent"}, queries : SUBSET Dev]
    /\ metrics \in [Dev -> Scored \cup {NoRow}]
    /\ selection \in [Dev -> Scored \cup {NoRow}]
    /\ rankings \in [Holdout -> Results \cup {"absent"}]
    /\ holdout \in [status : {"absent", "in_progress", "complete"}, queries : SUBSET Holdout]
    /\ final \in [ArtifactNames -> [rankings : [Holdout -> Results \cup {"absent"}],
                                metrics : [Dev -> Scored \cup {NoRow}]]]
    /\ step \in Steps
    /\ at \in Nat
    /\ step \in {"fusing", "reporting"} => at \in 1..4
    /\ step = "listing row" => at \in Dev
    /\ step = "listing ranking" => at \in Holdout
    /\ run \in [resume : BOOLEAN, device : Devices]

(***************************************************************************)
(* The frozen selection rests on checkpoints of every DEV query, all of    *)
(* the device the selection validates, although commands on other devices  *)
(* overwrite rows before the manifest refuses them.                        *)
(***************************************************************************)
SelectionHasOneDevice == Frozen => \A q \in Dev : selection[q].device = Validated

(* Nothing of the holdout is ranked before the DEV selection is frozen. *)
HoldoutAfterFreeze == rankings # NoRankings => Frozen

(* The selection the holdout is ranked with is one, frozen, device's. *)
SelectionIsSound == SelectionHasOneDevice /\ HoldoutAfterFreeze

(* What is in the final artifacts was computed from the same results of    *)
(* every holdout query and the same DEV metrics, whichever runs wrote them.*)
FinalArtifactsAgree ==
    \A a, b \in ArtifactNames : Written(a) /\ Written(b) =>
        /\ final[a].rankings = final[b].rankings
        /\ "metrics" \notin {a, b} => final[a].metrics = final[b].metrics

(* No final artifact was computed without one of the holdout queries. *)
FinalizedIsComplete ==
    \A a \in ArtifactNames : Written(a) => \A q \in Holdout : final[a].rankings[q] # "absent"

(* The final artifacts tell one story of the whole holdout. *)
ArtifactsAreSound == FinalArtifactsAgree /\ FinalizedIsComplete

(***************************************************************************)
(* The one-shot rules: the frozen selection never changes, however the     *)
(* checkpoints do, and a resumed holdout never replaces a persisted result.*)
(***************************************************************************)
HoldoutIsOneShot ==
    [][/\ Frozen => selection' = selection
       /\ run.resume =>
             \A q \in Holdout : rankings[q] # "absent" => rankings'[q] = rankings[q]]_vars

(* What the status "phase8_holdout_complete" says: every query is recorded *)
(* as completed.                                                           *)
CompleteListsQueries == holdout.status = "complete" => holdout.queries = Holdout
=============================================================================
