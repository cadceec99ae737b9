---------------------------- MODULE CanonicalCorpus ----------------------------
(***************************************************************************)
(* The canonical corpus and the two experiments that read it               *)
(* (corpus/orchestrator.py, adapters.py, serialization.py;                 *)
(* normalization/orchestrator.py, normalization/corpus.py;                 *)
(* chunking/orchestrator.py, chunking/corpus.py).  A build writes each     *)
(* selected source's tables and inventory, then the manifests over all     *)
(* sources, for which it reads the other sources' inventories.  The        *)
(* normalization (4) and the chunking (5) experiment hash the tables the   *)
(* inventory names, load the case sources' units, write private views and  *)
(* results, and hash the tables again; a build may run beside them.        *)
(*                                                                         *)
(* A table is taken as the revision of its source's adapter and raw data   *)
(* it was built by; adapters are revised while no build runs.  A command   *)
(* may be killed between any two writes; the chunking experiment's files,  *)
(* which are written in place, are whole here or not written, and the two  *)
(* duplicate reports are one.                                              *)
(***************************************************************************)
EXTENDS Naturals, Sequences

CONSTANTS
    CorpusSources,    \* the sources with a canonical adapter
    StatutorySource,  \* the one of statutes; the others are case sources
    LastRevision,     \* bound: the revisions of an adapter, of one source only
    MaxBuilds         \* bound: the builds of a behaviour

CaseSources == CorpusSources \ {StatutorySource}

ASSUME CorpusAssumption ==
    /\ StatutorySource \in CorpusSources
    /\ LastRevision \in Nat \ {0}
    /\ MaxBuilds \in Nat

VARIABLES
    adapters,     \* what a build of each source gives now
    tables,       \* the Parquet tables of each source
    inventories,  \* the revision each source's own inventory is of
    manifests,    \* the manifests over all sources
    builds,       \* how many builds were started
    build,        \* the build running
    phase,        \* the experiment of this behaviour: 4 or 5, which share no file
    experiment,   \* its run
    findings,     \* what it has tracked
    views         \* its private views and results: of which units

corpusVars == <<adapters, tables, inventories, manifests, builds, build, phase, experiment,
                findings, views>>
phaseVars == <<phase, experiment, findings, views>>

(* The tables of a source, in the order they are written. *)
TablesOf(s) ==
    IF s = StatutorySource THEN <<"documents", "units", "fragments", "reconstruction">>
    ELSE <<"documents", "units">>
TableNames == {"documents", "units", "fragments", "reconstruction"}
TableSet(s) == {TablesOf(s)[i] : i \in DOMAIN TablesOf(s)}

NoRevisions == [s \in CorpusSources |-> 0]
NoTables == [s \in CorpusSources |-> [t \in TableSet(s) |-> 0]]
NoBuild == [step |-> "none", selected |-> {}, todo |-> {}, source |-> "none",
            table |-> 0, read |-> NoRevisions]
NoExperiment == [step |-> 0, before |-> NoTables, units |-> NoRevisions]
NoFindings == [corpus |-> NoTables, metrics |-> NoRevisions, manifest |-> NoRevisions]
NoViews == [views |-> NoRevisions, results |-> NoRevisions]

(* Nothing was built; or the tracked manifests are there, as in a checkout,*)
(* and the tables, which are not tracked, are or are not.                  *)
CorpusInit ==
    /\ adapters = [s \in CorpusSources |-> 1]
    /\ \E made, tracked \in {0, 1} :
           LET all == [s \in CorpusSources |-> tracked] IN
           /\ made <= tracked
           /\ tables = [s \in CorpusSources |-> [t \in TableSet(s) |-> made]]
           /\ inventories = all
           /\ manifests = [inventory |-> all, reconstruction |-> tracked,
                           duplicates |-> tracked, quality |-> all, statutory |-> tracked,
                           snapshot |-> all]
    /\ builds = 0
    /\ build = NoBuild
    /\ phase \in {4, 5}
    /\ experiment = NoExperiment
    /\ findings = NoFindings
    /\ views = NoViews

(* The adapter of a source, or its raw data by hand, becomes another one. *)
Revise(s) ==
    /\ build = NoBuild
    /\ adapters[s] < LastRevision
    /\ \A other \in CorpusSources \ {s} : adapters[other] = 1
    /\ adapters' = [adapters EXCEPT ![s] = @ + 1]
    /\ UNCHANGED <<tables, inventories, manifests, builds, build, phaseVars>>

---------------------------------------------------------------------------
(* corpus build, of the sources named or of all. *)
StartCorpusBuild(selected) ==
    /\ build = NoBuild
    /\ builds < MaxBuilds /\ builds' = builds + 1
    /\ build' = [NoBuild EXCEPT !.step = "next", !.selected = selected, !.todo = selected]
    /\ UNCHANGED <<adapters, tables, inventories, manifests, phaseVars>>

TakeSource(s) ==
    /\ build.step = "next" /\ s \in build.todo
    /\ build' = [build EXCEPT !.step = "source", !.todo = @ \ {s}, !.source = s, !.table = 1]
    /\ UNCHANGED <<adapters, tables, inventories, manifests, builds, phaseVars>>

WriteTable ==
    /\ build.step = "source"
    /\ build.table <= Len(TablesOf(build.source))
    /\ LET s == build.source IN
       tables' = [tables EXCEPT ![s][TablesOf(s)[build.table]] = adapters[s]]
    /\ build' = [build EXCEPT !.table = @ + 1]
    /\ UNCHANGED <<adapters, inventories, manifests, builds, phaseVars>>

(* Every table of the source, the reconstruction with them. *)
AllWritten == build.table = Len(TablesOf(build.source)) + 1

WriteInventory ==
    /\ build.step = "source" /\ AllWritten
    /\ inventories' = [inventories EXCEPT ![build.source] = adapters[build.source]]
    /\ build' = [build EXCEPT !.step = "next", !.source = "none", !.table = 0]
    /\ UNCHANGED <<adapters, tables, manifests, builds, phaseVars>>

(* The other sources' inventories are read; without one the build ends here,*)
(* its tables and inventories in place and the manifests as they were.     *)
CollectInventories ==
    /\ build.step = "next" /\ build.todo = {}
    /\ build' = IF \E s \in CorpusSources : inventories[s] = 0 THEN NoBuild
                ELSE [build EXCEPT !.read = inventories,
                        !.step = IF StatutorySource \in build.selected THEN "reconstruction"
                                 ELSE "inventory"]
    /\ UNCHANGED <<adapters, tables, inventories, manifests, builds, phaseVars>>

WriteManifest(step, next, written) ==
    /\ build.step = step
    /\ manifests' = written
    /\ build' = [build EXCEPT !.step = next]
    /\ UNCHANGED <<adapters, tables, inventories, builds, phaseVars>>

WriteReconstruction ==
    WriteManifest("reconstruction", "duplicates",
                  [manifests EXCEPT !.reconstruction = adapters[StatutorySource]])

WriteDuplicates ==
    WriteManifest("duplicates", "inventory",
                  [manifests EXCEPT !.duplicates = adapters[StatutorySource]])

WriteAllInventories ==
    WriteManifest("inventory", "quality", [manifests EXCEPT !.inventory = build.read])

(* What the quality report says of the statutes is found anew when they were*)
(* built, and else read from the last reconstruction report.               *)
Statutory ==
    IF StatutorySource \in build.selected THEN adapters[StatutorySource]
    ELSE manifests.reconstruction

WriteQuality ==
    /\ Statutory # 0
    /\ WriteManifest("quality", "snapshot",
                     [manifests EXCEPT !.quality = build.read, !.statutory = Statutory])

WriteSnapshot ==
    WriteManifest("snapshot", "built", [manifests EXCEPT !.snapshot = build.read])

(* The build returns; there is no report to read; or it is killed. *)
EndCorpusBuild ==
    /\ build # NoBuild
    /\ build' = NoBuild
    /\ UNCHANGED <<adapters, tables, inventories, manifests, builds, phaseVars>>

---------------------------------------------------------------------------
(* Fault: the normalization experiment looks at the hashes again last. *)
PhaseStepsCheckedLast(p) ==
    IF p = 4
    THEN <<"hash", "load", "views", "results", "manifest", "metrics", "check", "returned">>
    ELSE <<"hash", "load", "corpus", "views", "results", "metrics", "manifest", "check",
           "returned">>

(* The steps of an experiment, in its order. *)
PhaseSteps(p) ==
    IF p = 4
    THEN <<"hash", "load", "views", "results", "check", "manifest", "metrics", "returned">>
    ELSE <<"hash", "load", "corpus", "views", "results", "metrics", "manifest", "check",
           "returned">>

corpusFiles == <<adapters, tables, inventories, manifests, builds, build, phase>>
Running == experiment # NoExperiment
Step(step) == Running /\ PhaseSteps(phase)[experiment.step] = step
GoOn == experiment' = [experiment EXCEPT !.step = @ + 1]

StartPhase ==
    /\ ~Running
    /\ experiment' = [NoExperiment EXCEPT !.step = 1]
    /\ UNCHANGED <<corpusFiles, findings, views>>

(* The tables named by the inventory over all sources, as they are now. *)
HashTables ==
    /\ Step("hash") /\ manifests.inventory # NoRevisions
    /\ \A s \in CorpusSources, t \in TableNames : t \in TableSet(s) => tables[s][t] # 0
    /\ experiment' = [experiment EXCEPT !.step = @ + 1, !.before = tables]
    /\ UNCHANGED <<corpusFiles, findings, views>>

LoadUnits ==
    /\ Step("load")
    /\ experiment' = [experiment EXCEPT !.step = @ + 1,
                         !.units = [s \in CorpusSources |->
                                       IF s \in CaseSources THEN tables[s]["units"] ELSE 0]]
    /\ UNCHANGED <<corpusFiles, findings, views>>

Track(changed) ==
    /\ findings' = changed
    /\ GoOn
    /\ UNCHANGED <<corpusFiles, views>>

(* The chunking experiment's corpus manifest, with the hashes taken first. *)
FreezeCorpus ==
    /\ Step("corpus")
    /\ Track([findings EXCEPT !.corpus = experiment.before])

Keep(changed) ==
    /\ views' = changed
    /\ GoOn
    /\ UNCHANGED <<corpusFiles, findings>>

WriteViews == Step("views") /\ Keep([views EXCEPT !.views = experiment.units])
WriteResults == Step("results") /\ Keep([views EXCEPT !.results = experiment.units])

(* The normalization manifest carries the hashes itself. *)
WriteFindings ==
    /\ Step("manifest")
    /\ Track([findings EXCEPT !.manifest = experiment.units,
                 !.corpus = IF phase = 4 THEN experiment.before ELSE @])

WriteMetrics ==
    /\ Step("metrics")
    /\ Track([findings EXCEPT !.metrics = experiment.units])

CheckHashes ==
    /\ Step("check")
    /\ IF tables = experiment.before THEN GoOn ELSE experiment' = NoExperiment
    /\ UNCHANGED <<corpusFiles, findings, views>>

(* It returns, an inventory or a table is missing, or it is killed. *)
EndPhase ==
    /\ Running
    /\ experiment' = NoExperiment
    /\ UNCHANGED <<corpusFiles, findings, views>>

CorpusNext ==
    \/ \E s \in CorpusSources : Revise(s) \/ TakeSource(s)
    \/ \E selected \in (SUBSET CorpusSources) \ {{}} : StartCorpusBuild(selected)
    \/ WriteTable \/ WriteInventory \/ CollectInventories
    \/ WriteReconstruction \/ WriteDuplicates \/ WriteAllInventories \/ WriteQuality
    \/ WriteSnapshot \/ EndCorpusBuild
    \/ StartPhase \/ HashTables \/ LoadUnits \/ FreezeCorpus \/ WriteViews \/ WriteResults
    \/ WriteFindings \/ WriteMetrics \/ CheckHashes \/ EndPhase

CorpusSpec == CorpusInit /\ [][CorpusNext]_corpusVars

---------------------------------------------------------------------------
(* The type invariant. *)
CorpusTypeOK ==
    /\ adapters \in [CorpusSources -> Nat \ {0}]
    /\ inventories \in [CorpusSources -> Nat]
    /\ build.selected \subseteq CorpusSources
    /\ phase \in {4, 5} /\ experiment.step \in 0..Len(PhaseSteps(phase))

(* Kills leave a source's inventory behind the tables that are there and   *)
(* the manifests behind the inventories, never one ahead of what it        *)
(* describes (build, _write_inventory).                                    *)
ManifestsFollow ==
    \A s \in CorpusSources :
        /\ \A t \in TableSet(s) : tables[s][t] = 0 \/ inventories[s] <= tables[s][t]
        /\ manifests.inventory[s] <= inventories[s]
        /\ manifests.quality[s] <= manifests.inventory[s]
        /\ manifests.snapshot[s] <= manifests.quality[s]
        /\ s = StatutorySource => /\ manifests.reconstruction <= inventories[s]
                                  /\ manifests.duplicates <= manifests.reconstruction
                                  /\ manifests.statutory <= manifests.reconstruction

(* Where a build ends, every manifest says of the sources it built the     *)
(* revision of all their tables, and of the others that of their own       *)
(* inventory; the statutory reports agree when the statutes were built.    *)
BuildIsInventoried ==
    build.step = "built" =>
        /\ \A s \in CorpusSources :
               /\ inventories[s] \in Nat \ {0}
               /\ {manifests.inventory[s], manifests.quality[s], manifests.snapshot[s]}
                      = {inventories[s]}
               /\ s \in build.selected =>
                      \A t \in TableSet(s) : tables[s][t] = inventories[s]
        /\ StatutorySource \in build.selected =>
               {manifests.reconstruction, manifests.duplicates, manifests.statutory}
                   = {inventories[StatutorySource]}

(* The normalization manifest names the very tables its units were loaded  *)
(* from, whatever was built meanwhile; the chunking experiment's tracked   *)
(* files do so only when it returns, as do both experiments' private files *)
(* (run_phase4_experiment, run_phase5_chunking).                           *)
HashesOf(units) == \A s \in CaseSources : findings.corpus[s]["units"] = units[s]

ExperimentsNameTheirCorpus ==
    /\ phase = 4 => HashesOf(findings.manifest)
    /\ Step("returned") =>
           /\ HashesOf(experiment.units)
           /\ {findings.manifest, findings.metrics, views.views,
               views.results} = {experiment.units}

(* The corpus and what the experiments say of it: all three. *)
CorpusIsSound == ManifestsFollow /\ BuildIsInventoried /\ ExperimentsNameTheirCorpus
=============================================================================
