---------------------------- MODULE PipelineProofs ----------------------------
(***************************************************************************)
(* Proofs about HybridExperiment, CanonicalCorpus and Acquisition for any  *)
(* number of queries, devices, results, sources, files, versions and       *)
(* builds, and about the three together.  In each one command runs at a    *)
(* time, so what a command found when it started, or has written, is still *)
(* so at each of its steps until it ends: the invariants say it once for   *)
(* the command running.                                                    *)
(***************************************************************************)
EXTENDS MCPipeline, TLAPS

LEMMA ArtifactFacts ==
    /\ \A i \in 1..4 : Artifacts[i] \in ArtifactNames
    /\ \A a \in ArtifactNames : \E i \in 1..4 : a = Artifacts[i]
    /\ \A i, j \in 1..4 : Artifacts[i] = Artifacts[j] => i = j
    /\ \A i \in 1..4 : Artifacts[i] = "metrics" <=> i = 1
  <1>1. /\ Artifacts[1] = "metrics" /\ Artifacts[2] = "comparison"
        /\ Artifacts[3] = "report" /\ Artifacts[4] = "manifest"
    BY DEF Artifacts
  <1>2. \A i \in 1..4 : i = 1 \/ i = 2 \/ i = 3 \/ i = 4
    OBVIOUS
  <1>3. ArtifactNames = {"metrics", "comparison", "report", "manifest"}
    BY <1>1, <1>2 DEF ArtifactNames
  <1> QED
    BY <1>1, <1>2, <1>3

LEMMA ComputedType ==
  ASSUME TypeOK, NEW a
  PROVE  /\ Computed(a) \in [rankings : [Holdout -> Results \cup {"absent"}],
                             metrics : [Dev -> Scored \cup {NoRow}]]
         /\ Nothing \in [rankings : [Holdout -> Results \cup {"absent"}],
                         metrics : [Dev -> Scored \cup {NoRow}]]
  <1>1. Loaded \in [Holdout -> Results \cup {"absent"}]
    BY DEF Loaded, TypeOK
  <1>2. NoRows \in [Dev -> Scored \cup {NoRow}]
    BY DEF NoRows
  <1>3. NoRankings \in [Holdout -> Results \cup {"absent"}]
    BY DEF NoRankings
  <1> QED
    BY <1>1, <1>2, <1>3 DEF Computed, Nothing, TypeOK

(***************************************************************************)
(* Type correctness, and where each command is in its files.               *)
(***************************************************************************)
LEMMA InitTypeOK == Init => TypeOK
  <1> SUFFICES ASSUME Init PROVE TypeOK
    OBVIOUS
  <1>1. Nothing \in [rankings : [Holdout -> Results \cup {"absent"}],
                     metrics : [Dev -> Scored \cup {NoRow}]]
    BY DEF Nothing, NoRankings, NoRows
  <1>2. final \in [ArtifactNames -> [rankings : [Holdout -> Results \cup {"absent"}],
                                     metrics : [Dev -> Scored \cup {NoRow}]]]
    BY <1>1 DEF Init
  <1> QED
    BY <1>2, HybridAssumption DEF Init, TypeOK, NoRankings, NoRows, Steps

LEMMA NextTypeOK == TypeOK /\ [Next]_vars => TypeOK'
  <1> SUFFICES ASSUME TypeOK, [Next]_vars PROVE TypeOK'
    OBVIOUS
  <1>1. CASE EncodeCorpus
    BY <1>1 DEF EncodeCorpus, TypeOK, world, dev, evidence,
       Steps, Ends
  <1>2. CASE LockRevision
    BY <1>2 DEF LockRevision, TypeOK, world, dev, evidence,
       Steps, Ends
  <1>3. CASE StartFusion
    BY <1>3 DEF StartFusion, TypeOK, world, dev, evidence,
       Steps, Ends
  <1>4. CASE WriteFusionFile
    <2>1. fused' \subseteq {"rankings", "selection", "metadata"}
      <3>1. at = 1 \/ at = 2
        BY <1>4 DEF WriteFusionFile, TypeOK, world, dev, evidence,
           Steps, Ends
      <3>2. <<"rankings", "selection">>[at] \in {"rankings", "selection"}
        <4>1. <<"rankings", "selection">>[1] = "rankings"
          OBVIOUS
        <4>2. <<"rankings", "selection">>[2] = "selection"
          OBVIOUS
        <4> QED
          BY <3>1, <4>1, <4>2
      <3> QED
        BY <1>4, <3>2 DEF WriteFusionFile, TypeOK, world, dev, evidence,
           Steps, Ends
    <2>2. at' \in Nat /\ at' \in 1..4
      BY <1>4 DEF WriteFusionFile, TypeOK, world, dev, evidence,
         Steps, Ends
    <2> QED
      BY <1>4, <2>1, <2>2 DEF WriteFusionFile, TypeOK, world, dev, evidence,
         Steps, Ends
  <1>5. CASE WriteLock
    BY <1>5 DEF WriteLock, TypeOK, world, dev, evidence,
       Steps, Ends
  <1>6. CASE WriteMetadata
    BY <1>6 DEF WriteMetadata, TypeOK, world, dev, evidence,
       Steps, Ends
  <1>7. CASE SkipRow
    BY <1>7 DEF SkipRow, Dev, TypeOK, world, dev, evidence,
       Steps, Ends
  <1>8. CASE RefuseRow
    BY <1>8 DEF RefuseRow, TypeOK, world, dev, evidence,
       Steps, Ends
  <1>9. CASE FinishReranking
    BY <1>9 DEF FinishReranking, TypeOK, world, dev, evidence,
       Steps, Ends
  <1>10. CASE ListRow
    <2>0. at \in Nat /\ at \in Dev
      BY <1>10 DEF ListRow, TypeOK, world, dev, evidence,
         Steps, Ends
    <2>1. at' \in Nat
      <3>1. at' = at + 1
        BY <1>10 DEF ListRow
      <3> QED
        BY <2>0, <3>1
    <2>2. store' \in [device : Devices \cup {"absent"}, queries : SUBSET Dev]
      BY <1>10, <2>0 DEF ListRow, TypeOK, world, dev, evidence,
         Steps, Ends
    <2> QED
      BY <1>10, <2>0, <2>1, <2>2 DEF ListRow, TypeOK, world, dev, evidence,
         Steps, Ends
  <1>11. CASE StartFreezing
    BY <1>11 DEF StartFreezing, TypeOK, world, dev, evidence,
       Steps, Ends
  <1>12. CASE WriteDevMetrics
    BY <1>12 DEF WriteDevMetrics, TypeOK, world, dev, evidence,
       Steps, Ends
  <1>13. CASE FreezeSelection
    BY <1>13 DEF FreezeSelection, TypeOK, world, dev, evidence,
       Steps, Ends
  <1>14. CASE SkipRanking
    BY <1>14 DEF SkipRanking, Holdout, TypeOK, world, dev, evidence,
       Steps, Ends
  <1>15. CASE RankQuery
    <2>1. rankings' \in [Holdout -> Results \cup {"absent"}]
      BY <1>15 DEF RankQuery, TypeOK, world, dev, evidence,
         Steps, Ends
    <2> QED
      BY <1>15, <2>1 DEF RankQuery, TypeOK, world, dev, evidence,
         Steps, Ends
  <1>16. CASE ListRanking
    <2>0. at \in Nat /\ at \in Holdout
      BY <1>16 DEF ListRanking, TypeOK, world, dev, evidence,
         Steps, Ends
    <2>1. at' \in Nat
      <3>1. at' = at + 1
        BY <1>16 DEF ListRanking
      <3> QED
        BY <2>0, <3>1
    <2>2. holdout' \in [status : {"absent", "in_progress", "complete"},
                        queries : SUBSET Holdout]
      BY <1>16, <2>0 DEF ListRanking, TypeOK, world, dev, evidence,
         Steps, Ends
    <2> QED
      BY <1>16, <2>0, <2>1, <2>2 DEF ListRanking, TypeOK, world, dev, evidence,
         Steps, Ends
  <1>17. CASE CompleteHoldout
    BY <1>17 DEF CompleteHoldout, TypeOK, world, dev, evidence,
       Steps, Ends
  <1>18. CASE StartReport
    BY <1>18 DEF StartReport, TypeOK, world, dev, evidence,
       Steps, Ends
  <1>19. CASE RefuseArtifact
    BY <1>19 DEF RefuseArtifact, TypeOK, world, dev, evidence,
       Steps, Ends
  <1>20. CASE Stop
    BY <1>20 DEF Stop, TypeOK, world, dev, evidence,
       Steps, Ends
  <1>21. ASSUME NEW resume \in BOOLEAN, NEW device \in Devices, StartReranking(resume, device)
        PROVE  TypeOK'
    BY <1>21 DEF StartReranking, TypeOK, world, dev, evidence,
       Steps, Ends
  <1>22. ASSUME NEW resume \in BOOLEAN, NEW device \in Devices, StartHoldout(resume, device)
        PROVE  TypeOK'
    BY <1>22 DEF StartHoldout, TypeOK, world, dev, evidence,
       Steps, Ends
  <1>23. CASE WriteRow
    <2>1. PICK r \in Results : rows' = [rows EXCEPT ![at] = [device |-> run.device, result |-> r]]
      BY <1>23 DEF WriteRow, TypeOK, world, dev, evidence,
         Steps, Ends
    <2>2. [device |-> run.device, result |-> r] \in Scored
      BY DEF Scored, TypeOK
    <2>3. rows' \in [Dev -> Scored \cup {NoRow}]
      BY <2>1, <2>2 DEF TypeOK
    <2> QED
      BY <1>23, <2>3 DEF WriteRow, TypeOK, world, dev, evidence,
         Steps, Ends
  <1>24. CASE WriteArtifact
    <2>1. final' \in [ArtifactNames -> [rankings : [Holdout -> Results \cup {"absent"}],
                                        metrics : [Dev -> Scored \cup {NoRow}]]]
      BY <1>24, ComputedType DEF WriteArtifact, TypeOK, world, dev, evidence,
         Steps, Ends
    <2>2. at' \in Nat /\ step' \in {"idle", "reporting"} /\ (step' = "reporting" => at' \in 1..4)
      BY <1>24 DEF WriteArtifact, TypeOK, world, dev, evidence,
         Steps, Ends
    <2> QED
      BY <1>24, <2>1, <2>2 DEF WriteArtifact, TypeOK, world, dev, evidence,
         Steps, Ends
  <1>25. CASE UNCHANGED vars
    <2>1. UNCHANGED <<cached, gate, fused, revision, rows, store, metrics, selection>>
      BY <1>25 DEF vars, TypeOK, world, dev, evidence,
         Steps, Ends
    <2>2. UNCHANGED <<rankings, holdout, final, step, at, run>>
      BY <1>25 DEF vars, TypeOK, world, dev, evidence,
         Steps, Ends
    <2> QED
      BY <2>1, <2>2 DEF TypeOK
  <1> QED
    BY <1>1, <1>2, <1>3, <1>4, <1>5, <1>6, <1>7, <1>8, <1>9, <1>10, <1>11, <1>12, <1>13, <1>14, <1>15, <1>16, <1>17, <1>18, <1>19, <1>20, <1>21, <1>22, <1>23, <1>24, <1>25
    DEF Next, Fusing, Reranking, Freezing, Ranking, Reporting

(* Every reachable state has the declared types. *)
THEOREM TypeCorrect == Spec => []TypeOK
  BY InitTypeOK, NextTypeOK, PTL DEF Spec

(***************************************************************************)
(* Which action each file, and each step that matters, is owed to.         *)
(***************************************************************************)
FilesFollow ==
    /\ selection' = selection \/ FreezeSelection
    /\ rows' = rows \/ WriteRow
    /\ metrics' = metrics \/ WriteDevMetrics
    /\ rankings' = rankings \/ RankQuery
    /\ holdout' = holdout \/ ListRanking \/ CompleteHoldout
    /\ final' = final \/ WriteArtifact

StepsOf ==
    /\ step' = "freezing" => WriteDevMetrics \/ UNCHANGED vars
    /\ step' = "evaluating" => StartFreezing \/ UNCHANGED vars
    /\ step' \in {"ranking", "listing ranking"} =>
          \/ step \in {"ranking", "listing ranking"}
          \/ Frozen
    /\ step' = "reporting" => StartReport \/ WriteArtifact \/ UNCHANGED vars

LEMMA Frame == [Next]_vars => FilesFollow /\ StepsOf
  <1> SUFFICES ASSUME [Next]_vars PROVE FilesFollow /\ StepsOf
    OBVIOUS
  <1>1. CASE EncodeCorpus
    BY <1>1 DEF EncodeCorpus, FilesFollow, StepsOf, Ends, dev, evidence
  <1>2. CASE LockRevision
    BY <1>2 DEF LockRevision, FilesFollow, StepsOf, Ends, dev, evidence
  <1>3. CASE Stop
    BY <1>3 DEF Stop, FilesFollow, StepsOf, Ends, dev, evidence
  <1>4. CASE StartFusion
    BY <1>4 DEF StartFusion, FilesFollow, StepsOf, Ends, dev, evidence
  <1>5. CASE WriteFusionFile
    BY <1>5 DEF WriteFusionFile, FilesFollow, StepsOf, Ends, dev, evidence
  <1>6. CASE WriteLock
    BY <1>6 DEF WriteLock, FilesFollow, StepsOf, Ends, dev, evidence
  <1>7. CASE WriteMetadata
    BY <1>7 DEF WriteMetadata, FilesFollow, StepsOf, Ends, dev, evidence
  <1>8. CASE SkipRow
    BY <1>8 DEF SkipRow, FilesFollow, StepsOf, Ends, dev, evidence
  <1>9. CASE WriteRow
    BY <1>9 DEF WriteRow, FilesFollow, StepsOf, Ends, dev, evidence
  <1>10. CASE ListRow
    BY <1>10 DEF ListRow, FilesFollow, StepsOf, Ends, dev, evidence
  <1>11. CASE RefuseRow
    BY <1>11 DEF RefuseRow, FilesFollow, StepsOf, Ends, dev, evidence
  <1>12. CASE FinishReranking
    BY <1>12 DEF FinishReranking, FilesFollow, StepsOf, Ends, dev, evidence
  <1>13. CASE StartFreezing
    BY <1>13 DEF StartFreezing, FilesFollow, StepsOf, Ends, dev, evidence
  <1>14. CASE WriteDevMetrics
    BY <1>14 DEF WriteDevMetrics, FilesFollow, StepsOf, Ends, dev, evidence
  <1>15. CASE FreezeSelection
    BY <1>15 DEF FreezeSelection, FilesFollow, StepsOf, Ends, dev, evidence
  <1>16. CASE SkipRanking
    BY <1>16 DEF SkipRanking, FilesFollow, StepsOf, Ends, dev, evidence
  <1>17. CASE RankQuery
    BY <1>17 DEF RankQuery, FilesFollow, StepsOf, Ends, dev, evidence
  <1>18. CASE ListRanking
    BY <1>18 DEF ListRanking, FilesFollow, StepsOf, Ends, dev, evidence
  <1>19. CASE CompleteHoldout
    BY <1>19 DEF CompleteHoldout, FilesFollow, StepsOf, Ends, dev, evidence
  <1>20. CASE StartReport
    BY <1>20 DEF StartReport, FilesFollow, StepsOf, Ends, dev, evidence
  <1>21. CASE WriteArtifact
    BY <1>21 DEF WriteArtifact, FilesFollow, StepsOf, Ends, dev, evidence
  <1>22. CASE RefuseArtifact
    BY <1>22 DEF RefuseArtifact, FilesFollow, StepsOf, Ends, dev, evidence
  <1>23. ASSUME NEW resume \in BOOLEAN, NEW device \in Devices, StartReranking(resume, device)
        PROVE  FilesFollow /\ StepsOf
    BY <1>23 DEF StartReranking, FilesFollow, StepsOf, dev, evidence
  <1>24. ASSUME NEW resume \in BOOLEAN, NEW device \in Devices, StartHoldout(resume, device)
        PROVE  FilesFollow /\ StepsOf
    BY <1>24 DEF StartHoldout, FilesFollow, StepsOf, dev, evidence
  <1>25. CASE UNCHANGED vars
    BY <1>25 DEF vars, FilesFollow, StepsOf, dev, evidence
  <1> QED
    BY <1>1, <1>2, <1>3, <1>4, <1>5, <1>6, <1>7, <1>8, <1>9, <1>10, <1>11, <1>12, <1>13, <1>14, <1>15, <1>16, <1>17, <1>18, <1>19, <1>20, <1>21, <1>22, <1>23, <1>24, <1>25
    DEF Next, Fusing, Reranking, Freezing, Ranking, Reporting

(***************************************************************************)
(* The selection.                                                          *)
(***************************************************************************)

(* Between its validation and its last write, freezing finds the rows as it*)
(* validated them.                                                         *)
FreezingInv ==
    /\ step \in {"evaluating", "freezing"} => \A q \in Dev : rows[q].device = Validated
    /\ SelectionHasOneDevice

LEMMA NextFreezingInv == FreezingInv /\ [Next]_vars => FreezingInv'
  <1> SUFFICES ASSUME FreezingInv, [Next]_vars PROVE FreezingInv'
    OBVIOUS
  <1>1. FilesFollow /\ StepsOf
    BY Frame
  <1>2. (step \in {"evaluating", "freezing"} => \A q \in Dev : rows[q].device = Validated)'
    <2> SUFFICES ASSUME step' \in {"evaluating", "freezing"}
                 PROVE  \A q \in Dev : rows'[q].device = Validated
      OBVIOUS
    <2>1. StartFreezing \/ WriteDevMetrics \/ UNCHANGED vars
      BY <1>1 DEF StepsOf
    <2>2. rows' = rows
      BY <2>1 DEF StartFreezing, WriteDevMetrics, vars, dev
    <2>3. \A q \in Dev : rows[q].device = Validated
      BY <2>1 DEF StartFreezing, DevValid, WriteDevMetrics, FreezingInv, vars
    <2> QED
      BY <2>2, <2>3
  <1>3. SelectionHasOneDevice'
    <2>1. CASE selection' = selection
      BY <2>1 DEF FreezingInv, SelectionHasOneDevice, Frozen
    <2>2. CASE FreezeSelection
      BY <2>2 DEF FreezeSelection, FreezingInv, SelectionHasOneDevice, Frozen
    <2> QED
      BY <1>1, <2>1, <2>2 DEF FilesFollow
  <1> QED
    BY <1>2, <1>3 DEF FreezingInv

(* The frozen selection rests on every DEV query's checkpoint, all scored on*)
(* the one device it validates (finalize_phase8_dev_selection).            *)
THEOREM SelectionOneDevice == Spec => []SelectionHasOneDevice
  <1>1. Init => FreezingInv
    BY DEF Init, FreezingInv, SelectionHasOneDevice, Frozen
  <1>2. FreezingInv => SelectionHasOneDevice
    BY DEF FreezingInv
  <1> QED
    BY <1>1, <1>2, NextFreezingInv, PTL DEF Spec

LEMMA FrozenKept == [Next]_vars => (Frozen => selection' = selection)
  BY Frame DEF FilesFollow, FreezeSelection

(***************************************************************************)
(* The holdout.                                                            *)
(***************************************************************************)
HoldoutInv ==
    /\ step \in {"ranking", "listing ranking"} => Frozen
    /\ HoldoutAfterFreeze

LEMMA NextHoldoutInv == HoldoutInv /\ [Next]_vars => HoldoutInv'
  <1> SUFFICES ASSUME HoldoutInv, [Next]_vars PROVE HoldoutInv'
    OBVIOUS
  <1>1. FilesFollow /\ StepsOf
    BY Frame
  <1>2. Frozen => Frozen'
    BY FrozenKept DEF Frozen
  <1>3. (step \in {"ranking", "listing ranking"} => Frozen)'
    BY <1>1, <1>2 DEF StepsOf, HoldoutInv
  <1>4. HoldoutAfterFreeze'
    <2>1. CASE rankings' = rankings
      BY <1>2, <2>1 DEF HoldoutInv, HoldoutAfterFreeze
    <2>2. CASE RankQuery
      BY <1>2, <2>2 DEF RankQuery, HoldoutInv, HoldoutAfterFreeze
    <2> QED
      BY <1>1, <2>1, <2>2 DEF FilesFollow
  <1> QED
    BY <1>3, <1>4 DEF HoldoutInv

(* No holdout query is ranked before the DEV selection is frozen. *)
THEOREM HoldoutRankedAfterFreeze == Spec => []HoldoutAfterFreeze
  <1>1. Init => HoldoutInv
    BY DEF Init, HoldoutInv, HoldoutAfterFreeze
  <1>2. HoldoutInv => HoldoutAfterFreeze
    BY DEF HoldoutInv
  <1> QED
    BY <1>1, <1>2, NextHoldoutInv, PTL DEF Spec

(* Once frozen, the selection never changes; a resumed holdout never       *)
(* replaces a persisted result.                                            *)
THEOREM RankedOnce == Spec => HoldoutIsOneShot
  <1>1. TypeOK /\ [Next]_vars =>
           (run.resume => \A q \in Holdout : rankings[q] # "absent" => rankings'[q] = rankings[q])
    <2> SUFFICES ASSUME TypeOK, [Next]_vars, run.resume, NEW q \in Holdout,
                        rankings[q] # "absent"
                 PROVE  rankings'[q] = rankings[q]
      OBVIOUS
    <2>1. CASE RankQuery
      <3>1. PICK r \in Results : rankings' = [rankings EXCEPT ![at] = r]
        BY <2>1 DEF RankQuery
      <3>2. at # q
        BY <2>1 DEF RankQuery, Reused
      <3> QED
        BY <3>1, <3>2 DEF TypeOK
    <2> QED
      BY Frame, <2>1 DEF FilesFollow
  <1> QED
    BY <1>1, FrozenKept, TypeCorrect, PTL DEF Spec, HoldoutIsOneShot

(***************************************************************************)
(* The final artifacts.  They are written in order, so one that is written *)
(* vouches for those before it; while they are being written, those        *)
(* already passed hold exactly what the command computes.                  *)
(***************************************************************************)
Passed == step = "reporting" =>
    /\ HoldoutValid
    /\ \A i \in 1..4 : i < at => final[Artifacts[i]] = Computed(Artifacts[i])

InOrder == \A i, j \in 1..4 : i < j /\ Written(Artifacts[j]) => Written(Artifacts[i])

ReportInv == Passed /\ InOrder /\ FinalArtifactsAgree /\ FinalizedIsComplete

LEMMA ComputedComplete ==
  ASSUME TypeOK, HoldoutValid, NEW a
  PROVE  /\ Computed(a) # Nothing
         /\ Computed(a).rankings = Loaded
         /\ \A q \in Holdout : Loaded[q] # "absent"
         /\ a # "metrics" => Computed(a).metrics = metrics
  <1>1. \A q \in Holdout : Loaded[q] # "absent"
    BY DEF Loaded, HoldoutValid
  <1>2. 1 \in Holdout
    BY HybridAssumption DEF Holdout
  <1>3. Loaded # NoRankings
    BY <1>1, <1>2 DEF NoRankings
  <1> QED
    BY <1>1, <1>3 DEF Computed, Nothing

LEMMA WriteArtifactReportInv ==
  ASSUME TypeOK, ReportInv, WriteArtifact
  PROVE  ReportInv'
  <1> DEFINE a == Artifacts[at]
  <1>1. at \in 1..4 /\ HoldoutValid /\ step = "reporting"
    BY DEF WriteArtifact, TypeOK, ReportInv, Passed
  <1>2. a \in ArtifactNames
    BY <1>1, ArtifactFacts
  <1>3. \A b : Computed(b)' = Computed(b) /\ HoldoutValid'
    BY <1>1 DEF WriteArtifact, Computed, Loaded, HoldoutValid, dev
  <1>4. /\ final[a] \in {Nothing, Computed(a)}
        /\ final'[a] = Computed(a)
        /\ \A b \in ArtifactNames : b # a => final'[b] = final[b]
    BY <1>2 DEF WriteArtifact, TypeOK
  <1>5. \A b : /\ Computed(b) # Nothing
               /\ Computed(b).rankings = Loaded
               /\ b # "metrics" => Computed(b).metrics = metrics
    BY <1>1, ComputedComplete
  <1>6. \A i \in 1..4 : i # at => Artifacts[i] \in ArtifactNames /\ Artifacts[i] # a
    BY <1>1, ArtifactFacts
  <1>7. \A i \in 1..4 : i < at \/ i = at => final'[Artifacts[i]] = Computed(Artifacts[i])
    BY <1>1, <1>4, <1>6 DEF ReportInv, Passed
  <1>8. Passed'
    <2> SUFFICES ASSUME step' = "reporting", NEW i \in 1..4, i < at'
                 PROVE  final'[Artifacts[i]] = Computed(Artifacts[i])
      BY <1>3 DEF Passed
    <2>1. at' = at + 1
      BY DEF WriteArtifact, Ends
    <2>2. i < at \/ i = at
      BY <1>1, <2>1
    <2> QED
      BY <1>7, <2>2
  <1>9. \A i \in 1..4 : i # at => final'[Artifacts[i]] = final[Artifacts[i]]
    BY <1>4, <1>6
  <1>10. InOrder'
    <2> SUFFICES ASSUME NEW i \in 1..4, NEW j \in 1..4, i < j, final'[Artifacts[j]] # Nothing
                 PROVE  final'[Artifacts[i]] # Nothing
      BY DEF InOrder, Written
    <2>1. CASE i < at \/ i = at
      BY <1>5, <1>7, <2>1
    <2>2. CASE ~(i < at \/ i = at)
      <3>1. i # at /\ j # at
        BY <1>1, <2>2
      <3> QED
        BY <1>9, <3>1 DEF ReportInv, InOrder, Written
    <2> QED
      BY <2>1, <2>2
  (* What a later artifact holds, an earlier run having written this one too.  *)
  <1>11. ASSUME NEW j \in 1..4, ~(j < at \/ j = at), final[Artifacts[j]] # Nothing
         PROVE  /\ final[Artifacts[j]].rankings = Loaded
                /\ at # 1 => final[Artifacts[j]].metrics = metrics
    <2>1. at < j
      BY <1>1, <1>11
    <2>2. final[a] = Computed(a)
      BY <1>1, <1>4, <1>11, <2>1 DEF ReportInv, InOrder, Written
    <2>3. Artifacts[j] \in ArtifactNames /\ Artifacts[j] # "metrics"
      BY <1>1, <2>1, ArtifactFacts
    <2>4. at # 1 => a # "metrics"
      BY <1>1, ArtifactFacts
    <2> QED
      BY <1>2, <1>5, <1>11, <2>2, <2>3, <2>4 DEF ReportInv, FinalArtifactsAgree, Written
  <1>12. \A j \in 1..4 : final'[Artifacts[j]] # Nothing =>
            /\ final'[Artifacts[j]].rankings = Loaded
            /\ at # 1 /\ j # 1 => final'[Artifacts[j]].metrics = metrics
    <2> SUFFICES ASSUME NEW j \in 1..4, final'[Artifacts[j]] # Nothing
                 PROVE  /\ final'[Artifacts[j]].rankings = Loaded
                        /\ at # 1 /\ j # 1 => final'[Artifacts[j]].metrics = metrics
      OBVIOUS
    <2>1. CASE j < at \/ j = at
      BY <1>5, <1>7, <2>1, ArtifactFacts
    <2>2. CASE ~(j < at \/ j = at)
      <3>1. final'[Artifacts[j]] = final[Artifacts[j]]
        BY <1>1, <1>9, <2>2
      <3> QED
        BY <1>11, <2>2, <3>1
    <2> QED
      BY <2>1, <2>2
  <1>13. FinalArtifactsAgree'
    <2> SUFFICES ASSUME NEW i \in 1..4, NEW j \in 1..4,
                        final'[Artifacts[i]] # Nothing, final'[Artifacts[j]] # Nothing
                 PROVE  /\ final'[Artifacts[i]].rankings = final'[Artifacts[j]].rankings
                        /\ i # 1 /\ j # 1 =>
                              final'[Artifacts[i]].metrics = final'[Artifacts[j]].metrics
      BY ArtifactFacts DEF FinalArtifactsAgree, Written
    <2>1. final'[Artifacts[i]].rankings = final'[Artifacts[j]].rankings
      BY <1>12
    <2>2. CASE at # 1
      BY <1>12, <2>1, <2>2
    <2>3. ASSUME at = 1, i # 1, j # 1
          PROVE  final'[Artifacts[i]].metrics = final'[Artifacts[j]].metrics
      <3>1. /\ final'[Artifacts[i]] = final[Artifacts[i]]
            /\ final'[Artifacts[j]] = final[Artifacts[j]]
        BY <1>9, <2>3
      <3>2. {Artifacts[i], Artifacts[j]} \subseteq ArtifactNames \ {"metrics"}
        BY <2>3, ArtifactFacts
      <3> QED
        BY <3>1, <3>2 DEF ReportInv, FinalArtifactsAgree, Written
    <2> QED
      BY <2>1, <2>2, <2>3
  <1>14. FinalizedIsComplete'
    <2> SUFFICES ASSUME NEW j \in 1..4, final'[Artifacts[j]] # Nothing, NEW q \in Holdout
                 PROVE  final'[Artifacts[j]].rankings[q] # "absent"
      BY ArtifactFacts DEF FinalizedIsComplete, Written
    <2> QED
      BY <1>1, <1>12, ComputedComplete
  <1> QED
    BY <1>8, <1>10, <1>13, <1>14 DEF ReportInv

LEMMA NextReportInv == TypeOK /\ ReportInv /\ [Next]_vars => ReportInv'
  <1> SUFFICES ASSUME TypeOK, ReportInv, [Next]_vars, ~WriteArtifact PROVE ReportInv'
    BY WriteArtifactReportInv
  <1>1. FilesFollow /\ StepsOf
    BY Frame
  <1>2. final' = final
    BY <1>1 DEF FilesFollow
  <1>3. Passed'
    <2> SUFFICES ASSUME step' = "reporting" PROVE Passed'
      BY DEF Passed
    <2>1. CASE UNCHANGED vars
      BY <2>1 DEF vars, dev, evidence, ReportInv, Passed, HoldoutValid, Computed, Loaded
    <2>2. CASE StartReport
      <3>1. HoldoutValid'
        BY <2>2 DEF StartReport, HoldoutValid, evidence
      <3>2. \A i \in 1..4 : ~(i < at')
        BY <2>2 DEF StartReport
      <3> QED
        BY <3>1, <3>2 DEF Passed
    <2> QED
      BY <1>1, <2>1, <2>2 DEF StepsOf
  <1>4. (InOrder /\ FinalArtifactsAgree /\ FinalizedIsComplete)'
    BY <1>2 DEF ReportInv, InOrder, FinalArtifactsAgree, FinalizedIsComplete, Written
  <1> QED
    BY <1>3, <1>4 DEF ReportInv

LEMMA ReportInvHolds == Spec => []ReportInv
  <1>1. Init => ReportInv
    <2> SUFFICES ASSUME Init PROVE ReportInv
      OBVIOUS
    <2>1. \A a \in ArtifactNames : ~Written(a)
      BY DEF Init, Written
    <2>2. Passed
      BY DEF Init, Passed
    <2> QED
      BY <2>1, <2>2, ArtifactFacts DEF ReportInv, InOrder, FinalArtifactsAgree,
                                       FinalizedIsComplete
  <1> QED
    BY <1>1, NextReportInv, TypeCorrect, PTL DEF Spec

(* The final artifacts never contradict one another, whatever was re-run   *)
(* between the writes of two of them.                                      *)
THEOREM ArtifactsAgree == Spec => []FinalArtifactsAgree
  <1>1. ReportInv => FinalArtifactsAgree
    BY DEF ReportInv
  <1> QED
    BY <1>1, ReportInvHolds, PTL

(* No final artifact leaves a holdout query out. *)
THEOREM ArtifactsComplete == Spec => []FinalizedIsComplete
  <1>1. ReportInv => FinalizedIsComplete
    BY DEF ReportInv
  <1> QED
    BY <1>1, ReportInvHolds, PTL

(* The selection behind the holdout is frozen, and of one device. *)
THEOREM SelectionSound == Spec => []SelectionIsSound
  <1>1. SelectionHasOneDevice /\ HoldoutAfterFreeze => SelectionIsSound
    BY DEF SelectionIsSound
  <1> QED
    BY <1>1, SelectionOneDevice, HoldoutRankedAfterFreeze, PTL

(* The final artifacts tell one story of the whole holdout. *)
THEOREM ArtifactsSound == Spec => []ArtifactsAreSound
  <1>1. FinalArtifactsAgree /\ FinalizedIsComplete => ArtifactsAreSound
    BY DEF ArtifactsAreSound
  <1> QED
    BY <1>1, ArtifactsAgree, ArtifactsComplete, PTL

(***************************************************************************)
(* CanonicalCorpus.                                                        *)
(***************************************************************************)
Revisions == [CorpusSources -> Nat]

BuildRecords ==
    [step : {"none", "next", "source", "reconstruction", "duplicates", "inventory", "quality",
             "snapshot", "built"},
     selected : SUBSET CorpusSources, todo : SUBSET CorpusSources,
     source : CorpusSources \cup {"none"}, table : Nat, read : Revisions]

ManifestRecords ==
    [inventory : Revisions, reconstruction : Nat, duplicates : Nat, quality : Revisions,
     statutory : Nat, snapshot : Revisions]

AreTables(them) ==
    /\ DOMAIN them = CorpusSources
    /\ \A s \in CorpusSources : them[s] \in [TableSet(s) -> Nat]

CorpusRecords ==
    /\ adapters \in [CorpusSources -> Nat \ {0}]
    /\ AreTables(tables)
    /\ inventories \in Revisions
    /\ manifests \in ManifestRecords
    /\ build \in BuildRecords

(* Where a build stands: what of a source is of the adapter that builds it, *)
(* and what was read of the others is still so.                            *)
BuiltNow(s) ==
    /\ inventories[s] = adapters[s]
    /\ \A t \in TableSet(s) : tables[s][t] = adapters[s]

Collected ==
    build.step \in {"reconstruction", "duplicates", "inventory", "quality", "snapshot", "built"}

BuildInOrder ==
    /\ build.todo \subseteq build.selected
    /\ build.step = "none" => build = NoBuild
    /\ build.step = "source" =>
           /\ build.source \in build.selected \ build.todo
           /\ build.table \in Nat \ {0}
           /\ \A i \in 1 .. Len(TablesOf(build.source)) :
                  i < build.table =>
                      tables[build.source][TablesOf(build.source)[i]] = adapters[build.source]
    /\ \A s \in build.selected \ build.todo :
           (build.step = "source" /\ s = build.source) \/ BuiltNow(s)
    /\ Collected => /\ build.todo = {}
                    /\ build.read = inventories
                    /\ \A s \in CorpusSources : inventories[s] # 0

(* Nothing is of a value the adapter has not had. *)
NoneAhead ==
    \A s \in CorpusSources :
        /\ inventories[s] <= adapters[s]
        /\ \A t \in TableSet(s) : tables[s][t] <= adapters[s]

(* What the build running has written of the manifests. *)
OfStatutes == StatutorySource \in build.selected

ManifestsWritten ==
    /\ build.step \in {"reconstruction", "duplicates"} => OfStatutes
    /\ OfStatutes =>
           /\ build.step \in {"duplicates", "inventory", "quality", "snapshot", "built"} =>
                  manifests.reconstruction = adapters[StatutorySource]
           /\ build.step \in {"inventory", "quality", "snapshot", "built"} =>
                  manifests.duplicates = adapters[StatutorySource]
           /\ build.step \in {"snapshot", "built"} =>
                  manifests.statutory = adapters[StatutorySource]
    /\ build.step \in {"quality", "snapshot", "built"} => manifests.inventory = inventories
    /\ build.step \in {"snapshot", "built"} => manifests.quality = inventories
    /\ build.step = "built" => manifests.snapshot = inventories

BuildInvariant ==
    CorpusRecords /\ BuildInOrder /\ NoneAhead /\ ManifestsWritten /\ ManifestsFollow

LEMMA TableFacts ==
  ASSUME NEW s \in CorpusSources
  PROVE  /\ Len(TablesOf(s)) \in {2, 4}
         /\ TableSet(s) = {TablesOf(s)[i] : i \in 1 .. Len(TablesOf(s))}
         /\ "units" \in TableSet(s)
         /\ TableSet(s) \subseteq TableNames
  <1>1. CASE s = StatutorySource
    <2>1. TablesOf(s) = <<"documents", "units", "fragments", "reconstruction">>
      BY <1>1 DEF TablesOf
    <2>2. /\ Len(TablesOf(s)) = 4
          /\ DOMAIN TablesOf(s) = 1 .. 4
          /\ TablesOf(s)[2] = "units"
          /\ TablesOf(s)[1] \in TableNames /\ TablesOf(s)[2] \in TableNames
          /\ TablesOf(s)[3] \in TableNames /\ TablesOf(s)[4] \in TableNames
      BY <2>1 DEF TableNames
    <2>3. \A i \in 1 .. 4 : i = 1 \/ i = 2 \/ i = 3 \/ i = 4
      OBVIOUS
    <2> QED
      BY <2>2, <2>3 DEF TableSet
  <1>2. CASE s # StatutorySource
    <2>1. TablesOf(s) = <<"documents", "units">>
      BY <1>2 DEF TablesOf
    <2>2. /\ Len(TablesOf(s)) = 2
          /\ DOMAIN TablesOf(s) = 1 .. 2
          /\ TablesOf(s)[2] = "units"
          /\ TablesOf(s)[1] \in TableNames /\ TablesOf(s)[2] \in TableNames
      BY <2>1 DEF TableNames
    <2>3. \A i \in 1 .. 2 : i = 1 \/ i = 2
      OBVIOUS
    <2> QED
      BY <2>2, <2>3 DEF TableSet
  <1> QED
    BY <1>1, <1>2

LEMMA TableWritten ==
  ASSUME NEW old, AreTables(old),
         NEW s \in CorpusSources, NEW t \in TableSet(s), NEW value \in Nat
  PROVE  LET new == [old EXCEPT ![s][t] = value] IN
         /\ AreTables(new)
         /\ new[s][t] = value
         /\ \A other \in CorpusSources : \A name \in TableSet(other) :
                other # s \/ name # t => new[other][name] = old[other][name]
  <1> DEFINE new == [old EXCEPT ![s][t] = value]
  <1>1. DOMAIN new = CorpusSources
    BY DEF AreTables
  <1>2. new[s] = [old[s] EXCEPT ![t] = value]
    BY DEF AreTables
  <1>3. \A other \in CorpusSources : other # s => new[other] = old[other]
    BY DEF AreTables
  <1>4. old[s] \in [TableSet(s) -> Nat]
    BY DEF AreTables
  <1> HIDE DEF new
  <1>5. /\ new[s] \in [TableSet(s) -> Nat]
        /\ new[s][t] = value
        /\ \A name \in TableSet(s) : name # t => new[s][name] = old[s][name]
    BY <1>2, <1>4
  <1>6. \A other \in CorpusSources : new[other] \in [TableSet(other) -> Nat]
    BY <1>3, <1>5 DEF AreTables
  <1>7. /\ AreTables(new)
        /\ new[s][t] = value
        /\ \A other \in CorpusSources : \A name \in TableSet(other) :
               other # s \/ name # t => new[other][name] = old[other][name]
    BY <1>1, <1>3, <1>5, <1>6 DEF AreTables
  <1> QED
    BY <1>7 DEF new

(* A step of a build or of the repository leaves the experiment alone, and *)
(* the other way round.                                                    *)
BuildStep ==
    \/ \E s \in CorpusSources : Revise(s) \/ TakeSource(s)
    \/ \E selected \in (SUBSET CorpusSources) \ {{}} : StartCorpusBuild(selected)
    \/ WriteTable \/ WriteInventory \/ CollectInventories
    \/ WriteReconstruction \/ WriteDuplicates \/ WriteAllInventories \/ WriteQuality
    \/ WriteSnapshot \/ EndCorpusBuild

PhaseStep ==
    \/ StartPhase \/ HashTables \/ LoadUnits \/ FreezeCorpus \/ WriteViews \/ WriteResults
    \/ WriteFindings \/ WriteMetrics \/ CheckHashes \/ EndPhase

LEMMA CorpusSteps ==
    [CorpusNext]_corpusVars => \/ BuildStep /\ UNCHANGED phaseVars
                               \/ PhaseStep /\ UNCHANGED corpusFiles
                               \/ UNCHANGED corpusVars
  <1> SUFFICES ASSUME CorpusNext
               PROVE  \/ BuildStep /\ UNCHANGED phaseVars
                      \/ PhaseStep /\ UNCHANGED corpusFiles
    OBVIOUS
  <1>1. BuildStep \/ PhaseStep
    BY DEF CorpusNext, BuildStep, PhaseStep
  <1>2. BuildStep => UNCHANGED phaseVars
    <2> SUFFICES ASSUME BuildStep PROVE UNCHANGED phaseVars
      OBVIOUS
    <2>1. CASE \E s \in CorpusSources : Revise(s) \/ TakeSource(s)
      BY <2>1 DEF Revise, TakeSource
    <2>2. CASE \E selected \in (SUBSET CorpusSources) \ {{}} : StartCorpusBuild(selected)
      BY <2>2 DEF StartCorpusBuild
    <2>3. CASE WriteTable \/ WriteInventory \/ CollectInventories \/ EndCorpusBuild
      BY <2>3 DEF WriteTable, WriteInventory, CollectInventories, EndCorpusBuild
    <2>4. CASE \/ WriteReconstruction \/ WriteDuplicates \/ WriteAllInventories
               \/ WriteQuality \/ WriteSnapshot
      BY <2>4 DEF WriteReconstruction, WriteDuplicates, WriteAllInventories, WriteQuality,
                  WriteSnapshot, WriteManifest
    <2> QED
      BY <2>1, <2>2, <2>3, <2>4 DEF BuildStep
  <1>3. PhaseStep => UNCHANGED corpusFiles
    BY DEF PhaseStep, StartPhase, HashTables, LoadUnits, FreezeCorpus, WriteViews, WriteResults,
           WriteFindings, WriteMetrics, CheckHashes, EndPhase, Track, Keep
  <1> QED
    BY <1>1, <1>2, <1>3

LEMMA InitBuildInvariant == CorpusInit => BuildInvariant
  <1> SUFFICES ASSUME CorpusInit PROVE BuildInvariant
    OBVIOUS
  <1>1. PICK made \in {0, 1}, tracked \in {0, 1} :
            /\ made <= tracked
            /\ tables = [s \in CorpusSources |-> [t \in TableSet(s) |-> made]]
            /\ inventories = [s \in CorpusSources |-> tracked]
            /\ manifests = [inventory |-> [s \in CorpusSources |-> tracked],
                            reconstruction |-> tracked, duplicates |-> tracked,
                            quality |-> [s \in CorpusSources |-> tracked],
                            statutory |-> tracked,
                            snapshot |-> [s \in CorpusSources |-> tracked]]
    BY DEF CorpusInit
  <1>2. /\ build = NoBuild /\ adapters = [s \in CorpusSources |-> 1]
    BY DEF CorpusInit
  <1>3. CorpusRecords
    BY <1>1, <1>2 DEF CorpusRecords, AreTables, Revisions, BuildRecords, ManifestRecords,
                      NoBuild, NoRevisions
  <1>4. BuildInOrder
    BY <1>2 DEF BuildInOrder, NoBuild, Collected
  <1>5. NoneAhead
    <2>1. made <= 1 /\ tracked <= 1
      OBVIOUS
    <2>2. \A s \in CorpusSources : adapters[s] = 1 /\ inventories[s] = tracked
      BY <1>1, <1>2
    <2>3. \A s \in CorpusSources : \A t \in TableSet(s) : tables[s][t] = made
      BY <1>1
    <2> QED
      BY <2>1, <2>2, <2>3 DEF NoneAhead
  <1>6. ManifestsWritten
    BY <1>2 DEF ManifestsWritten, NoBuild, OfStatutes
  <1>7. ManifestsFollow
    <2>1. /\ \A s \in CorpusSources : /\ inventories[s] = tracked
                                      /\ manifests.inventory[s] = tracked
                                      /\ manifests.quality[s] = tracked
                                      /\ manifests.snapshot[s] = tracked
          /\ manifests.reconstruction = tracked
          /\ manifests.duplicates = tracked
          /\ manifests.statutory = tracked
      BY <1>1
    <2>2. \A s \in CorpusSources : \A t \in TableSet(s) : tables[s][t] = made
      BY <1>1
    <2>3. (made = 0 \/ tracked <= made) /\ tracked <= tracked
      BY <1>1
    <2> QED
      BY <2>1, <2>2, <2>3 DEF ManifestsFollow
  <1> QED
    BY <1>3, <1>4, <1>5, <1>6, <1>7 DEF BuildInvariant

(* What a step leaves alone it need not be asked about. *)
LEMMA BuildKept ==
    BuildInvariant /\ UNCHANGED <<adapters, tables, inventories, manifests, build>>
        => BuildInvariant'
  BY DEF BuildInvariant, CorpusRecords, AreTables, BuildInOrder, BuiltNow, Collected, NoneAhead,
         OfStatutes, ManifestsWritten, ManifestsFollow

LEMMA FilesKept ==
  ASSUME BuildInvariant, UNCHANGED <<adapters, tables, inventories, manifests>>,
         build' \in BuildRecords, BuildInOrder', ManifestsWritten'
  PROVE  BuildInvariant'
  <1>1. CorpusRecords'
    BY DEF BuildInvariant, CorpusRecords, AreTables
  <1>2. NoneAhead' /\ ManifestsFollow'
    BY DEF BuildInvariant, NoneAhead, ManifestsFollow
  <1> QED
    BY <1>1, <1>2 DEF BuildInvariant

LEMMA ReviseInvariant ==
  ASSUME BuildInvariant, NEW s \in CorpusSources, Revise(s)
  PROVE  BuildInvariant'
  <1> USE DEF Revise
  <1>1. /\ adapters \in [CorpusSources -> Nat \ {0}]
        /\ adapters'[s] = adapters[s] + 1
        /\ \A other \in CorpusSources : other # s => adapters'[other] = adapters[other]
        /\ adapters' = [adapters EXCEPT ![s] = @ + 1]
    BY DEF BuildInvariant, CorpusRecords
  <1>2. adapters[s] + 1 \in Nat \ {0}
    BY <1>1
  <1>3. adapters' \in [CorpusSources -> Nat \ {0}]
    BY <1>1, <1>2
  <1>4. \A other \in CorpusSources : adapters[other] <= adapters'[other]
    BY <1>1
  <1>5. CorpusRecords'
    BY <1>3 DEF BuildInvariant, CorpusRecords, AreTables
  <1>6. BuildInOrder'
    BY DEF BuildInvariant, BuildInOrder, NoBuild, Collected
  <1>7. NoneAhead'
    <2>1. \A other \in CorpusSources :
              /\ adapters[other] \in Nat /\ adapters'[other] \in Nat
              /\ inventories[other] \in Nat
              /\ \A t \in TableSet(other) : tables[other][t] \in Nat
      BY <1>3 DEF BuildInvariant, CorpusRecords, Revisions, AreTables
    <2> QED
      BY <1>4, <2>1 DEF BuildInvariant, NoneAhead
  <1>8. ManifestsWritten'
    BY DEF BuildInvariant, ManifestsWritten, NoBuild, OfStatutes
  <1>9. ManifestsFollow'
    BY DEF BuildInvariant, ManifestsFollow
  <1> QED
    BY <1>5, <1>6, <1>7, <1>8, <1>9 DEF BuildInvariant

LEMMA StartBuildInvariant ==
  ASSUME BuildInvariant, NEW selected \in SUBSET CorpusSources, StartCorpusBuild(selected)
  PROVE  BuildInvariant'
  <1>1. build' = [NoBuild EXCEPT !.step = "next", !.selected = selected, !.todo = selected]
    BY DEF StartCorpusBuild
  <1>2. build' \in BuildRecords
    BY <1>1 DEF NoBuild, BuildRecords, NoRevisions, Revisions
  <1>3. build'.step = "next" /\ build'.selected = selected /\ build'.todo = selected
    BY <1>1 DEF NoBuild
  <1>4. BuildInOrder' /\ ManifestsWritten'
    BY <1>3 DEF BuildInOrder, Collected, ManifestsWritten, OfStatutes
  <1> QED
    BY <1>2, <1>4, FilesKept DEF StartCorpusBuild

LEMMA TakeInvariant ==
  ASSUME BuildInvariant, NEW s \in CorpusSources, TakeSource(s)
  PROVE  BuildInvariant'
  <1>1. build' = [build EXCEPT !.step = "source", !.todo = @ \ {s}, !.source = s, !.table = 1]
    BY DEF TakeSource
  <1>2. build \in BuildRecords /\ build.step = "next" /\ s \in build.todo
    BY DEF BuildInvariant, CorpusRecords, TakeSource
  <1>3. build' \in BuildRecords
    BY <1>1, <1>2 DEF BuildRecords
  <1>4. /\ build'.step = "source" /\ build'.todo = build.todo \ {s} /\ build'.source = s
        /\ build'.table = 1 /\ build'.selected = build.selected
    BY <1>1, <1>2 DEF BuildRecords
  <1>5. BuildInOrder'
    <2>1. UNCHANGED <<adapters, tables, inventories>>
      BY DEF TakeSource
    <2>2. build.todo \subseteq build.selected
      BY DEF BuildInvariant, BuildInOrder
    <2>3. \A i \in 1 .. Len(TablesOf(s)) : ~(i < 1)
      BY TableFacts
    <2>4. \A other \in build.selected \ build.todo : BuiltNow(other)
      BY <1>2 DEF BuildInvariant, BuildInOrder
    <2> QED
      BY <1>2, <1>4, <2>1, <2>2, <2>3, <2>4 DEF BuildInOrder, BuiltNow, Collected
  <1>6. ManifestsWritten'
    BY <1>4 DEF ManifestsWritten, OfStatutes
  <1> QED
    BY <1>3, <1>5, <1>6, FilesKept DEF TakeSource

LEMMA WriteTableInvariant ==
  ASSUME BuildInvariant, WriteTable
  PROVE  /\ BuildInvariant'
         /\ \A s \in CorpusSources : \A t \in TableSet(s) : tables[s][t] <= tables'[s][t]
  <1> DEFINE s == build.source
             t == TablesOf(s)[build.table]
  <1>1. build \in BuildRecords /\ build.step = "source" /\ s \in CorpusSources
    BY DEF BuildInvariant, CorpusRecords, BuildInOrder, WriteTable, BuildRecords
  <1>2. build.table \in 1 .. Len(TablesOf(s)) /\ build.table \in Nat
    BY <1>1, TableFacts DEF BuildInvariant, BuildInOrder, WriteTable
  <1>3. t \in TableSet(s)
    BY <1>1, <1>2, TableFacts
  <1>4. adapters[s] \in Nat
    BY <1>1 DEF BuildInvariant, CorpusRecords
  <1>5. tables' = [tables EXCEPT ![s][t] = adapters[s]]
    BY DEF WriteTable
  <1> HIDE DEF s, t
  <1>6. /\ AreTables(tables')
        /\ tables'[s][t] = adapters[s]
        /\ \A other \in CorpusSources : \A name \in TableSet(other) :
               other # s \/ name # t => tables'[other][name] = tables[other][name]
    <2>1. AreTables(tables)
      BY DEF BuildInvariant, CorpusRecords
    <2> DEFINE new == [tables EXCEPT ![s][t] = adapters[s]]
    <2>2. /\ AreTables(new)
          /\ new[s][t] = adapters[s]
          /\ \A other \in CorpusSources : \A name \in TableSet(other) :
                 other # s \/ name # t => new[other][name] = tables[other][name]
      BY <1>1, <1>3, <1>4, <2>1, TableWritten
    <2> QED
      BY <1>5, <2>2
  <1>7. build' = [build EXCEPT !.table = @ + 1] /\ UNCHANGED <<adapters, inventories, manifests>>
    BY DEF WriteTable
  <1>8. build.table + 1 \in Nat
    BY <1>2
  <1>9. build' \in BuildRecords
    BY <1>1, <1>7, <1>8 DEF BuildRecords
  <1>10. /\ build'.step = "source" /\ build'.source = s /\ build'.table = build.table + 1
         /\ build'.todo = build.todo /\ build'.selected = build.selected
    BY <1>1, <1>7 DEF BuildRecords, s
  <1>11. CorpusRecords'
    BY <1>6, <1>7, <1>9 DEF BuildInvariant, CorpusRecords, AreTables
  <1>12. BuildInOrder'
    <2>1. \A i \in 1 .. Len(TablesOf(s)) :
              i < build.table + 1 => tables'[s][TablesOf(s)[i]] = adapters[s]
      <3> TAKE i \in 1 .. Len(TablesOf(s))
      <3>1. i < build.table + 1 => i < build.table \/ i = build.table
        BY <1>2, <1>1, TableFacts
      <3>2. i < build.table => tables[s][TablesOf(s)[i]] = adapters[s]
        BY <1>1 DEF BuildInvariant, BuildInOrder, s
      <3>3. TablesOf(s)[i] \in TableSet(s)
        BY <1>1, TableFacts
      <3>4. i = build.table => TablesOf(s)[i] = t
        BY DEF t
      <3> QED
        BY <1>1, <1>6, <3>1, <3>2, <3>3, <3>4
    <2>2. s \in build.selected \ build.todo /\ build.todo \subseteq build.selected
      BY <1>1 DEF BuildInvariant, BuildInOrder, s
    <2>3. build.selected \subseteq CorpusSources
      BY <1>1 DEF BuildRecords
    <2>4. \A other \in build.selected \ build.todo : other = s \/ BuiltNow(other)'
      BY <1>6, <1>7, <2>3 DEF BuildInvariant, BuildInOrder, BuiltNow, s
    <2>5. build'.table \in Nat \ {0}
      BY <1>2, <1>10
    <2> QED
      BY <1>7, <1>10, <2>1, <2>2, <2>4, <2>5 DEF BuildInOrder, Collected
  <1>13. /\ \A other \in CorpusSources :
                /\ inventories[other] <= adapters[other]
                /\ inventories[other] \in Nat /\ adapters[other] \in Nat
         /\ \A other \in CorpusSources : \A name \in TableSet(other) :
                tables[other][name] <= adapters[other]
    BY DEF BuildInvariant, NoneAhead, CorpusRecords, Revisions
  <1>14. NoneAhead'
    <2>1. \A other \in CorpusSources : \A name \in TableSet(other) :
              tables'[other][name] <= adapters[other]
      BY <1>6, <1>13
    <2> QED
      BY <1>7, <1>13, <2>1 DEF NoneAhead
  <1>15. ManifestsWritten'
    BY <1>10 DEF ManifestsWritten, OfStatutes
  <1>16. ManifestsFollow'
    <2>1. \A other \in CorpusSources : \A name \in TableSet(other) :
              tables'[other][name] = 0 \/ inventories[other] <= tables'[other][name]
      BY <1>6, <1>13 DEF BuildInvariant, ManifestsFollow
    <2> QED
      BY <1>7, <2>1 DEF BuildInvariant, ManifestsFollow
  <1>17. \A other \in CorpusSources : \A name \in TableSet(other) :
             tables[other][name] <= tables'[other][name]
    <2>1. \A other \in CorpusSources : \A name \in TableSet(other) : tables[other][name] \in Nat
      BY DEF BuildInvariant, CorpusRecords, AreTables
    <2> QED
      BY <1>6, <1>13, <2>1
  <1> QED
    BY <1>11, <1>12, <1>14, <1>15, <1>16, <1>17 DEF BuildInvariant

LEMMA WriteInventoryInvariant ==
  ASSUME BuildInvariant, WriteInventory
  PROVE  BuildInvariant'
  <1> DEFINE s == build.source
  <1>1. build \in BuildRecords /\ build.step = "source" /\ s \in CorpusSources
    BY DEF BuildInvariant, CorpusRecords, BuildInOrder, WriteInventory, BuildRecords
  <1>2. \A t \in TableSet(s) : tables[s][t] = adapters[s]
    <2>1. \A i \in 1 .. Len(TablesOf(s)) : i < build.table
      BY <1>1, TableFacts DEF WriteInventory, AllWritten
    <2>2. \A i \in 1 .. Len(TablesOf(s)) :
              i < build.table => tables[s][TablesOf(s)[i]] = adapters[s]
      BY <1>1 DEF BuildInvariant, BuildInOrder
    <2> QED
      BY <1>1, <2>1, <2>2, TableFacts
  <1>3. /\ inventories' = [inventories EXCEPT ![s] = adapters[s]]
        /\ build' = [build EXCEPT !.step = "next", !.source = "none", !.table = 0]
        /\ UNCHANGED <<adapters, tables, manifests>>
    BY DEF WriteInventory
  <1>4. s \in build.selected \ build.todo /\ build.todo \subseteq build.selected
    BY <1>1 DEF BuildInvariant, BuildInOrder
  <1>5. /\ \A other \in build.selected \ build.todo : other = s \/ BuiltNow(other)
        /\ build.selected \subseteq CorpusSources
    BY <1>1 DEF BuildInvariant, BuildInOrder, BuildRecords
  <1> HIDE DEF s
  <1>6. /\ adapters[s] \in Nat
        /\ inventories \in Revisions
    BY <1>1 DEF BuildInvariant, CorpusRecords
  <1>7. /\ inventories' \in Revisions
        /\ inventories'[s] = adapters[s]
        /\ \A other \in CorpusSources : other # s => inventories'[other] = inventories[other]
    BY <1>1, <1>3, <1>6 DEF Revisions
  <1>8. build' \in BuildRecords
    BY <1>1, <1>3 DEF BuildRecords
  <1>9. build'.step = "next" /\ build'.todo = build.todo /\ build'.selected = build.selected
    BY <1>1, <1>3 DEF BuildRecords
  <1>10. CorpusRecords'
    BY <1>3, <1>7, <1>8 DEF BuildInvariant, CorpusRecords, AreTables
  <1>11. BuildInOrder'
    <2>1. \A other \in build.selected \ build.todo : BuiltNow(other)'
      BY <1>2, <1>3, <1>5, <1>7 DEF BuiltNow
    <2> QED
      BY <1>4, <1>9, <2>1 DEF BuildInOrder, Collected
  <1>12. /\ \A other \in CorpusSources :
                /\ inventories[other] <= adapters[other]
                /\ inventories[other] \in Nat /\ adapters[other] \in Nat
                /\ inventories'[other] \in Nat
    BY <1>7 DEF BuildInvariant, NoneAhead, CorpusRecords, Revisions
  <1>13. \A other \in CorpusSources : /\ inventories'[other] <= adapters[other]
                                      /\ inventories[other] <= inventories'[other]
    BY <1>7, <1>12
  <1>14. NoneAhead'
    BY <1>3, <1>13 DEF BuildInvariant, NoneAhead
  <1>15. ManifestsWritten'
    BY <1>9 DEF ManifestsWritten, OfStatutes
  <1>16. ManifestsFollow'
    <2>1. \A other \in CorpusSources : \A t \in TableSet(other) :
              tables[other][t] = 0 \/ inventories'[other] <= tables[other][t]
      <3> SUFFICES ASSUME NEW other \in CorpusSources, NEW t \in TableSet(other)
                   PROVE  tables[other][t] = 0 \/ inventories'[other] <= tables[other][t]
        OBVIOUS
      <3>1. CASE other = s
        <4>1. tables[s][t] = adapters[s]
          BY <1>2, <3>1
        <4> QED
          BY <1>6, <1>7, <3>1, <4>1
      <3>2. CASE other # s
        BY <1>7, <3>2 DEF BuildInvariant, ManifestsFollow
      <3> QED
        BY <3>1, <3>2
    <2>2. /\ manifests.inventory \in Revisions /\ manifests.reconstruction \in Nat
      BY DEF BuildInvariant, CorpusRecords, ManifestRecords
    <2>3. \A other \in CorpusSources :
              /\ manifests.inventory[other] <= inventories[other]
              /\ manifests.inventory[other] \in Nat
              /\ other = StatutorySource => manifests.reconstruction <= inventories[other]
      BY <2>2 DEF BuildInvariant, ManifestsFollow, Revisions
    <2>4. \A other \in CorpusSources :
              /\ manifests.inventory[other] <= inventories'[other]
              /\ other = StatutorySource => manifests.reconstruction <= inventories'[other]
      BY <1>12, <1>13, <2>2, <2>3
    <2> QED
      BY <1>3, <2>1, <2>4 DEF BuildInvariant, ManifestsFollow
  <1> QED
    BY <1>10, <1>11, <1>14, <1>15, <1>16 DEF BuildInvariant

LEMMA CollectInvariant ==
  ASSUME BuildInvariant, CollectInventories
  PROVE  BuildInvariant'
  <1>1. CASE \E s \in CorpusSources : inventories[s] = 0
    <2>1. build' = NoBuild
      BY <1>1 DEF CollectInventories
    <2>2. build' \in BuildRecords
      BY <2>1 DEF NoBuild, BuildRecords, NoRevisions, Revisions
    <2>3. BuildInOrder' /\ ManifestsWritten'
      BY <2>1 DEF NoBuild, BuildInOrder, Collected, ManifestsWritten, OfStatutes
    <2> QED
      BY <2>2, <2>3, FilesKept DEF CollectInventories
  <1>2. CASE ~\E s \in CorpusSources : inventories[s] = 0
    <2>1. /\ build' = [build EXCEPT !.read = inventories,
                          !.step = IF OfStatutes THEN "reconstruction" ELSE "inventory"]
          /\ UNCHANGED <<adapters, tables, inventories, manifests>>
      BY <1>2 DEF CollectInventories, OfStatutes
    <2>2. /\ build \in BuildRecords /\ build.step = "next" /\ build.todo = {}
          /\ inventories \in Revisions
      BY DEF BuildInvariant, CorpusRecords, CollectInventories
    <2>3. build' \in BuildRecords
      BY <2>1, <2>2 DEF BuildRecords
    <2>4. /\ build'.step = IF OfStatutes THEN "reconstruction" ELSE "inventory"
          /\ build'.todo = {} /\ build'.selected = build.selected /\ build'.read = inventories
      BY <2>1, <2>2 DEF BuildRecords
    <2>5. BuildInOrder'
      <3>1. \A s \in build.selected : BuiltNow(s)
        BY <2>2 DEF BuildInvariant, BuildInOrder
      <3> QED
        BY <1>2, <2>1, <2>4, <3>1 DEF BuildInOrder, BuiltNow, Collected
    <2>6. ManifestsWritten'
      BY <2>4 DEF ManifestsWritten, OfStatutes
    <2> QED
      BY <2>1, <2>3, <2>5, <2>6, FilesKept
  <1> QED
    BY <1>1, <1>2

LEMMA EndBuildInvariant ==
  ASSUME BuildInvariant, EndCorpusBuild
  PROVE  BuildInvariant'
  <1>1. build' = NoBuild
    BY DEF EndCorpusBuild
  <1>2. build' \in BuildRecords
    BY <1>1 DEF NoBuild, BuildRecords, NoRevisions, Revisions
  <1>3. BuildInOrder' /\ ManifestsWritten'
    BY <1>1 DEF NoBuild, BuildInOrder, Collected, ManifestsWritten, OfStatutes
  <1> QED
    BY <1>2, <1>3, FilesKept DEF EndCorpusBuild

(* The manifests: each action below is an instance of WriteManifest.       *)
LEMMA ManifestStep ==
  ASSUME BuildInvariant, NEW name, NEW next, NEW written,
         WriteManifest(name, next, written),
         name \in {"reconstruction", "duplicates", "inventory", "quality", "snapshot"},
         next \in {"duplicates", "inventory", "quality", "snapshot", "built"},
         written \in ManifestRecords, ManifestsWritten', ManifestsFollow'
  PROVE  BuildInvariant'
  <1>1. /\ build.step = name /\ build' = [build EXCEPT !.step = next]
        /\ manifests' = written
        /\ UNCHANGED <<adapters, tables, inventories>>
    BY DEF WriteManifest
  <1>2. build \in BuildRecords
    BY DEF BuildInvariant, CorpusRecords
  <1>3. build' \in BuildRecords
    BY <1>1, <1>2 DEF BuildRecords
  <1>4. /\ build'.step = next /\ build'.todo = build.todo /\ build'.selected = build.selected
        /\ build'.read = build.read
    BY <1>1, <1>2 DEF BuildRecords
  <1>5. CorpusRecords'
    BY <1>1, <1>3 DEF BuildInvariant, CorpusRecords, AreTables
  <1>6. BuildInOrder'
    BY <1>1, <1>4 DEF BuildInvariant, BuildInOrder, BuiltNow, Collected
  <1>7. NoneAhead'
    BY <1>1 DEF BuildInvariant, NoneAhead
  <1> QED
    BY <1>5, <1>6, <1>7 DEF BuildInvariant

(* What the five have before them: the read inventories are the sources',  *)
(* and the statutes' value is their adapter's where they were built.    *)
LEMMA ManifestsBefore ==
  ASSUME BuildInvariant, Collected
  PROVE  /\ build.read = inventories /\ inventories \in Revisions
         /\ manifests \in ManifestRecords /\ build \in BuildRecords
         /\ \A s \in CorpusSources : /\ inventories[s] \in Nat
                                     /\ manifests.inventory[s] \in Nat
                                     /\ manifests.quality[s] \in Nat
                                     /\ manifests.snapshot[s] \in Nat
                                     /\ manifests.inventory[s] <= inventories[s]
                                     /\ manifests.quality[s] <= manifests.inventory[s]
                                     /\ manifests.snapshot[s] <= manifests.quality[s]
         /\ manifests.reconstruction \in Nat /\ manifests.duplicates \in Nat
         /\ manifests.statutory \in Nat
         /\ manifests.reconstruction <= inventories[StatutorySource]
         /\ manifests.duplicates <= manifests.reconstruction
         /\ manifests.statutory <= manifests.reconstruction
         /\ adapters[StatutorySource] \in Nat
         /\ OfStatutes => inventories[StatutorySource] = adapters[StatutorySource]
  <1>1. /\ build.read = inventories /\ inventories \in Revisions
        /\ manifests \in ManifestRecords /\ build \in BuildRecords
    BY DEF BuildInvariant, CorpusRecords, BuildInOrder
  <1>2. /\ manifests.inventory \in Revisions /\ manifests.quality \in Revisions
        /\ manifests.snapshot \in Revisions
        /\ manifests.reconstruction \in Nat /\ manifests.duplicates \in Nat
        /\ manifests.statutory \in Nat
    BY <1>1 DEF ManifestRecords
  <1>3. StatutorySource \in CorpusSources
    BY CorpusAssumption
  <1>4. adapters[StatutorySource] \in Nat
    BY <1>3 DEF BuildInvariant, CorpusRecords
  <1>5. OfStatutes => inventories[StatutorySource] = adapters[StatutorySource]
    BY DEF BuildInvariant, BuildInOrder, OfStatutes, BuiltNow, Collected
  <1> QED
    BY <1>1, <1>2, <1>3, <1>4, <1>5 DEF BuildInvariant, ManifestsFollow, Revisions

LEMMA WriteReconstructionInvariant ==
  ASSUME BuildInvariant, WriteReconstruction
  PROVE  BuildInvariant'
  <1> DEFINE written == [manifests EXCEPT !.reconstruction = adapters[StatutorySource]]
  <1>1. WriteManifest("reconstruction", "duplicates", written)
    BY DEF WriteReconstruction
  <1>2. /\ build.step = "reconstruction" /\ build' = [build EXCEPT !.step = "duplicates"]
        /\ manifests' = written /\ UNCHANGED <<adapters, tables, inventories>>
    BY <1>1 DEF WriteManifest
  <1>3. Collected /\ OfStatutes
    BY <1>2 DEF Collected, BuildInvariant, ManifestsWritten
  <1>4. written \in ManifestRecords
    BY <1>3, ManifestsBefore DEF ManifestRecords
  <1>5. /\ manifests'.reconstruction = adapters[StatutorySource]
        /\ manifests'.inventory = manifests.inventory /\ manifests'.quality = manifests.quality
        /\ manifests'.snapshot = manifests.snapshot
        /\ manifests'.duplicates = manifests.duplicates
        /\ manifests'.statutory = manifests.statutory
    BY <1>2, <1>3, ManifestsBefore DEF ManifestRecords
  <1>6. build'.step = "duplicates" /\ build'.selected = build.selected
    BY <1>2, <1>3, ManifestsBefore DEF BuildRecords
  <1>7. ManifestsWritten'
    BY <1>2, <1>3, <1>5, <1>6 DEF ManifestsWritten, OfStatutes
  <1>8. /\ manifests.duplicates <= adapters[StatutorySource]
        /\ manifests.statutory <= adapters[StatutorySource]
        /\ adapters[StatutorySource] <= inventories[StatutorySource]
    <2>1. inventories[StatutorySource] = adapters[StatutorySource]
      BY <1>3, ManifestsBefore
    <2>2. /\ manifests.reconstruction \in Nat /\ manifests.duplicates \in Nat
          /\ manifests.statutory \in Nat /\ adapters[StatutorySource] \in Nat
          /\ manifests.reconstruction <= inventories[StatutorySource]
          /\ manifests.duplicates <= manifests.reconstruction
          /\ manifests.statutory <= manifests.reconstruction
      BY <1>3, ManifestsBefore
    <2> QED
      BY <2>1, <2>2
  <1>9. ManifestsFollow'
    BY <1>2, <1>5, <1>8 DEF BuildInvariant, ManifestsFollow
  <1> HIDE DEF written
  <1> QED
    BY <1>1, <1>4, <1>7, <1>9, ManifestStep

LEMMA WriteDuplicatesInvariant ==
  ASSUME BuildInvariant, WriteDuplicates
  PROVE  BuildInvariant'
  <1> DEFINE written == [manifests EXCEPT !.duplicates = adapters[StatutorySource]]
  <1>1. WriteManifest("duplicates", "inventory", written)
    BY DEF WriteDuplicates
  <1>2. /\ build.step = "duplicates" /\ build' = [build EXCEPT !.step = "inventory"]
        /\ manifests' = written /\ UNCHANGED <<adapters, tables, inventories>>
    BY <1>1 DEF WriteManifest
  <1>3. Collected /\ OfStatutes /\ manifests.reconstruction = adapters[StatutorySource]
    BY <1>2 DEF Collected, BuildInvariant, ManifestsWritten
  <1>4. written \in ManifestRecords
    BY <1>3, ManifestsBefore DEF ManifestRecords
  <1>5. /\ manifests'.duplicates = adapters[StatutorySource]
        /\ manifests'.inventory = manifests.inventory /\ manifests'.quality = manifests.quality
        /\ manifests'.snapshot = manifests.snapshot
        /\ manifests'.reconstruction = manifests.reconstruction
        /\ manifests'.statutory = manifests.statutory
    BY <1>2, <1>3, ManifestsBefore DEF ManifestRecords
  <1>6. build'.step = "inventory" /\ build'.selected = build.selected
    BY <1>2, <1>3, ManifestsBefore DEF BuildRecords
  <1>7. ManifestsWritten'
    BY <1>2, <1>3, <1>5, <1>6 DEF ManifestsWritten, OfStatutes
  <1>8. adapters[StatutorySource] <= manifests.reconstruction
    BY <1>3, ManifestsBefore
  <1>9. ManifestsFollow'
    BY <1>2, <1>5, <1>8 DEF BuildInvariant, ManifestsFollow
  <1> HIDE DEF written
  <1> QED
    BY <1>1, <1>4, <1>7, <1>9, ManifestStep

LEMMA WriteAllInventoriesInvariant ==
  ASSUME BuildInvariant, WriteAllInventories
  PROVE  BuildInvariant'
  <1> DEFINE written == [manifests EXCEPT !.inventory = build.read]
  <1>1. WriteManifest("inventory", "quality", written)
    BY DEF WriteAllInventories
  <1>2. /\ build.step = "inventory" /\ build' = [build EXCEPT !.step = "quality"]
        /\ manifests' = written /\ UNCHANGED <<adapters, tables, inventories>>
    BY <1>1 DEF WriteManifest
  <1>3. Collected
    BY <1>2 DEF Collected
  <1>4. written \in ManifestRecords
    BY <1>3, ManifestsBefore DEF ManifestRecords
  <1>5. /\ manifests'.inventory = inventories
        /\ manifests'.duplicates = manifests.duplicates /\ manifests'.quality = manifests.quality
        /\ manifests'.snapshot = manifests.snapshot
        /\ manifests'.reconstruction = manifests.reconstruction
        /\ manifests'.statutory = manifests.statutory
    BY <1>2, <1>3, ManifestsBefore DEF ManifestRecords
  <1>6. build'.step = "quality" /\ build'.selected = build.selected
    BY <1>2, <1>3, ManifestsBefore DEF BuildRecords
  <1>7. ManifestsWritten'
    BY <1>2, <1>5, <1>6 DEF ManifestsWritten, OfStatutes, BuildInvariant
  <1>8. \A s \in CorpusSources : /\ inventories[s] <= inventories[s]
                                 /\ manifests.quality[s] <= inventories[s]
    <2> SUFFICES ASSUME NEW s \in CorpusSources
                 PROVE  /\ inventories[s] <= inventories[s]
                        /\ manifests.quality[s] <= inventories[s]
      OBVIOUS
    <2>1. /\ inventories[s] \in Nat /\ manifests.quality[s] \in Nat
          /\ manifests.inventory[s] \in Nat /\ manifests.inventory[s] <= inventories[s]
          /\ manifests.quality[s] <= manifests.inventory[s]
      BY <1>3, ManifestsBefore
    <2> QED
      BY <2>1
  <1>9. ManifestsFollow'
    BY <1>2, <1>5, <1>8 DEF BuildInvariant, ManifestsFollow
  <1> HIDE DEF written
  <1> QED
    BY <1>1, <1>4, <1>7, <1>9, ManifestStep

LEMMA WriteQualityInvariant ==
  ASSUME BuildInvariant, WriteQuality
  PROVE  BuildInvariant'
  <1> DEFINE written == [manifests EXCEPT !.quality = build.read, !.statutory = Statutory]
  <1>1. WriteManifest("quality", "snapshot", written)
    BY DEF WriteQuality
  <1>2. /\ build.step = "quality" /\ build' = [build EXCEPT !.step = "snapshot"]
        /\ manifests' = written /\ UNCHANGED <<adapters, tables, inventories>>
    BY <1>1 DEF WriteManifest
  <1>3. /\ Collected
        /\ manifests.inventory = inventories
        /\ OfStatutes => manifests.reconstruction = adapters[StatutorySource]
    BY <1>2 DEF Collected, BuildInvariant, ManifestsWritten
  <1>4. /\ Statutory = manifests.reconstruction
        /\ OfStatutes => Statutory = adapters[StatutorySource]
    BY <1>3 DEF Statutory, OfStatutes
  <1> HIDE DEF Statutory
  <1>5. written \in ManifestRecords
    BY <1>3, <1>4, ManifestsBefore DEF ManifestRecords
  <1>6. /\ manifests'.quality = inventories /\ manifests'.statutory = Statutory
        /\ manifests'.duplicates = manifests.duplicates
        /\ manifests'.inventory = manifests.inventory
        /\ manifests'.snapshot = manifests.snapshot
        /\ manifests'.reconstruction = manifests.reconstruction
    BY <1>2, <1>3, ManifestsBefore DEF ManifestRecords
  <1>7. build'.step = "snapshot" /\ build'.selected = build.selected
    BY <1>2, <1>3, ManifestsBefore DEF BuildRecords
  <1>8. ManifestsWritten'
    BY <1>2, <1>3, <1>4, <1>6, <1>7 DEF ManifestsWritten, OfStatutes, BuildInvariant
  <1>9. Statutory <= manifests.reconstruction
    BY <1>3, <1>4, ManifestsBefore
  <1>10. \A s \in CorpusSources : /\ inventories[s] <= manifests.inventory[s]
                                  /\ manifests.snapshot[s] <= inventories[s]
    <2> SUFFICES ASSUME NEW s \in CorpusSources
                 PROVE  /\ inventories[s] <= manifests.inventory[s]
                        /\ manifests.snapshot[s] <= inventories[s]
      OBVIOUS
    <2>1. /\ inventories[s] \in Nat /\ manifests.quality[s] \in Nat
          /\ manifests.snapshot[s] \in Nat
          /\ manifests.inventory[s] = inventories[s]
          /\ manifests.quality[s] <= manifests.inventory[s]
          /\ manifests.snapshot[s] <= manifests.quality[s]
      BY <1>3, ManifestsBefore
    <2> QED
      BY <2>1
  <1>11. ManifestsFollow'
    BY <1>2, <1>6, <1>9, <1>10 DEF BuildInvariant, ManifestsFollow
  <1> HIDE DEF written
  <1> QED
    BY <1>1, <1>5, <1>8, <1>11, ManifestStep

LEMMA WriteSnapshotInvariant ==
  ASSUME BuildInvariant, WriteSnapshot
  PROVE  BuildInvariant'
  <1> DEFINE written == [manifests EXCEPT !.snapshot = build.read]
  <1>1. WriteManifest("snapshot", "built", written)
    BY DEF WriteSnapshot
  <1>2. /\ build.step = "snapshot" /\ build' = [build EXCEPT !.step = "built"]
        /\ manifests' = written /\ UNCHANGED <<adapters, tables, inventories>>
    BY <1>1 DEF WriteManifest
  <1>3. Collected /\ manifests.quality = inventories
    BY <1>2 DEF Collected, BuildInvariant, ManifestsWritten
  <1>4. written \in ManifestRecords
    BY <1>3, ManifestsBefore DEF ManifestRecords
  <1>5. /\ manifests'.snapshot = inventories
        /\ manifests'.duplicates = manifests.duplicates
        /\ manifests'.inventory = manifests.inventory /\ manifests'.quality = manifests.quality
        /\ manifests'.reconstruction = manifests.reconstruction
        /\ manifests'.statutory = manifests.statutory
    BY <1>2, <1>3, ManifestsBefore DEF ManifestRecords
  <1>6. build'.step = "built" /\ build'.selected = build.selected
    BY <1>2, <1>3, ManifestsBefore DEF BuildRecords
  <1>7. ManifestsWritten'
    BY <1>2, <1>5, <1>6 DEF ManifestsWritten, OfStatutes, BuildInvariant
  <1>8. \A s \in CorpusSources : inventories[s] <= manifests.quality[s]
    <2> SUFFICES ASSUME NEW s \in CorpusSources PROVE inventories[s] <= manifests.quality[s]
      OBVIOUS
    <2>1. inventories[s] \in Nat /\ manifests.quality[s] = inventories[s]
      BY <1>3, ManifestsBefore
    <2> QED
      BY <2>1
  <1>9. ManifestsFollow'
    BY <1>2, <1>5, <1>8 DEF BuildInvariant, ManifestsFollow
  <1> HIDE DEF written
  <1> QED
    BY <1>1, <1>4, <1>7, <1>9, ManifestStep

(* No table's value is ever lowered.                                    *)
TablesGrow ==
    \A s \in CorpusSources : \A t \in TableSet(s) : tables[s][t] <= tables'[s][t]

LEMMA NextBuildInvariant ==
    BuildInvariant /\ [CorpusNext]_corpusVars => BuildInvariant' /\ TablesGrow
  <1> SUFFICES ASSUME BuildInvariant, [CorpusNext]_corpusVars
               PROVE  BuildInvariant' /\ TablesGrow
    OBVIOUS
  <1>1. \A s \in CorpusSources : \A t \in TableSet(s) : tables[s][t] \in Nat
    BY DEF BuildInvariant, CorpusRecords, AreTables
  <1>2. UNCHANGED tables => TablesGrow
    BY <1>1 DEF TablesGrow
  <1>3. CASE UNCHANGED corpusFiles \/ UNCHANGED corpusVars
    <2>1. UNCHANGED <<adapters, tables, inventories, manifests, build>>
      BY <1>3 DEF corpusFiles, corpusVars
    <2> QED
      BY <1>2, <2>1, BuildKept
  <1>4. CASE BuildStep
    <2>1. CASE \E s \in CorpusSources : Revise(s) \/ TakeSource(s)
      BY <1>2, <2>1, ReviseInvariant, TakeInvariant DEF Revise, TakeSource
    <2>2. CASE \E selected \in (SUBSET CorpusSources) \ {{}} : StartCorpusBuild(selected)
      BY <1>2, <2>2, StartBuildInvariant DEF StartCorpusBuild
    <2>3. CASE WriteTable
      BY <2>3, WriteTableInvariant DEF TablesGrow
    <2>4. CASE WriteInventory
      BY <1>2, <2>4, WriteInventoryInvariant DEF WriteInventory
    <2>5. CASE CollectInventories
      BY <1>2, <2>5, CollectInvariant DEF CollectInventories
    <2>6. CASE WriteReconstruction
      BY <1>2, <2>6, WriteReconstructionInvariant DEF WriteReconstruction, WriteManifest
    <2>7. CASE WriteDuplicates
      BY <1>2, <2>7, WriteDuplicatesInvariant DEF WriteDuplicates, WriteManifest
    <2>8. CASE WriteAllInventories
      BY <1>2, <2>8, WriteAllInventoriesInvariant DEF WriteAllInventories, WriteManifest
    <2>9. CASE WriteQuality
      BY <1>2, <2>9, WriteQualityInvariant DEF WriteQuality, WriteManifest
    <2>10. CASE WriteSnapshot
      BY <1>2, <2>10, WriteSnapshotInvariant DEF WriteSnapshot, WriteManifest
    <2>11. CASE EndCorpusBuild
      BY <1>2, <2>11, EndBuildInvariant DEF EndCorpusBuild
    <2> QED
      BY <1>4, <2>1, <2>2, <2>3, <2>4, <2>5, <2>6, <2>7, <2>8, <2>9, <2>10, <2>11
         DEF BuildStep
  <1> QED
    BY <1>3, <1>4, CorpusSteps

LEMMA BuildInventoried == BuildInvariant => BuildIsInventoried
  <1> SUFFICES ASSUME BuildInvariant, build.step = "built" PROVE BuildIsInventoried
    BY DEF BuildIsInventoried
  <1>1. Collected
    BY DEF Collected
  <1>2. /\ \A s \in CorpusSources : inventories[s] \in Nat \ {0}
        /\ \A s \in build.selected : BuiltNow(s)
    BY <1>1, ManifestsBefore DEF BuildInvariant, BuildInOrder
  <1>3. /\ manifests.inventory = inventories /\ manifests.quality = inventories
        /\ manifests.snapshot = inventories
        /\ OfStatutes => /\ manifests.reconstruction = inventories[StatutorySource]
                         /\ manifests.duplicates = inventories[StatutorySource]
                         /\ manifests.statutory = inventories[StatutorySource]
    BY <1>1, ManifestsBefore DEF BuildInvariant, ManifestsWritten
  <1> QED
    BY <1>2, <1>3 DEF BuildIsInventoried, BuiltNow, OfStatutes

(* The steps an experiment has made. *)
Made(name) ==
    \E i \in 1 .. Len(PhaseSteps(phase)) :
        i < experiment.step /\ PhaseSteps(phase)[i] = name

PhaseRecords ==
    /\ phase \in {4, 5}
    /\ DOMAIN experiment = {"step", "before", "units"}
    /\ DOMAIN findings = {"corpus", "metrics", "manifest"}
    /\ DOMAIN views = {"views", "results"}
    /\ experiment.step \in 0 .. Len(PhaseSteps(phase))
    /\ experiment.step = 0 => experiment = NoExperiment

(* The units loaded are no older than the tables hashed, no newer than the *)
(* tables there are, and at the second look at the hashes both.            *)
UnitsBetween ==
    /\ Made("hash") =>
           \A s \in CaseSources : /\ experiment.before[s]["units"] \in Nat
                                  /\ experiment.before[s]["units"] <= tables[s]["units"]
    /\ Made("load") =>
           \A s \in CaseSources :
               /\ experiment.units[s] \in Nat
               /\ experiment.before[s]["units"] <= experiment.units[s]
               /\ experiment.units[s] <= tables[s]["units"]
    /\ Made("check") =>
           \A s \in CaseSources : experiment.before[s]["units"] = experiment.units[s]

(* Each file written is of this run's hashes and units. *)
FilesOfRun ==
    /\ Made("corpus") => findings.corpus = experiment.before
    /\ Made("manifest") => /\ findings.manifest = experiment.units
                           /\ (phase = 4 => findings.corpus = experiment.before)
    /\ Made("metrics") => findings.metrics = experiment.units
    /\ Made("views") => views.views = experiment.units
    /\ Made("results") => views.results = experiment.units

PhaseInvariant ==
    /\ PhaseRecords /\ UnitsBetween /\ FilesOfRun
    /\ phase = 4 => HashesOf(findings.manifest)

LEMMA PhaseStepFacts ==
    /\ Len(PhaseSteps(4)) = 8 /\ Len(PhaseSteps(5)) = 9
    /\ PhaseSteps(4)[1] = "hash" /\ PhaseSteps(4)[2] = "load" /\ PhaseSteps(4)[3] = "views"
    /\ PhaseSteps(4)[4] = "results" /\ PhaseSteps(4)[5] = "check"
    /\ PhaseSteps(4)[6] = "manifest" /\ PhaseSteps(4)[7] = "metrics"
    /\ PhaseSteps(4)[8] = "returned"
    /\ PhaseSteps(5)[1] = "hash" /\ PhaseSteps(5)[2] = "load" /\ PhaseSteps(5)[3] = "corpus"
    /\ PhaseSteps(5)[4] = "views" /\ PhaseSteps(5)[5] = "results"
    /\ PhaseSteps(5)[6] = "metrics" /\ PhaseSteps(5)[7] = "manifest"
    /\ PhaseSteps(5)[8] = "check" /\ PhaseSteps(5)[9] = "returned"
  BY DEF PhaseSteps

LEMMA PhaseLast ==
  ASSUME phase \in {4, 5}
  PROVE  /\ Len(PhaseSteps(phase)) \in {8, 9}
         /\ phase = 4 => Len(PhaseSteps(phase)) = 8
         /\ PhaseSteps(phase)[Len(PhaseSteps(phase))] = "returned"
  <1>1. CASE phase = 4
    <2>1. Len(PhaseSteps(phase)) = 8 /\ PhaseSteps(phase)[8] = "returned"
      BY <1>1 DEF PhaseSteps
    <2> QED
      BY <2>1
  <1>2. CASE phase = 5
    <2>1. Len(PhaseSteps(phase)) = 9 /\ PhaseSteps(phase)[9] = "returned"
      BY <1>2 DEF PhaseSteps
    <2> QED
      BY <1>2, <2>1
  <1> QED
    BY <1>1, <1>2

At4(name) ==
    CASE name = "hash" -> 1 [] name = "load" -> 2 [] name = "views" -> 3
      [] name = "results" -> 4 [] name = "check" -> 5 [] name = "manifest" -> 6
      [] name = "metrics" -> 7 [] name = "returned" -> 8 [] OTHER -> 20

At5(name) ==
    CASE name = "hash" -> 1 [] name = "load" -> 2 [] name = "corpus" -> 3
      [] name = "views" -> 4 [] name = "results" -> 5 [] name = "metrics" -> 6
      [] name = "manifest" -> 7 [] name = "check" -> 8 [] name = "returned" -> 9
      [] OTHER -> 20

(* Where a step stands in the experiment of this behaviour. *)
Position(name) == IF phase = 4 THEN At4(name) ELSE At5(name)

LEMMA Positions ==
  ASSUME phase \in {4, 5}
  PROVE  \A i \in 1 .. Len(PhaseSteps(phase)) : \A name :
             PhaseSteps(phase)[i] = name <=> i = Position(name)
  <1>1. CASE phase = 4
    <2>1. \A i \in 1 .. 8 : \/ i = 1 \/ i = 2 \/ i = 3 \/ i = 4 \/ i = 5 \/ i = 6 \/ i = 7
                            \/ i = 8
      OBVIOUS
    <2>2. \A i \in 1 .. 8 : \A name : PhaseSteps(4)[i] = name <=> i = At4(name)
      BY <2>1, PhaseStepFacts DEF At4
    <2>3. \A name : Position(name) = At4(name)
      BY <1>1 DEF Position
    <2>4. Len(PhaseSteps(phase)) = 8 /\ PhaseSteps(phase) = PhaseSteps(4)
      BY <1>1, PhaseStepFacts
    <2> QED
      BY <2>2, <2>3, <2>4
  <1>2. CASE phase = 5
    <2>1. \A i \in 1 .. 9 : \/ i = 1 \/ i = 2 \/ i = 3 \/ i = 4 \/ i = 5 \/ i = 6 \/ i = 7
                            \/ i = 8 \/ i = 9
      OBVIOUS
    <2>2. \A i \in 1 .. 9 : \A name : PhaseSteps(5)[i] = name <=> i = At5(name)
      BY <2>1, PhaseStepFacts DEF At5
    <2>3. \A name : Position(name) = At5(name)
      BY <1>2 DEF Position
    <2>4. Len(PhaseSteps(phase)) = 9 /\ PhaseSteps(phase) = PhaseSteps(5)
      BY <1>2, PhaseStepFacts
    <2> QED
      BY <2>2, <2>3, <2>4
  <1> QED
    BY <1>1, <1>2

(* Made and Step are places in that order. *)
LEMMA InPosition ==
  ASSUME PhaseRecords, NEW name
  PROVE  /\ Made(name) <=> Position(name) < experiment.step
         /\ Step(name) => experiment.step = Position(name)
         /\ Step(name) => experiment.step \in 1 .. Len(PhaseSteps(phase))
  <1>1. Position(name) \in Nat \ {0}
    BY DEF Position, At4, At5
  <1>2. experiment.step \in Nat /\ Len(PhaseSteps(phase)) \in Nat
    BY PhaseStepFacts DEF PhaseRecords
  <1>3. experiment.step <= Len(PhaseSteps(phase))
    BY <1>2 DEF PhaseRecords
  <1>4. Position(name) < experiment.step => Position(name) \in 1 .. Len(PhaseSteps(phase))
    BY <1>1, <1>2, <1>3
  <1>5. Made(name) <=> Position(name) < experiment.step
    BY <1>4, Positions DEF Made, PhaseRecords
  <1>6. Step(name) => experiment.step \in 1 .. Len(PhaseSteps(phase))
    BY <1>2, <1>3 DEF Step, Running, PhaseRecords
  <1>7. Step(name) => experiment.step = Position(name)
    BY <1>6, Positions DEF Step, PhaseRecords
  <1> QED
    BY <1>5, <1>6, <1>7

LEMMA StepOrder ==
  ASSUME PhaseRecords
  PROVE  /\ experiment.step <= 2 =>
                /\ ~Made("load") /\ ~Made("check") /\ ~Made("corpus") /\ ~Made("manifest")
                /\ ~Made("metrics") /\ ~Made("views") /\ ~Made("results")
         /\ Step("hash") \/ Step("load") => experiment.step <= 2
         /\ experiment.step = 0 => ~Made("hash")
         /\ Step("load") => Made("hash")
         /\ Made("load") => Made("hash")
         /\ Step("corpus") => phase = 5
         /\ \A name \in {"corpus", "views", "results", "manifest", "metrics", "check",
                        "returned"} : Step(name) => Made("load")
         /\ Step("manifest") /\ phase = 4 => Made("check")
         /\ Step("returned") =>
                /\ Made("check") /\ Made("manifest") /\ Made("metrics") /\ Made("views")
                /\ Made("results") /\ (phase = 5 => Made("corpus"))
  <1>1. /\ Position("hash") = 1 /\ Position("load") = 2 /\ Position("corpus") \in {3, 20}
        /\ Position("views") \in {3, 4} /\ Position("results") \in {4, 5}
        /\ Position("metrics") \in {6, 7} /\ Position("manifest") \in {6, 7}
        /\ Position("check") \in {5, 8} /\ Position("returned") \in {8, 9}
    BY DEF Position, At4, At5
  <1>2. /\ phase = 4 => Position("corpus") = 20 /\ Position("check") = 5
        /\ phase = 4 => Position("manifest") = 6 /\ Position("returned") = 8
        /\ phase # 4 => Position("corpus") = 3 /\ Position("check") = 8
        /\ phase # 4 => Position("manifest") = 7 /\ Position("returned") = 9
    <2>1. /\ At4("corpus") = 20 /\ At4("check") = 5 /\ At4("manifest") = 6
          /\ At4("returned") = 8
      BY DEF At4
    <2>2. /\ At5("corpus") = 3 /\ At5("check") = 8 /\ At5("manifest") = 7
          /\ At5("returned") = 9
      BY DEF At5
    <2> QED
      BY <2>1, <2>2 DEF Position
  <1>3. /\ experiment.step \in Nat
        /\ phase = 4 => experiment.step <= 8
        /\ phase \in {4, 5}
    <2> DEFINE last == Len(PhaseSteps(phase))
    <2>1. phase \in {4, 5} /\ experiment.step \in 0 .. last
      BY DEF PhaseRecords
    <2>2. last \in {8, 9} /\ (phase = 4 => last = 8)
      BY <2>1, PhaseLast
    <2> HIDE DEF last
    <2> QED
      BY <2>1, <2>2
  <1>4. \A name \in {"hash", "load", "corpus", "views", "results", "metrics", "manifest",
                     "check", "returned"} :
            /\ Made(name) <=> Position(name) < experiment.step
            /\ Step(name) => experiment.step = Position(name)
    BY InPosition
  <1> HIDE DEF Position
  <1>5. Step("hash") \/ Step("load") => experiment.step <= 2
    BY <1>1, <1>4
  <1>11. /\ experiment.step = 0 => ~Made("hash")
         /\ Step("load") => Made("hash")
         /\ Made("load") => Made("hash")
    BY <1>1, <1>3, <1>4
  <1>6. Step("corpus") => phase = 5
    BY <1>1, <1>2, <1>3, <1>4
  <1>7. experiment.step <= 2 =>
            /\ ~Made("load") /\ ~Made("check") /\ ~Made("corpus") /\ ~Made("manifest")
            /\ ~Made("metrics") /\ ~Made("views") /\ ~Made("results")
    BY <1>1, <1>3, <1>4
  <1>8. \A name \in {"corpus", "views", "results", "manifest", "metrics", "check",
                    "returned"} : Step(name) => Made("load")
    BY <1>1, <1>3, <1>4
  <1>9. Step("manifest") /\ phase = 4 => Made("check")
    BY <1>2, <1>4
  <1>10. Step("returned") =>
             /\ Made("check") /\ Made("manifest") /\ Made("metrics") /\ Made("views")
             /\ Made("results") /\ (phase = 5 => Made("corpus"))
    BY <1>1, <1>2, <1>3, <1>4
  <1> QED
    BY <1>5, <1>6, <1>7, <1>8, <1>9, <1>10, <1>11

LEMMA StepTaken ==
  ASSUME PhaseRecords, NEW name, Step(name), name # "returned",
         phase' = phase, experiment'.step = experiment.step + 1
  PROVE  /\ experiment'.step \in 1 .. Len(PhaseSteps(phase))
         /\ \A other : Made(other)' => Made(other) \/ other = name
  <1>1. experiment.step \in 1 .. Len(PhaseSteps(phase)) /\ PhaseSteps(phase)[experiment.step] = name
    BY InPosition DEF Step
  <1>2. Len(PhaseSteps(phase)) \in Nat /\ PhaseSteps(phase)[Len(PhaseSteps(phase))] = "returned"
    BY PhaseLast DEF PhaseRecords
  <1>3. experiment.step # Len(PhaseSteps(phase))
    BY <1>1, <1>2
  <1>4. experiment'.step \in 1 .. Len(PhaseSteps(phase))
    BY <1>1, <1>2, <1>3
  <1>5. ASSUME NEW other, Made(other)'
        PROVE  Made(other) \/ other = name
    <2>1. PICK i \in 1 .. Len(PhaseSteps(phase)) :
              i < experiment.step + 1 /\ PhaseSteps(phase)[i] = other
      BY <1>5 DEF Made
    <2>2. i < experiment.step \/ i = experiment.step
      BY <1>1, <1>2, <2>1
    <2> QED
      BY <1>1, <2>1, <2>2 DEF Made
  <1> QED
    BY <1>4, <1>5

LEMMA InitPhaseInvariant == CorpusInit => PhaseInvariant
  <1> SUFFICES ASSUME CorpusInit PROVE PhaseInvariant
    OBVIOUS
  <1>1. /\ phase \in {4, 5} /\ experiment = NoExperiment /\ findings = NoFindings
        /\ views = NoViews
    BY DEF CorpusInit
  <1>2. experiment.step = 0 /\ 0 \in 0 .. Len(PhaseSteps(phase))
    BY <1>1, PhaseStepFacts DEF NoExperiment
  <1>3. PhaseRecords
    BY <1>1, <1>2 DEF PhaseRecords, NoExperiment, NoFindings, NoViews
  <1>4. UnitsBetween /\ FilesOfRun
    BY <1>2, <1>3, StepOrder DEF UnitsBetween, FilesOfRun
  <1>5. HashesOf(findings.manifest)
    <2>1. \A s \in CaseSources : s \in CorpusSources /\ "units" \in TableSet(s)
      BY TableFacts DEF CaseSources
    <2> QED
      BY <1>1, <2>1 DEF HashesOf, NoFindings, NoTables, NoRevisions
  <1> QED
    BY <1>3, <1>4, <1>5 DEF PhaseInvariant

LEMMA PhaseKept ==
  ASSUME BuildInvariant, BuildInvariant', TablesGrow, PhaseInvariant, UNCHANGED phaseVars
  PROVE  PhaseInvariant'
  <1>1. /\ phase' = phase /\ experiment' = experiment /\ findings' = findings /\ views' = views
    BY DEF phaseVars
  <1>2. \A s \in CaseSources : /\ tables[s]["units"] \in Nat /\ tables'[s]["units"] \in Nat
                               /\ tables[s]["units"] <= tables'[s]["units"]
    BY TableFacts DEF CaseSources, TablesGrow, BuildInvariant, CorpusRecords, AreTables
  <1>7. \A s \in CaseSources :
            experiment.before[s]["units"] \in Nat
            /\ experiment.before[s]["units"] <= tables[s]["units"]
                => experiment.before[s]["units"] <= tables'[s]["units"]
    BY <1>2
  <1>3. \A s \in CaseSources :
            experiment.units[s] \in Nat /\ experiment.units[s] <= tables[s]["units"]
                => experiment.units[s] <= tables'[s]["units"]
    BY <1>2
  <1>4. \A name : Made(name)' <=> Made(name)
    BY <1>1 DEF Made
  <1>5. PhaseRecords' /\ FilesOfRun' /\ (phase = 4 => HashesOf(findings.manifest))'
    BY <1>1, <1>4 DEF PhaseInvariant, PhaseRecords, FilesOfRun, HashesOf
  <1>6. UnitsBetween'
    BY <1>1, <1>3, <1>4, <1>7 DEF PhaseInvariant, UnitsBetween
  <1> QED
    BY <1>5, <1>6 DEF PhaseInvariant

LEMMA PhaseStepInvariant ==
  ASSUME PhaseInvariant, BuildInvariant, PhaseStep, UNCHANGED corpusFiles
  PROVE  PhaseInvariant'
  <1> USE DEF GoOn
  <1>1. /\ PhaseRecords /\ phase' = phase /\ tables' = tables
        /\ \A p \in {4, 5} : {1, 2, 3} \subseteq 0 .. Len(PhaseSteps(p))
    BY PhaseStepFacts DEF PhaseInvariant, corpusFiles
  <1>14. /\ Step("check") => Made("load")
         /\ Step("views") => Made("load")
         /\ Step("results") => Made("load")
         /\ Step("corpus") => Made("load") /\ phase = 5
         /\ Step("metrics") => Made("load")
         /\ Step("manifest") => Made("load")
         /\ Step("manifest") => (phase = 4 => Made("check"))
    BY <1>1, StepOrder
  <1>2. ASSUME UNCHANGED <<findings, views>>, experiment' = NoExperiment
        PROVE  PhaseInvariant'
    <2>1. experiment'.step = 0 /\ DOMAIN experiment' = {"step", "before", "units"}
      BY <1>2 DEF NoExperiment
    <2>2. PhaseRecords'
      BY <1>1, <1>2, <2>1 DEF PhaseRecords
    <2>3. \A name : ~Made(name)'
      BY <1>1, <2>1, PhaseLast DEF Made, PhaseRecords
    <2>4. UnitsBetween' /\ FilesOfRun'
      BY <2>3 DEF UnitsBetween, FilesOfRun
    <2> QED
      BY <1>1, <1>2, <2>2, <2>4 DEF PhaseInvariant, HashesOf
  <1>3. CASE EndPhase
    BY <1>2, <1>3 DEF EndPhase
  <1>4. CASE StartPhase
    <2>1. /\ experiment' = [NoExperiment EXCEPT !.step = 1] /\ UNCHANGED <<findings, views>>
      BY <1>4 DEF StartPhase
    <2>2. experiment'.step = 1 /\ DOMAIN experiment' = {"step", "before", "units"}
      BY <2>1 DEF NoExperiment
    <2>3. PhaseRecords'
      BY <1>1, <2>1, <2>2 DEF PhaseRecords
    <2>4. \A name : ~Made(name)'
      BY <1>1, <2>2, PhaseLast DEF Made, PhaseRecords
    <2>5. UnitsBetween' /\ FilesOfRun'
      BY <2>4 DEF UnitsBetween, FilesOfRun
    <2> QED
      BY <1>1, <2>1, <2>3, <2>5 DEF PhaseInvariant, HashesOf
  <1>5. CASE HashTables
    <2>1. /\ Step("hash") /\ UNCHANGED <<findings, views>>
          /\ experiment'.step = experiment.step + 1
          /\ DOMAIN experiment' = {"step", "before", "units"}
      BY <1>1, <1>5 DEF HashTables, PhaseRecords
    <2>2. /\ experiment'.step \in 1 .. Len(PhaseSteps(phase))
          /\ \A other : Made(other)' => Made(other) \/ other = "hash"
      BY <1>1, <2>1, StepTaken
    <2>3. PhaseRecords'
      BY <1>1, <2>1, <2>2 DEF PhaseRecords
    <2>4. /\ ~Made("load") /\ ~Made("check") /\ ~Made("corpus") /\ ~Made("manifest")
          /\ ~Made("metrics") /\ ~Made("views") /\ ~Made("results")
      BY <1>1, <2>1, StepOrder
    <2>5. UnitsBetween'
      <3>1. \A s \in CaseSources : /\ tables[s]["units"] \in Nat
                                   /\ experiment'.before[s]["units"] = tables'[s]["units"]
        BY <1>1, <1>5, TableFacts DEF HashTables, PhaseRecords, CaseSources, BuildInvariant,
                                      CorpusRecords, AreTables
      <3>2. \A s \in CaseSources : tables[s]["units"] <= tables[s]["units"]
        BY <3>1
      <3> QED
        BY <1>1, <2>2, <2>4, <3>1, <3>2 DEF UnitsBetween
    <2>6. FilesOfRun'
      BY <2>2, <2>4 DEF FilesOfRun
    <2> QED
      BY <1>1, <2>1, <2>3, <2>5, <2>6 DEF PhaseInvariant, HashesOf
  <1>6. CASE LoadUnits
    <2>1. /\ Step("load") /\ UNCHANGED <<findings, views>>
          /\ experiment'.step = experiment.step + 1
          /\ DOMAIN experiment' = {"step", "before", "units"}
          /\ experiment'.before = experiment.before
          /\ \A s \in CaseSources : experiment'.units[s] = tables[s]["units"]
      BY <1>1, <1>6 DEF LoadUnits, PhaseRecords, CaseSources
    <2>2. /\ experiment'.step \in 1 .. Len(PhaseSteps(phase))
          /\ \A other : Made(other)' => Made(other) \/ other = "load"
      BY <1>1, <2>1, StepTaken
    <2>3. PhaseRecords'
      BY <1>1, <2>1, <2>2 DEF PhaseRecords
    <2>4. /\ ~Made("load") /\ ~Made("check") /\ ~Made("corpus") /\ ~Made("manifest")
          /\ ~Made("metrics") /\ ~Made("views") /\ ~Made("results") /\ Made("hash")
      BY <1>1, <2>1, StepOrder
    <2>5. UnitsBetween'
      <3>1. \A s \in CaseSources : tables[s]["units"] \in Nat
        BY TableFacts DEF CaseSources, BuildInvariant, CorpusRecords, AreTables
      <3>2. \A s \in CaseSources : tables[s]["units"] <= tables[s]["units"]
        BY <3>1
      <3>3. \A s \in CaseSources : /\ experiment.before[s]["units"] \in Nat
                                   /\ experiment.before[s]["units"] <= tables[s]["units"]
        BY <2>4 DEF PhaseInvariant, UnitsBetween
      <3> QED
        BY <1>1, <2>1, <2>2, <2>4, <3>1, <3>2, <3>3 DEF UnitsBetween
    <2>6. FilesOfRun'
      BY <2>2, <2>4 DEF FilesOfRun
    <2> QED
      BY <1>1, <2>1, <2>3, <2>5, <2>6 DEF PhaseInvariant, HashesOf
  (* The steps after the units are loaded keep the run's hashes and units. *)
  <1>7. ASSUME NEW name, Step(name), name \notin {"hash", "load", "returned"},
               Made("load"), experiment' = [experiment EXCEPT !.step = @ + 1],
               name = "check" => tables = experiment.before
        PROVE  /\ experiment'.before = experiment.before /\ experiment'.units = experiment.units
               /\ \A other : Made(other)' => Made(other) \/ other = name
               /\ experiment'.step \in 1 .. Len(PhaseSteps(phase))
               /\ DOMAIN experiment' = {"step", "before", "units"}
               /\ UnitsBetween'
    <2>1. /\ experiment'.before = experiment.before /\ experiment'.units = experiment.units
          /\ DOMAIN experiment' = {"step", "before", "units"}
          /\ experiment'.step = experiment.step + 1
      BY <1>1, <1>7 DEF PhaseRecords
    <2>2. /\ experiment'.step \in 1 .. Len(PhaseSteps(phase))
          /\ \A other : Made(other)' => Made(other) \/ other = name
      BY <1>1, <1>7, <2>1, StepTaken
    <2>3. \A s \in CaseSources : /\ experiment.before[s]["units"] \in Nat
                                 /\ experiment.units[s] \in Nat
                                 /\ experiment.before[s]["units"] <= experiment.units[s]
                                 /\ experiment.units[s] <= tables[s]["units"]
                                 /\ experiment.before[s]["units"] <= tables[s]["units"]
      BY <1>1, <1>7, StepOrder DEF PhaseInvariant, UnitsBetween
    <2>4. name = "check" => \A s \in CaseSources :
                               experiment.before[s]["units"] = experiment.units[s]
      BY <1>7, <2>3
    <2>5. UnitsBetween'
      BY <1>1, <2>1, <2>2, <2>3, <2>4 DEF PhaseInvariant, UnitsBetween
    <2> QED
      BY <2>1, <2>2, <2>5
  <1>8. CASE CheckHashes
    <2>1. Step("check") /\ UNCHANGED <<findings, views>> /\ Made("load")
      BY <1>8, <1>14 DEF CheckHashes
    <2>2. CASE tables # experiment.before
      BY <1>2, <1>8, <2>1, <2>2 DEF CheckHashes
    <2>3. CASE tables = experiment.before
      <3>1. experiment' = [experiment EXCEPT !.step = @ + 1]
        BY <1>8, <2>3 DEF CheckHashes
      <3>2. /\ experiment'.before = experiment.before /\ experiment'.units = experiment.units
            /\ \A other : Made(other)' => Made(other) \/ other = "check"
            /\ experiment'.step \in 1 .. Len(PhaseSteps(phase))
            /\ DOMAIN experiment' = {"step", "before", "units"}
            /\ UnitsBetween'
        BY <1>7, <2>1, <2>3, <3>1
      <3>3. PhaseRecords' /\ FilesOfRun'
        BY <1>1, <2>1, <3>2 DEF PhaseInvariant, PhaseRecords, FilesOfRun
      <3> QED
        BY <1>1, <2>1, <3>2, <3>3 DEF PhaseInvariant, HashesOf
    <2> QED
      BY <2>2, <2>3
  <1>9. CASE WriteViews
    <2>1. /\ Step("views") /\ findings' = findings /\ Made("load")
          /\ experiment' = [experiment EXCEPT !.step = @ + 1]
          /\ views' = [views EXCEPT !.views = experiment.units]
      BY <1>9, <1>14 DEF WriteViews, Keep
    <2>2. /\ experiment'.before = experiment.before /\ experiment'.units = experiment.units
          /\ \A other : Made(other)' => Made(other) \/ other = "views"
          /\ experiment'.step \in 1 .. Len(PhaseSteps(phase))
          /\ DOMAIN experiment' = {"step", "before", "units"}
          /\ UnitsBetween'
      BY <1>7, <2>1
    <2>3. /\ views'.views = experiment.units /\ views'.results = views.results
          /\ DOMAIN views' = {"views", "results"}
      BY <1>1, <2>1 DEF PhaseRecords
    <2>4. PhaseRecords' /\ FilesOfRun'
      BY <1>1, <2>1, <2>2, <2>3 DEF PhaseInvariant, PhaseRecords, FilesOfRun
    <2> QED
      BY <1>1, <2>1, <2>2, <2>4 DEF PhaseInvariant, HashesOf
  <1>10. CASE WriteResults
    <2>1. /\ Step("results") /\ findings' = findings /\ Made("load")
          /\ experiment' = [experiment EXCEPT !.step = @ + 1]
          /\ views' = [views EXCEPT !.results = experiment.units]
      BY <1>10, <1>14 DEF WriteResults, Keep
    <2>2. /\ experiment'.before = experiment.before /\ experiment'.units = experiment.units
          /\ \A other : Made(other)' => Made(other) \/ other = "results"
          /\ experiment'.step \in 1 .. Len(PhaseSteps(phase))
          /\ DOMAIN experiment' = {"step", "before", "units"}
          /\ UnitsBetween'
      BY <1>7, <2>1
    <2>3. /\ views'.results = experiment.units /\ views'.views = views.views
          /\ DOMAIN views' = {"views", "results"}
      BY <1>1, <2>1 DEF PhaseRecords
    <2>4. PhaseRecords' /\ FilesOfRun'
      BY <1>1, <2>1, <2>2, <2>3 DEF PhaseInvariant, PhaseRecords, FilesOfRun
    <2> QED
      BY <1>1, <2>1, <2>2, <2>4 DEF PhaseInvariant, HashesOf
  <1>11. CASE FreezeCorpus
    <2>1. /\ Step("corpus") /\ views' = views /\ Made("load") /\ phase = 5
          /\ experiment' = [experiment EXCEPT !.step = @ + 1]
          /\ findings' = [findings EXCEPT !.corpus = experiment.before]
      BY <1>11, <1>14 DEF FreezeCorpus, Track
    <2>2. /\ experiment'.before = experiment.before /\ experiment'.units = experiment.units
          /\ \A other : Made(other)' => Made(other) \/ other = "corpus"
          /\ experiment'.step \in 1 .. Len(PhaseSteps(phase))
          /\ DOMAIN experiment' = {"step", "before", "units"}
          /\ UnitsBetween'
      BY <1>7, <2>1
    <2>3. /\ findings'.corpus = experiment.before /\ findings'.metrics = findings.metrics
          /\ findings'.manifest = findings.manifest
          /\ DOMAIN findings' = {"corpus", "metrics", "manifest"}
      BY <1>1, <2>1 DEF PhaseRecords
    <2>4. phase # 4
      BY <2>1
    <2>5. PhaseRecords' /\ FilesOfRun'
      BY <1>1, <2>1, <2>2, <2>3, <2>4 DEF PhaseInvariant, PhaseRecords, FilesOfRun
    <2> QED
      BY <1>1, <2>2, <2>4, <2>5 DEF PhaseInvariant
  <1>12. CASE WriteMetrics
    <2>1. /\ Step("metrics") /\ views' = views /\ Made("load")
          /\ experiment' = [experiment EXCEPT !.step = @ + 1]
          /\ findings' = [findings EXCEPT !.metrics = experiment.units]
      BY <1>12, <1>14 DEF WriteMetrics, Track
    <2>2. /\ experiment'.before = experiment.before /\ experiment'.units = experiment.units
          /\ \A other : Made(other)' => Made(other) \/ other = "metrics"
          /\ experiment'.step \in 1 .. Len(PhaseSteps(phase))
          /\ DOMAIN experiment' = {"step", "before", "units"}
          /\ UnitsBetween'
      BY <1>7, <2>1
    <2>3. /\ findings'.metrics = experiment.units /\ findings'.corpus = findings.corpus
          /\ findings'.manifest = findings.manifest
          /\ DOMAIN findings' = {"corpus", "metrics", "manifest"}
      BY <1>1, <2>1 DEF PhaseRecords
    <2>4. PhaseRecords' /\ FilesOfRun'
      BY <1>1, <2>1, <2>2, <2>3 DEF PhaseInvariant, PhaseRecords, FilesOfRun
    <2> QED
      BY <1>1, <2>2, <2>3, <2>4 DEF PhaseInvariant, HashesOf
  <1>13. CASE WriteFindings
    <2>1. /\ Step("manifest") /\ views' = views /\ Made("load")
          /\ phase = 4 => Made("check")
          /\ experiment' = [experiment EXCEPT !.step = @ + 1]
          /\ findings' = [findings EXCEPT !.manifest = experiment.units,
                              !.corpus = IF phase = 4 THEN experiment.before ELSE @]
      BY <1>13, <1>14 DEF WriteFindings, Track
    <2>2. /\ experiment'.before = experiment.before /\ experiment'.units = experiment.units
          /\ \A other : Made(other)' => Made(other) \/ other = "manifest"
          /\ experiment'.step \in 1 .. Len(PhaseSteps(phase))
          /\ DOMAIN experiment' = {"step", "before", "units"}
          /\ UnitsBetween'
      BY <1>7, <2>1
    <2>3. /\ findings'.manifest = experiment.units /\ findings'.metrics = findings.metrics
          /\ phase = 4 => findings'.corpus = experiment.before
          /\ phase # 4 => findings'.corpus = findings.corpus
          /\ DOMAIN findings' = {"corpus", "metrics", "manifest"}
      BY <1>1, <2>1 DEF PhaseRecords
    <2>4. PhaseRecords' /\ FilesOfRun'
      BY <1>1, <2>1, <2>2, <2>3 DEF PhaseInvariant, PhaseRecords, FilesOfRun
    <2>5. phase = 4 => HashesOf(findings.manifest)'
      BY <2>1, <2>3 DEF PhaseInvariant, UnitsBetween, HashesOf
    <2> QED
      BY <1>1, <2>2, <2>4, <2>5 DEF PhaseInvariant
  <1> QED
    BY <1>3, <1>4, <1>5, <1>6, <1>8, <1>9, <1>10, <1>11, <1>12, <1>13 DEF PhaseStep

LEMMA CorpusInvariants == CorpusSpec => [](BuildInvariant /\ PhaseInvariant)
  <1>1. CorpusInit => BuildInvariant /\ PhaseInvariant
    BY InitBuildInvariant, InitPhaseInvariant
  <1>2. ASSUME BuildInvariant, PhaseInvariant, [CorpusNext]_corpusVars
        PROVE  BuildInvariant' /\ PhaseInvariant'
    <2>1. BuildInvariant' /\ TablesGrow
      BY <1>2, NextBuildInvariant
    <2>2. CASE PhaseStep /\ UNCHANGED corpusFiles
      BY <1>2, <2>1, <2>2, PhaseStepInvariant
    <2>3. CASE UNCHANGED phaseVars
      BY <1>2, <2>1, <2>3, PhaseKept
    <2>4. UNCHANGED corpusVars => UNCHANGED phaseVars
      BY DEF corpusVars, phaseVars
    <2> QED
      BY <1>2, <2>1, <2>2, <2>3, <2>4, CorpusSteps
  <1> QED
    BY <1>1, <1>2, PTL DEF CorpusSpec

LEMMA CorpusImplications ==
  ASSUME BuildInvariant, PhaseInvariant
  PROVE  CorpusTypeOK /\ CorpusIsSound
  <1>1. CorpusTypeOK
    BY DEF CorpusTypeOK, BuildInvariant, CorpusRecords, Revisions, BuildRecords, PhaseInvariant,
           PhaseRecords
  <1>2. ExperimentsNameTheirCorpus
    <2>1. Step("returned") =>
              /\ Made("check") /\ Made("manifest") /\ Made("metrics") /\ Made("views")
              /\ Made("results") /\ (phase = 5 => Made("corpus"))
      BY StepOrder DEF PhaseInvariant
    <2>2. Step("returned") =>
              /\ findings.corpus = experiment.before
              /\ findings.manifest = experiment.units /\ findings.metrics = experiment.units
              /\ views.views = experiment.units /\ views.results = experiment.units
              /\ \A s \in CaseSources : experiment.before[s]["units"] = experiment.units[s]
      BY <2>1 DEF PhaseInvariant, PhaseRecords, FilesOfRun, UnitsBetween
    <2>3. phase = 4 => HashesOf(findings.manifest)
      BY DEF PhaseInvariant
    <2> QED
      BY <2>2, <2>3 DEF ExperimentsNameTheirCorpus, HashesOf
  <1>3. ManifestsFollow /\ BuildIsInventoried
    BY BuildInventoried DEF BuildInvariant
  <1> QED
    BY <1>1, <1>2, <1>3 DEF CorpusIsSound

(* No manifest says more of a source than its tables are, a build that ends*)
(* has described what it built, and an experiment names the tables its     *)
(* units were loaded from (build, run_phase4_experiment, run_phase5_chunk- *)
(* ing), for any sources, revisions and number of builds.                  *)
THEOREM CorpusSound == CorpusSpec => []CorpusIsSound
  BY CorpusInvariants, CorpusImplications, PTL

THEOREM CorpusTypeCorrect == CorpusSpec => []CorpusTypeOK
  BY CorpusInvariants, CorpusImplications, PTL

(***************************************************************************)
(* Acquisition.                                                            *)
(***************************************************************************)
BookNames == {Books[i] : i \in DOMAIN Books}

AreFiles(them) ==
    /\ DOMAIN them = RawSources
    /\ \A s \in RawSources : them[s] \in [1 .. LastVersion[s] -> [FilesOf(s) -> Bytes]]

FilesThere ==
    /\ versions \in [RawSources -> Nat \ {0}]
    /\ \A s \in RawSources : versions[s] <= LastVersion[s]
    /\ AreFiles(raw)
    /\ \A place \in folders : /\ place[1] \in RawSources
                              /\ place[2] \in 1 .. LastVersion[place[1]]
    /\ bundles \in [RawSources -> Nat]
    /\ \A s \in RawSources : bundles[s] <= versions[s]

(* What is so of the command running: a build's source is verified and its *)
(* findings are those of its version.                                      *)
TaskInOrder ==
    /\ DOMAIN task = {"name", "source", "step", "bytes", "kept", "todo", "rebuild"}
    /\ task.name \in {"none", "copy", "install", "write", "rows", "next", "built"}
    /\ task.name \in {"copy", "install"} =>
           /\ task.source \in RawSources
           /\ task.step \in 1 .. Len(RawFiles[task.source])
           /\ task.bytes \in {"pinned"} \cup LocalFiles
    /\ task.name \in {"write", "rows"} =>
           /\ task.source \in RawSources
           /\ task.step \in 1 .. 5
           /\ Verified(task.source)
           /\ bundles[task.source] = versions[task.source]
    /\ task.name = "rows" => /\ Book \in Csv
                             /\ DOMAIN task.kept = RawSources
                             /\ \A s \in RawSources : books[Book][s] = NoBookRow
    /\ task.name = "built" => task.source \in RawSources
    /\ task.rebuild = TRUE \/ task.name = "next" =>
           task.name \in {"next", "write", "rows"} /\ task.todo \subseteq RawSources

(* A manifest as it was before it was opened, while it is open. *)
Held(b) == IF task.name = "rows" /\ b = Book THEN task.kept ELSE books[b]

TrueRow(s, row) ==
    /\ row.version \in 1 .. LastVersion[s]
    /\ row = Row(s, row.version)
    /\ \A f \in FilesOf(s) : Fits(f, row.bytes[f])

BooksTrue ==
    /\ DOMAIN books = BookNames
    /\ \A b \in BookNames : DOMAIN books[b] = RawSources
    /\ \A b \in BookNames, s \in RawSources :
           Held(b)[s] = NoBookRow \/ TrueRow(s, Held(b)[s])
    /\ \A s \in RawSources : Held("privacy status")[s].version <= bundles[s]

(* The manifests a build has written say what is there; in a rebuild those *)
(* of the sources before it do, the one now open taken as it was.          *)
BuildsInOrder ==
    /\ task.name \in {"write", "rows"} =>
           \A i \in 1 .. 5 :
               i < task.step =>
                   books[Books[i]][task.source] = Row(task.source, versions[task.source])
    /\ task.name = "built" => Agree(task.source)
    /\ task.rebuild = TRUE \/ task.name = "next" =>
           \A s \in RawSources :
               <<s, versions[s]>> \in folders =>
                   \/ s \in task.todo
                   \/ task.name \in {"write", "rows"} /\ s = task.source
                   \/ \A b \in BookNames : Held(b)[s] = Row(s, versions[s])

AcquisitionInvariant == FilesThere /\ TaskInOrder /\ BooksTrue /\ BuildsInOrder

LEMMA BookFacts ==
    /\ Books[1] = "lock" /\ Books[2] = "snapshots" /\ Books[3] = "privacy status"
    /\ Books[4] = "privacy summaries" /\ Books[5] = "raw files"
    /\ Len(Books) = 5
    /\ BookNames = {"lock", "snapshots", "privacy status", "privacy summaries", "raw files"}
    /\ \A i \in 1 .. 5 : Books[i] \in BookNames
    /\ \A b \in BookNames : \E i \in 1 .. 5 : b = Books[i]
    /\ \A i, j \in 1 .. 5 : Books[i] = Books[j] => i = j
    /\ Csv \subseteq BookNames
  <1>1. /\ Books[1] = "lock" /\ Books[2] = "snapshots" /\ Books[3] = "privacy status"
        /\ Books[4] = "privacy summaries" /\ Books[5] = "raw files"
        /\ Len(Books) = 5 /\ DOMAIN Books = 1 .. 5
    BY DEF Books
  <1>2. \A i \in 1 .. 5 : i = 1 \/ i = 2 \/ i = 3 \/ i = 4 \/ i = 5
    OBVIOUS
  <1>3. BookNames = {"lock", "snapshots", "privacy status", "privacy summaries", "raw files"}
    <2>1. BookNames = {Books[i] : i \in 1 .. 5}
      BY <1>1 DEF BookNames
    <2>2. BookNames = {Books[1], Books[2], Books[3], Books[4], Books[5]}
      BY <1>2, <2>1
    <2> QED
      BY <1>1, <2>2
  <1>4. \A i, j \in 1 .. 5 : Books[i] = Books[j] => i = j
    BY <1>1, <1>2
  <1>5. /\ \A i \in 1 .. 5 : Books[i] \in BookNames
        /\ \A b \in BookNames : \E i \in 1 .. 5 : b = Books[i]
    BY <1>1 DEF BookNames
  <1> QED
    BY <1>1, <1>3, <1>4, <1>5 DEF Csv

LEMMA BookInjective == \A i, j \in 1 .. 5 : Books[i] = Books[j] => i = j
  BY BookFacts

(* A row of a source is a row of its version, never the missing one. *)
LEMMA RowFacts ==
  ASSUME NEW s, NEW v
  PROVE  /\ Row(s, v).version = v /\ Row(s, v).bytes = raw[s][v]
         /\ DOMAIN Row(s, v) = {"version", "bytes"}
         /\ v # 0 => Row(s, v) # NoBookRow
  BY DEF Row, NoBookRow

LEMMA NoRowFact == NoBookRow.version = 0
  BY DEF NoBookRow

LEMMA InitAcquisition == AcquisitionInit => AcquisitionInvariant
  <1> SUFFICES ASSUME AcquisitionInit PROVE AcquisitionInvariant
    OBVIOUS
  <1>1. FilesThere
    <2>1. /\ versions = [s \in RawSources |-> 1] /\ folders = {}
          /\ bundles = [s \in RawSources |-> 0]
          /\ raw = [s \in RawSources |->
                       [v \in 1 .. LastVersion[s] |-> [f \in FilesOf(s) |-> "missing"]]]
      BY DEF AcquisitionInit
    <2>2. AreFiles(raw)
      BY <2>1 DEF AreFiles, Bytes
    <2>3. \A s \in RawSources : 1 <= LastVersion[s] /\ 0 <= 1
      BY AcquisitionAssumption
    <2> QED
      BY <2>1, <2>2, <2>3 DEF FilesThere
  <1>2. task.name = "none" /\ task.rebuild = FALSE
    BY DEF AcquisitionInit, Idle
  <1>3. TaskInOrder /\ BuildsInOrder
    BY <1>2 DEF AcquisitionInit, Idle, TaskInOrder, BuildsInOrder
  <1>4. /\ DOMAIN books = BookNames
        /\ \A b \in BookNames : DOMAIN books[b] = RawSources
        /\ \A b \in BookNames, s \in RawSources : Held(b)[s] = NoBookRow
    BY <1>2 DEF AcquisitionInit, BookNames, Held
  <1>5. \A s \in RawSources : Held("privacy status")[s].version <= bundles[s]
    <2>1. \A s \in RawSources : Held("privacy status")[s].version = 0 /\ bundles[s] = 0
      <3>1. "privacy status" \in BookNames
        BY BookFacts
      <3>2. \A s \in RawSources : Held("privacy status")[s] = NoBookRow
        BY <1>4, <3>1
      <3> QED
        BY <3>2, NoRowFact DEF AcquisitionInit
    <2>2. 0 <= 0
      OBVIOUS
    <2> QED
      BY <2>1, <2>2
  <1> QED
    BY <1>1, <1>3, <1>4, <1>5 DEF AcquisitionInvariant, BooksTrue

(* What a row says stays so while its files do. *)
LEMMA RowKept ==
  ASSUME NEW s \in RawSources, NEW row, TrueRow(s, row),
         \A v \in 1 .. LastVersion[s] :
             (\A f \in FilesOf(s) : raw[s][v][f] # "missing") => raw'[s][v] = raw[s][v]
  PROVE  TrueRow(s, row)'
  <1>1. row.version \in 1 .. LastVersion[s] /\ row = Row(s, row.version)
    BY DEF TrueRow
  <1>2. row.bytes = raw[s][row.version]
    BY <1>1, RowFacts
  <1>3. raw'[s][row.version] = raw[s][row.version]
    BY <1>1, <1>2 DEF TrueRow, Fits
  <1> QED
    BY <1>1, <1>3 DEF TrueRow, Row

(* A command stops: a CSV manifest it had open stays empty. *)
LEMMA StopInvariant ==
  ASSUME AcquisitionInvariant, task' = Idle,
         UNCHANGED <<versions, raw, folders, books, bundles>>
  PROVE  AcquisitionInvariant'
  <1>1. task'.name = "none" /\ task'.rebuild = FALSE
    BY DEF Idle
  <1>2. FilesThere'
    BY DEF AcquisitionInvariant, FilesThere, AreFiles
  <1>3. TaskInOrder' /\ BuildsInOrder'
    BY <1>1 DEF Idle, TaskInOrder, BuildsInOrder
  <1>4. \A b \in BookNames, s \in RawSources :
            Held(b)'[s] = Held(b)[s] \/ Held(b)'[s] = NoBookRow
    BY <1>1 DEF Held, AcquisitionInvariant, TaskInOrder
  <1>5. \A b \in BookNames, s \in RawSources :
            Held(b)'[s] = NoBookRow \/ TrueRow(s, Held(b)[s])'
    <2>1. \A s \in RawSources : \A row : TrueRow(s, row) => TrueRow(s, row)'
      BY RowKept
    <2> QED
      BY <1>4, <2>1 DEF AcquisitionInvariant, BooksTrue
  <1>6. \A s \in RawSources : Held("privacy status")'[s].version <= bundles'[s]
    <2>1. \A s \in RawSources : bundles[s] \in Nat
      BY DEF AcquisitionInvariant, FilesThere
    <2>2. \A s \in RawSources : 0 <= bundles[s]
      BY <2>1
    <2>3. "privacy status" \in BookNames
      BY BookFacts
    <2>4. \A s \in RawSources : Held("privacy status")[s].version <= bundles[s]
      BY DEF AcquisitionInvariant, BooksTrue
    <2>5. bundles' = bundles
      OBVIOUS
    <2> HIDE DEF Held
    <2> QED
      BY <1>4, <2>2, <2>3, <2>4, <2>5, NoRowFact
  <1> QED
    BY <1>2, <1>3, <1>5, <1>6 DEF AcquisitionInvariant, BooksTrue

LEMMA BooksKept ==
  ASSUME AcquisitionInvariant, books' = books, \A b \in BookNames : Held(b)' = Held(b),
         \A s \in RawSources : \A v \in 1 .. LastVersion[s] :
             (\A f \in FilesOf(s) : raw[s][v][f] # "missing") => raw'[s][v] = raw[s][v],
         \A s \in RawSources : bundles'[s] \in Nat /\ bundles[s] <= bundles'[s]
  PROVE  BooksTrue'
  <1>1. \A s \in RawSources : \A row : TrueRow(s, row) => TrueRow(s, row)'
    BY RowKept
  <1>2. \A b \in BookNames, s \in RawSources :
            Held(b)'[s] = NoBookRow \/ TrueRow(s, Held(b)[s])'
    BY <1>1 DEF AcquisitionInvariant, BooksTrue
  <1>3. \A s \in RawSources : Held("privacy status")'[s].version <= bundles'[s]
    <2>1. "privacy status" \in BookNames
      BY BookFacts
    <2>2. \A s \in RawSources : Held("privacy status")[s].version <= bundles[s]
      BY DEF AcquisitionInvariant, BooksTrue
    <2>3. \A s \in RawSources : Held("privacy status")[s].version \in Nat
      <3>1. \A s \in RawSources : \/ Held("privacy status")[s] = NoBookRow
                                  \/ TrueRow(s, Held("privacy status")[s])
        BY <2>1 DEF AcquisitionInvariant, BooksTrue
      <3>2. \A s \in RawSources : LastVersion[s] \in Nat
        BY AcquisitionAssumption
      <3> HIDE DEF Held
      <3>3. \A s \in RawSources : 1 .. LastVersion[s] \subseteq Nat
        BY <3>2
      <3>4. \A s \in RawSources : \/ Held("privacy status")[s].version = 0
                                  \/ Held("privacy status")[s].version \in 1 .. LastVersion[s]
        BY <3>1, NoRowFact DEF TrueRow
      <3> SUFFICES ASSUME NEW s \in RawSources
                   PROVE  Held("privacy status")[s].version \in Nat
        OBVIOUS
      <3> DEFINE version == Held("privacy status")[s].version
      <3>5. version = 0 \/ version \in Nat
        BY <3>3, <3>4
      <3> HIDE DEF version
      <3>6. version \in Nat
        BY <3>5
      <3> QED
        BY <3>6 DEF version
    <2>4. \A s \in RawSources : bundles[s] \in Nat
      BY DEF AcquisitionInvariant, FilesThere
    <2> HIDE DEF Held
    <2>5. ASSUME NEW s \in RawSources
          PROVE  Held("privacy status")[s].version <= bundles'[s]
      <3> DEFINE version == Held("privacy status")[s].version
      <3>1. version \in Nat /\ bundles[s] \in Nat /\ bundles'[s] \in Nat
            /\ version <= bundles[s] /\ bundles[s] <= bundles'[s]
        BY <2>2, <2>3, <2>4
      <3> HIDE DEF version
      <3>2. version <= bundles'[s]
        BY <3>1
      <3> QED
        BY <3>2 DEF version
    <2> QED
      BY <2>1, <2>5
  <1> QED
    BY <1>2, <1>3 DEF AcquisitionInvariant, BooksTrue

LEMMA PinInvariant ==
  ASSUME AcquisitionInvariant, NEW s \in RawSources, PinVersion(s)
  PROVE  AcquisitionInvariant'
  <1>1. /\ task.name = "none" /\ task' = task /\ versions[s] < LastVersion[s]
        /\ versions' = [versions EXCEPT ![s] = @ + 1]
        /\ UNCHANGED <<raw, folders, partials, books, bundles>>
    BY DEF PinVersion, Free
  <1>2. /\ versions \in [RawSources -> Nat \ {0}]
        /\ \A other \in RawSources : /\ versions[other] <= LastVersion[other]
                                     /\ bundles[other] \in Nat
                                     /\ bundles[other] <= versions[other]
    BY DEF AcquisitionInvariant, FilesThere
  <1>3. \A other \in RawSources : LastVersion[other] \in Nat
    BY AcquisitionAssumption
  <1>4. versions[s] + 1 \in Nat \ {0} /\ versions[s] + 1 <= LastVersion[s]
    BY <1>1, <1>2, <1>3
  <1>5. /\ versions' \in [RawSources -> Nat \ {0}] /\ versions'[s] = versions[s] + 1
        /\ \A other \in RawSources : other # s => versions'[other] = versions[other]
    BY <1>1, <1>2, <1>4
  <1>6. \A other \in RawSources : /\ versions'[other] <= LastVersion[other]
                                  /\ bundles[other] <= versions'[other]
    BY <1>2, <1>4, <1>5
  <1>7. FilesThere'
    BY <1>1, <1>5, <1>6 DEF AcquisitionInvariant, FilesThere, AreFiles
  <1>8. TaskInOrder' /\ BuildsInOrder'
    BY <1>1 DEF AcquisitionInvariant, TaskInOrder, BuildsInOrder
  <1>9. \A b \in BookNames : Held(b)' = Held(b)
    BY <1>1 DEF Held
  <1>10. \A other \in RawSources : bundles[other] <= bundles[other]
    BY <1>2
  <1>11. BooksTrue'
    BY <1>1, <1>2, <1>9, <1>10, BooksKept
  <1> QED
    BY <1>7, <1>8, <1>11 DEF AcquisitionInvariant

(* A screening leaves the manifests alone and brings the review up to date. *)
LEMMA ScreenFacts ==
  ASSUME AcquisitionInvariant, NEW s \in RawSources, Screen(s),
         UNCHANGED <<versions, raw, folders, books>>
  PROVE  /\ FilesThere'
         /\ bundles'[s] = versions[s]
         /\ \A other \in RawSources : bundles'[other] \in Nat /\ bundles[other] <= bundles'[other]
  <1>1. /\ versions \in [RawSources -> Nat \ {0}] /\ bundles \in [RawSources -> Nat]
        /\ \A other \in RawSources : bundles[other] <= versions[other]
    BY DEF AcquisitionInvariant, FilesThere
  <1>2. versions[s] \in Nat
    BY <1>1
  <1>3. /\ bundles' \in [RawSources -> Nat] /\ bundles'[s] = versions[s]
        /\ \A other \in RawSources : other # s => bundles'[other] = bundles[other]
    BY <1>1, <1>2 DEF Screen
  <1>4. \A other \in RawSources : /\ bundles'[other] \in Nat
                                  /\ bundles[other] <= bundles'[other]
                                  /\ bundles'[other] <= versions[other]
    BY <1>1, <1>3
  <1>5. FilesThere'
    BY <1>3, <1>4 DEF AcquisitionInvariant, FilesThere, AreFiles
  <1> QED
    BY <1>3, <1>4, <1>5

LEMMA AuditInvariant ==
  ASSUME AcquisitionInvariant, NEW s \in RawSources, Audit(s)
  PROVE  AcquisitionInvariant'
  <1>1. /\ task.name = "none" /\ task' = task /\ Screen(s)
        /\ UNCHANGED <<versions, raw, folders, partials, books>>
    BY DEF Audit, Free
  <1>2. /\ FilesThere'
        /\ \A other \in RawSources : bundles'[other] \in Nat /\ bundles[other] <= bundles'[other]
    BY <1>1, ScreenFacts
  <1>3. TaskInOrder' /\ BuildsInOrder'
    BY <1>1 DEF AcquisitionInvariant, TaskInOrder, BuildsInOrder
  <1>4. \A b \in BookNames : Held(b)' = Held(b)
    BY <1>1 DEF Held
  <1>5. BooksTrue'
    BY <1>1, <1>2, <1>4, BooksKept
  <1> QED
    BY <1>2, <1>3, <1>5 DEF AcquisitionInvariant

LEMMA StartBuildInOrder ==
  ASSUME AcquisitionInvariant, NEW s \in RawSources, StartBuild(s)
  PROVE  AcquisitionInvariant'
  <1>1. /\ task.name = "none" /\ Screen(s) /\ Verified(s)
        /\ task' = [Idle EXCEPT !.name = "write", !.source = s, !.step = 1]
        /\ UNCHANGED <<versions, raw, folders, partials, books>>
    BY DEF StartBuild, Free
  <1>2. /\ FilesThere' /\ bundles'[s] = versions[s]
        /\ \A other \in RawSources : bundles'[other] \in Nat /\ bundles[other] <= bundles'[other]
    BY <1>1, ScreenFacts
  <1>3. /\ task'.name = "write" /\ task'.source = s /\ task'.step = 1 /\ task'.rebuild = FALSE
        /\ DOMAIN task' = {"name", "source", "step", "bytes", "kept", "todo", "rebuild"}
    BY <1>1 DEF Idle
  <1>4. Verified(s)'
    BY <1>1 DEF Verified
  <1>5. 1 \in 1 .. 5 /\ \A i \in 1 .. 5 : ~(i < 1)
    OBVIOUS
  <1>6. TaskInOrder'
    BY <1>1, <1>2, <1>3, <1>4, <1>5 DEF TaskInOrder
  <1>7. BuildsInOrder'
    BY <1>3, <1>5 DEF BuildsInOrder
  <1>8. \A b \in BookNames : Held(b)' = Held(b)
    BY <1>1, <1>3 DEF Held
  <1>9. BooksTrue'
    BY <1>1, <1>2, <1>8, BooksKept
  <1> QED
    BY <1>2, <1>6, <1>7, <1>9 DEF AcquisitionInvariant

LEMMA StartInstallInvariant ==
  ASSUME AcquisitionInvariant, NEW s \in RawSources, NEW bytes \in {"pinned"} \cup LocalFiles,
         StartInstall(s, bytes)
  PROVE  AcquisitionInvariant'
  <1>1. /\ task.name = "none"
        /\ task' = [Idle EXCEPT !.name = "copy", !.source = s, !.step = 1, !.bytes = bytes]
        /\ UNCHANGED <<versions, raw, folders, books, bundles>>
    BY DEF StartInstall, Free
  <1>2. /\ task'.name = "copy" /\ task'.source = s /\ task'.step = 1 /\ task'.bytes = bytes
        /\ task'.rebuild = FALSE
        /\ DOMAIN task' = {"name", "source", "step", "bytes", "kept", "todo", "rebuild"}
    BY <1>1 DEF Idle
  <1>3. 1 \in 1 .. Len(RawFiles[s])
    BY AcquisitionAssumption
  <1>4. TaskInOrder' /\ BuildsInOrder'
    BY <1>2, <1>3 DEF TaskInOrder, BuildsInOrder
  <1>5. FilesThere'
    BY <1>1 DEF AcquisitionInvariant, FilesThere, AreFiles
  <1>6. /\ \A b \in BookNames : Held(b)' = Held(b)
        /\ \A other \in RawSources : bundles[other] \in Nat
    BY <1>1, <1>2 DEF Held, AcquisitionInvariant, FilesThere
  <1>7. \A other \in RawSources : bundles[other] <= bundles[other]
    BY <1>6
  <1>8. BooksTrue'
    BY <1>1, <1>6, <1>7, BooksKept
  <1> QED
    BY <1>4, <1>5, <1>8 DEF AcquisitionInvariant

LEMMA CopyInvariant ==
  ASSUME AcquisitionInvariant, CopyPartial
  PROVE  AcquisitionInvariant'
  <1>1. /\ task.name = "copy" /\ task' = [task EXCEPT !.name = "install"]
        /\ folders' = folders \cup {<<task.source, versions[task.source]>>}
        /\ UNCHANGED <<versions, raw, books, bundles>>
    BY DEF CopyPartial, Installing
  <1>2. /\ DOMAIN task = {"name", "source", "step", "bytes", "kept", "todo", "rebuild"}
        /\ task.source \in RawSources /\ task.rebuild # TRUE
        /\ task.step \in 1 .. Len(RawFiles[task.source])
        /\ task.bytes \in {"pinned"} \cup LocalFiles
    BY <1>1 DEF AcquisitionInvariant, TaskInOrder
  <1>3. /\ task'.name = "install" /\ task'.source = task.source /\ task'.step = task.step
        /\ task'.bytes = task.bytes /\ task'.rebuild # TRUE
        /\ DOMAIN task' = {"name", "source", "step", "bytes", "kept", "todo", "rebuild"}
    BY <1>1, <1>2
  <1>4. TaskInOrder' /\ BuildsInOrder'
    BY <1>2, <1>3 DEF TaskInOrder, BuildsInOrder
  <1>5. versions[task.source] \in 1 .. LastVersion[task.source]
    <2>1. /\ versions[task.source] \in Nat \ {0} /\ LastVersion[task.source] \in Nat
          /\ versions[task.source] <= LastVersion[task.source]
      BY <1>2, AcquisitionAssumption DEF AcquisitionInvariant, FilesThere
    <2> QED
      BY <2>1
  <1>6. FilesThere'
    BY <1>1, <1>2, <1>5 DEF AcquisitionInvariant, FilesThere, AreFiles
  <1>7. /\ \A b \in BookNames : Held(b)' = Held(b)
        /\ \A other \in RawSources : bundles[other] \in Nat
    BY <1>1, <1>3 DEF Held, AcquisitionInvariant, FilesThere
  <1>8. \A other \in RawSources : bundles[other] <= bundles[other]
    BY <1>7
  <1>9. BooksTrue'
    BY <1>1, <1>7, <1>8, BooksKept
  <1> QED
    BY <1>4, <1>6, <1>9 DEF AcquisitionInvariant

WithFile(old, s, v, f, bytes) == [old EXCEPT ![s][v][f] = bytes]

LEMMA FileWritten ==
  ASSUME NEW old, AreFiles(old), NEW s \in RawSources, NEW v \in 1 .. LastVersion[s],
         NEW f \in FilesOf(s), NEW bytes \in Bytes
  PROVE  LET new == WithFile(old, s, v, f, bytes) IN
         /\ AreFiles(new)
         /\ new[s][v][f] = bytes
         /\ \A other \in RawSources : \A version \in 1 .. LastVersion[other] :
                \A file \in FilesOf(other) :
                    other # s \/ version # v \/ file # f =>
                        new[other][version][file] = old[other][version][file]
  <1> DEFINE new == WithFile(old, s, v, f, bytes)
             V(other) == 1 .. LastVersion[other]
  <1>1. old[s] \in [V(s) -> [FilesOf(s) -> Bytes]] /\ v \in V(s)
    BY DEF AreFiles
  <1>2. \A other \in RawSources : old[other] \in [V(other) -> [FilesOf(other) -> Bytes]]
    BY DEF AreFiles
  <1>3. DOMAIN new = RawSources /\ DOMAIN old = RawSources
    BY DEF AreFiles, WithFile
  <1> HIDE DEF V
  <1>4. new[s] = [old[s] EXCEPT ![v] = [old[s][v] EXCEPT ![f] = bytes]]
    BY <1>3 DEF WithFile
  <1>5. \A other \in RawSources : other # s => new[other] = old[other]
    BY <1>3 DEF WithFile
  <1> HIDE DEF new
  <1>6. old[s][v] \in [FilesOf(s) -> Bytes]
    BY <1>1
  <1>7. new[s][v] = [old[s][v] EXCEPT ![f] = bytes]
    BY <1>1, <1>4
  <1>8. /\ new[s][v] \in [FilesOf(s) -> Bytes]
        /\ new[s][v][f] = bytes
        /\ \A file \in FilesOf(s) : file # f => new[s][v][file] = old[s][v][file]
    BY <1>6, <1>7
  <1>9. /\ new[s] \in [V(s) -> [FilesOf(s) -> Bytes]]
        /\ \A version \in V(s) : version # v => new[s][version] = old[s][version]
    BY <1>1, <1>4, <1>7, <1>8
  <1>10. \A other \in RawSources : new[other] \in [V(other) -> [FilesOf(other) -> Bytes]]
    BY <1>2, <1>5, <1>9
  <1>11. AreFiles(new)
    BY <1>3, <1>10 DEF AreFiles, V
  <1>12. \A other \in RawSources : \A version \in V(other) : \A file \in FilesOf(other) :
             other # s \/ version # v \/ file # f =>
                 new[other][version][file] = old[other][version][file]
    BY <1>5, <1>8, <1>9
  <1> QED
    BY <1>8, <1>11, <1>12 DEF new, V

(* A raw file is written where there was none or over the same bytes. *)
LEMMA FileInstalled ==
  ASSUME AcquisitionInvariant, task.name = "install", MayStand(task.bytes),
         raw' = [raw EXCEPT ![task.source][versions[task.source]][File] = task.bytes]
  PROVE  /\ AreFiles(raw')
         /\ \A other \in RawSources : \A version \in 1 .. LastVersion[other] :
                \A file \in FilesOf(other) :
                    raw[other][version][file] # "missing"
                        => raw'[other][version][file] = raw[other][version][file]
  <1> DEFINE s == task.source
             v == versions[s]
             f == File
             bytes == task.bytes
  <1>1. /\ s \in RawSources /\ f \in FilesOf(s) /\ bytes \in Bytes
        /\ raw[s][v][f] \in {"missing", bytes}
    <2>1. s \in RawSources /\ bytes \in Bytes /\ task.step \in 1 .. Len(RawFiles[s])
      BY DEF AcquisitionInvariant, TaskInOrder, Bytes
    <2>2. task.step \in DOMAIN RawFiles[s]
      BY <2>1, AcquisitionAssumption
    <2> QED
      BY <2>1, <2>2 DEF MayStand, Existing, Installing, File, FilesOf
  <1>2. v \in 1 .. LastVersion[s]
    <2>1. /\ v \in Nat \ {0} /\ LastVersion[s] \in Nat /\ v <= LastVersion[s]
      BY <1>1, AcquisitionAssumption DEF AcquisitionInvariant, FilesThere
    <2> QED
      BY <2>1
  <1>3. AreFiles(raw)
    BY DEF AcquisitionInvariant, FilesThere
  <1>4. \E place \in RawSources : \E version \in 1 .. LastVersion[place] :
            \E file \in FilesOf(place) : \E content \in Bytes :
                /\ raw' = [raw EXCEPT ![place][version][file] = content]
                /\ raw[place][version][file] \in {"missing", content}
    BY <1>1, <1>2
  <1> HIDE DEF s, v, f, bytes
  <1>5. PICK place \in RawSources : \E version \in 1 .. LastVersion[place] :
            \E file \in FilesOf(place) : \E content \in Bytes :
                /\ raw' = [raw EXCEPT ![place][version][file] = content]
                /\ raw[place][version][file] \in {"missing", content}
    BY <1>4
  <1>6. PICK version \in 1 .. LastVersion[place], file \in FilesOf(place), content \in Bytes :
            /\ raw' = [raw EXCEPT ![place][version][file] = content]
            /\ raw[place][version][file] \in {"missing", content}
    BY <1>5
  <1> DEFINE new == WithFile(raw, place, version, file, content)
  <1>7. /\ AreFiles(new) /\ new[place][version][file] = content
        /\ \A other \in RawSources : \A of \in 1 .. LastVersion[other] :
               \A name \in FilesOf(other) :
                   other # place \/ of # version \/ name # file =>
                       new[other][of][name] = raw[other][of][name]
    BY <1>3, FileWritten
  <1>8. \A other \in RawSources : \A of \in 1 .. LastVersion[other] :
            \A name \in FilesOf(other) :
                raw[other][of][name] # "missing" => new[other][of][name] = raw[other][of][name]
    <2> HIDE DEF new
    <2> QED
      BY <1>6, <1>7
  <1>9. raw' = new
    BY <1>6 DEF WithFile
  <1> HIDE DEF new
  <1>10. AreFiles(raw')
    BY <1>7, <1>9
  <1> QED
    BY <1>8, <1>9, <1>10

LEMMA InstallInvariant ==
  ASSUME AcquisitionInvariant, InstallFile
  PROVE  AcquisitionInvariant'
  <1>1. /\ task.name = "install" /\ UNCHANGED <<versions, folders, books, bundles>>
    BY DEF InstallFile
  <1>2. CASE ~MayStand(task.bytes)
    BY <1>1, <1>2, StopInvariant DEF InstallFile
  <1>3. CASE MayStand(task.bytes)
    <2>1. /\ raw' = [raw EXCEPT ![task.source][versions[task.source]][File] = task.bytes]
          /\ task' = IF task.step = Len(RawFiles[task.source]) THEN Idle
                     ELSE [task EXCEPT !.name = "copy", !.step = @ + 1]
      BY <1>3 DEF InstallFile, Installing
    <2>2. /\ AreFiles(raw')
          /\ \A s \in RawSources : \A v \in 1 .. LastVersion[s] : \A f \in FilesOf(s) :
                 raw[s][v][f] # "missing" => raw'[s][v][f] = raw[s][v][f]
      BY <1>1, <1>3, <2>1, FileInstalled
    <2>3. FilesThere'
      BY <1>1, <2>2 DEF AcquisitionInvariant, FilesThere
    <2>4. /\ DOMAIN task = {"name", "source", "step", "bytes", "kept", "todo", "rebuild"}
          /\ task.source \in RawSources /\ task.rebuild # TRUE
          /\ task.step \in 1 .. Len(RawFiles[task.source])
          /\ task.bytes \in {"pinned"} \cup LocalFiles
      BY <1>1 DEF AcquisitionInvariant, TaskInOrder
    <2>5. TaskInOrder' /\ BuildsInOrder' /\ task'.name \in {"none", "copy"}
      <3>1. CASE task' = Idle
        <4>1. /\ task'.name = "none" /\ task'.rebuild = FALSE
              /\ DOMAIN task' = {"name", "source", "step", "bytes", "kept", "todo", "rebuild"}
          BY <3>1 DEF Idle
        <4> QED
          BY <4>1 DEF TaskInOrder, BuildsInOrder
      <3>2. CASE /\ task' = [task EXCEPT !.name = "copy", !.step = @ + 1]
                 /\ task.step # Len(RawFiles[task.source])
        <4>1. /\ task'.name = "copy" /\ task'.source = task.source
              /\ task'.step = task.step + 1
              /\ task'.bytes = task.bytes /\ task'.rebuild # TRUE
              /\ DOMAIN task' = {"name", "source", "step", "bytes", "kept", "todo", "rebuild"}
          BY <2>4, <3>2
        <4>2. Len(RawFiles[task.source]) \in Nat
          BY <2>4, AcquisitionAssumption
        <4>3. task.step + 1 \in 1 .. Len(RawFiles[task.source])
          BY <2>4, <3>2, <4>2
        <4> QED
          BY <2>4, <4>1, <4>3 DEF TaskInOrder, BuildsInOrder
      <3> QED
        BY <2>1, <3>1, <3>2
    <2>6. \A b \in BookNames : Held(b)' = Held(b)
      BY <1>1, <2>5 DEF Held
    <2>7. \A s \in RawSources : \A v \in 1 .. LastVersion[s] :
              (\A f \in FilesOf(s) : raw[s][v][f] # "missing") => raw'[s][v] = raw[s][v]
      <3> SUFFICES ASSUME NEW s \in RawSources, NEW v \in 1 .. LastVersion[s],
                          \A f \in FilesOf(s) : raw[s][v][f] # "missing"
                   PROVE  raw'[s][v] = raw[s][v]
        OBVIOUS
      <3>1. \A f \in FilesOf(s) : raw'[s][v][f] = raw[s][v][f]
        BY <2>2
      <3>2. /\ raw[s] \in [1 .. LastVersion[s] -> [FilesOf(s) -> Bytes]]
            /\ raw'[s] \in [1 .. LastVersion[s] -> [FilesOf(s) -> Bytes]]
        BY <2>2 DEF AreFiles, AcquisitionInvariant, FilesThere
      <3>3. raw[s][v] \in [FilesOf(s) -> Bytes] /\ raw'[s][v] \in [FilesOf(s) -> Bytes]
        BY <3>2
      <3> QED
        BY <3>1, <3>3
    <2>8. \A s \in RawSources : bundles[s] \in Nat /\ bundles'[s] = bundles[s]
      BY <1>1 DEF AcquisitionInvariant, FilesThere
    <2>9. \A s \in RawSources : bundles'[s] \in Nat /\ bundles[s] <= bundles'[s]
      BY <2>8
    <2>10. BooksTrue'
      BY <1>1, <2>6, <2>7, <2>9, BooksKept
    <2> QED
      BY <2>3, <2>5, <2>10 DEF AcquisitionInvariant
  <1> QED
    BY <1>2, <1>3

LEMMA StartRebuildInvariant ==
  ASSUME AcquisitionInvariant, StartRebuild
  PROVE  AcquisitionInvariant'
  <1>1. /\ task.name = "none"
        /\ task' = [Idle EXCEPT !.name = "next", !.rebuild = TRUE,
                       !.todo = {s \in RawSources : <<s, versions[s]>> \in folders}]
        /\ UNCHANGED <<versions, raw, folders, books, bundles>>
    BY DEF StartRebuild, Free
  <1>2. /\ task'.name = "next"
        /\ task'.todo = {s \in RawSources : <<s, versions[s]>> \in folders}
        /\ DOMAIN task' = {"name", "source", "step", "bytes", "kept", "todo", "rebuild"}
    BY <1>1 DEF Idle
  <1>3. TaskInOrder'
    BY <1>2 DEF TaskInOrder
  <1>4. BuildsInOrder'
    BY <1>1, <1>2 DEF BuildsInOrder
  <1>5. FilesThere'
    BY <1>1 DEF AcquisitionInvariant, FilesThere, AreFiles
  <1>6. /\ \A b \in BookNames : Held(b)' = Held(b)
        /\ \A s \in RawSources : bundles[s] \in Nat
    BY <1>1, <1>2 DEF Held, AcquisitionInvariant, FilesThere
  <1>7. \A s \in RawSources : bundles[s] <= bundles[s]
    BY <1>6
  <1>8. BooksTrue'
    BY <1>1, <1>6, <1>7, BooksKept
  <1> QED
    BY <1>3, <1>4, <1>5, <1>8 DEF AcquisitionInvariant

LEMMA NextSourceInvariant ==
  ASSUME AcquisitionInvariant, NextSource
  PROVE  AcquisitionInvariant'
  <1>1. PICK i \in DOMAIN SourceOrder :
            /\ FirstToDo(i)
            /\ IF Verified(SourceOrder[i])
               THEN /\ Screen(SourceOrder[i])
                    /\ task' = [task EXCEPT !.name = "write", !.source = SourceOrder[i],
                                            !.step = 1, !.todo = @ \ {SourceOrder[i]}]
               ELSE bundles' = bundles /\ task' = Idle
    BY DEF NextSource
  <1> DEFINE s == SourceOrder[i]
  <1>2. /\ task.name = "next" /\ UNCHANGED <<versions, raw, folders, books>>
        /\ s \in task.todo /\ s \in RawSources
    BY <1>1 DEF NextSource, FirstToDo, RawSources
  <1>3. CASE ~Verified(s)
    BY <1>1, <1>2, <1>3, StopInvariant
  <1>4. CASE Verified(s)
    <2>1. /\ Screen(s)
          /\ task' = [task EXCEPT !.name = "write", !.source = s, !.step = 1, !.todo = @ \ {s}]
      BY <1>1, <1>4
    <2>2. /\ DOMAIN task = {"name", "source", "step", "bytes", "kept", "todo", "rebuild"}
          /\ task.todo \subseteq RawSources
      BY <1>2 DEF AcquisitionInvariant, TaskInOrder
    <2> HIDE DEF s
    <2>3. /\ task'.name = "write" /\ task'.source = s /\ task'.step = 1
          /\ task'.todo = task.todo \ {s}
          /\ DOMAIN task' = {"name", "source", "step", "bytes", "kept", "todo", "rebuild"}
      BY <2>1, <2>2
    <2>4. /\ FilesThere' /\ bundles'[s] = versions[s]
          /\ \A other \in RawSources :
                 bundles'[other] \in Nat /\ bundles[other] <= bundles'[other]
      BY <1>2, <2>1, ScreenFacts
    <2>5. Verified(s)'
      BY <1>2, <1>4 DEF Verified
    <2>6. 1 \in 1 .. 5 /\ \A j \in 1 .. 5 : ~(j < 1)
      OBVIOUS
    <2>7. TaskInOrder'
      BY <1>2, <2>2, <2>3, <2>4, <2>5, <2>6 DEF TaskInOrder
    <2>8. \A b \in BookNames : Held(b)' = Held(b)
      BY <1>2, <2>3 DEF Held
    <2>9. BooksTrue'
      BY <1>2, <2>4, <2>8, BooksKept
    <2>10. \A other \in RawSources :
               <<other, versions'[other]>> \in folders' =>
                   \/ other \in task'.todo
                   \/ task'.name \in {"write", "rows"} /\ other = task'.source
                   \/ \A b \in BookNames : Held(b)'[other] = Row(other, versions[other])'
      <3> SUFFICES ASSUME NEW other \in RawSources, <<other, versions[other]>> \in folders,
                          other \notin task'.todo, other # s
                   PROVE  \A b \in BookNames : Held(b)'[other] = Row(other, versions[other])'
        BY <1>2, <2>3
      <3>1. \A b \in BookNames : Held(b)[other] = Row(other, versions[other])
        BY <1>2, <2>3 DEF AcquisitionInvariant, BuildsInOrder
      <3>2. Row(other, versions[other])' = Row(other, versions[other])
        BY <1>2 DEF Row
      <3> HIDE DEF Held
      <3> QED
        BY <2>8, <3>1, <3>2
    <2>11. BuildsInOrder'
      BY <2>3, <2>6, <2>10 DEF BuildsInOrder
    <2> QED
      BY <2>4, <2>7, <2>9, <2>11 DEF AcquisitionInvariant
  <1> QED
    BY <1>3, <1>4

LEMMA OpenInvariant ==
  ASSUME AcquisitionInvariant, OpenCsv
  PROVE  AcquisitionInvariant'
  <1>1. /\ task.name = "write" /\ Book \in Csv
        /\ books' = [books EXCEPT ![Book] = [s \in RawSources |-> NoBookRow]]
        /\ task' = [task EXCEPT !.name = "rows", !.kept = books[Book]]
        /\ UNCHANGED <<versions, raw, folders, partials, bundles>>
    BY DEF OpenCsv
  <1>2. /\ DOMAIN task = {"name", "source", "step", "bytes", "kept", "todo", "rebuild"}
        /\ task.source \in RawSources /\ task.step \in 1 .. 5
        /\ Verified(task.source) /\ bundles[task.source] = versions[task.source]
        /\ task.rebuild = TRUE => task.todo \subseteq RawSources
    BY <1>1 DEF AcquisitionInvariant, TaskInOrder
  <1>3. /\ task'.name = "rows" /\ task'.source = task.source /\ task'.step = task.step
        /\ task'.kept = books[Book] /\ task'.todo = task.todo /\ task'.rebuild = task.rebuild
        /\ DOMAIN task' = {"name", "source", "step", "bytes", "kept", "todo", "rebuild"}
    BY <1>1, <1>2
  <1>4. Book' = Book /\ Book \in BookNames /\ Book = Books[task.step]
    BY <1>1, <1>3, BookFacts DEF Book
  <1>5. /\ DOMAIN books = BookNames
        /\ \A b \in BookNames : DOMAIN books[b] = RawSources
    BY DEF AcquisitionInvariant, BooksTrue
  <1>6. /\ DOMAIN books' = BookNames
        /\ books'[Book] = [s \in RawSources |-> NoBookRow]
        /\ \A b \in BookNames : b # Book => books'[b] = books[b]
    BY <1>1, <1>4, <1>5
  <1>7. FilesThere'
    BY <1>1 DEF AcquisitionInvariant, FilesThere, AreFiles
  <1>8. Verified(task.source)'
    BY <1>1, <1>2, <1>3 DEF Verified
  <1>9. TaskInOrder'
    BY <1>1, <1>2, <1>3, <1>4, <1>5, <1>6, <1>8 DEF TaskInOrder
  <1>10. \A b \in BookNames : Held(b)' = Held(b)
    BY <1>1, <1>3, <1>4, <1>6 DEF Held
  <1>11. \A s, v : Row(s, v)' = Row(s, v)
    BY <1>1 DEF Row
  <1>12. BooksTrue'
    <2>1. \A s : \A row : TrueRow(s, row)' <=> TrueRow(s, row)
      BY <1>11 DEF TrueRow
    <2>2. \A b \in BookNames, s \in RawSources :
              Held(b)'[s] = NoBookRow \/ TrueRow(s, Held(b)[s])'
      BY <1>10, <2>1 DEF AcquisitionInvariant, BooksTrue
    <2>3. "privacy status" \in BookNames
      BY BookFacts
    <2>4. \A s \in RawSources : Held("privacy status")'[s].version <= bundles[s]
      BY <1>10, <2>3 DEF AcquisitionInvariant, BooksTrue
    <2>5. \A b \in BookNames : DOMAIN books'[b] = RawSources
      BY <1>5, <1>6
    <2> QED
      BY <1>1, <1>6, <2>2, <2>4, <2>5 DEF BooksTrue
  <1>13. BuildsInOrder'
    <2>1. \A i \in 1 .. 5 : i < task.step => Books[i] # Book
      <3>1. \A i \in 1 .. 5 : i < task.step => i # task.step
        BY <1>2
      <3>2. \A i \in 1 .. 5 : Books[i] = Books[task.step] => i = task.step
        BY <1>2, BookInjective
      <3> QED
        BY <1>4, <3>1, <3>2
    <2>2. \A i \in 1 .. 5 : i < task.step =>
              books'[Books[i]][task.source] = Row(task.source, versions[task.source])
      BY <1>1, <1>6, <2>1, BookFacts DEF AcquisitionInvariant, BuildsInOrder
    <2>3. task.rebuild = TRUE =>
              \A s \in RawSources :
                  <<s, versions[s]>> \in folders =>
                      \/ s \in task.todo
                      \/ s = task.source
                      \/ \A b \in BookNames : Held(b)'[s] = Row(s, versions[s])
      BY <1>1, <1>10 DEF AcquisitionInvariant, BuildsInOrder
    <2>4. Row(task.source, versions[task.source])' = Row(task.source, versions[task.source])
      BY <1>1, <1>3, <1>11 DEF Row
    <2>5. \A s : Row(s, versions[s])' = Row(s, versions[s])
      BY <1>1 DEF Row
    <2> HIDE DEF Row
    <2> QED
      BY <1>1, <1>3, <2>2, <2>3, <2>4, <2>5 DEF BuildsInOrder
  <1> QED
    BY <1>7, <1>9, <1>12, <1>13 DEF AcquisitionInvariant

LEMMA WriteBookFacts ==
  ASSUME AcquisitionInvariant, WriteBook
  PROVE  /\ UNCHANGED <<versions, raw, folders, partials, bundles>>
         /\ task.name \in {"write", "rows"} /\ task' = AfterBook
         /\ Book = Books[task.step] /\ Book \in BookNames
         /\ DOMAIN books' = BookNames
         /\ \A b \in BookNames : DOMAIN books'[b] = RawSources
         /\ books'[Book][task.source] = Row(task.source, versions[task.source])
         /\ \A b \in BookNames, s \in RawSources :
                b # Book \/ s # task.source => books'[b][s] = Held(b)[s]
         /\ \A b \in BookNames : b # Book => books'[b] = books[b]
  <1>1. /\ UNCHANGED <<versions, raw, folders, partials, bundles>> /\ task' = AfterBook
        /\ \/ task.name = "write" /\ Book \notin Csv
           \/ task.name = "rows"
    BY DEF WriteBook
  <1>2. task.source \in RawSources /\ task.step \in 1 .. 5 /\ (task.name = "rows" => Book \in Csv)
    BY <1>1 DEF AcquisitionInvariant, TaskInOrder
  <1>3. Book = Books[task.step] /\ Book \in BookNames
    BY <1>2, BookFacts DEF Book
  <1>4. /\ DOMAIN books = BookNames
        /\ \A b \in BookNames : DOMAIN books[b] = RawSources
        /\ task.name = "rows" => DOMAIN task.kept = RawSources
    BY DEF AcquisitionInvariant, BooksTrue, TaskInOrder
  <1>5. /\ (IF Book \in Csv THEN task.kept ELSE books[Book]) = Held(Book)
        /\ \A b \in BookNames : b # Book => Held(b) = books[b]
        /\ DOMAIN Held(Book) = RawSources
    BY <1>1, <1>2, <1>3, <1>4 DEF Held
  <1>6. RowOf(task.source) = Row(task.source, versions[task.source])
    <2>1. CASE Book # "raw files"
      BY <2>1 DEF RowOf
    <2>2. CASE Book = "raw files"
      <3>1. task.step = 5
        <4>1. Books[5] = "raw files"
          BY BookFacts
        <4>2. 5 \in 1 .. 5
          OBVIOUS
        <4>3. Books[5] = Books[task.step]
          BY <1>3, <2>2, <4>1
        <4> QED
          BY <1>2, <4>2, <4>3, BookInjective
      <3>2. books[Books[1]][task.source] = Row(task.source, versions[task.source])
        BY <1>1, <3>1 DEF AcquisitionInvariant, BuildsInOrder
      <3>3. books["lock"][task.source].version = versions[task.source]
        <4>1. Books[1] = "lock"
          BY BookFacts
        <4> QED
          BY <3>2, <4>1, RowFacts
      <3> QED
        BY <2>2, <3>3 DEF RowOf, Row
    <2> QED
      BY <2>1, <2>2
  <1> DEFINE newRows == [[Held(Book) EXCEPT ![task.source] = NoBookRow]
                         EXCEPT ![task.source] = Row(task.source, versions[task.source])]
  <1>7. books' = [books EXCEPT ![Book] = newRows]
    BY <1>5, <1>6 DEF WriteBook, Others
  <1> HIDE DEF Held
  <1>8. /\ DOMAIN newRows = RawSources
        /\ newRows[task.source] = Row(task.source, versions[task.source])
        /\ \A s \in RawSources : s # task.source => newRows[s] = Held(Book)[s]
    BY <1>2, <1>5
  <1> HIDE DEF newRows
  <1>9. /\ DOMAIN books' = BookNames /\ books'[Book] = newRows
        /\ \A b \in BookNames : b # Book => books'[b] = books[b]
    BY <1>3, <1>4, <1>7
  <1> QED
    BY <1>1, <1>3, <1>4, <1>5, <1>8, <1>9

LEMMA WriteInvariant ==
  ASSUME AcquisitionInvariant, WriteBook
  PROVE  AcquisitionInvariant'
  <1>1. /\ DOMAIN task = {"name", "source", "step", "bytes", "kept", "todo", "rebuild"}
        /\ task.source \in RawSources /\ task.step \in 1 .. 5
        /\ Verified(task.source) /\ bundles[task.source] = versions[task.source]
        /\ (task.rebuild = TRUE => task.todo \subseteq RawSources)
    BY WriteBookFacts DEF AcquisitionInvariant, TaskInOrder
  <1>2. /\ UNCHANGED <<versions, raw, folders, partials, bundles>>
        /\ Book = Books[task.step] /\ Book \in BookNames
    BY WriteBookFacts
  <1>3. FilesThere'
    BY <1>2 DEF AcquisitionInvariant, FilesThere, AreFiles
  <1>4. /\ task'.name \in {"write", "next", "built"}
        /\ task'.source = task.source /\ task'.todo = task.todo
        /\ task'.rebuild = task.rebuild
        /\ DOMAIN task' = {"name", "source", "step", "bytes", "kept", "todo", "rebuild"}
        /\ task'.name = "write" => task'.step = task.step + 1 /\ task.step < 5
        /\ task'.name # "write" => ~(task.step < 5)
        /\ task'.name = "next" => task.rebuild = TRUE
        /\ task'.name = "built" => task.rebuild # TRUE
    <2>1. task' = AfterBook /\ Len(Books) = 5
      BY WriteBookFacts, BookFacts
    <2>2. CASE task.step < 5
      <3>1. task' = [task EXCEPT !.name = "write", !.step = @ + 1, !.kept = <<>>]
        BY <2>1, <2>2 DEF AfterBook
      <3> QED
        BY <1>1, <2>2, <3>1
    <2>3. CASE ~(task.step < 5)
      <3>1. task' = [task EXCEPT !.name = IF task.rebuild THEN "next" ELSE "built",
                                 !.step = 0, !.kept = <<>>]
        BY <2>1, <2>3 DEF AfterBook
      <3>2. /\ task'.name = IF task.rebuild THEN "next" ELSE "built"
            /\ task'.source = task.source /\ task'.todo = task.todo
            /\ task'.rebuild = task.rebuild
            /\ DOMAIN task' = {"name", "source", "step", "bytes", "kept", "todo", "rebuild"}
        BY <1>1, <3>1
      <3> QED
        BY <2>3, <3>2
    <2> QED
      BY <2>2, <2>3
  <1>5. \A b \in BookNames : Held(b)' = books'[b]
    BY <1>4 DEF Held
  <1>6. \A s, v : Row(s, v)' = Row(s, v)
    BY <1>2 DEF Row
  <1>7. /\ books'[Book][task.source] = Row(task.source, versions[task.source])
        /\ \A b \in BookNames, s \in RawSources :
               b # Book \/ s # task.source => books'[b][s] = Held(b)[s]
        /\ \A b \in BookNames : b # Book => books'[b] = books[b]
    BY WriteBookFacts
  <1>8. TaskInOrder'
    <2>1. Verified(task.source)'
      BY <1>1, <1>2, <1>4 DEF Verified
    <2>2. task.step < 5 => task.step + 1 \in 1 .. 5
      BY <1>1
    <2>3. task'.name = "write" => task'.step \in 1 .. 5
      BY <1>4, <2>2
    <2> QED
      BY <1>1, <1>2, <1>4, <2>1, <2>3 DEF TaskInOrder
  <1>9. BooksTrue'
    <2>1. \A s : \A row : TrueRow(s, row)' <=> TrueRow(s, row)
      BY <1>6 DEF TrueRow
    <2>2. TrueRow(task.source, Row(task.source, versions[task.source]))
      <3> DEFINE s == task.source
                 v == versions[task.source]
      <3>1. v \in 1 .. LastVersion[s]
        <4>1. v \in Nat \ {0} /\ LastVersion[s] \in Nat /\ v <= LastVersion[s]
          BY <1>1, AcquisitionAssumption DEF AcquisitionInvariant, FilesThere
        <4> QED
          BY <4>1
      <3>2. Row(s, v).version = v /\ Row(s, v).bytes = raw[s][v]
        BY RowFacts
      <3>3. \A f \in FilesOf(s) : Fits(f, raw[s][v][f])
        BY <1>1 DEF Verified
      <3> QED
        BY <3>1, <3>2, <3>3 DEF TrueRow
    <2>3. \A b \in BookNames, s \in RawSources :
              books'[b][s] = NoBookRow \/ TrueRow(s, books'[b][s])
      BY <1>7, <2>2 DEF AcquisitionInvariant, BooksTrue
    <2>4. \A s \in RawSources : books'["privacy status"][s].version <= bundles[s]
      <3>1. "privacy status" \in BookNames
        BY BookFacts
      <3>2. \A s \in RawSources : Held("privacy status")[s].version <= bundles[s]
        BY DEF AcquisitionInvariant, BooksTrue
      <3>3. books'["privacy status"][task.source] = Held("privacy status")[task.source]
            \/ books'["privacy status"][task.source].version = bundles[task.source]
        <4>1. CASE Book = "privacy status"
          <5>1. books'[Book][task.source].version = versions[task.source]
            BY <1>7, RowFacts
          <5> QED
            BY <1>1, <4>1, <5>1
        <4>2. CASE Book # "privacy status"
          BY <1>1, <1>7, <3>1, <4>2
        <4> QED
          BY <4>1, <4>2
      <3>4. bundles[task.source] \in Nat
        BY <1>1 DEF AcquisitionInvariant, FilesThere
      <3>5. bundles[task.source] <= bundles[task.source]
        BY <3>4
      <3> HIDE DEF Held
      <3>6. books'["privacy status"][task.source].version <= bundles[task.source]
        BY <1>1, <3>2, <3>3, <3>5
      <3> QED
        BY <1>7, <3>1, <3>2, <3>6
    <2>5. DOMAIN books' = BookNames /\ \A b \in BookNames : DOMAIN books'[b] = RawSources
      BY WriteBookFacts
    <2>6. \A b \in BookNames, s \in RawSources :
              Held(b)'[s] = NoBookRow \/ TrueRow(s, Held(b)[s])'
      BY <1>5, <2>1, <2>3
    <2>7. \A s \in RawSources : Held("privacy status")'[s].version <= bundles'[s]
      BY <1>2, <1>5, <2>4, BookFacts
    <2> QED
      BY <2>5, <2>6, <2>7 DEF BooksTrue
  <1>10. BuildsInOrder'
    <2>1. \A i \in 1 .. 5 :
              i <= task.step =>
                  books'[Books[i]][task.source] = Row(task.source, versions[task.source])
      <3> SUFFICES ASSUME NEW i \in 1 .. 5, i <= task.step
                   PROVE  books'[Books[i]][task.source]
                              = Row(task.source, versions[task.source])
        OBVIOUS
      <3>1. CASE i = task.step
        BY <1>2, <1>7, <3>1
      <3>2. CASE i < task.step
        <4>1. Books[i] # Book
          <5>1. i # task.step
            BY <1>1, <3>2
          <5> QED
            BY <1>1, <1>2, <5>1, BookInjective
        <4>2. Books[i] \in BookNames
          BY BookFacts
        <4>3. books[Books[i]][task.source] = Row(task.source, versions[task.source])
          BY <3>2, WriteBookFacts DEF AcquisitionInvariant, BuildsInOrder
        <4> QED
          BY <1>7, <4>1, <4>2, <4>3
      <3>3. i = task.step \/ i < task.step
        BY <1>1
      <3> QED
        BY <3>1, <3>2, <3>3
    <2>2. task'.name = "write" =>
              \A i \in 1 .. 5 :
                  i < task'.step =>
                      books'[Books[i]][task.source] = Row(task.source, versions[task.source])
      <3>1. \A i \in 1 .. 5 : i < task.step + 1 => i <= task.step
        BY <1>1
      <3> QED
        BY <1>4, <2>1, <3>1
    <2>3. task'.name # "write" =>
              \A b \in BookNames :
                  books'[b][task.source] = Row(task.source, versions[task.source])
      <3>1. ~(task.step < 5) => \A i \in 1 .. 5 : i <= task.step
        BY <1>1
      <3>2. \A b \in BookNames : \E i \in 1 .. 5 : b = Books[i]
        BY BookFacts
      <3> QED
        BY <1>4, <2>1, <3>1, <3>2
    <2>4. task'.name = "built" => Agree(task.source)'
      <3>1. DOMAIN books' = BookNames
        BY WriteBookFacts
      <3> QED
        BY <1>2, <1>4, <1>6, <2>3, <3>1 DEF Agree
    <2>5. ASSUME task.rebuild = TRUE, NEW s \in RawSources, <<s, versions[s]>> \in folders
          PROVE  \/ s \in task.todo
                 \/ task'.name \in {"write", "rows"} /\ s = task.source
                 \/ \A b \in BookNames : Held(b)'[s] = Row(s, versions[s])
      <3>1. CASE s = task.source
        BY <1>4, <1>5, <2>3, <3>1
      <3>2. CASE s # task.source /\ s \notin task.todo
        <4>1. \A b \in BookNames : Held(b)[s] = Row(s, versions[s])
          BY <2>5, <3>2 DEF AcquisitionInvariant, BuildsInOrder
        <4> HIDE DEF Held
        <4> QED
          BY <1>5, <1>7, <3>2, <4>1
      <3> QED
        BY <3>1, <3>2
    <2>6. \A s : Row(s, versions[s])' = Row(s, versions[s])
      BY <1>2 DEF Row
    <2>7. Row(task.source, versions[task.source])' = Row(task.source, versions[task.source])
      BY <1>2, <1>4 DEF Row
    <2> HIDE DEF Row
    <2> QED
      BY <1>2, <1>4, <2>2, <2>4, <2>5, <2>6, <2>7 DEF BuildsInOrder
  <1> QED
    BY <1>3, <1>8, <1>9, <1>10 DEF AcquisitionInvariant

LEMMA NextAcquisition ==
    AcquisitionInvariant /\ [AcquisitionNext]_acquisitionVars => AcquisitionInvariant'
  <1> SUFFICES ASSUME AcquisitionInvariant, [AcquisitionNext]_acquisitionVars
               PROVE  AcquisitionInvariant'
    OBVIOUS
  <1>1. CASE UNCHANGED acquisitionVars
    <2>1. /\ UNCHANGED <<versions, raw, folders, books, bundles, task>>
      BY <1>1 DEF acquisitionVars
    <2>2. FilesThere' /\ BuildsInOrder'
      BY <2>1 DEF AcquisitionInvariant, FilesThere, AreFiles, BuildsInOrder, Agree, Row, Held,
                  Book
    <2>3. TaskInOrder'
      BY <2>1 DEF AcquisitionInvariant, TaskInOrder, Verified, Book
    <2>4. \A b \in BookNames : Held(b)' = Held(b)
      BY <2>1 DEF Held, Book
    <2>5. \A s \in RawSources : \A row : TrueRow(s, row)' <=> TrueRow(s, row)
      BY <2>1 DEF TrueRow, Row
    <2>6. "privacy status" \in BookNames
      BY BookFacts
    <2>7. BooksTrue'
      BY <2>1, <2>4, <2>5, <2>6 DEF AcquisitionInvariant, BooksTrue
    <2> QED
      BY <2>2, <2>3, <2>7 DEF AcquisitionInvariant
  <1>2. CASE \E s \in RawSources : PinVersion(s) \/ Audit(s) \/ StartBuild(s)
    BY <1>2, PinInvariant, AuditInvariant, StartBuildInOrder
  <1>3. CASE \E s \in RawSources, bytes \in {"pinned"} \cup LocalFiles : StartInstall(s, bytes)
    BY <1>3, StartInstallInvariant
  <1>4. CASE CopyPartial
    BY <1>4, CopyInvariant
  <1>5. CASE InstallFile
    BY <1>5, InstallInvariant
  <1>6. CASE StartRebuild
    BY <1>6, StartRebuildInvariant
  <1>7. CASE NextSource
    BY <1>7, NextSourceInvariant
  <1>8. CASE OpenCsv
    BY <1>8, OpenInvariant
  <1>9. CASE WriteBook
    BY <1>9, WriteInvariant
  <1>10. CASE DownloadFails \/ EndRebuild \/ EndBuild \/ TaskDies
    BY <1>10, StopInvariant DEF DownloadFails, EndRebuild, EndBuild, TaskDies
  <1> QED
    BY <1>1, <1>2, <1>3, <1>4, <1>5, <1>6, <1>7, <1>8, <1>9, <1>10 DEF AcquisitionNext

LEMMA AcquisitionInvariantHolds == AcquisitionSpec => []AcquisitionInvariant
  BY InitAcquisition, NextAcquisition, PTL DEF AcquisitionSpec

LEMMA AcquisitionImplications ==
  ASSUME AcquisitionInvariant
  PROVE  AcquisitionTypeOK /\ RowsAreTrue /\ BuildsAgree
  <1>1. DOMAIN books = BookNames
    BY DEF AcquisitionInvariant, BooksTrue
  <1>2. \A b \in BookNames, s \in RawSources :
            books[b][s] = NoBookRow \/ TrueRow(s, books[b][s])
    BY DEF AcquisitionInvariant, BooksTrue, TaskInOrder, Held
  <1>3. AcquisitionTypeOK
    <2>1. \A b \in BookNames, s \in RawSources : books[b][s].version \in 0 .. LastVersion[s]
      <3>1. \A s \in RawSources : LastVersion[s] \in Nat
        BY AcquisitionAssumption
      <3>2. \A s \in RawSources : 0 \in 0 .. LastVersion[s]
                                  /\ 1 .. LastVersion[s] \subseteq 0 .. LastVersion[s]
        BY <3>1
      <3>3. \A b \in BookNames, s \in RawSources :
                books[b][s].version = 0 \/ books[b][s].version \in 1 .. LastVersion[s]
        BY <1>2, NoRowFact DEF TrueRow
      <3> QED
        BY <3>2, <3>3
    <2>2. \A s \in RawSources : \A v \in DOMAIN raw[s], f \in FilesOf(s) : raw[s][v][f] \in Bytes
      <3>1. \A s \in RawSources : raw[s] \in [1 .. LastVersion[s] -> [FilesOf(s) -> Bytes]]
        BY DEF AcquisitionInvariant, FilesThere, AreFiles
      <3>2. \A s \in RawSources : \A v \in DOMAIN raw[s] : raw[s][v] \in [FilesOf(s) -> Bytes]
        BY <3>1
      <3> QED
        BY <3>2
    <2> QED
      BY <1>1, <2>1, <2>2 DEF AcquisitionInvariant, FilesThere, TaskInOrder, AcquisitionTypeOK
  <1>4. RowsAreTrue
    <2>1. \A s \in RawSources : books["privacy status"][s].version <= bundles[s]
      <3>1. "privacy status" \in BookNames
        BY BookFacts
      <3>2. \A s \in RawSources : \/ books["privacy status"][s] = Held("privacy status")[s]
                                  \/ books["privacy status"][s] = NoBookRow
        <4>1. CASE task.name = "rows" /\ "privacy status" = Book
          BY <4>1 DEF AcquisitionInvariant, TaskInOrder
        <4>2. CASE ~(task.name = "rows" /\ "privacy status" = Book)
          BY <4>2 DEF Held
        <4> QED
          BY <4>1, <4>2
      <3>3. \A s \in RawSources : bundles[s] \in Nat
        BY DEF AcquisitionInvariant, FilesThere
      <3>4. \A s \in RawSources : 0 <= bundles[s]
        BY <3>3
      <3>5. \A s \in RawSources : Held("privacy status")[s].version <= bundles[s]
        BY DEF AcquisitionInvariant, BooksTrue
      <3> HIDE DEF Held
      <3> QED
        BY <3>2, <3>4, <3>5, NoRowFact
    <2> QED
      BY <1>1, <1>2, <2>1 DEF RowsAreTrue, TrueRow
  <1>5. BuildsAgree
    <2>1. task.name = "next" => \A b \in BookNames : Held(b) = books[b]
      BY DEF Held
    <2>2. task.name = "next" /\ task.todo = {} =>
              \A s \in RawSources :
                  <<s, versions[s]>> \in folders =>
                      \A b \in BookNames : books[b][s] = Row(s, versions[s])
      BY <2>1 DEF AcquisitionInvariant, BuildsInOrder
    <2> QED
      BY <1>1, <2>2 DEF BuildsAgree, Agree, AcquisitionInvariant, BuildsInOrder
  <1> QED
    BY <1>3, <1>4, <1>5

LEMMA StepRawStays ==
  ASSUME AcquisitionInvariant, AcquisitionNext
  PROVE  RawStays
  <1>1. AreFiles(raw)
    BY DEF AcquisitionInvariant, FilesThere
  <1>2. CASE InstallFile /\ MayStand(task.bytes)
    <2>1. /\ task.name = "install"
          /\ raw' = [raw EXCEPT ![task.source][versions[task.source]][File] = task.bytes]
      BY <1>2 DEF InstallFile, Installing
    <2>2. \A s \in RawSources : \A v \in 1 .. LastVersion[s] : \A f \in FilesOf(s) :
              raw[s][v][f] # "missing" => raw'[s][v][f] = raw[s][v][f]
      BY <1>2, <2>1, FileInstalled
    <2>3. \A s \in RawSources : DOMAIN raw[s] = 1 .. LastVersion[s]
      BY <1>1 DEF AreFiles
    <2> QED
      BY <2>2, <2>3 DEF RawStays
  <1>3. CASE ~(InstallFile /\ MayStand(task.bytes))
    <2>1. raw' = raw
      BY <1>3 DEF AcquisitionNext, PinVersion, Audit, StartBuild, StartInstall, CopyPartial,
                  DownloadFails, InstallFile, StartRebuild, NextSource, EndRebuild, OpenCsv,
                  WriteBook, EndBuild, TaskDies
    <2> QED
      BY <2>1 DEF RawStays
  <1> QED
    BY <1>2, <1>3

LEMMA StepRowsStay ==
  ASSUME AcquisitionInvariant, AcquisitionNext
  PROVE  RowsStay
  <1>1. DOMAIN books = BookNames
    BY DEF AcquisitionInvariant, BooksTrue
  <1>2. CASE WriteBook
    <2>1. /\ books'[Book][task.source] = Row(task.source, versions[task.source])
          /\ \A b \in BookNames, s \in RawSources :
                 b # Book \/ s # task.source => books'[b][s] = Held(b)[s]
          /\ task.name \in {"write", "rows"}
      BY <1>2, WriteBookFacts
    <2>2. versions[task.source] # 0
      BY <2>1 DEF AcquisitionInvariant, FilesThere, TaskInOrder
    <2>3. books'[Book][task.source] # NoBookRow
      BY <2>1, <2>2, RowFacts
    <2>4. \A b \in BookNames, s \in RawSources :
              books[b][s] # NoBookRow => Held(b)[s] = books[b][s]
      BY DEF AcquisitionInvariant, TaskInOrder, Held
    <2> HIDE DEF Held
    <2> QED
      BY <1>1, <2>1, <2>3, <2>4 DEF RowsStay
  <1>3. CASE OpenCsv
    <2>1. /\ Book \in Csv /\ task' = [task EXCEPT !.name = "rows", !.kept = books[Book]]
          /\ books' = [books EXCEPT ![Book] = [s \in RawSources |-> NoBookRow]]
      BY <1>3 DEF OpenCsv
    <2>2. task'.kept = books[Book]
      BY <2>1 DEF AcquisitionInvariant, TaskInOrder
    <2>3. \A b \in BookNames : b # Book => books'[b] = books[b]
      BY <1>1, <2>1
    <2> QED
      BY <1>1, <2>1, <2>2, <2>3 DEF RowsStay
  <1>4. CASE ~WriteBook /\ ~OpenCsv
    <2>1. books' = books
      BY <1>4 DEF AcquisitionNext, PinVersion, Audit, StartBuild, StartInstall, CopyPartial,
                  DownloadFails, InstallFile, StartRebuild, NextSource, EndRebuild, EndBuild,
                  TaskDies
    <2> QED
      BY <2>1 DEF RowsStay
  <1> QED
    BY <1>2, <1>3, <1>4

(* Every row of every manifest is of the bytes installed under the version *)
(* it names, builds and rebuilds leave the five in agreement, a raw file is*)
(* never changed and a row is lost only by the writing of its CSV          *)
(* (build_manifests, rebuild_auto, copy_immutable), for any sources, files *)
(* and versions.                                                           *)
THEOREM AcquisitionSound == AcquisitionSpec => AcquisitionIsSound
  <1>1. AcquisitionInvariant /\ [AcquisitionNext]_acquisitionVars
            => [RawStays /\ RowsStay]_acquisitionVars
    BY StepRawStays, StepRowsStay
  <1>2. AcquisitionInvariant => RowsAreTrue /\ BuildsAgree
    BY AcquisitionImplications
  <1> QED
    BY <1>1, <1>2, AcquisitionInvariantHolds, PTL DEF AcquisitionSpec, AcquisitionIsSound

THEOREM AcquisitionTypeCorrect == AcquisitionSpec => []AcquisitionTypeOK
  BY AcquisitionInvariantHolds, AcquisitionImplications, PTL

(***************************************************************************)
(* The three together: a behaviour of the whole is one of each.            *)
(***************************************************************************)
LEMMA PipelineIsEach == PipelineSpec => Spec /\ AcquisitionSpec /\ CorpusSpec
  <1>1. PipelineInit => Init /\ AcquisitionInit /\ CorpusInit
    BY DEF PipelineInit
  <1>2. [PipelineNext]_pipelineVars
            => [Next]_vars /\ [AcquisitionNext]_acquisitionVars /\ [CorpusNext]_corpusVars
    BY DEF PipelineNext, pipelineVars
  <1> QED
    BY <1>1, <1>2, PTL DEF PipelineSpec, Spec, AcquisitionSpec, CorpusSpec

(* The files and commands of the three have their types, together.         *)
THEOREM PipelineTypesCorrect == PipelineSpec => []TypesOK
  <1>1. TypeOK /\ AcquisitionTypeOK /\ CorpusTypeOK => TypesOK
    BY DEF TypesOK
  <1> QED
    BY <1>1, PipelineIsEach, TypeCorrect, AcquisitionTypeCorrect, CorpusTypeCorrect, PTL
=============================================================================
