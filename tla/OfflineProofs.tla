---------------------------- MODULE OfflineProofs ----------------------------
(***************************************************************************)
(* Theorems of the offline commands: DenseCache, RetrievalBaselines,       *)
(* EvaluationRelease, DiagnosticReview and DiagnosticExperiments, each for *)
(* any values of its constants, and of MCOffline, where they are together. *)
(***************************************************************************)
EXTENDS MCOffline, ChunkingProofs

(***************************************************************************)
(* DenseCache: for any number of blocks, settings, batch sizes, runs and   *)
(* damaged files.                                                          *)
(***************************************************************************)
Combining == {"listing", "describing", "finishing"}

(* A running process has settled on the manifest's settings, and inside a  *)
(* block it is at that block.                                              *)
AtItsBlock ==
    /\ step # "idle" => manifest.settings \in Settings
    /\ step \in {"naming", "certifying", "counting"} => at \in Blocks

(* The block being written was encoded by this process: it is whole, and   *)
(* under the manifest's settings, when its digest is taken.                *)
BlockWritten ==
    step \in {"naming", "certifying"} =>
        blocks[at] \in [settings : {manifest.settings}, batch : Batches]

(* The combined vectors are one encoding from the moment they are written, *)
(* whichever of the other two files is already there.                      *)
CombinedWhole ==
    step \in Combining \/ metadata =>
        \E chosen \in Settings : \A b \in Blocks : vectors[b] \in [settings : {chosen}, batch : Batches]

(* The three files are there in the order they are written in. *)
FilesInOrder ==
    /\ step \in {"describing", "finishing"} => ids
    /\ step = "finishing" => metadata
    /\ metadata => ids

IInv ==
    /\ TypeOK
    /\ AtItsBlock
    /\ BlockWritten
    /\ CertifiedUnderManifest
    /\ CombinedWhole
    /\ FilesInOrder
    /\ CompleteIsLoadable

(* What the manifest vouches for is an encoding, never a damaged file. *)
LEMMA ValidIsEncoded ==
    ASSUME TypeOK, CertifiedUnderManifest, NEW b \in Blocks, Valid(b)
    PROVE  blocks[b] \in [settings : {manifest.settings}, batch : Batches]
  <1>1. manifest.digests[b] \in Encoded
    BY DEF TypeOK, Valid
  <1>2. blocks[b] = manifest.digests[b] /\ manifest.digests[b].settings = manifest.settings
    BY DEF Valid, Digest, CertifiedUnderManifest
  <1> QED  BY <1>1, <1>2 DEF Encoded

LEMMA InvariantInit == Init => IInv
  <1> SUFFICES ASSUME Init PROVE IInv
    OBVIOUS
  <1> USE CacheAssumption
  <1>1. BatchSize \in Batches
    BY DEF Batches
  <1>2. NoVectors \in [Blocks -> Files] /\ NoVectors \in [Blocks -> Encoded \cup {Absent}]
    BY DEF NoVectors, Files
  <1>3. vectors \in [Blocks -> Files] /\ ids \in BOOLEAN /\ metadata \in BOOLEAN
    <2>1. \A chosen \in Settings : [settings |-> chosen, batch |-> BatchSize] \in Files
      BY <1>1 DEF Files, Encoded
    <2> QED  BY <1>2, <2>1 DEF Init
  <1>4. TypeOK
    <2>1. manifest \in [settings : Settings \cup {"none"}, digests : [Blocks -> Encoded \cup {Absent}]]
      BY <1>2 DEF Init, NoManifest
    <2>2. at \in 1..(BlockCount + 1) /\ damages \in 0..MaxDamages
      BY DEF Init
    <2> QED  BY <1>1, <1>2, <1>3, <2>1, <2>2 DEF Init, TypeOK, Steps
  <1>5. CombinedWhole
    <2>1. ASSUME NEW chosen \in Settings, vectors = [b \in Blocks |-> [settings |-> chosen, batch |-> BatchSize]]
          PROVE  \A b \in Blocks : vectors[b] \in [settings : {chosen}, batch : Batches]
      BY <1>1, <2>1
    <2> QED  BY <2>1 DEF Init, CombinedWhole, Combining
  <1>6. AtItsBlock /\ BlockWritten /\ FilesInOrder /\ CompleteIsLoadable
    BY DEF Init, AtItsBlock, BlockWritten, FilesInOrder, CompleteIsLoadable
  <1>7. CertifiedUnderManifest
    BY DEF Init, NoManifest, NoVectors, CertifiedUnderManifest
  <1> QED  BY <1>4, <1>5, <1>6, <1>7 DEF IInv

LEMMA InvariantStep == IInv /\ [Next]_vars => IInv'
  <1> SUFFICES ASSUME IInv, [Next]_vars PROVE IInv'
    OBVIOUS
  <1> USE CacheAssumption DEF IInv
  <1>1. CASE LegacyHit
    BY <1>1 DEF LegacyHit, stored, combined, TypeOK, AtItsBlock, BlockWritten, CertifiedUnderManifest,
                CombinedWhole, FilesInOrder, CompleteIsLoadable
  <1>2. ASSUME NEW chosen \in Settings, StartEncoding(chosen) PROVE IInv'
    <2>1. manifest' \in [settings : Settings \cup {"none"}, digests : [Blocks -> Encoded \cup {Absent}]]
          /\ manifest'.settings = chosen /\ manifest'.digests = manifest.digests
      BY <1>2 DEF StartEncoding, TypeOK
    <2>2. BatchSize \in Batches /\ 1 \in 1..(BlockCount + 1) /\ NoVectors \in [Blocks -> Files]
      BY DEF Batches, NoVectors, Files
    <2>3. TypeOK'
      BY <1>2, <2>1, <2>2 DEF StartEncoding, TypeOK, Steps, combined
    <2>4. CertifiedUnderManifest'
      <3> SUFFICES ASSUME NEW b \in Blocks, manifest.digests[b] # Absent
                   PROVE  manifest.digests[b].settings = chosen
        BY <2>1 DEF CertifiedUnderManifest
      <3>1. manifest.digests[b] \in Encoded
        BY DEF TypeOK
      <3>2. manifest.digests[b].settings = manifest.settings /\ manifest.settings \in Settings
        BY <3>1 DEF CertifiedUnderManifest, Encoded
      <3> QED  BY <1>2, <3>2 DEF StartEncoding
    <2>5. CombinedWhole'
      BY <1>2 DEF StartEncoding, combined, CombinedWhole, Combining
    <2>6. (AtItsBlock /\ BlockWritten /\ FilesInOrder /\ CompleteIsLoadable)'
      BY <1>2, <2>1 DEF StartEncoding, combined, AtItsBlock, BlockWritten, FilesInOrder, CompleteIsLoadable
    <2> QED  BY <2>3, <2>4, <2>5, <2>6
  <1>3. CASE WriteInitialProgress
    BY <1>3 DEF WriteInitialProgress, combined, TypeOK, Steps, AtItsBlock, BlockWritten,
                CertifiedUnderManifest, CombinedWhole, Combining, FilesInOrder, CompleteIsLoadable
  <1>4. CASE SkipBlock
    <2>1. at' = at + 1 /\ at \in Blocks
      BY <1>4 DEF SkipBlock, Scanning
    <2>2. at' \in 1..(BlockCount + 1)
      BY <2>1 DEF Blocks
    <2> QED
      BY <1>4, <2>2 DEF SkipBlock, Scanning, stored, combined, TypeOK, AtItsBlock, BlockWritten,
                        CertifiedUnderManifest, CombinedWhole, FilesInOrder, CompleteIsLoadable
  <1>5. CASE HalveBatch
    <2>1. batch' = batch \div 2 /\ batch > 1 /\ batch \in 1..BatchSize
      BY <1>5 DEF HalveBatch, TypeOK, Batches
    <2>2. batch' \in Batches
      BY <2>1 DEF Batches
    <2> QED
      BY <1>5, <2>2 DEF HalveBatch, Scanning, stored, combined, TypeOK, AtItsBlock, BlockWritten,
                        CertifiedUnderManifest, CombinedWhole, FilesInOrder, CompleteIsLoadable
  <1>6. CASE WriteBlock
    <2>1. PICK b \in Blocks :
             /\ Scanning(b)
             /\ ~Valid(b)
             /\ blocks' = [blocks EXCEPT ![b] = [settings |-> manifest.settings, batch |-> batch]]
      BY <1>6 DEF WriteBlock
    <2>2. step = "scanning" /\ at = b
      BY <2>1 DEF Scanning
    <2>3. [settings |-> manifest.settings, batch |-> batch] \in [settings : {manifest.settings}, batch : Batches]
          /\ [settings |-> manifest.settings, batch |-> batch] \in Files
      BY <2>2 DEF AtItsBlock, TypeOK, Files, Encoded
    <2>4. blocks' \in [Blocks -> Files] /\ blocks'[b] = [settings |-> manifest.settings, batch |-> batch]
      BY <2>1, <2>3 DEF TypeOK
    <2>5. TypeOK'
      BY <1>6, <2>4 DEF WriteBlock, combined, TypeOK, Steps
    <2>6. AtItsBlock' /\ BlockWritten'
      BY <1>6, <2>2, <2>3, <2>4 DEF WriteBlock, AtItsBlock, BlockWritten
    <2> QED
      BY <1>6, <2>5, <2>6 DEF WriteBlock, Scanning, combined, CertifiedUnderManifest, CombinedWhole, Combining,
                        FilesInOrder, CompleteIsLoadable
  <1>7. CASE WriteBlockIds
    <2>1. named' \subseteq Blocks
      BY <1>7 DEF WriteBlockIds, AtItsBlock, TypeOK
    <2> QED
      BY <1>7, <2>1 DEF WriteBlockIds, combined, TypeOK, Steps, AtItsBlock, BlockWritten,
                        CertifiedUnderManifest, CombinedWhole, Combining, FilesInOrder, CompleteIsLoadable
  <1>8. CASE CertifyBlock
    <2>1. at \in Blocks /\ blocks[at] \in Encoded /\ blocks[at].settings = manifest.settings
      BY <1>8 DEF CertifyBlock, AtItsBlock, BlockWritten, Encoded
    <2>2. /\ manifest' \in [settings : Settings \cup {"none"}, digests : [Blocks -> Encoded \cup {Absent}]]
          /\ manifest'.settings = manifest.settings
          /\ \A b \in Blocks : manifest'.digests[b] = IF b = at THEN blocks[at] ELSE manifest.digests[b]
      BY <1>8, <2>1 DEF CertifyBlock, Digest, TypeOK
    <2>3. TypeOK'
      BY <1>8, <2>2 DEF CertifyBlock, combined, TypeOK, Steps
    <2>4. CertifiedUnderManifest'
      BY <2>1, <2>2 DEF CertifiedUnderManifest
    <2>5. AtItsBlock' /\ BlockWritten'
      BY <1>8, <2>2 DEF CertifyBlock, AtItsBlock, BlockWritten
    <2> QED
      BY <1>8, <2>3, <2>4, <2>5 DEF CertifyBlock, combined, CombinedWhole, Combining, FilesInOrder,
                                    CompleteIsLoadable
  <1>9. CASE CountBlock
    <2>1. at' = at + 1 /\ at \in Blocks
      BY <1>9 DEF CountBlock, AtItsBlock
    <2>2. at' \in 1..(BlockCount + 1)
      BY <2>1 DEF Blocks
    <2> QED
      BY <1>9, <2>2 DEF CountBlock, combined, TypeOK, Steps, AtItsBlock, BlockWritten,
                        CertifiedUnderManifest, CombinedWhole, Combining, FilesInOrder, CompleteIsLoadable
  <1>10. CASE Combine
    <2>1. \A b \in Blocks : vectors'[b] \in [settings : {manifest.settings}, batch : Batches]
      BY <1>10, ValidIsEncoded DEF Combine
    <2>2. manifest.settings \in Settings
      BY <1>10 DEF Combine, AtItsBlock
    <2>3. CombinedWhole'
      BY <2>1, <2>2 DEF CombinedWhole
    <2> QED
      BY <1>10, <2>3 DEF Combine, stored, TypeOK, Steps, AtItsBlock, BlockWritten,
                         CertifiedUnderManifest, FilesInOrder, CompleteIsLoadable
  <1>11. CASE WriteIds \/ WriteMetadata \/ FinishEncoding
    <2>1. TypeOK'
      BY <1>11 DEF WriteIds, WriteMetadata, FinishEncoding, stored, combined, TypeOK, Steps
    <2>2. CombinedWhole'
      BY <1>11 DEF WriteIds, WriteMetadata, FinishEncoding, combined, CombinedWhole, Combining
    <2>3. (AtItsBlock /\ BlockWritten /\ CertifiedUnderManifest)'
      BY <1>11 DEF WriteIds, WriteMetadata, FinishEncoding, stored, AtItsBlock, BlockWritten, CertifiedUnderManifest
    <2>4. (FilesInOrder /\ CompleteIsLoadable)'
      BY <1>11 DEF WriteIds, WriteMetadata, FinishEncoding, stored, combined, FilesInOrder, CompleteIsLoadable
    <2> QED  BY <2>1, <2>2, <2>3, <2>4
  <1>12. CASE Stop
    BY <1>12 DEF Stop, stored, combined, TypeOK, Steps, AtItsBlock, BlockWritten,
                 CertifiedUnderManifest, CombinedWhole, Combining, FilesInOrder, CompleteIsLoadable
  <1>13. CASE DamageBlock
    <2>1. blocks' \in [Blocks -> Files]
      BY <1>13 DEF DamageBlock, TypeOK, Files
    <2>2. damages' = damages + 1 /\ damages < MaxDamages /\ damages \in 0..MaxDamages
      BY <1>13 DEF DamageBlock, TypeOK
    <2>3. damages' \in 0..MaxDamages
      BY <2>2
    <2> QED
      BY <1>13, <2>1, <2>3 DEF DamageBlock, combined, TypeOK, AtItsBlock, BlockWritten,
                               CertifiedUnderManifest, CombinedWhole, Combining, FilesInOrder, CompleteIsLoadable
  <1>14. CASE UNCHANGED vars
    <2>1. UNCHANGED <<blocks, named, manifest, progress, vectors, ids, metadata>>
      BY <1>14 DEF vars, stored, combined
    <2>2. UNCHANGED <<step, at, batch, returned, damages>>
      BY <1>14 DEF vars
    <2> QED
      BY <2>1, <2>2 DEF TypeOK, AtItsBlock, BlockWritten, CertifiedUnderManifest, CombinedWhole,
                        FilesInOrder, CompleteIsLoadable
  <1> QED
    BY <1>1, <1>2, <1>3, <1>4, <1>5, <1>6, <1>7, <1>8, <1>9, <1>10, <1>11, <1>12, <1>13, <1>14
       DEF Next, Encoding

(* The invariant holds in every state of every behaviour. *)
LEMMA InvariantHolds == Spec => []IInv
  BY InvariantInit, InvariantStep, PTL DEF Spec

(* Files, manifest and process have their types: in particular a digest is *)
(* never taken of a damaged file (retrieval/cache.py:411-419).             *)
THEOREM TypeCorrect == Spec => []TypeOK
  <1>1. IInv => TypeOK
    BY DEF IInv
  <1> QED  BY <1>1, InvariantHolds, PTL

(* What load_cached_embeddings accepts is one whole encoding of the corpus,*)
(* whatever was killed, damaged or encoded before (retrieval/cache.py:125).*)
THEOREM LoadsWhole == Spec => []LoadedIsWhole
  <1>1. IInv => LoadedIsWhole
    BY DEF IInv, CombinedWhole, FilesInOrder, LoadedIsWhole
  <1> QED  BY <1>1, InvariantHolds, PTL

(* The manifest vouches only for blocks of its own settings                *)
(* (retrieval/cache.py:239).                                               *)
THEOREM ManifestCertifies == Spec => []CertifiedUnderManifest
  <1>1. IInv => CertifiedUnderManifest
    BY DEF IInv
  <1> QED  BY <1>1, InvariantHolds, PTL

(* progress.json says "complete" only of a cache that loads. *)
THEOREM CompleteLoads == Spec => []CompleteIsLoadable
  <1>1. IInv => CompleteIsLoadable
    BY DEF IInv
  <1> QED  BY <1>1, InvariantHolds, PTL

(* All three together: the cache's own files are true of its vectors. *)
THEOREM CacheSound == Spec => []CacheIsSound
  <1>1. LoadedIsWhole /\ CertifiedUnderManifest /\ CompleteIsLoadable => CacheIsSound
    BY DEF CacheIsSound
  <1> QED  BY <1>1, LoadsWhole, ManifestCertifies, CompleteLoads, PTL

(* It stays so, and no step of a run encodes a valid block again or takes  *)
(* its digest away: the block being written was not valid when the run came*)
(* to it.                                                                  *)
THEOREM CacheStays == Spec => CacheStaysSound
  <1>1. ASSUME IInv, [Next]_vars, damages' = damages, NEW b \in Blocks, Valid(b)
        PROVE  Valid(b)' /\ blocks'[b] = blocks[b]
    <2>1. damages + 1 # damages
      BY <1>1 DEF IInv, TypeOK
    <2>2. CASE WriteBlock
      <3>1. PICK c \in Blocks :
               ~Valid(c) /\ blocks' = [blocks EXCEPT ![c] = [settings |-> manifest.settings, batch |-> batch]]
        BY <2>2 DEF WriteBlock
      <3>2. blocks'[b] = blocks[b]
        BY <1>1, <3>1 DEF IInv, TypeOK
      <3> QED  BY <1>1, <2>2, <3>2 DEF WriteBlock, Valid, Digest
    <2>3. CASE CertifyBlock
      <3>1. manifest'.digests[b] = IF b = at THEN blocks[at] ELSE manifest.digests[b]
        BY <1>1, <2>3 DEF CertifyBlock, Digest, IInv, TypeOK
      <3> QED  BY <1>1, <2>3, <3>1 DEF CertifyBlock, Valid, Digest
    <2>4. ASSUME NEW chosen \in Settings, StartEncoding(chosen) PROVE Valid(b)' /\ blocks'[b] = blocks[b]
      <3>1. manifest'.digests = manifest.digests
        BY <1>1, <2>4 DEF StartEncoding, IInv, TypeOK
      <3> QED  BY <1>1, <2>4, <3>1 DEF StartEncoding, Valid
    <2>5. CASE UNCHANGED <<blocks, manifest>> /\ named \subseteq named'
      BY <1>1, <2>5 DEF Valid
    <2>6. CASE UNCHANGED vars \/ LegacyHit \/ SkipBlock \/ HalveBatch \/ Combine
      BY <2>5, <2>6 DEF LegacyHit, SkipBlock, HalveBatch, Combine, vars, stored
    <2>7. CASE WriteInitialProgress \/ WriteBlockIds \/ CountBlock
      BY <2>5, <2>7 DEF WriteInitialProgress, WriteBlockIds, CountBlock
    <2>8. CASE WriteIds \/ WriteMetadata \/ FinishEncoding \/ Stop
      BY <2>5, <2>8 DEF WriteIds, WriteMetadata, FinishEncoding, Stop, stored
    <2>9. CASE DamageBlock
      BY <1>1, <2>1, <2>9 DEF DamageBlock
    <2> QED
      BY <1>1, <2>2, <2>3, <2>4, <2>6, <2>7, <2>8, <2>9 DEF Next, Encoding
  <1>2. IInv /\ [Next]_vars =>
           [damages' = damages =>
               \A b \in Blocks : Valid(b) => Valid(b)' /\ blocks'[b] = blocks[b]]_vars
    BY <1>1
  <1> QED  BY <1>2, InvariantHolds, CacheSound, PTL DEF Spec, CacheStaysSound

-----------------------------------------------------------------------------
(***************************************************************************)
(* RetrievalBaselines: for any measurements.                               *)
(***************************************************************************)
(* What each step of an experiment command finds in the files: the holdout *)
(* metrics before the manifest, and both before anything is replayed.      *)
StepsInOrder ==
    /\ stage = "holdout metrics" =>
          holdout = None /\ finalManifest = NoFinalManifest /\ selection = Pinned
    /\ stage = "holdout manifest" => holdout # None /\ finalManifest = NoFinalManifest
    /\ stage \in {"replay rankings", "replay"} => replay = NoReplay /\ finalManifest # NoFinalManifest
    /\ stage = "replay" => replayRankings = Methods
    /\ stage = "replay manifest" => finalManifest # NoFinalManifest
    /\ stage = "refresh replay" => replay # NoReplay
    /\ finalManifest # NoFinalManifest => holdout # None
    /\ replay # NoReplay => finalManifest # NoFinalManifest

BaselinesInvariant ==
    /\ BaselinesTypeOK
    /\ HoldoutOnRecord /\ ReplayWhole /\ ReportOfOneHoldout
    /\ StepsInOrder


FinalManifests ==
    {NoFinalManifest} \cup
        [selection : Measurements, holdout : Measurements, replay : Replay \cup {NoReplay}]

(* The facts about the files that a step of a command rests on. *)
LEMMA BaselinesKinds ==
    ASSUME BaselinesTypeOK
    PROVE  /\ None \notin Measurements
           /\ replay # NoReplay => replay \in Replay /\ replay.original \in Measurements
           /\ report # NoReport => report.holdout \in Measurements
           /\ NoReplay.original = None
           /\ finalManifest # NoFinalManifest => finalManifest.selection \in Measurements
  BY BaselinesAssumption DEF BaselinesTypeOK, Replay, Report, None, NoReplay

LEMMA BaselinesInvariantInit == BaselinesInit => BaselinesInvariant
  <1> SUFFICES ASSUME BaselinesInit PROVE BaselinesInvariant
    OBVIOUS
  <1>1. /\ NoComparison \in Comparison /\ NoDevMetrics \in Metrics /\ "idle" \in Stages
    BY DEF NoComparison, Comparison, Metrics, Stages
  <1>2. BaselinesTypeOK
    BY <1>1 DEF BaselinesInit, BaselinesTypeOK
  <1> QED  BY <1>2 DEF BaselinesInit, BaselinesInvariant, HoldoutOnRecord, ReplayWhole,
              ReportOfOneHoldout, StepsInOrder

LEMMA BaselinesTypesStep ==
    ASSUME BaselinesInvariant, [BaselinesNext]_baselineVars
    PROVE  BaselinesTypeOK'
  <1>0. BaselinesTypeOK /\ HoldoutOnRecord /\ StepsInOrder
    BY DEF BaselinesInvariant
  <1>1. CASE EndCommand \/ BuildCorpus \/ AuditDense
    BY <1>0, <1>1 DEF EndCommand, BuildCorpus, AuditDense, devFiles, frozenFiles, testFiles,
       BaselinesTypeOK, Stages
  <1>2. CASE StartSmoke \/ EncodeBlocks \/ CombineBlocks \/ StartDev
    BY <1>0, <1>2 DEF StartSmoke, EncodeBlocks, CombineBlocks, StartDev, devFiles, frozenFiles,
       testFiles, BaselinesTypeOK, Stages
  <1>3. CASE Smoke \/ LexicalResults
    BY <1>0, <1>3 DEF Smoke, LexicalResults, SaveLexical, frozenFiles, testFiles, BaselinesTypeOK,
       Stages, Methods
  <1>4. CASE DenseDev
    BY <1>0, <1>4 DEF DenseDev, frozenFiles, testFiles, BaselinesTypeOK, Stages, Methods
  <1>5. CASE SaveLexicalMetrics \/ SaveDevMetrics
    <2>1. PICK m \in Measurements, status \in {"lexical", "complete"} :
             devMetrics' = [status |-> status, measured |-> m]
      BY <1>5 DEF SaveLexicalMetrics, SaveDevMetrics
    <2>2. devMetrics' \in Metrics
      BY <2>1 DEF Metrics
    <2> QED  BY <1>0, <1>5, <2>2 DEF SaveLexicalMetrics, SaveDevMetrics, frozenFiles, testFiles,
                BaselinesTypeOK, Stages
  <1>6. CASE CompareDev \/ RefreshRobustness
    <2>1. ASSUME CompareDev PROVE comparison' \in Comparison
      <3>1. rankings["bm25"] \in {None, "smoke", "dev"}
        BY <1>0 DEF BaselinesTypeOK, Methods
      <3> QED  BY <2>1, <3>1 DEF CompareDev, Comparison, Methods
    <2>2. ASSUME RefreshRobustness PROVE comparison' \in Comparison
      BY <1>0, <2>2 DEF RefreshRobustness, BaselinesTypeOK, Comparison
    <2>3. comparison' \in Comparison
      BY <1>6, <2>1, <2>2
    <2> QED  BY <1>0, <1>6, <2>3 DEF CompareDev, RefreshRobustness, frozenFiles, testFiles,
                BaselinesTypeOK, Stages
  <1>7. CASE FreezeSelection
    <2>1. selection' \in Measurements
      BY <1>0, <1>7 DEF FreezeSelection, BaselinesTypeOK, Metrics, NoDevMetrics, None
    <2> QED  BY <1>0, <1>7, <2>1 DEF FreezeSelection, devFiles, testFiles, BaselinesTypeOK
  <1>8. CASE StartHoldout \/ StartRecovery
    BY <1>0, <1>8 DEF StartHoldout, StartRecovery, devFiles, testFiles, BaselinesTypeOK, Stages
  <1>9. CASE SaveHoldout \/ SaveReplayRankings
    BY <1>0, <1>9 DEF SaveHoldout, SaveReplayRankings, devFiles, frozenFiles, BaselinesTypeOK, Stages
  <1>10. CASE SaveManifest
    <2>1. holdout # None /\ selection = Pinned
      BY <1>0, <1>10 DEF SaveManifest, StepsInOrder, HoldoutOnRecord
    <2>2. finalManifest' \in [selection : Measurements, holdout : Measurements, replay : Replay \cup {NoReplay}]
      BY <1>0, <1>10, <2>1, BaselinesAssumption DEF SaveManifest, ManifestNow, BaselinesTypeOK
    <2> QED  BY <1>0, <1>10, <2>2 DEF SaveManifest, devFiles, frozenFiles, BaselinesTypeOK, Stages
  <1>11. CASE SaveReplay \/ RefreshReplay
    <2>1. ASSUME SaveReplay PROVE replay' \in Replay
      <3>1. holdout \in Measurements
        BY <1>0, <2>1 DEF SaveReplay, StepsInOrder, BaselinesTypeOK
      <3> QED  BY <2>1, <3>1 DEF SaveReplay, Replay, Methods
    <2>2. ASSUME RefreshReplay PROVE replay' \in Replay
      <3>1. replay \in Replay
        BY <1>0, <2>2 DEF RefreshReplay, StepsInOrder, BaselinesTypeOK
      <3> QED  BY <1>0, <2>2, <3>1 DEF RefreshReplay, BaselinesTypeOK, Replay
    <2>3. replay' \in Replay
      BY <1>11, <2>1, <2>2
    <2> QED  BY <1>0, <1>11, <2>3 DEF SaveReplay, RefreshReplay, devFiles, frozenFiles,
                BaselinesTypeOK, Stages
  <1>12. CASE FinalReport
    <2>1. report' \in Report
      BY <1>0, <1>12 DEF FinalReport, BaselinesTypeOK, Report
    <2> QED  BY <1>0, <1>12, <2>1 DEF FinalReport, devFiles, frozenFiles, testFiles, BaselinesTypeOK
  <1>13. CASE UNCHANGED baselineVars
    <2>1. UNCHANGED <<bge, rankings, devMetrics, comparison, corpusManifest, modelLock, selection, sanity>>
      BY <1>13 DEF baselineVars, devFiles, frozenFiles
    <2>2. UNCHANGED <<holdout, replayRankings, replay, finalManifest, report, stage>>
      BY <1>13 DEF baselineVars, testFiles
    <2> QED  BY <1>0, <2>1, <2>2 DEF BaselinesTypeOK
  <1> QED
    BY <1>1, <1>2, <1>3, <1>4, <1>5, <1>6, <1>7, <1>8, <1>9, <1>10, <1>11, <1>12, <1>13 DEF BaselinesNext

(* Only these stages say something of the holdout's files. *)
HoldoutStages ==
    {"holdout metrics", "holdout manifest", "replay rankings", "replay", "replay manifest", "refresh replay"}

(* The commands about DEV leave the holdout, its replay, its manifest and  *)
(* the report alone, and so does a command that ends.                      *)
LEMMA HoldoutUntouched ==
    ASSUME \/ EndCommand \/ BuildCorpus \/ StartSmoke \/ Smoke \/ EncodeBlocks \/ CombineBlocks
           \/ StartDev \/ LexicalResults \/ SaveLexicalMetrics \/ DenseDev
           \/ SaveDevMetrics \/ CompareDev \/ AuditDense \/ UNCHANGED baselineVars
    PROVE  /\ UNCHANGED <<selection, holdout, replayRankings, replay, finalManifest, report>>
           /\ stage' = stage \/ stage' \notin HoldoutStages
  <1>1. CASE EndCommand \/ BuildCorpus \/ AuditDense \/ UNCHANGED baselineVars
    BY <1>1 DEF EndCommand, BuildCorpus, AuditDense, baselineVars, frozenFiles, testFiles, HoldoutStages
  <1>2. CASE StartSmoke \/ EncodeBlocks \/ CombineBlocks \/ StartDev
    BY <1>2 DEF StartSmoke, EncodeBlocks, CombineBlocks, StartDev, frozenFiles, testFiles, HoldoutStages
  <1>3. CASE Smoke \/ LexicalResults \/ DenseDev
    BY <1>3 DEF Smoke, LexicalResults, SaveLexical, DenseDev, frozenFiles, testFiles, HoldoutStages
  <1>4. CASE SaveLexicalMetrics \/ SaveDevMetrics \/ CompareDev
    BY <1>4 DEF SaveLexicalMetrics, SaveDevMetrics, CompareDev, frozenFiles, testFiles, HoldoutStages
  <1> QED  BY <1>1, <1>2, <1>3, <1>4

LEMMA HoldoutRecordStep ==
    ASSUME BaselinesInvariant, [BaselinesNext]_baselineVars
    PROVE  (HoldoutOnRecord /\ ReplayWhole /\ ReportOfOneHoldout /\ StepsInOrder)'
  <1>0. BaselinesTypeOK /\ HoldoutOnRecord /\ ReplayWhole /\ ReportOfOneHoldout /\ StepsInOrder
    BY DEF BaselinesInvariant
  <1>kinds. /\ None \notin Measurements
            /\ replay # NoReplay => replay \in Replay /\ replay.original \in Measurements
            /\ report # NoReport => report.holdout \in Measurements
            /\ NoReplay.original = None
            /\ Pinned \in Measurements
    BY <1>0, BaselinesKinds, BaselinesAssumption
  <1>1. ASSUME UNCHANGED <<selection, holdout, replayRankings, replay, finalManifest, report>>,
               stage' = stage \/ stage' \notin HoldoutStages
        PROVE  (HoldoutOnRecord /\ ReplayWhole /\ ReportOfOneHoldout /\ StepsInOrder)'
    BY <1>0, <1>1 DEF HoldoutOnRecord, ReplayWhole, ReportOfOneHoldout, StepsInOrder, HoldoutStages
  <1>2. CASE FreezeSelection
    BY <1>0, <1>kinds, <1>2 DEF FreezeSelection, testFiles, devFiles,
       HoldoutOnRecord, ReplayWhole, ReportOfOneHoldout, StepsInOrder
  <1>3. CASE StartHoldout \/ StartRecovery
    BY <1>0, <1>kinds, <1>3 DEF StartHoldout, HoldoutReady, StartRecovery, Recoverable, testFiles,
       HoldoutOnRecord, ReplayWhole, ReportOfOneHoldout, StepsInOrder
  <1>4. CASE SaveHoldout
    BY <1>0, <1>kinds, <1>4 DEF SaveHoldout, frozenFiles,
       HoldoutOnRecord, ReplayWhole, ReportOfOneHoldout, StepsInOrder
  <1>5. CASE SaveManifest
    <2>1. holdout # None /\ selection = Pinned
      BY <1>0, <1>5 DEF SaveManifest, StepsInOrder, HoldoutOnRecord
    <2>2. finalManifest'.holdout = holdout /\ finalManifest'.selection = selection
          /\ finalManifest' # NoFinalManifest
      BY <1>kinds, <1>5, <2>1 DEF SaveManifest, ManifestNow, NoFinalManifest
    <2>3. stage' = "idle" /\ UNCHANGED <<selection, holdout, replayRankings, replay, report>>
      BY <1>5 DEF SaveManifest, frozenFiles
    <2> QED  BY <1>0, <2>1, <2>2, <2>3 DEF HoldoutOnRecord, ReplayWhole, ReportOfOneHoldout, StepsInOrder
  <1>6. CASE SaveReplayRankings
    BY <1>0, <1>kinds, <1>6 DEF SaveReplayRankings, frozenFiles,
       HoldoutOnRecord, ReplayWhole, ReportOfOneHoldout, StepsInOrder
  <1>7. CASE SaveReplay
    BY <1>0, <1>kinds, <1>7 DEF SaveReplay, frozenFiles,
       HoldoutOnRecord, ReplayWhole, ReportOfOneHoldout, StepsInOrder
  <1>8. CASE RefreshRobustness
    BY <1>0, <1>kinds, <1>8 DEF RefreshRobustness, frozenFiles, testFiles,
       HoldoutOnRecord, ReplayWhole, ReportOfOneHoldout, StepsInOrder
  <1>9. CASE RefreshReplay
    <2>1. /\ replay # NoReplay /\ replay \in Replay /\ replay' = [replay EXCEPT !.summaries = replayRankings]
          /\ UNCHANGED <<selection, holdout, replayRankings, finalManifest, report>> /\ stage' = "idle"
      BY <1>0, <1>kinds, <1>9 DEF RefreshReplay, StepsInOrder, frozenFiles
    <2>2. replay'.original = replay.original /\ replay' # NoReplay
      BY <1>kinds, <2>1 DEF Replay, NoReplay
    <2> QED  BY <1>0, <2>1, <2>2 DEF HoldoutOnRecord, ReplayWhole, ReportOfOneHoldout, StepsInOrder
  <1>10. CASE FinalReport
    BY <1>0, <1>kinds, <1>10 DEF FinalReport, frozenFiles, testFiles,
       HoldoutOnRecord, ReplayWhole, ReportOfOneHoldout, StepsInOrder
  <1> QED
    BY <1>1, <1>2, <1>3, <1>4, <1>5, <1>6, <1>7, <1>8, <1>9, <1>10, HoldoutUntouched DEF BaselinesNext

LEMMA BaselinesInvariantHolds == BaselinesSpec => []BaselinesInvariant
  <1>1. BaselinesInvariant /\ [BaselinesNext]_baselineVars => BaselinesInvariant'
    BY BaselinesTypesStep, HoldoutRecordStep DEF BaselinesInvariant
  <1> QED  BY <1>1, BaselinesInvariantInit, PTL DEF BaselinesSpec

(* Every file of the baseline experiment has its type. *)
THEOREM BaselinesTypeCorrect == BaselinesSpec => []BaselinesTypeOK
  <1>1. BaselinesInvariant => BaselinesTypeOK
    BY DEF BaselinesInvariant
  <1> QED  BY <1>1, BaselinesInvariantHolds, PTL

(* A step never measures the holdout again, and never makes good a command *)
(* that ended between the holdout's metrics and its manifest.              *)
LEMMA HoldoutOnce ==
    ASSUME BaselinesInvariant, [BaselinesNext]_baselineVars, holdout # None
    PROVE  /\ holdout' = holdout
           /\ stage = "idle" /\ finalManifest = NoFinalManifest =>
                 finalManifest' = NoFinalManifest /\ replay' = NoReplay
  <1>0. ReplayWhole /\ StepsInOrder /\ HoldoutOnRecord
    BY DEF BaselinesInvariant
  <1>1. CASE \/ FreezeSelection \/ StartHoldout \/ SaveHoldout \/ SaveManifest \/ StartRecovery
             \/ SaveReplayRankings \/ SaveReplay \/ RefreshRobustness \/ RefreshReplay \/ FinalReport
    <2>1. holdout' = holdout
      BY <1>0, <1>1 DEF StepsInOrder, FreezeSelection, StartHoldout, SaveHoldout, SaveManifest,
         StartRecovery, SaveReplayRankings, SaveReplay, RefreshRobustness, RefreshReplay,
         FinalReport, testFiles
    <2>2. stage = "idle" => finalManifest' = finalManifest /\ replay' = replay
      <3>1. CASE FreezeSelection \/ StartHoldout \/ StartRecovery
        BY <3>1 DEF FreezeSelection, StartHoldout, StartRecovery, testFiles
      <3>2. CASE RefreshRobustness \/ FinalReport
        BY <3>2 DEF RefreshRobustness, FinalReport, testFiles
      <3>3. CASE SaveHoldout \/ SaveManifest \/ SaveReplayRankings \/ SaveReplay \/ RefreshReplay
        BY <3>3 DEF SaveHoldout, SaveManifest, SaveReplayRankings, SaveReplay, RefreshReplay
      <3> QED  BY <1>1, <3>1, <3>2, <3>3
    <2> QED  BY <1>0, <2>1, <2>2 DEF StepsInOrder
  <1>2. ASSUME UNCHANGED <<selection, holdout, replayRankings, replay, finalManifest, report>>
        PROVE  UNCHANGED <<holdout, replay, finalManifest>>
    BY <1>2
  <1>3. CASE UNCHANGED <<holdout, replay, finalManifest>>
    BY <1>0, <1>3 DEF StepsInOrder
  <1> QED  BY <1>1, <1>2, <1>3, HoldoutUntouched DEF BaselinesNext

(* Manifest, replay and report stay of the one holdout there is, which is  *)
(* measured once, and a command that ended between the holdout's metrics   *)
(* and the final manifest is never made good                               *)
(* (retrieval/orchestrator.py, verify_holdout_readiness,                   *)
(* recover_holdout_artifacts).                                             *)
THEOREM HoldoutFinal == BaselinesSpec => HoldoutIsFinal
  <1>1. BaselinesInvariant /\ BaselinesInvariant' /\ [BaselinesNext]_baselineVars =>
          [ /\ (HoldoutOnRecord /\ ReplayWhole /\ ReportOfOneHoldout)'
            /\ holdout # None => holdout' = holdout
            /\ stage = "idle" /\ holdout # None /\ finalManifest = NoFinalManifest
                   => finalManifest' = NoFinalManifest /\ replay' = NoReplay ]_baselineVars
    BY HoldoutOnce, HoldoutRecordStep
  <1> QED  BY <1>1, BaselinesInvariantHolds, PTL DEF BaselinesSpec, HoldoutIsFinal

-----------------------------------------------------------------------------
(***************************************************************************)
(* EvaluationRelease: for any number of drafts, adjudications and drafts   *)
(* that review is imported into.                                           *)
(***************************************************************************)
(* What is being run and what was copied are records of their kinds.       *)
ReleaseRecords ==
    /\ command \in [name : {"none", "build", "freeze", "copy", "release"}, draft : Drafts \cup {0},
                    items : ItemSets \cup {NoItems}]
    /\ aiRelease \in [copied : {"none", "part", "whole"}, items : ItemSets \cup {NoItems},
                      conformance : Adjudications \cup {"none"}, v1 : ItemSets \cup {NoItems}]

(* What a release command has read and written so far: the draft it froze  *)
(* had passed the gate and had no manifest, the candidate it copies is the *)
(* one it found releasable.                                                *)
ReleaseInOrder ==
    /\ command.name = "freeze" =>
          /\ command.draft \in Drafts /\ command.items.review = "verified"
          /\ frozen[command.draft] = [files |-> command.items, manifest |-> NoItems]
    /\ command.name \in {"copy", "release"} =>
          Releasable(command.items) /\ aiRelease.items = command.items
    /\ command.name = "copy" => aiRelease.copied = "part"
    /\ command.name = "release" => aiRelease.copied = "whole"

ReleaseInvariant ==
    ReleaseTypeOK /\ ReleaseRecords /\ FrozenAgrees /\ AiReleaseAgrees /\ ReleaseInOrder

(* The least element of a set of naturals, for arguments by induction. *)
LEMMA LeastOf ==
    ASSUME NEW S \in SUBSET Nat, S # {}
    PROVE  \E x \in S : \A y \in S : x <= y
  <1> DEFINE R == OpToRel(<, Nat)
  <1>1. IsWellFoundedOn(R, Nat)
    BY NatLessThanWellFounded
  <1>2. \A x, y \in Nat : <<y, x>> \in R <=> y < x
    BY DEF OpToRel
  <1> HIDE DEF R
  <1>3. PICK x \in S : \A y \in S : ~(<<y, x>> \in R)
    BY <1>1, WFMin
  <1>4. ASSUME NEW y \in S PROVE x <= y
    <2>1. x \in Nat /\ y \in Nat
      OBVIOUS
    <2>2. ~(y < x)
      BY <1>2, <1>3, <2>1
    <2> QED  BY <2>1, <2>2
  <1> QED  BY <1>4

(* The draft the commands work on: the last that exists. *)
LEMMA ActiveIsDraft ==
    ASSUME SomeDraft
    PROVE  Active \in Drafts /\ Exists(Active)
  <1> DEFINE E == {e \in Drafts : Exists(e)}
  <1>1. E \subseteq Nat /\ \A e \in E : FinalDraft - e \in Nat
    BY ReleaseAssumption DEF Drafts
  <1>2. \E e \in E : \A other \in E : other <= e
    <2> DEFINE P == {FinalDraft - e : e \in E}
    <2>1. P \subseteq Nat /\ P # {}
      BY <1>1 DEF SomeDraft
    <2>2. PICK n \in P : \A k \in P : n <= k
      BY <2>1, LeastOf
    <2>3. PICK e \in E : n = FinalDraft - e
      BY <2>2
    <2>4. ASSUME NEW other \in E PROVE other <= e
      <3>1. n <= FinalDraft - other
        BY <2>2
      <3> QED  BY <1>1, <2>3, <3>1, ReleaseAssumption
    <2> QED  BY <2>4
  <1>3. PICK e \in Drafts : Exists(e) /\ \A other \in Drafts : Exists(other) => other <= e
    BY <1>2
  <1> QED  BY <1>3 DEF Active

LEMMA ReleaseInvariantInit == ReleaseInit => ReleaseInvariant
  <1> SUFFICES ASSUME ReleaseInit PROVE ReleaseInvariant
    OBVIOUS
  <1>1. ReleaseTypeOK /\ ReleaseRecords
    BY DEF ReleaseInit, ReleaseTypeOK, ReleaseRecords, NoCommand, NotCopied, NoV1
  <1> QED  BY <1>1 DEF ReleaseInit, ReleaseInvariant, FrozenAgrees, AiReleaseAgrees, ReleaseInOrder,
              NoCommand, NoV1

LEMMA ReleaseInvariantStep ==
    ReleaseInvariant /\ [ReleaseNext]_releaseVars => ReleaseInvariant'
  <1> SUFFICES ASSUME ReleaseInvariant, [ReleaseNext]_releaseVars PROVE ReleaseInvariant'
    OBVIOUS
  <1>0. ReleaseTypeOK /\ ReleaseRecords /\ FrozenAgrees /\ AiReleaseAgrees /\ ReleaseInOrder
    BY DEF ReleaseInvariant
  <1>kinds. /\ drafts \in [Drafts -> ItemSets \cup {NoItems}]
            /\ frozen \in [Drafts -> [files : ItemSets \cup {NoItems}, manifest : ItemSets \cup {NoItems}]]
            /\ conformance \in Adjudications \cup {"none"} /\ FinalDraft \in Drafts
    BY <1>0, ReleaseAssumption DEF ReleaseTypeOK, Drafts
  <1>1. ASSUME drafts' \in [Drafts -> ItemSets \cup {NoItems}],
               conformance' \in Adjudications \cup {"none"},
               UNCHANGED <<frozen, aiRelease, aiManifest>>,
               \/ UNCHANGED command
               \/ command' = NoCommand
               \/ \E a \in Adjudications :
                     command' = [name |-> "build", draft |-> FinalDraft, items |-> Fresh(a)]
        PROVE  ReleaseInvariant'
    <2>1. /\ command' \in [name : {"none", "build", "freeze", "copy", "release"}, draft : Drafts \cup {0},
                           items : ItemSets \cup {NoItems}]
          /\ UNCHANGED command \/ command'.name \in {"none", "build"}
      <3>1. \A a \in Adjudications : Fresh(a) \in ItemSets
        BY DEF Fresh, ItemSets, Reviews
      <3>2. NoCommand \in [name : {"none", "build", "freeze", "copy", "release"}, draft : Drafts \cup {0},
                           items : ItemSets \cup {NoItems}]
        BY DEF NoCommand
      <3>3. NoCommand.name = "none"
        BY DEF NoCommand
      <3> QED  BY <1>0, <1>1, <1>kinds, <3>1, <3>2, <3>3 DEF ReleaseRecords
    <2>2. (ReleaseTypeOK /\ ReleaseRecords)'
      BY <1>0, <1>1, <2>1 DEF ReleaseTypeOK, ReleaseRecords
    <2>3. (FrozenAgrees /\ AiReleaseAgrees)'
      BY <1>0, <1>1 DEF FrozenAgrees, AiReleaseAgrees
    <2>4. ReleaseInOrder'
      BY <1>0, <1>1, <2>1 DEF ReleaseInOrder
    <2> QED  BY <2>2, <2>3, <2>4 DEF ReleaseInvariant
  <1>2. CASE \E a \in Adjudications : BuildFirst(a) \/ \E d \in Drafts : BuildDraft(d, a)
    <2>1. PICK a \in Adjudications, d \in Drafts : Built(d, a)
      BY <1>2, ReleaseAssumption DEF BuildFirst, BuildDraft, Drafts
    <2>2. drafts' \in [Drafts -> ItemSets \cup {NoItems}]
      BY <1>kinds, <2>1 DEF Built, Fresh, ItemSets, Reviews
    <2> QED  BY <1>kinds, <1>1, <2>1, <2>2 DEF Built
  <1>3. CASE \E a \in Adjudications : BuildFinal(a)
    <2>1. PICK a \in Adjudications : BuildFinal(a)
      BY <1>3
    <2>2. drafts' \in [Drafts -> ItemSets \cup {NoItems}]
      BY <1>kinds, <2>1 DEF BuildFinal, Fresh, ItemSets, Reviews
    <2> QED  BY <1>kinds, <1>1, <2>1, <2>2 DEF BuildFinal
  <1>4. CASE SaveConformance
    <2>1. command.items.made \in Adjudications \cup {"none"}
      BY <1>0 DEF ReleaseRecords, ItemSets, NoItems
    <2> QED  BY <1>kinds, <1>1, <1>4, <2>1 DEF SaveConformance
  <1>5. CASE \E review \in Reviews, complete \in BOOLEAN : ImportReview(review, complete)
    <2>1. PICK review \in Reviews, complete \in BOOLEAN : ImportReview(review, complete)
      BY <1>5
    <2>2. Active \in Drafts /\ drafts[Active] \in ItemSets
      BY <1>kinds, <2>1, ActiveIsDraft DEF ImportReview, Exists
    <2>3. [drafts[Active] EXCEPT !.review = review, !.complete = @ /\ complete] \in ItemSets
      BY <2>2 DEF ItemSets
    <2>4. drafts' = [drafts EXCEPT ![Active] =
                        [drafts[Active] EXCEPT !.review = review, !.complete = @ /\ complete]]
      BY <1>kinds, <2>1, <2>2 DEF ImportReview, ItemSets
    <2>5. drafts' \in [Drafts -> ItemSets \cup {NoItems}]
      BY <1>kinds, <2>2, <2>3, <2>4
    <2> QED  BY <1>kinds, <1>1, <2>1, <2>5 DEF ImportReview
  <1>6. CASE FreezeFiles
    <2> DEFINE items == drafts[Active]
    <2>1. Active \in Drafts /\ items \in ItemSets /\ items.review = "verified"
      BY <1>kinds, <1>6, ActiveIsDraft DEF FreezeFiles, Exists, PassesGate
    <2>2. /\ frozen' \in [Drafts -> [files : ItemSets \cup {NoItems}, manifest : ItemSets \cup {NoItems}]]
          /\ frozen'[Active] = [files |-> items, manifest |-> NoItems]
          /\ \A d \in Drafts : d # Active => frozen'[d] = frozen[d]
      BY <1>kinds, <1>6, <2>1 DEF FreezeFiles
    <2>3. command' = [name |-> "freeze", draft |-> Active, items |-> items]
          /\ UNCHANGED <<drafts, conformance, aiRelease, aiManifest>>
      BY <1>6 DEF FreezeFiles
    <2> HIDE DEF items
    <2>4. (ReleaseTypeOK /\ ReleaseRecords)'
      BY <1>0, <2>1, <2>2, <2>3 DEF ReleaseTypeOK, ReleaseRecords
    <2>5. (FrozenAgrees /\ AiReleaseAgrees)'
      BY <1>0, <2>1, <2>2, <2>3 DEF FrozenAgrees, AiReleaseAgrees
    <2>6. ReleaseInOrder'
      BY <2>1, <2>2, <2>3 DEF ReleaseInOrder
    <2> QED  BY <2>4, <2>5, <2>6 DEF ReleaseInvariant
  <1>7. CASE SaveFrozenManifest
    <2> DEFINE d == command.draft
    <2>1. d \in Drafts /\ command.items \in ItemSets \cup {NoItems} /\ command.items.review = "verified"
          /\ frozen[d].files = command.items
      BY <1>0, <1>7 DEF SaveFrozenManifest, ReleaseInOrder, ReleaseRecords
    <2>2. /\ frozen' \in [Drafts -> [files : ItemSets \cup {NoItems}, manifest : ItemSets \cup {NoItems}]]
          /\ frozen'[d] = [files |-> command.items, manifest |-> command.items]
          /\ \A e \in Drafts : e # d => frozen'[e] = frozen[e]
      BY <1>kinds, <1>7, <2>1 DEF SaveFrozenManifest
    <2>3. command' = NoCommand /\ UNCHANGED <<drafts, conformance, aiRelease, aiManifest>>
      BY <1>7 DEF SaveFrozenManifest
    <2> HIDE DEF d
    <2>4. (ReleaseTypeOK /\ ReleaseRecords)'
      BY <1>0, <2>2, <2>3 DEF ReleaseTypeOK, ReleaseRecords, NoCommand
    <2>5. (FrozenAgrees /\ AiReleaseAgrees /\ ReleaseInOrder)'
      BY <1>0, <2>1, <2>2, <2>3 DEF FrozenAgrees, AiReleaseAgrees, ReleaseInOrder, NoCommand
    <2> QED  BY <2>4, <2>5 DEF ReleaseInvariant
  <1>8. CASE CopyRelease
    <2>1. drafts[FinalDraft] \in ItemSets /\ Releasable(drafts[FinalDraft])
      BY <1>kinds, <1>8 DEF CopyRelease, Releasable, NoItems
    <2>2. Source \in [copied : {"none", "part", "whole"}, items : ItemSets \cup {NoItems},
                      conformance : Adjudications \cup {"none"}, v1 : ItemSets \cup {NoItems}]
      BY <1>kinds DEF Source
    <2>3. CASE aiRelease = NotCopied
      <3>1. /\ aiRelease' = [Source EXCEPT !.copied = "part"]
            /\ command' = [name |-> "copy", draft |-> FinalDraft, items |-> drafts[FinalDraft]]
            /\ UNCHANGED <<drafts, conformance, frozen, aiManifest>>
        BY <1>8, <2>3 DEF CopyRelease
      <3>2. aiRelease'.items = drafts[FinalDraft] /\ aiRelease'.copied = "part"
        BY <3>1 DEF Source
      <3>3. aiRelease' \in [copied : {"none", "part", "whole"}, items : ItemSets \cup {NoItems},
                            conformance : Adjudications \cup {"none"}, v1 : ItemSets \cup {NoItems}]
        BY <2>2, <3>1
      <3>4. (ReleaseTypeOK /\ ReleaseRecords)'
        BY <1>0, <1>kinds, <2>1, <3>1, <3>2, <3>3 DEF ReleaseTypeOK, ReleaseRecords
      <3>5. aiManifest = NoItems
        BY <1>0, <2>3 DEF AiReleaseAgrees, NotCopied
      <3>6. (FrozenAgrees /\ AiReleaseAgrees /\ ReleaseInOrder)'
        BY <1>0, <2>1, <3>1, <3>2, <3>5 DEF FrozenAgrees, AiReleaseAgrees, ReleaseInOrder
      <3> QED  BY <3>4, <3>6 DEF ReleaseInvariant
    <2>4. CASE aiRelease # NotCopied
      <3>1. /\ aiRelease = Source
            /\ command' = [name |-> "release", draft |-> FinalDraft, items |-> drafts[FinalDraft]]
            /\ UNCHANGED <<drafts, conformance, frozen, aiRelease, aiManifest>>
        BY <1>8, <2>4 DEF CopyRelease
      <3>2. aiRelease.items = drafts[FinalDraft] /\ aiRelease.copied = "whole"
        BY <3>1 DEF Source
      <3>3. (ReleaseTypeOK /\ ReleaseRecords)'
        BY <1>0, <1>kinds, <2>1, <3>1 DEF ReleaseTypeOK, ReleaseRecords
      <3>4. (FrozenAgrees /\ AiReleaseAgrees /\ ReleaseInOrder)'
        BY <1>0, <2>1, <3>1, <3>2 DEF FrozenAgrees, AiReleaseAgrees, ReleaseInOrder
      <3> QED  BY <3>3, <3>4 DEF ReleaseInvariant
    <2> QED  BY <2>3, <2>4
  <1>9. CASE FinishCopy
    <2>1. /\ aiRelease' = [aiRelease EXCEPT !.copied = "whole"]
          /\ command' = [command EXCEPT !.name = "release"]
          /\ UNCHANGED <<drafts, conformance, frozen, aiManifest>> /\ command.name = "copy"
      BY <1>9 DEF FinishCopy
    <2>2. /\ aiRelease'.items = aiRelease.items /\ aiRelease'.copied = "whole"
          /\ command'.items = command.items /\ command'.name = "release" /\ command'.draft = command.draft
      BY <1>0, <2>1 DEF ReleaseRecords
    <2>3. ReleaseRecords'
      BY <1>0, <2>1 DEF ReleaseRecords
    <2>4. aiRelease.copied # "none"
      BY <1>0, <2>1 DEF ReleaseInOrder
    <2>5. ReleaseTypeOK'
      BY <1>0, <2>1, <2>2, <2>4 DEF ReleaseTypeOK
    <2>6. (FrozenAgrees /\ AiReleaseAgrees /\ ReleaseInOrder)'
      BY <1>0, <2>1, <2>2 DEF FrozenAgrees, AiReleaseAgrees, ReleaseInOrder
    <2> QED  BY <2>3, <2>5, <2>6 DEF ReleaseInvariant
  <1>10. CASE SaveAiManifest
    <2>1. (ReleaseTypeOK /\ ReleaseRecords)'
      BY <1>0, <1>10 DEF SaveAiManifest, ReleaseTypeOK, ReleaseRecords, NoCommand
    <2>2. (FrozenAgrees /\ AiReleaseAgrees /\ ReleaseInOrder)'
      BY <1>0, <1>10 DEF SaveAiManifest, Releasable, FrozenAgrees, AiReleaseAgrees, ReleaseInOrder, NoCommand
    <2> QED  BY <2>1, <2>2 DEF ReleaseInvariant
  <1>11. CASE KillRelease \/ UNCHANGED releaseVars
    <2>1. UNCHANGED <<drafts, conformance, frozen, aiRelease, aiManifest>>
      BY <1>11 DEF KillRelease, releaseVars
    <2>2. UNCHANGED command \/ command' = NoCommand
      BY <1>11 DEF KillRelease, releaseVars
    <2> QED  BY <1>kinds, <1>1, <2>1, <2>2
  <1> QED
    BY <1>2, <1>3, <1>4, <1>5, <1>6, <1>7, <1>8, <1>9, <1>10, <1>11 DEF ReleaseNext

LEMMA ReleaseInvariantHolds == ReleaseSpec => []ReleaseInvariant
  BY ReleaseInvariantInit, ReleaseInvariantStep, PTL DEF ReleaseSpec

(* Drafts, releases and the command that runs have their types. *)
THEOREM ReleaseTypeCorrect == ReleaseSpec => []ReleaseTypeOK
  <1>1. ReleaseInvariant => ReleaseTypeOK
    BY DEF ReleaseInvariant
  <1> QED  BY <1>1, ReleaseInvariantHolds, PTL

(* A step keeps both releases as their manifests say. *)
LEMMA ReleaseStays ==
    ASSUME ReleaseInvariant, [ReleaseNext]_releaseVars
    PROVE  ReleasesStay
  <1>0. ReleaseInvariant'
    BY ReleaseInvariantStep
  <1>1. (FrozenAgrees /\ AiReleaseAgrees)'
    BY <1>0 DEF ReleaseInvariant
  <1>2. ASSUME NEW d \in Drafts, frozen[d].manifest # NoItems PROVE frozen'[d] = frozen[d]
    <2>1. frozen \in [Drafts -> [files : ItemSets \cup {NoItems}, manifest : ItemSets \cup {NoItems}]]
      BY DEF ReleaseInvariant, ReleaseTypeOK
    <2>2. CASE FreezeFiles
      BY <1>2, <2>1, <2>2 DEF FreezeFiles
    <2>3. CASE SaveFrozenManifest
      <3>1. command.draft # d
        BY <1>2, <2>3 DEF SaveFrozenManifest, ReleaseInvariant, ReleaseInOrder
      <3> QED  BY <2>1, <2>3, <3>1 DEF SaveFrozenManifest
    <2>4. CASE UNCHANGED frozen
      BY <2>4
    <2> QED  BY <2>2, <2>3, <2>4 DEF ReleaseNext, BuildFirst, BuildDraft, Built, BuildFinal, SaveConformance,
                ImportReview, CopyRelease, FinishCopy, SaveAiManifest, KillRelease, releaseVars
  <1>3. ASSUME aiRelease.copied = "part", command.name = "none"
        PROVE  aiRelease' = aiRelease /\ aiManifest' = aiManifest
    <2>1. aiRelease # NotCopied /\ aiRelease # Source
      BY <1>3 DEF NotCopied, Source
    <2> QED  BY <1>3, <2>1 DEF ReleaseNext, BuildFirst, BuildDraft, Built, BuildFinal, SaveConformance,
                ImportReview, FreezeFiles, SaveFrozenManifest, CopyRelease, FinishCopy, SaveAiManifest,
                KillRelease, releaseVars
  <1> QED  BY <1>1, <1>2, <1>3 DEF ReleasesStay

(* Both kinds of release stay what their manifests say, a frozen v1 never  *)
(* changes, and a release killed while it was copied is never completed    *)
(* (evaluation/freeze.py, freeze_items; orchestrator.py,                   *)
(* freeze_ai_reviewed_release).                                            *)
THEOREM ReleaseStaysAsManifest == ReleaseSpec => [][ReleasesStay]_releaseVars
  <1>1. ReleaseInvariant /\ [ReleaseNext]_releaseVars => [ReleasesStay]_releaseVars
    BY ReleaseStays
  <1> QED  BY <1>1, ReleaseInvariantHolds, PTL DEF ReleaseSpec

-----------------------------------------------------------------------------
(***************************************************************************)
(* DiagnosticReview: for any draws, identifiers, picks and cases.          *)
(***************************************************************************)
(* A packet is prepared once, and its own manifest written then.           *)
PreparedOnce ==
    /\ preparing = "candidates" => packet = NoDraw /\ suggestions # NoDraw
    /\ preparing = "packet" => packet = NoDraw /\ candidates # NoDraw
    /\ preparing \in {"manifest", "audit manifest", "progress"} => packet # NoDraw

(* The manifest is of the packet, or the committed one beside the committed*)
(* audit.                                                                  *)
ManifestOfPacket ==
    \/ reviewed = NoDraw
    \/ reviewed = packet
    \/ reviewed = CommittedDraw /\ audited = CommittedDraw

CommittedAdjudication == [from |-> CommittedDraw, population |-> CommittedDraw, audit |-> CommittedDraw]

(* An adjudication is of the packet and of both manifests as they are. *)
AdjudicatedOnce ==
    /\ preparing = "adjudication" => NoDraw \notin {packet, reviewed, audited}
    /\ preparing \in {"summary", "analysis"} => adjudication # Unadjudicated
    /\ adjudication # Unadjudicated =>
          /\ NoDraw \notin {packet, reviewed, audited}
          /\ adjudication = [from |-> packet, population |-> reviewed, audit |-> audited]
          /\ preparing # "manifest"

(* An aggregate is of that adjudication, or the committed one beside the   *)
(* committed audit.                                                        *)
OfAdjudication(aggregate) ==
    \/ aggregate = Unadjudicated
    \/ aggregate = adjudication
    \/ aggregate = CommittedAdjudication /\ audited = CommittedDraw

AggregatesAdjudicated == OfAdjudication(summary) /\ OfAdjudication(analysis)

ReviewInvariant ==
    ReviewTypeOK /\ PreparedOnce /\ ManifestOfPacket /\ AdjudicatedOnce /\ AggregatesAdjudicated

LEMMA ReviewInvariantInit == ReviewInit => ReviewInvariant
  <1> SUFFICES ASSUME ReviewInit PROVE ReviewInvariant
    OBVIOUS
  <1>1. CommittedDraw \in Draws /\ CommittedAdjudication \in Adjudication
    BY ReviewAssumption DEF CommittedAdjudication, Adjudication
  <1>2. ReviewTypeOK
    BY <1>1 DEF ReviewInit, ReviewTypeOK, Draw, PreparingSteps, CommittedAdjudication
  <1> QED  BY <1>2 DEF ReviewInit, ReviewInvariant, PreparedOnce, ManifestOfPacket, AdjudicatedOnce,
              AggregatesAdjudicated, OfAdjudication, CommittedAdjudication

LEMMA ReviewTypesStep ==
    ASSUME ReviewInvariant, [ReviewNext]_reviewVars
    PROVE  ReviewTypeOK'
  <1>0. ReviewTypeOK /\ AdjudicatedOnce
    BY DEF ReviewInvariant
  <1>1. CASE \E d \in Draws : Collect(d)
    BY <1>0, <1>1 DEF Collect, trackedFiles, ReviewTypeOK, Draw, PreparingSteps
  <1>2. CASE WriteCandidates \/ WritePacket
    BY <1>0, <1>2 DEF WriteCandidates, WritePacket, trackedFiles, ReviewTypeOK, PreparingSteps
  <1>3. CASE UseCandidates \/ Abandon \/ StartAutomatedAdjudication \/ StartSynthesis
    BY <1>0, <1>3 DEF UseCandidates, Abandon, StartAutomatedAdjudication, StartSynthesis, trackedFiles,
       privateFiles, ReviewTypeOK, PreparingSteps
  <1>4. CASE WriteReviewManifest \/ PrepareAudit \/ AlreadyPrepared
    BY <1>0, <1>4 DEF WriteReviewManifest, PrepareAudit, AlreadyPrepared, WriteAuditManifest,
       privateFiles, ReviewTypeOK, PreparingSteps
  <1>5. CASE BeginProgress \/ \E k \in Cases : SaveDecision(k)
    BY <1>0, <1>5 DEF BeginProgress, SaveDecision, trackedFiles, ReviewTypeOK, PreparingSteps
  <1>6. CASE WriteAdjudication
    <2>1. adjudication' \in Adjudication
      BY <1>0, <1>6 DEF WriteAdjudication, AdjudicatedOnce, ReviewTypeOK, Draw, Adjudication
    <2> QED  BY <1>0, <1>6, <2>1 DEF WriteAdjudication, trackedFiles, ReviewTypeOK, PreparingSteps
  <1>7. CASE WriteSummary \/ WriteAnalysis \/ WriteQuestions
    BY <1>0, <1>7 DEF WriteSummary, WriteAnalysis, WriteQuestions, privateFiles, ReviewTypeOK, PreparingSteps
  <1>8. CASE UNCHANGED reviewVars
    BY <1>0, <1>8 DEF reviewVars, trackedFiles, privateFiles, ReviewTypeOK
  <1> QED  BY <1>1, <1>2, <1>3, <1>4, <1>5, <1>6, <1>7, <1>8 DEF ReviewNext

(* One review: each step of a command keeps packet, manifests and          *)
(* adjudication together.                                                  *)
LEMMA ReviewInvariantStep ==
    ReviewInvariant /\ [ReviewNext]_reviewVars => ReviewInvariant'
  <1> SUFFICES ASSUME ReviewInvariant, [ReviewNext]_reviewVars PROVE ReviewInvariant'
    OBVIOUS
  <1>0. ReviewTypeOK /\ PreparedOnce /\ ManifestOfPacket /\ AdjudicatedOnce /\ AggregatesAdjudicated
    BY DEF ReviewInvariant
  <1>kinds. NoDraw \notin Draws /\ CommittedDraw \in Draws /\ ReviewTypeOK'
    BY ReviewAssumption, ReviewTypesStep
  <1>1. SUFFICES (PreparedOnce /\ ManifestOfPacket /\ AdjudicatedOnce /\ AggregatesAdjudicated)'
    BY <1>kinds DEF ReviewInvariant
  <1>2. CASE \E d \in Draws : Collect(d)
    BY <1>0, <1>kinds, <1>2 DEF Collect, trackedFiles, PreparedOnce, ManifestOfPacket, AdjudicatedOnce,
       AggregatesAdjudicated, OfAdjudication
  <1>3. CASE WriteCandidates \/ UseCandidates
    BY <1>0, <1>3 DEF WriteCandidates, UseCandidates, trackedFiles, privateFiles, PreparedOnce,
       ManifestOfPacket, AdjudicatedOnce, AggregatesAdjudicated, OfAdjudication
  <1>4. CASE WritePacket
    <2>1. adjudication = Unadjudicated
      BY <1>0, <1>4 DEF WritePacket, PreparedOnce, AdjudicatedOnce
    <2>2. reviewed = NoDraw \/ (reviewed = CommittedDraw /\ audited = CommittedDraw)
      BY <1>0, <1>4 DEF WritePacket, PreparedOnce, ManifestOfPacket
    <2> QED  BY <1>0, <1>4, <2>1, <2>2 DEF WritePacket, trackedFiles, PreparedOnce, ManifestOfPacket,
                AdjudicatedOnce, AggregatesAdjudicated, OfAdjudication
  <1>5. CASE WriteReviewManifest
    <2>1. adjudication = Unadjudicated
      BY <1>0, <1>5 DEF WriteReviewManifest, AdjudicatedOnce
    <2> QED  BY <1>0, <1>5, <2>1 DEF WriteReviewManifest, privateFiles, PreparedOnce, ManifestOfPacket,
                AdjudicatedOnce, AggregatesAdjudicated, OfAdjudication
  <1>6. CASE PrepareAudit \/ AlreadyPrepared
    <2>1. /\ audited' = packet /\ packet # NoDraw /\ audited \in {NoDraw, packet}
          /\ UNCHANGED <<suggestions, candidates, packet, adjudication, reviewed, summary, analysis>>
          /\ preparing' = preparing \/ preparing' = "progress"
      BY <1>0, <1>6 DEF PrepareAudit, AlreadyPrepared, WriteAuditManifest, AuditAgrees, privateFiles,
         PreparedOnce
    <2> QED  BY <1>0, <1>kinds, <2>1 DEF PreparedOnce, ManifestOfPacket, AdjudicatedOnce,
                AggregatesAdjudicated, OfAdjudication
  <1>7. CASE BeginProgress \/ Abandon \/ \E k \in Cases : SaveDecision(k)
    BY <1>0, <1>7 DEF BeginProgress, Abandon, SaveDecision, trackedFiles, privateFiles, PreparedOnce,
       ManifestOfPacket, AdjudicatedOnce, AggregatesAdjudicated, OfAdjudication
  <1>8. CASE StartAutomatedAdjudication \/ StartSynthesis
    <2>1. /\ UNCHANGED <<suggestions, candidates, packet, reviewed, audited, adjudication, summary, analysis>>
          /\ \/ preparing' = "adjudication" /\ NoDraw \notin {packet, reviewed, audited}
             \/ preparing' = "analysis" /\ adjudication # Unadjudicated
      BY <1>8 DEF StartAutomatedAdjudication, StartSynthesis, trackedFiles, privateFiles
    <2> QED  BY <1>0, <2>1 DEF PreparedOnce, ManifestOfPacket, AdjudicatedOnce, AggregatesAdjudicated,
                OfAdjudication
  <1>9. CASE WriteAdjudication
    <2>1. NoDraw \notin {packet, reviewed, audited}
      BY <1>0, <1>9 DEF WriteAdjudication, AdjudicatedOnce
    <2>2. adjudication' = [from |-> packet, population |-> reviewed, audit |-> audited]
          /\ adjudication \in {adjudication', Unadjudicated}
      BY <1>0, <1>9 DEF WriteAdjudication, AdjudicatedOnce
    <2>3. adjudication' # Unadjudicated
      BY <2>1, <2>2 DEF Unadjudicated
    <2> QED  BY <1>0, <1>9, <2>1, <2>2, <2>3 DEF WriteAdjudication, trackedFiles, PreparedOnce,
                ManifestOfPacket, AdjudicatedOnce, AggregatesAdjudicated, OfAdjudication
  <1>10. CASE WriteSummary \/ WriteAnalysis \/ WriteQuestions
    BY <1>0, <1>10 DEF WriteSummary, WriteAnalysis, WriteQuestions, privateFiles, PreparedOnce,
       ManifestOfPacket, AdjudicatedOnce, AggregatesAdjudicated, OfAdjudication
  <1>11. CASE UNCHANGED reviewVars
    BY <1>0, <1>11 DEF reviewVars, trackedFiles, privateFiles, PreparedOnce, ManifestOfPacket,
       AdjudicatedOnce, AggregatesAdjudicated, OfAdjudication
  <1> QED
    BY <1>2, <1>3, <1>4, <1>5, <1>6, <1>7, <1>8, <1>9, <1>10, <1>11 DEF ReviewNext

LEMMA ReviewInvariantHolds == ReviewSpec => []ReviewInvariant
  BY ReviewInvariantInit, ReviewInvariantStep, PTL DEF ReviewSpec

(* The review's files, tracked and private, have their types. *)
THEOREM ReviewTypeCorrect == ReviewSpec => []ReviewTypeOK
  <1>1. ReviewInvariant => ReviewTypeOK
    BY DEF ReviewInvariant
  <1> QED  BY <1>1, ReviewInvariantHolds, PTL

(* What finalize lets pass is one review. *)
LEMMA FinalizePassesOneReview ==
    ASSUME ReviewInvariant
    PROVE  OneReview
  <1> SUFFICES ASSUME ReviewGate
               PROVE  /\ Ids[reviewed] = Ids[packet] /\ adjudication.from = packet
                      /\ \A a \in {adjudication, summary, analysis} :
                             Ids[a.population] = Ids[packet] /\ Picks[a.audit] = Picks[packet]
    BY DEF OneReview
  <1>1. /\ Ids[audited] = Ids[packet] /\ Picks[audited] = Picks[packet]
        /\ adjudication # Unadjudicated /\ summary # Unadjudicated /\ analysis # Unadjudicated
        /\ NoDraw \notin {packet, audited, reviewed}
    BY DEF ReviewGate, AuditOfPacket, AdjudicationValid
  <1>2. reviewed = packet \/ (reviewed = CommittedDraw /\ audited = CommittedDraw)
    BY <1>1 DEF ReviewInvariant, ManifestOfPacket
  <1>3. Ids[reviewed] = Ids[packet]
    BY <1>1, <1>2
  <1>4. adjudication = [from |-> packet, population |-> reviewed, audit |-> audited]
    BY <1>1 DEF ReviewInvariant, AdjudicatedOnce
  <1>5. ASSUME NEW a, OfAdjudication(a), a # Unadjudicated
        PROVE  Ids[a.population] = Ids[packet] /\ Picks[a.audit] = Picks[packet]
    BY <1>1, <1>3, <1>4, <1>5 DEF OfAdjudication, CommittedAdjudication
  <1>6. OfAdjudication(adjudication) /\ OfAdjudication(summary) /\ OfAdjudication(analysis)
    BY DEF ReviewInvariant, AggregatesAdjudicated, OfAdjudication
  <1> QED  BY <1>1, <1>3, <1>4, <1>5, <1>6

(* No step replaces a packet, an audit's manifest or a decision. *)
LEMMA ReviewStays ==
    ASSUME ReviewInvariant, [ReviewNext]_reviewVars
    PROVE  ReviewIsFinal
  <1>0. ReviewTypeOK /\ PreparedOnce /\ ManifestOfPacket /\ AdjudicatedOnce
    BY DEF ReviewInvariant
  <1>1. OneReview'
    <2>1. ReviewInvariant'
      BY ReviewInvariantStep
    <2> QED  BY <2>1, FinalizePassesOneReview, PTL
  <1>2. CASE (\E d \in Draws : Collect(d)) \/ WriteCandidates \/ UseCandidates \/ WritePacket
    BY <1>0, <1>1, <1>2 DEF Collect, WriteCandidates, UseCandidates, WritePacket, trackedFiles, privateFiles,
       PreparedOnce, ReviewIsFinal
  <1>3. CASE WriteReviewManifest \/ PrepareAudit \/ BeginProgress \/ AlreadyPrepared
    BY <1>0, <1>1, <1>3 DEF WriteReviewManifest, PrepareAudit, BeginProgress, AlreadyPrepared,
       WriteAuditManifest, AuditAgrees, trackedFiles, privateFiles, ReviewIsFinal
  <1>4. CASE Abandon \/ StartAutomatedAdjudication \/ StartSynthesis \/ UNCHANGED reviewVars
    BY <1>1, <1>4 DEF Abandon, StartAutomatedAdjudication, StartSynthesis, reviewVars, trackedFiles,
       privateFiles, ReviewIsFinal
  <1>5. CASE \E k \in Cases : SaveDecision(k)
    BY <1>1, <1>5 DEF SaveDecision, trackedFiles, ReviewIsFinal
  <1>6. CASE WriteAdjudication \/ WriteSummary \/ WriteAnalysis \/ WriteQuestions
    BY <1>1, <1>6 DEF WriteAdjudication, WriteSummary, WriteAnalysis, WriteQuestions, trackedFiles,
       privateFiles, ReviewIsFinal
  <1> QED  BY <1>2, <1>3, <1>4, <1>5, <1>6 DEF ReviewNext

(* Finalize never passes a mixture of reviews; packet, audit's manifest and*)
(* decisions stay; and a packet left without its manifest is never         *)
(* finalized (phase15/review.py, phase15_finalize).                        *)
THEOREM ReviewFinal == ReviewSpec => [][ReviewIsFinal]_reviewVars
  <1>1. ReviewInvariant /\ [ReviewNext]_reviewVars => [ReviewIsFinal]_reviewVars
    BY ReviewStays
  <1> QED  BY <1>1, ReviewInvariantHolds, PTL DEF ReviewSpec

-----------------------------------------------------------------------------
(***************************************************************************)
(* DiagnosticExperiments: for any numbers of variants, commands, contents  *)
(* of the evidence and queries of the subset.                              *)
(***************************************************************************)
(* What each step of a command of the experiments has left behind it.  In  *)
(* particular, a result of the dialect matrix and a status record exclude  *)
(* each other: one needs the base intents, the other their absence.        *)
ExperimentsInOrder ==
    /\ doing = "dialect manifest" => variants # Missing
    /\ doing = "dialect metrics" => dialectRankings # Missing /\ HasBaseIntents
    /\ doing = "content aggregate" => contentPrivate # Missing
    /\ doing \in {"vectors", "saving"} =>
          reached <= 3 /\ \A n \in Normalizations : n < reached => corpusVectors[n] = "whole"
    /\ doing = "saving" => corpusVectors[reached] = "torn"
    /\ doing = "embedding metrics" => \A n \in Normalizations : corpusVectors[n] = "whole"
    /\ doing = "outputs" => reached <= Subset + 1 /\ outputs >= reached - 1
    /\ doing = "status" => reached <= 8 /\ ~HasBaseIntents
    /\ doing \notin {"vectors", "saving", "outputs", "status"} => reached = 1
    /\ metrics["dialect"] >= 0 => HasBaseIntents

ExperimentsInvariant == ExperimentsTypeOK /\ EvidenceBehind /\ ExperimentsInOrder

(* The types as numbers. *)
LEMMA ExperimentsKinds ==
    ASSUME ExperimentsTypeOK
    PROVE  /\ MaxVariants \in Nat /\ MaxVariants >= 1 /\ Subset \in Nat /\ Subset >= 1 /\ MaxCommands \in Nat
           /\ variants = -1 \/ (variants \in Nat /\ variants >= 1 /\ variants <= MaxVariants)
           /\ dialectRankings = -1
              \/ (dialectRankings \in Nat /\ dialectRankings >= 1 /\ dialectRankings <= MaxVariants)
           /\ contentPrivate = -1
              \/ (contentPrivate \in Nat /\ contentPrivate >= 1 /\ contentPrivate <= MaxVariants)
           /\ dialectManifest \in Int /\ contentTracked \in Int /\ outputs \in Nat /\ outputs <= Subset
           /\ reached \in Nat /\ reached >= 1 /\ reached <= Subset + 8
           /\ given \in Nat /\ given <= MaxCommands
           /\ \A e \in Experiments : metrics[e] \in Int
  BY ExperimentsAssumption DEF ExperimentsTypeOK, Published, Generated, Missing, NotRun, Committed

LEMMA ExperimentsInvariantInit == ExperimentsInit => ExperimentsInvariant
  <1> SUFFICES ASSUME ExperimentsInit PROVE ExperimentsInvariant
    OBVIOUS
  <1>1. /\ MaxVariants \in Nat /\ MaxCommands \in Nat /\ MaxEvidence \in Nat /\ MaxEvidence >= 1
        /\ Subset \in Nat /\ Subset >= 1
    BY ExperimentsAssumption
  <1>2. /\ Missing \in Published /\ Committed \in Published /\ Missing \in Generated
        /\ Missing = -1 /\ NotRun = -2 /\ Committed = 0
    BY DEF Published, Generated, Missing, NotRun, Committed
  <1>3. ExperimentsTypeOK
    BY <1>1, <1>2 DEF ExperimentsInit, ExperimentsTypeOK, Doing
  <1>4. \A e \in Experiments : metrics[e] \in {0, -1}
    BY <1>2 DEF ExperimentsInit
  <1>5. /\ metrics["dialect"] \in {0, -1} /\ metrics["embedding"] \in {0, -1}
        /\ metrics["latency"] \in {0, -1} /\ metrics["generator"] \in {0, -1}
        /\ metrics["dialect"] = 0 => dialectManifest = 0
    BY <1>2, <1>4 DEF ExperimentsInit, Experiments
  <1>6. EvidenceBehind
    BY <1>2, <1>5 DEF ExperimentsInit, EvidenceBehind
  <1>7. ExperimentsInOrder
    BY <1>2, <1>5 DEF ExperimentsInit, ExperimentsInOrder, HasBaseIntents
  <1> QED  BY <1>3, <1>6, <1>7 DEF ExperimentsInvariant

(* A step that writes metrics writes those of one experiment: a result that*)
(* follows from the private files, or, in a status record, none.           *)
ResultOf(e, number) ==
    /\ number >= 0 \/ doing = "status"
    /\ e = "dialect" /\ number >= 0 => number = dialectRankings /\ HasBaseIntents
    /\ e = "embedding" /\ number >= 0 => \A n \in Normalizations : corpusVectors[n] = "whole"
    /\ e = "latency" /\ number >= 0 => corpusVectors[1] = "whole"
    /\ e = "generator" /\ number >= 0 => outputs = Subset

Publishes ==
    \/ WriteDialectMetrics \/ WriteEmbeddingMetrics \/ WriteGeneratorMetrics
    \/ Reranking \/ Counterfactuals \/ Abstention \/ Latency
    \/ RecordMetricStatus

LEMMA PublishesOneResult ==
    ASSUME ExperimentsInvariant, Publishes
    PROVE  /\ UNCHANGED <<registryFiles, dialectFiles, otherFiles>>
           /\ given' \in 0 .. MaxCommands
           /\ \/ doing' = "nothing" /\ reached' = 1
              \/ doing = "status" /\ doing' = "status" /\ reached' = reached + 1 /\ reached' <= 8
           /\ \E e \in Experiments, number \in Published :
                 metrics' = [metrics EXCEPT ![e] = number] /\ ResultOf(e, number)
  <1>0. ExperimentsTypeOK /\ EvidenceBehind /\ ExperimentsInOrder
    BY DEF ExperimentsInvariant
  <1>kinds. /\ MaxVariants \in Nat /\ MaxVariants >= 1 /\ Subset \in Nat /\ Subset >= 1 /\ MaxCommands \in Nat
            /\ dialectRankings = -1
               \/ (dialectRankings \in Nat /\ dialectRankings >= 1 /\ dialectRankings <= MaxVariants)
            /\ outputs \in Nat /\ outputs <= Subset
            /\ reached \in Nat /\ given \in Nat /\ given <= MaxCommands
            /\ 1 \in Published /\ NotRun \in Published /\ NotRun = -2 /\ Missing = -1
    BY <1>0, ExperimentsKinds DEF Published, NotRun, Missing
  <1> DEFINE Written(e, number) ==
               /\ UNCHANGED <<registryFiles, dialectFiles, otherFiles>>
               /\ metrics' = [metrics EXCEPT ![e] = number]
  <1>published. ASSUME NEW e \in Experiments, NEW number \in Published, Written(e, number), ResultOf(e, number)
                PROVE  /\ UNCHANGED <<registryFiles, dialectFiles, otherFiles>>
                       /\ \E other \in Experiments, n \in Published :
                             metrics' = [metrics EXCEPT ![other] = n] /\ ResultOf(other, n)
    BY <1>published, Zenon
  <1>same. given \in 0 .. MaxCommands
    BY <1>kinds
  <1> HIDE DEF Written
  <1>1. CASE WriteDialectMetrics
    <2>1. /\ Written("dialect", dialectRankings)
          /\ doing = "dialect metrics" /\ doing' = "nothing" /\ reached' = 1 /\ given' = given
      BY <1>1 DEF WriteDialectMetrics, Publish, Ends, Written
    <2>2. dialectRankings # -1 /\ HasBaseIntents
      BY <1>0, <1>kinds, <2>1 DEF ExperimentsInOrder
    <2>3. dialectRankings \in Published /\ dialectRankings >= 0
      BY <1>kinds, <2>2 DEF Published
    <2>4. ResultOf("dialect", dialectRankings)
      BY <2>2, <2>3 DEF ResultOf
    <2>5. "dialect" \in Experiments
      BY DEF Experiments
    <2> QED  BY <1>published, <1>same, <1>kinds, <2>1, <2>3, <2>4, <2>5
  <1>2. CASE WriteEmbeddingMetrics
    <2>1. /\ Written("embedding", 1)
          /\ doing = "embedding metrics" /\ doing' = "nothing" /\ reached' = 1 /\ given' = given
      BY <1>2 DEF WriteEmbeddingMetrics, Publish, Ends, Written
    <2>2. \A n \in Normalizations : corpusVectors[n] = "whole"
      BY <1>0, <2>1 DEF ExperimentsInOrder
    <2>3. ResultOf("embedding", 1)
      BY <2>2 DEF ResultOf
    <2>4. "embedding" \in Experiments
      BY DEF Experiments
    <2> QED  BY <1>published, <1>same, <1>kinds, <2>1, <2>3, <2>4
  <1>3. CASE WriteGeneratorMetrics
    <2>1. /\ Written("generator", 1)
          /\ doing = "outputs" /\ reached = Subset + 1
          /\ doing' = "nothing" /\ reached' = 1 /\ given' = given
      BY <1>3 DEF WriteGeneratorMetrics, Publish, Ends, Written
    <2>2. outputs >= reached - 1
      BY <1>0, <2>1 DEF ExperimentsInOrder
    <2>3. outputs = Subset
      BY <1>kinds, <2>1, <2>2
    <2>4. ResultOf("generator", 1)
      BY <2>3 DEF ResultOf
    <2>5. "generator" \in Experiments
      BY DEF Experiments
    <2> QED  BY <1>published, <1>same, <1>kinds, <2>1, <2>4, <2>5
  <1>4. CASE Reranking \/ Counterfactuals \/ Abstention \/ Latency
    <2>1. PICK e \in {"reranking", "counterfactual", "abstention", "latency"} :
             Measure(e) /\ (e = "latency" => corpusVectors[1] = "whole")
      BY <1>4 DEF Reranking, Counterfactuals, Abstention, Latency
    <2>2. ResultOf(e, 1)
      BY <2>1 DEF ResultOf
    <2>3. reached = 1
      BY <1>0, <2>1 DEF Measure, Command, ExperimentsInOrder
    <2>4. given' \in 0 .. MaxCommands
      BY <1>kinds, <2>1 DEF Measure, Command
    <2> QED  BY <1>kinds, <2>1, <2>2, <2>3, <2>4 DEF Measure, Command, Publish, Experiments
  <1>5. CASE RecordMetricStatus
    <2>1. reached \in 2 .. 8 /\ StatusOrder[reached - 1] \in Experiments
      BY <1>5 DEF RecordMetricStatus, StatusOrder, Experiments
    <2>2. \A e \in Experiments : ResultOf(e, NotRun)
      BY <1>kinds, <1>5 DEF RecordMetricStatus, ResultOf
    <2>3. \/ doing' = "nothing" /\ reached' = 1
          \/ doing = "status" /\ doing' = "status" /\ reached' = reached + 1 /\ reached' <= 8
      BY <1>5, <2>1 DEF RecordMetricStatus, Ends
    <2>4. given' = given
      BY <1>5 DEF RecordMetricStatus, Ends
    <2>5. Written(StatusOrder[reached - 1], NotRun)
      BY <1>5 DEF RecordMetricStatus, Publish, Written
    <2> QED  BY <1>published, <1>same, <1>kinds, <2>1, <2>2, <2>3, <2>4, <2>5
  <1> QED  BY <1>1, <1>2, <1>3, <1>4, <1>5 DEF Publishes

LEMMA ExperimentsTypesStep ==
    ASSUME ExperimentsInvariant, [ExperimentsNext]_experimentVars
    PROVE  ExperimentsTypeOK'
  <1>0. ExperimentsTypeOK /\ ExperimentsInOrder
    BY DEF ExperimentsInvariant
  <1>kinds. /\ MaxVariants \in Nat /\ MaxVariants >= 1 /\ Subset \in Nat /\ Subset >= 1 /\ MaxCommands \in Nat
            /\ reached \in Nat /\ reached >= 1 /\ reached <= Subset + 8
            /\ given \in Nat /\ given <= MaxCommands
            /\ outputs \in Nat /\ outputs <= Subset
            /\ 1 \in Published /\ NotRun \in Published /\ Generated \subseteq Published
    BY <1>0, ExperimentsKinds DEF Published, Generated
  <1>command. Command => given' \in 0 .. MaxCommands
    BY <1>kinds DEF Command
  <1>1. CASE Freeze("plan") \/ Freeze("lock") \/ FreezeRegistry \/ EvidenceChanges
    <2>1. writtenOnce' \subseteq {"plan", "lock"}
      BY <1>0, <1>1 DEF Freeze, FreezeRegistry, EvidenceChanges, ExperimentsTypeOK
    <2>2. evidence' \in 1 .. MaxEvidence
      BY <1>0, <1>1 DEF Freeze, FreezeRegistry, EvidenceChanges, ExperimentsTypeOK
    <2>3. registry' \in {registry, evidence} /\ evidence \in 0 .. MaxEvidence
      BY <1>0, <1>1, ExperimentsAssumption DEF Freeze, FreezeRegistry, EvidenceChanges, ExperimentsTypeOK
    <2> QED  BY <1>0, <1>1, <1>command, <2>1, <2>2, <2>3 DEF Freeze, FreezeRegistry, EvidenceChanges, dialectFiles,
                otherFiles, ExperimentsTypeOK
  <1>2. CASE PrepareDialects
    <2>1. variants' = (IF variants = -1 THEN 1 ELSE variants + 1) /\ variants' <= MaxVariants
      BY <1>2 DEF PrepareDialects, Missing
    <2>2. variants = -1 \/ (variants \in Nat /\ variants >= 1)
      BY <1>0, ExperimentsKinds
    <2>3. variants' \in Generated
      BY <1>kinds, <2>1, <2>2 DEF Generated
    <2> QED  BY <1>0, <1>2, <1>command, <2>3 DEF PrepareDialects, registryFiles, otherFiles,
                ExperimentsTypeOK, Doing
  <1>3. CASE ScoreDialects \/ AuditContent \/ Embedding
    BY <1>0, <1>3, <1>command DEF ScoreDialects, AuditContent, Embedding, registryFiles, dialectFiles,
       otherFiles, ExperimentsTypeOK, Doing
  <1>4. CASE WriteDialectManifest \/ WriteContentAggregate
    <2>1. {dialectManifest', contentTracked'} \subseteq {dialectManifest, contentTracked, variants, contentPrivate}
          /\ {variants, contentPrivate, dialectManifest, contentTracked} \subseteq Published
      BY <1>0, <1>kinds, <1>4 DEF WriteDialectManifest, WriteContentAggregate, ExperimentsTypeOK
    <2>2. UNCHANGED <<writtenOnce, registry, evidence, variants, dialectRankings, contentPrivate,
                      subsetManifest, corpusVectors, outputs, metrics, given>>
          /\ doing' = "nothing" /\ reached' = 1
      BY <1>4 DEF WriteDialectManifest, WriteContentAggregate, Ends, registryFiles, otherFiles
    <2>3. reached' \in 1 .. Subset + 8
      BY <1>kinds, <2>2
    <2> QED  BY <1>0, <2>1, <2>2, <2>3 DEF ExperimentsTypeOK, Doing
  <1>5. CASE LoadVectors \/ EncodeCorpus \/ SaveVectors
    <2>1. reached' \in 1 .. Subset + 8 /\ doing' \in Doing
      <3>1. \/ reached' = reached /\ doing' = "saving"
            \/ reached < 3 /\ reached' = reached + 1 /\ doing' = "vectors"
            \/ reached' = 1 /\ doing' = "embedding metrics"
        BY <1>5 DEF LoadVectors, EncodeCorpus, SaveVectors, NextNormalization
      <3>2. reached' \in 1 .. Subset + 8
        <4>1. reached' = reached \/ (reached < 3 /\ reached' = reached + 1) \/ reached' = 1
          BY <3>1
        <4> QED  BY <1>kinds, <4>1
      <3>3. doing' \in Doing
        BY <3>1 DEF Doing
      <3> QED  BY <3>2, <3>3
    <2>2. corpusVectors' \in [Normalizations -> {"absent", "torn", "whole"}]
      BY <1>0, <1>5 DEF LoadVectors, EncodeCorpus, SaveVectors, otherFiles, ExperimentsTypeOK
    <2> QED  BY <1>0, <1>5, <2>1, <2>2 DEF LoadVectors, EncodeCorpus, SaveVectors, registryFiles,
                dialectFiles, otherFiles, ExperimentsTypeOK
  <1>6. CASE Publishes
    <2>1. metrics' \in [Experiments -> Published] /\ given' \in 0 .. MaxCommands
      BY <1>0, <1>6, PublishesOneResult DEF ExperimentsTypeOK
    <2>2. /\ UNCHANGED <<registryFiles, dialectFiles, otherFiles>>
          /\ \/ doing' = "nothing" /\ reached' = 1
             \/ doing' = "status" /\ reached' = reached + 1 /\ reached' <= 8
      BY <1>6, PublishesOneResult
    <2>3. reached' \in 1 .. Subset + 8
      BY <1>kinds, <2>2
    <2>4. doing' \in Doing
      BY <2>2 DEF Doing
    <2> QED  BY <1>0, <2>1, <2>2, <2>3, <2>4 DEF registryFiles, dialectFiles, otherFiles, ExperimentsTypeOK
  <1>7. CASE FreezeSubset \/ RecordStatus
    BY <1>0, <1>kinds, <1>7, <1>command DEF FreezeSubset, RecordStatus, registryFiles, dialectFiles,
       otherFiles, ExperimentsTypeOK, Doing
  <1>8. CASE WriteOutput \/ RecordSubsetStatus
    <2>1. outputs' \in 0 .. Subset /\ reached' \in 1 .. Subset + 8 /\ subsetManifest' \in Published
      BY <1>0, <1>kinds, <1>8 DEF WriteOutput, RecordSubsetStatus, ExperimentsTypeOK
    <2> QED  BY <1>0, <1>8, <2>1 DEF WriteOutput, RecordSubsetStatus, registryFiles, dialectFiles,
                ExperimentsTypeOK
  <1>9. CASE CommandEnds \/ UNCHANGED experimentVars
    <2>1. /\ UNCHANGED <<registryFiles, dialectFiles, otherFiles, metrics, given>>
          /\ \/ UNCHANGED <<doing, reached>>
             \/ doing' = "nothing" /\ reached' = 1
      BY <1>9 DEF CommandEnds, Ends, experimentVars
    <2>2. reached' \in 1 .. Subset + 8
      BY <1>kinds, <2>1
    <2>3. doing' \in Doing
      BY <1>0, <2>1 DEF ExperimentsTypeOK, Doing
    <2> QED  BY <1>0, <2>1, <2>2, <2>3 DEF registryFiles, dialectFiles, otherFiles, ExperimentsTypeOK
  <1> QED
    BY <1>1, <1>2, <1>3, <1>4, <1>5, <1>6, <1>7, <1>8, <1>9 DEF ExperimentsNext, Publishes

(* Vectors that are whole stay so. *)
LEMMA WholeVectorsStay ==
    ASSUME ExperimentsInvariant, [ExperimentsNext]_experimentVars,
           NEW n \in Normalizations, corpusVectors[n] = "whole"
    PROVE  corpusVectors'[n] = "whole"
  <1>0. corpusVectors \in [Normalizations -> {"absent", "torn", "whole"}]
    BY DEF ExperimentsInvariant, ExperimentsTypeOK
  <1>1. CASE EncodeCorpus \/ SaveVectors
    BY <1>0, <1>1 DEF EncodeCorpus, SaveVectors
  <1>2. CASE UNCHANGED corpusVectors
    BY <1>2
  <1>3. CASE Publishes
    BY <1>2, <1>3, PublishesOneResult DEF otherFiles
  <1> QED
    BY <1>1, <1>2, <1>3 DEF ExperimentsNext, Publishes, Freeze, FreezeRegistry, EvidenceChanges, PrepareDialects,
       WriteDialectManifest, ScoreDialects, AuditContent, WriteContentAggregate, Embedding,
       LoadVectors, FreezeSubset, WriteOutput, RecordStatus, RecordSubsetStatus, CommandEnds,
       otherFiles, experimentVars

LEMMA EvidenceBehindStep ==
    ASSUME ExperimentsInvariant, [ExperimentsNext]_experimentVars
    PROVE  EvidenceBehind'
  <1>0. ExperimentsTypeOK /\ EvidenceBehind /\ ExperimentsInOrder
    BY DEF ExperimentsInvariant
  <1>kinds. /\ variants = -1 \/ (variants \in Nat /\ variants >= 1)
            /\ dialectRankings = -1 \/ (dialectRankings \in Nat /\ dialectRankings >= 1)
            /\ contentPrivate = -1 \/ (contentPrivate \in Nat /\ contentPrivate >= 1)
            /\ dialectManifest \in Int /\ contentTracked \in Int
            /\ outputs \in Nat /\ outputs <= Subset /\ Subset \in Nat /\ reached \in Nat
            /\ \A e \in Experiments : metrics[e] \in Int
            /\ {"dialect", "embedding", "latency", "generator"} \subseteq Experiments
            /\ Missing = -1 /\ NotRun = -2
    BY <1>0, ExperimentsKinds DEF Experiments, Missing, NotRun
  <1>numbers. metrics["dialect"] \in Int
    BY <1>kinds
  <1>1. ASSUME UNCHANGED <<variants, dialectManifest, dialectRankings, contentPrivate, contentTracked, metrics>>,
               outputs' = outputs \/ (outputs' \in Nat /\ outputs' >= outputs /\ outputs' <= Subset)
        PROVE  EvidenceBehind'
    <2>1. \A n \in Normalizations : corpusVectors[n] = "whole" => corpusVectors'[n] = "whole"
      BY WholeVectorsStay
    <2>2. 1 \in Normalizations
      BY DEF Normalizations
    <2>3. outputs = Subset => outputs' = Subset
      BY <1>kinds, <1>1 DEF ExperimentsTypeOK
    <2> QED  BY <1>0, <1>1, <2>1, <2>2, <2>3 DEF EvidenceBehind
  <1>2. ASSUME UNCHANGED <<metrics, corpusVectors, outputs>>,
               \/ /\ UNCHANGED <<dialectManifest, dialectRankings, contentPrivate, contentTracked>>
                  /\ variants' >= variants /\ variants' \in Int
               \/ UNCHANGED <<variants, dialectManifest, contentPrivate, contentTracked>> /\ dialectRankings' = variants
               \/ UNCHANGED <<variants, dialectManifest, dialectRankings, contentTracked>> /\ contentPrivate' = variants
               \/ UNCHANGED <<variants, dialectRankings, contentPrivate, contentTracked>>
                  /\ dialectManifest' \in {variants, -2}
               \/ UNCHANGED <<variants, dialectManifest, dialectRankings, contentPrivate>> /\ contentTracked' = contentPrivate
        PROVE  EvidenceBehind'
    BY <1>0, <1>kinds, <1>numbers, <1>2 DEF EvidenceBehind
  <1>3. CASE Publishes
    <2>1. PICK e \in Experiments, number \in Published :
             metrics' = [metrics EXCEPT ![e] = number] /\ ResultOf(e, number)
      BY <1>3, PublishesOneResult
    <2>2. UNCHANGED <<variants, dialectManifest, dialectRankings, contentPrivate, contentTracked, corpusVectors, outputs>>
      BY <1>3, PublishesOneResult DEF dialectFiles, otherFiles
    <2>3. number \in Int
      BY <1>0, ExperimentsKinds DEF Published, Missing, NotRun, Committed
    <2>4. \A x \in Experiments : metrics'[x] = IF x = e THEN number ELSE metrics[x]
      BY <1>0, <2>1 DEF ExperimentsTypeOK
    <2>5. /\ metrics'["dialect"] > 0 => metrics'["dialect"] <= dialectRankings
          /\ metrics'["embedding"] = 1 => \A n \in Normalizations : corpusVectors[n] = "whole"
          /\ metrics'["latency"] = 1 => corpusVectors[1] = "whole"
          /\ metrics'["generator"] = 1 => outputs = Subset
      BY <1>0, <1>kinds, <2>1, <2>3, <2>4 DEF ResultOf, EvidenceBehind
    <2> QED  BY <1>0, <2>2, <2>5 DEF EvidenceBehind
  <1>4. CASE PrepareDialects
    <2>1. variants' >= variants /\ variants' \in Int
      <3>1. variants' = IF variants = -1 THEN 1 ELSE variants + 1
        BY <1>4 DEF PrepareDialects, Missing
      <3>2. variants = -1 \/ (variants \in Nat /\ variants >= 1)
        BY <1>kinds
      <3> QED  BY <3>1, <3>2
    <2> QED  BY <1>2, <1>4, <2>1 DEF PrepareDialects, otherFiles
  <1>5. CASE ScoreDialects \/ AuditContent
    BY <1>2, <1>5 DEF ScoreDialects, AuditContent, otherFiles
  <1>6. CASE WriteDialectManifest \/ WriteContentAggregate
    BY <1>2, <1>6 DEF WriteDialectManifest, WriteContentAggregate, otherFiles
  <1>7. CASE RecordStatus
    BY <1>kinds, <1>2, <1>7 DEF RecordStatus, otherFiles
  <1>8. CASE WriteOutput
    <2>1. outputs' = outputs \/ (outputs' \in Nat /\ outputs' >= outputs /\ outputs' <= Subset)
      BY <1>kinds, <1>8 DEF WriteOutput
    <2> QED  BY <1>1, <1>8, <2>1 DEF WriteOutput, dialectFiles
  <1>9. CASE UNCHANGED <<dialectFiles, metrics, outputs>>
    BY <1>1, <1>9 DEF dialectFiles
  <1> QED
    BY <1>3, <1>4, <1>5, <1>6, <1>7, <1>8, <1>9 DEF ExperimentsNext, Publishes, Freeze, FreezeRegistry,
       EvidenceChanges, Embedding, LoadVectors, EncodeCorpus, SaveVectors, FreezeSubset,
       RecordSubsetStatus, CommandEnds, otherFiles, experimentVars

LEMMA ExperimentsOrderStep ==
    ASSUME ExperimentsInvariant, [ExperimentsNext]_experimentVars
    PROVE  ExperimentsInOrder'
  <1>0. ExperimentsTypeOK /\ ExperimentsInOrder
    BY DEF ExperimentsInvariant
  <1>kinds. /\ reached \in Nat /\ reached >= 1 /\ Subset \in Nat /\ outputs \in Nat
            /\ dialectRankings = -1 \/ (dialectRankings \in Nat /\ dialectRankings >= 1)
            /\ variants = -1 \/ (variants \in Nat /\ variants >= 1)
            /\ corpusVectors \in [Normalizations -> {"absent", "torn", "whole"}]
            /\ metrics["dialect"] \in Int
            /\ Missing = -1 /\ NotRun = -2
    BY <1>0, ExperimentsKinds DEF ExperimentsTypeOK, Experiments, Missing, NotRun
  <1>between. doing = "nothing" => reached = 1
    BY <1>0 DEF ExperimentsInOrder
  (* A command that writes no metrics and leaves the dialect manifest a record*)
  (* of base intents, or no such record, as it was, and then does `next'.     *)
  <1>1. ASSUME UNCHANGED metrics, HasBaseIntents => HasBaseIntents', reached' = 1,
               \/ doing' = "nothing"
               \/ doing' = "dialect manifest" /\ variants' # Missing
               \/ doing' = "dialect metrics" /\ dialectRankings' # Missing /\ HasBaseIntents'
               \/ doing' = "content aggregate" /\ contentPrivate' # Missing
               \/ doing' = "vectors"
               \/ doing' = "embedding metrics" /\ (\A n \in Normalizations : corpusVectors'[n] = "whole")
               \/ doing' = "outputs" /\ outputs' \in Nat
               \/ doing' = "status" /\ ~HasBaseIntents'
        PROVE  ExperimentsInOrder'
    <2>1. metrics'["dialect"] >= 0 => HasBaseIntents'
      BY <1>0, <1>1 DEF ExperimentsInOrder
    <2>2. \A n \in Normalizations : ~(n < 1)
      BY DEF Normalizations
    <2>3. doing' \in {"vectors", "saving"} =>
             reached' <= 3 /\ \A n \in Normalizations : n < reached' => corpusVectors'[n] = "whole"
      <3>1. doing' # "saving" /\ reached' = 1
        BY <1>1
      <3> QED  BY <2>2, <3>1
    <2>4. doing' = "outputs" => reached' <= Subset + 1 /\ outputs' >= reached' - 1
      BY <1>kinds, <1>1
    <2>5. /\ doing' # "saving"
          /\ doing' = "dialect manifest" => variants' # Missing
          /\ doing' = "content aggregate" => contentPrivate' # Missing
      BY <1>1
    <2>6. doing' = "dialect metrics" => dialectRankings' # Missing /\ HasBaseIntents'
      BY <1>1
    <2>7. doing' = "embedding metrics" => \A n \in Normalizations : corpusVectors'[n] = "whole"
      BY <1>1
    <2>8. doing' = "status" => reached' <= 8 /\ ~HasBaseIntents'
      BY <1>1
    <2> QED  BY <1>1, <2>1, <2>3, <2>4, <2>5, <2>6, <2>7, <2>8 DEF ExperimentsInOrder
  <1>2. CASE Freeze("plan") \/ Freeze("lock") \/ FreezeRegistry \/ EvidenceChanges
    BY <1>1, <1>2, <1>between DEF Freeze, FreezeRegistry, EvidenceChanges, Command, dialectFiles, HasBaseIntents
  <1>3. CASE PrepareDialects
    <2>1. variants' # Missing
      <3>1. variants' = IF variants = -1 THEN 1 ELSE variants + 1
        BY <1>3 DEF PrepareDialects, Missing
      <3>2. variants = -1 \/ (variants \in Nat /\ variants >= 1)
        BY <1>kinds
      <3>3. variants' # -1
        BY <3>1, <3>2
      <3> QED  BY <3>3 DEF Missing
    <2> QED  BY <1>1, <1>3, <1>between, <2>1 DEF PrepareDialects, Command, HasBaseIntents
  <1>4. CASE ScoreDialects \/ AuditContent
    BY <1>1, <1>4, <1>between DEF ScoreDialects, AuditContent, Command, HasBaseIntents
  <1>5. CASE WriteDialectManifest \/ WriteContentAggregate
    <2>1. doing = "dialect manifest" => variants # Missing
      BY <1>0 DEF ExperimentsInOrder
    <2>2. variants # -2
      BY <1>kinds
    <2> QED  BY <1>kinds, <1>1, <1>5, <2>1, <2>2 DEF WriteDialectManifest, WriteContentAggregate, Ends, HasBaseIntents
  <1>6. CASE Embedding \/ FreezeSubset
    BY <1>1, <1>kinds, <1>6, <1>between DEF Embedding, FreezeSubset, Command, dialectFiles, HasBaseIntents
  <1>7. CASE LoadVectors \/ EncodeCorpus \/ SaveVectors
    <2>1. reached <= 3 /\ reached \in Normalizations /\ \A n \in Normalizations : n < reached => corpusVectors[n] = "whole"
      <3>1. doing \in {"vectors", "saving"}
        BY <1>7 DEF LoadVectors, EncodeCorpus, SaveVectors
      <3>2. reached <= 3 /\ \A n \in Normalizations : n < reached => corpusVectors[n] = "whole"
        BY <1>0, <3>1 DEF ExperimentsInOrder
      <3> QED  BY <1>kinds, <3>2 DEF Normalizations
    <2>2. UNCHANGED <<dialectManifest, metrics>>
      BY <1>7 DEF LoadVectors, EncodeCorpus, SaveVectors, dialectFiles
    <2>3. CASE EncodeCorpus
      <3>1. /\ doing' = "saving" /\ reached' = reached /\ corpusVectors'[reached] = "torn"
            /\ \A n \in Normalizations : n < reached => corpusVectors'[n] = "whole"
        BY <1>kinds, <2>1, <2>3 DEF EncodeCorpus
      <3> QED  BY <1>0, <2>1, <2>2, <3>1 DEF ExperimentsInOrder, HasBaseIntents
    <2>4. CASE LoadVectors \/ SaveVectors
      <3>1. \A n \in Normalizations : n <= reached => corpusVectors'[n] = "whole"
        <4>1. corpusVectors'[reached] = "whole" /\ \A n \in Normalizations \ {reached} : corpusVectors'[n] = corpusVectors[n]
          BY <1>kinds, <2>1, <2>4 DEF LoadVectors, SaveVectors, otherFiles
        <4> QED  BY <1>kinds, <2>1, <4>1 DEF Normalizations
      <3>2. CASE reached < 3
        <4>1. reached' = reached + 1 /\ doing' = "vectors"
          BY <2>4, <3>2 DEF LoadVectors, SaveVectors, NextNormalization
        <4>2. reached' <= 3 /\ \A n \in Normalizations : n < reached' => corpusVectors'[n] = "whole"
          BY <1>kinds, <3>1, <3>2, <4>1 DEF Normalizations
        <4> QED  BY <1>0, <2>2, <4>1, <4>2 DEF ExperimentsInOrder, HasBaseIntents
      <3>3. CASE ~(reached < 3)
        <4>1. reached' = 1 /\ doing' = "embedding metrics"
          BY <2>4, <3>3 DEF LoadVectors, SaveVectors, NextNormalization
        <4>2. \A n \in Normalizations : corpusVectors'[n] = "whole"
          BY <1>kinds, <3>1, <3>3 DEF Normalizations
        <4> QED  BY <1>1, <2>2, <4>1, <4>2 DEF HasBaseIntents
      <3> QED  BY <3>2, <3>3
    <2> QED  BY <1>7, <2>3, <2>4
  <1>8. CASE Publishes
    <2>1. PICK e \in Experiments, number \in Published :
             metrics' = [metrics EXCEPT ![e] = number] /\ ResultOf(e, number)
      BY <1>8, PublishesOneResult
    <2>2. UNCHANGED dialectManifest
      BY <1>8, PublishesOneResult DEF dialectFiles
    <2>3. \/ doing' = "nothing" /\ reached' = 1
          \/ doing' = "status" /\ doing = "status" /\ reached' <= 8
      BY <1>8, PublishesOneResult
    <2>4. metrics'["dialect"] >= 0 => HasBaseIntents'
      <3>1. metrics'["dialect"] = IF e = "dialect" THEN number ELSE metrics["dialect"]
        BY <1>0, <2>1 DEF ExperimentsTypeOK, Experiments
      <3> QED  BY <1>0, <2>1, <2>2, <3>1 DEF ResultOf, ExperimentsInOrder, HasBaseIntents
    <2> QED  BY <1>0, <2>2, <2>3, <2>4 DEF ExperimentsInOrder, HasBaseIntents
  <1>9. CASE WriteOutput
    <2>1. reached' <= Subset + 1 /\ outputs' >= reached' - 1
      BY <1>0, <1>kinds, <1>9 DEF WriteOutput, ExperimentsInOrder
    <2> QED  BY <1>0, <1>9, <2>1 DEF WriteOutput, dialectFiles, ExperimentsInOrder, HasBaseIntents
  <1>10. CASE RecordStatus
    BY <1>kinds, <1>1, <1>10, <1>between DEF RecordStatus, Command, HasBaseIntents
  <1>11. CASE RecordSubsetStatus
    BY <1>0, <1>11 DEF RecordSubsetStatus, dialectFiles, ExperimentsInOrder, HasBaseIntents
  <1>12. CASE CommandEnds
    BY <1>1, <1>12 DEF CommandEnds, Ends, dialectFiles, HasBaseIntents
  <1>13. CASE UNCHANGED experimentVars
    BY <1>0, <1>13 DEF experimentVars, dialectFiles, otherFiles, ExperimentsInOrder, HasBaseIntents
  <1> QED
    BY <1>2, <1>3, <1>4, <1>5, <1>6, <1>7, <1>8, <1>9, <1>10, <1>11, <1>12, <1>13 DEF ExperimentsNext, Publishes

LEMMA ExperimentsInvariantHolds == ExperimentsSpec => []ExperimentsInvariant
  <1>1. ExperimentsInvariant /\ [ExperimentsNext]_experimentVars => ExperimentsInvariant'
    BY ExperimentsTypesStep, EvidenceBehindStep, ExperimentsOrderStep DEF ExperimentsInvariant
  <1> QED  BY <1>1, ExperimentsInvariantInit, PTL DEF ExperimentsSpec

(* The experiments' files and the command in hand have their types. *)
THEOREM ExperimentsTypeCorrect == ExperimentsSpec => []ExperimentsTypeOK
  <1>1. ExperimentsInvariant => ExperimentsTypeOK
    BY DEF ExperimentsInvariant
  <1> QED  BY <1>1, ExperimentsInvariantHolds, PTL

(* The registry is never replaced: it is written when there is none, or    *)
(* verified against the files as they are.                                 *)
LEMMA RegistryStays ==
    ASSUME ExperimentsInvariant, [ExperimentsNext]_experimentVars, registry # 0
    PROVE  registry' = registry
  <1>1. CASE FreezeRegistry
    BY <1>1 DEF FreezeRegistry
  <1>2. CASE Publishes
    BY <1>2, PublishesOneResult DEF registryFiles
  <1> QED
    BY <1>1, <1>2 DEF ExperimentsNext, Publishes, Freeze, EvidenceChanges, PrepareDialects,
       WriteDialectManifest, ScoreDialects, AuditContent, WriteContentAggregate, Embedding,
       LoadVectors, EncodeCorpus, SaveVectors, FreezeSubset, WriteOutput, RecordStatus,
       RecordSubsetStatus, CommandEnds, registryFiles, experimentVars

(* Once every experiment has a result, no status replaces one. *)
LEMMA ResultsStay ==
    ASSUME ExperimentsInvariant, [ExperimentsNext]_experimentVars,
           \A e \in Experiments : metrics[e] >= 0
    PROVE  \A e \in Experiments : metrics'[e] >= 0
  <1>1. CASE Publishes
    <2>1. PICK e \in Experiments, number \in Published :
             metrics' = [metrics EXCEPT ![e] = number] /\ ResultOf(e, number)
      BY <1>1, PublishesOneResult
    <2>2. doing # "status"
      BY DEF ExperimentsInvariant, ExperimentsInOrder, Experiments
    <2>3. number >= 0
      BY <2>1, <2>2 DEF ResultOf
    <2> QED  BY <2>1, <2>3 DEF ExperimentsInvariant, ExperimentsTypeOK
  <1> QED
    BY <1>1 DEF ExperimentsNext, Publishes, Freeze, FreezeRegistry, EvidenceChanges, PrepareDialects,
       WriteDialectManifest, ScoreDialects, AuditContent, WriteContentAggregate, Embedding,
       LoadVectors, EncodeCorpus, SaveVectors, FreezeSubset, WriteOutput, RecordStatus,
       RecordSubsetStatus, CommandEnds, experimentVars

(* An aggregate is replaced only by that of the audit there is. *)
LEMMA AggregateFollows ==
    ASSUME ExperimentsInvariant, [ExperimentsNext]_experimentVars, contentPrivate' = contentPrivate
    PROVE  contentTracked' \in {contentTracked, contentPrivate}
  <1>1. CASE Publishes
    BY <1>1, PublishesOneResult DEF dialectFiles
  <1>2. CASE WriteContentAggregate
    BY <1>2 DEF WriteContentAggregate
  <1> QED
    BY <1>1, <1>2 DEF ExperimentsNext, Publishes, Freeze, FreezeRegistry, EvidenceChanges, PrepareDialects,
       WriteDialectManifest, ScoreDialects, AuditContent, Embedding,
       LoadVectors, EncodeCorpus, SaveVectors, FreezeSubset, WriteOutput, RecordStatus,
       RecordSubsetStatus, CommandEnds, dialectFiles, experimentVars

(* Vectors a run left half written stay so. *)
LEMMA TornVectorsStay ==
    ASSUME ExperimentsInvariant, [ExperimentsNext]_experimentVars,
           NEW n \in Normalizations, corpusVectors[n] = "torn", ~(doing = "saving" /\ reached = n)
    PROVE  corpusVectors'[n] = "torn"
  <1>0. corpusVectors \in [Normalizations -> {"absent", "torn", "whole"}]
    BY DEF ExperimentsInvariant, ExperimentsTypeOK
  <1>1. CASE EncodeCorpus \/ SaveVectors
    BY <1>0, <1>1 DEF EncodeCorpus, SaveVectors
  <1>2. CASE UNCHANGED corpusVectors
    BY <1>2
  <1>3. CASE Publishes
    BY <1>2, <1>3, PublishesOneResult DEF otherFiles
  <1> QED
    BY <1>1, <1>2, <1>3 DEF ExperimentsNext, Publishes, Freeze, FreezeRegistry, EvidenceChanges, PrepareDialects,
       WriteDialectManifest, ScoreDialects, AuditContent, WriteContentAggregate, Embedding,
       LoadVectors, FreezeSubset, WriteOutput, RecordStatus, RecordSubsetStatus, CommandEnds,
       otherFiles, experimentVars

(* What finalize lets pass, it lets pass until the evidence or the audit is*)
(* another.                                                                *)
LEMMA GateStaysOpen ==
    ASSUME ExperimentsInvariant, [ExperimentsNext]_experimentVars, ExperimentsGate,
           evidence' = evidence, contentPrivate' = contentPrivate
    PROVE  ExperimentsGate'
  <1>1. registry # 0
    BY ExperimentsAssumption DEF ExperimentsGate, ExperimentsInvariant, ExperimentsTypeOK
  <1>2. registry' = evidence'
    BY <1>1, RegistryStays DEF ExperimentsGate
  <1>3. \A e \in Experiments : metrics'[e] >= 0
    BY ResultsStay DEF ExperimentsGate
  <1>4. contentPrivate >= 0
    BY ExperimentsKinds DEF ExperimentsInvariant, ExperimentsGate, Missing
  <1>5. contentTracked' >= 0 /\ ValidIds[contentPrivate'] = ValidIds[contentTracked']
    BY <1>4, AggregateFollows DEF ExperimentsGate
  <1> QED  BY <1>2, <1>3, <1>5 DEF ExperimentsGate

(* Nothing published is ahead of its evidence, the registry stays, finalize*)
(* stays passed, and half-written vectors stay half written                *)
(* (phase15/orchestrator.py, evidence.py, content_audit.py).               *)
THEOREM ExperimentsEvidenceHeld == ExperimentsSpec => EvidenceHeld
  <1>1. ExperimentsInvariant /\ [ExperimentsNext]_experimentVars =>
          [ /\ EvidenceBehind'
            /\ registry # 0 => registry' = registry
            /\ ExperimentsGate /\ ~ExperimentsGate'
                   => evidence' # evidence \/ contentPrivate' # contentPrivate
            /\ \A n \in Normalizations :
                   corpusVectors[n] = "torn" /\ ~(doing = "saving" /\ reached = n)
                       => corpusVectors'[n] = "torn"
          ]_experimentVars
    BY EvidenceBehindStep, RegistryStays, GateStaysOpen, TornVectorsStay
  <1> QED  BY <1>1, ExperimentsInvariantHolds, PTL DEF ExperimentsSpec, EvidenceHeld

-----------------------------------------------------------------------------
(***************************************************************************)
(* MCOffline: all of the offline commands, whichever a behaviour is of.    *)
(***************************************************************************)
OfflineInvariant ==
    IInv /\ BaselinesInvariant /\ ReleaseInvariant /\ ReviewInvariant /\ ExperimentsInvariant

(* A step of all is a step of each component, or leaves it as it is. *)
LEMMA OfflineStepOfEach ==
    ASSUME [OfflineNext]_offlineVars
    PROVE  /\ [Next]_vars /\ [BaselinesNext]_baselineVars /\ [ReleaseNext]_releaseVars
           /\ [ReviewNext]_reviewVars /\ [ExperimentsNext]_experimentVars
  <1>1. CASE OfflineNext
    BY <1>1 DEF OfflineNext
  <1>2. CASE UNCHANGED offlineVars
    BY <1>2 DEF offlineVars
  <1> QED  BY <1>1, <1>2

LEMMA OfflineInvariantHolds == OfflineSpec => []OfflineInvariant
  <1>1. OfflineInit => OfflineInvariant
    BY InvariantInit, BaselinesInvariantInit, ReleaseInvariantInit, ReviewInvariantInit,
       ExperimentsInvariantInit DEF OfflineInit, OfflineInvariant
  <1>2. OfflineInvariant /\ [OfflineNext]_offlineVars => OfflineInvariant'
    <2> SUFFICES ASSUME OfflineInvariant, [OfflineNext]_offlineVars PROVE OfflineInvariant'
      OBVIOUS
    <2>1. /\ [Next]_vars /\ [BaselinesNext]_baselineVars /\ [ReleaseNext]_releaseVars
          /\ [ReviewNext]_reviewVars /\ [ExperimentsNext]_experimentVars
      BY OfflineStepOfEach
    <2>2. IInv'
      BY <2>1, InvariantStep DEF OfflineInvariant
    <2>3. BaselinesInvariant'
      BY <2>1, BaselinesTypesStep, HoldoutRecordStep DEF OfflineInvariant, BaselinesInvariant
    <2>4. ReleaseInvariant'
      BY <2>1, ReleaseInvariantStep DEF OfflineInvariant
    <2>5. ReviewInvariant'
      BY <2>1, ReviewInvariantStep DEF OfflineInvariant
    <2>6. ExperimentsInvariant'
      BY <2>1, ExperimentsTypesStep, EvidenceBehindStep, ExperimentsOrderStep
         DEF OfflineInvariant, ExperimentsInvariant
    <2> QED  BY <2>2, <2>3, <2>4, <2>5, <2>6 DEF OfflineInvariant
  <1> QED  BY <1>1, <1>2, PTL DEF OfflineSpec

(* Every file the offline commands keep has its type. *)
THEOREM OfflineTypesCorrect == OfflineSpec => []TypesOK
  <1>1. OfflineInvariant => TypesOK
    BY DEF OfflineInvariant, IInv, BaselinesInvariant, ReleaseInvariant, ReviewInvariant,
       ExperimentsInvariant, TypesOK
  <1> QED  BY <1>1, OfflineInvariantHolds, PTL

(* What was released or reviewed stays: neither release is ever contradicted*)
(* by its manifest or made whole after a kill, and the review's packet, its*)
(* audit and its decisions are never replaced (evaluation/freeze.py,       *)
(* phase15/review.py).                                                     *)
THEOREM ReleasedAndReviewed == OfflineSpec => ReleasedAndReviewedStay
  <1>1. OfflineInvariant /\ [OfflineNext]_offlineVars => [ReleasesStay /\ ReviewIsFinal]_offlineVars
    BY OfflineStepOfEach, ReleaseStays, ReviewStays DEF OfflineInvariant
  <1> QED  BY <1>1, OfflineInvariantHolds, PTL DEF OfflineSpec, ReleasedAndReviewedStay

(* What is computed at once is as its own module has it, when a behaviour  *)
(* is of it, and else has not begun.                                       *)
SplitHere == IF active = "splits" THEN SplitInvariant ELSE assigned = Unassigned
SpansHere ==
    IF active = "spans" THEN SpanInvariant ELSE proposal = Nothing /\ assembly = NotAssembled
ChunksHere == IF active = "chunks" THEN ChunkInvariant ELSE strategy = "none"
SearchHere == IF active = "search" THEN SearchInvariant ELSE searched = "asked"

ComputedInvariant == SplitHere /\ SpansHere /\ ChunksHere /\ SearchHere

LEMMA ComputedInit == OfflineInit => ComputedInvariant
  <1> SUFFICES ASSUME OfflineInit PROVE ComputedInvariant
    OBVIOUS
  <1>1. SplitHere
    BY DEF OfflineInit, SplitsInit, SplitHere, SplitInvariant, SplitTyped
  <1>2. SpansHere
    <2>1. CASE active = "spans"
      <3>1. SpanInit
        BY <2>1 DEF OfflineInit
      <3>2. SpanInvariant
        BY <3>1 DEF SpanInit, SpanInvariant, SpanTyped, AssemblyOf, NotAssembled
      <3> QED  BY <2>1, <3>2 DEF SpansHere
    <2>2. CASE active # "spans"
      BY <2>2 DEF OfflineInit, SpansHere
    <2> QED  BY <2>1, <2>2
  <1>3. ChunksHere
    BY DEF OfflineInit, ChunkingInit, ChunksHere, ChunkInvariant
  <1>4. SearchHere
    BY DEF OfflineInit, SearchInit, SearchHere, SearchInvariant
  <1> QED  BY <1>1, <1>2, <1>3, <1>4 DEF ComputedInvariant

(* A step of all, as each of these components sees it. *)
LEMMA ComputedStepOfEach ==
    ASSUME [OfflineNext]_offlineVars
    PROVE  /\ active' = active
           /\ [SplitsNext]_splitVars /\ (active # "splits" => UNCHANGED splitVars)
           /\ [SpanNext]_spanVars /\ (active # "spans" => UNCHANGED spanVars)
           /\ [ChunkingNext]_chunkVars /\ (active # "chunks" => UNCHANGED chunkVars)
           /\ [SearchNext]_searchVars /\ (active # "search" => UNCHANGED searchVars)
  <1>1. CASE OfflineNext
    BY <1>1 DEF OfflineNext
  <1>2. CASE UNCHANGED offlineVars
    BY <1>2 DEF offlineVars
  <1> QED  BY <1>1, <1>2

LEMMA ComputedStep ==
    ASSUME ComputedInvariant, [OfflineNext]_offlineVars
    PROVE  ComputedInvariant'
  <1>1. /\ active' = active
        /\ [SplitsNext]_splitVars /\ (active # "splits" => UNCHANGED splitVars)
        /\ [SpanNext]_spanVars /\ (active # "spans" => UNCHANGED spanVars)
        /\ [ChunkingNext]_chunkVars /\ (active # "chunks" => UNCHANGED chunkVars)
        /\ [SearchNext]_searchVars /\ (active # "search" => UNCHANGED searchVars)
    BY ComputedStepOfEach
  <1>2. SplitHere'
    <2>1. CASE active = "splits"
      <3>1. SplitInvariant'
        BY <1>1, <2>1, SplitStep DEF ComputedInvariant, SplitHere
      <3> QED  BY <1>1, <2>1, <3>1 DEF SplitHere
    <2>2. CASE active # "splits"
      <3>1. assigned' = Unassigned
        BY <1>1, <2>2 DEF ComputedInvariant, SplitHere, splitVars
      <3>2. Unassigned' = Unassigned
        BY DEF Unassigned
      <3> QED  BY <1>1, <2>2, <3>1, <3>2 DEF SplitHere
    <2> QED  BY <2>1, <2>2
  <1>3. SpansHere'
    <2>1. CASE active = "spans"
      <3>1. SpanInvariant'
        BY <1>1, <2>1, SpanStep DEF ComputedInvariant, SpansHere
      <3> QED  BY <1>1, <2>1, <3>1 DEF SpansHere
    <2>2. CASE active # "spans"
      <3>1. proposal' = Nothing /\ assembly' = NotAssembled
        BY <1>1, <2>2 DEF ComputedInvariant, SpansHere, spanVars
      <3> QED  BY <1>1, <2>2, <3>1 DEF SpansHere
    <2> QED  BY <2>1, <2>2
  <1>4. ChunksHere'
    <2>1. CASE active = "chunks"
      <3>1. ChunkInvariant'
        BY <1>1, <2>1, ChunkingStep DEF ComputedInvariant, ChunksHere
      <3> QED  BY <1>1, <2>1, <3>1 DEF ChunksHere
    <2>2. CASE active # "chunks"
      BY <1>1, <2>2 DEF ComputedInvariant, ChunksHere, chunkVars
    <2> QED  BY <2>1, <2>2
  <1>5. SearchHere'
    <2>1. CASE active = "search"
      <3>1. SearchInvariant'
        BY <1>1, <2>1, SearchStep DEF ComputedInvariant, SearchHere
      <3> QED  BY <1>1, <2>1, <3>1 DEF SearchHere
    <2>2. CASE active # "search"
      BY <1>1, <2>2 DEF ComputedInvariant, SearchHere, searchVars
    <2> QED  BY <2>1, <2>2
  <1> QED  BY <1>2, <1>3, <1>4, <1>5 DEF ComputedInvariant

LEMMA ComputedThen ==
    ASSUME ComputedInvariant
    PROVE  ComputedAsPromised
  <1>1. SplitIsSound
    <2>1. CASE active = "splits"
      BY <2>1, SplitImplications DEF ComputedInvariant, SplitHere
    <2>2. CASE active # "splits"
      <3>1. ~assigned.done /\ assigned.smoke = {}
        BY <2>2 DEF ComputedInvariant, SplitHere, Unassigned
      <3> QED
        BY <3>1 DEF SplitIsSound, NoLeakage, FamiliesTogether, ClosestHoldout,
           SmokeIsDevUnlessJoined
    <2> QED  BY <2>1, <2>2
  <1>2. AssemblyIsExact
    <2>1. CASE active = "spans"
      BY <2>1, KeptIsMeantAlways, LossIsDiagnosedAlways, AnnotatedIsKeptAlways
         DEF ComputedInvariant, SpansHere, AssemblyIsExact
    <2>2. CASE active # "spans"
      <3>1. proposal = Nothing /\ assembly = NotAssembled
        BY <2>2 DEF ComputedInvariant, SpansHere
      <3>2. ~assembly.valid /\ \A field \in Fields : assembly.kept[field] = {}
        BY <3>1 DEF NotAssembled
      <3>3. SpanFields \subseteq Fields
        BY DEF Fields
      <3>4. \A field \in SpanFields : DOMAIN proposal[field] = {}
        BY <3>1, <3>3 DEF Nothing
      <3> QED
        BY <3>2, <3>3, <3>4 DEF AssemblyIsExact, KeptIsMeant, LossIsDiagnosed, AnnotatedIsKept
    <2> QED  BY <2>1, <2>2
  <1>3. ChunksAreSound
    BY ChunksSoundThen, NoneIsSound DEF ComputedInvariant, ChunksHere
  <1>4. SearchIsSound
    <2>1. CASE active = "search"
      BY <2>1, SearchImplications DEF ComputedInvariant, SearchHere
    <2>2. CASE active # "search"
      <3>1. searched = "asked"
        BY <2>2 DEF ComputedInvariant, SearchHere
      <3> QED
        BY <3>1 DEF SearchIsSound, FusionRespectsBoth, BaselineIsItsRanking, BestIsServed
    <2> QED  BY <2>1, <2>2
  <1> QED  BY <1>1, <1>2, <1>3, <1>4 DEF ComputedAsPromised

(* What is computed at once is as promised, whichever command runs: the    *)
(* split of the items, the assembly of a proposal, the chunks of a         *)
(* document and the evidence of a query (dataset/splits.py,                *)
(* candidate_assembly.py, chunking/strategies.py, the fusion and serving). *)
THEOREM ComputationsAsPromised == OfflineSpec => []ComputedAsPromised
  <1>1. ComputedInvariant /\ [OfflineNext]_offlineVars => ComputedInvariant'
    BY ComputedStep
  <1>2. ComputedInvariant => ComputedAsPromised
    BY ComputedThen
  <1> QED  BY <1>1, <1>2, ComputedInit, PTL DEF OfflineSpec
=============================================================================
