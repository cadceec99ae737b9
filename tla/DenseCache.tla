----------------------------- MODULE DenseCache -----------------------------
(***************************************************************************)
(* The checkpointed embedding cache of one corpus and model                *)
(* (retrieval/cache.py, driven by encode_corpus of                         *)
(* retrieval/orchestrator.py).  The corpus is encoded in blocks; a block   *)
(* counts when the manifest holds the digest of its vectors file.  Once    *)
(* every block counts they are combined into the three files the           *)
(* retrieval commands load.                                                *)
(*                                                                         *)
(* Every file is replaced atomically, one process encodes at a time, and   *)
(* it may end between any two writes.  A vectors file may be damaged while *)
(* no process runs.                                                        *)
(***************************************************************************)
EXTENDS Naturals

CONSTANTS
    BlockCount,  \* blocks of the corpus
    Settings,    \* model configurations and block sizes encoding is started with
    BatchSize,   \* the adapter's default batch size
    MaxDamages   \* bound: vectors files damaged in a behaviour

Blocks == 1..BlockCount
Batches == 1..BatchSize

ASSUME CacheAssumption ==
    /\ BlockCount \in Nat
    /\ BatchSize \in Nat \ {0}
    /\ MaxDamages \in Nat
    /\ "none" \notin Settings

VARIABLES
    blocks,    \* vectors file of each block
    named,     \* blocks whose chunk-ID file exists
    manifest,  \* the settings it was created for and a digest per block
    progress,  \* status in progress.json
    vectors,   \* vectors.npy, the combined vectors
    ids,       \* ids.json exists
    metadata,  \* metadata.json exists
    step,      \* what the encoding process does next; "idle": none runs
    at,        \* the block it is at
    batch,     \* its batch size
    returned,  \* the vectors the last command returned
    damages    \* history: vectors files damaged so far

combined == <<vectors, ids, metadata>>
stored   == <<blocks, named, manifest, progress>>
vars     == <<stored, combined, step, at, batch, returned, damages>>

(* The floats of a block depend on the settings and on the batch size. *)
Encoded == [settings : Settings, batch : Batches]
Absent  == [settings |-> "none", batch |-> 0]
Damaged == [settings |-> "none", batch |-> 1]
NoVectors == [b \in Blocks |-> Absent]

NoManifest == [settings |-> "none", digests |-> NoVectors]

(* A new cache directory, or one an earlier version encoded in one piece. *)
Init ==
    /\ blocks = NoVectors
    /\ named = {}
    /\ manifest = NoManifest
    /\ progress = "absent"
    /\ \/ vectors = NoVectors /\ ids = FALSE /\ metadata = FALSE
       \/ /\ \E s \in Settings :
                vectors = [b \in Blocks |-> [settings |-> s, batch |-> BatchSize]]
          /\ ids = TRUE
          /\ metadata = TRUE
    /\ step = "idle"
    /\ at = 1
    /\ batch = BatchSize
    /\ returned = NoVectors
    /\ damages = 0

(* A digest is of the file's bytes: equal digests, equal vectors. *)
Digest(file) == file

(* Fault: a block's files are not compared with the manifest's digest. *)
ValidByFiles(b) ==
    /\ blocks[b] # Absent
    /\ b \in named
    /\ manifest.digests[b] # Absent

Valid(b) ==
    /\ blocks[b] # Absent
    /\ b \in named
    /\ manifest.digests[b] # Absent
    /\ Digest(blocks[b]) = manifest.digests[b]

(* A cache without a manifest is loaded as it is. *)
LegacyHit ==
    /\ step = "idle"
    /\ manifest.settings = "none"
    /\ metadata
    /\ returned' = vectors
    /\ UNCHANGED <<stored, combined, step, at, batch, damages>>

(* The first run creates the manifest; a later one must agree with it. *)
StartEncoding(s) ==
    /\ step = "idle"
    /\ manifest.settings = "none" => ~metadata
    /\ manifest.settings \in {"none", s}
    /\ manifest' = [manifest EXCEPT !.settings = s]
    /\ step' = IF progress = "absent" THEN "opening" ELSE "scanning"
    /\ at' = 1
    /\ batch' = BatchSize
    /\ returned' = NoVectors
    /\ UNCHANGED <<blocks, named, progress, combined, damages>>

WriteInitialProgress ==
    /\ step = "opening"
    /\ progress' = "in_progress"
    /\ step' = "scanning"
    /\ UNCHANGED <<blocks, named, manifest, combined, at, batch, returned, damages>>

Scanning(b) == step = "scanning" /\ at = b

SkipBlock ==
    /\ \E b \in Blocks : Scanning(b) /\ Valid(b)
    /\ at' = at + 1
    /\ UNCHANGED <<stored, combined, step, batch, returned, damages>>

(* Fault: a batch of one is halved too. *)
HalveAnyBatch ==
    /\ \E b \in Blocks : Scanning(b) /\ ~Valid(b)
    /\ batch' = batch \div 2
    /\ UNCHANGED <<stored, combined, step, at, returned, damages>>

(* The encoder ran out of memory: the block is tried again in smaller      *)
(* batches, and so are the blocks after it.                                *)
HalveBatch ==
    /\ \E b \in Blocks : Scanning(b) /\ ~Valid(b)
    /\ batch > 1
    /\ batch' = batch \div 2
    /\ UNCHANGED <<stored, combined, step, at, returned, damages>>

WriteBlock ==
    /\ \E b \in Blocks :
          /\ Scanning(b)
          /\ ~Valid(b)
          /\ blocks' = [blocks EXCEPT ![b] = [settings |-> manifest.settings, batch |-> batch]]
    /\ step' = "naming"
    /\ UNCHANGED <<named, manifest, progress, combined, at, batch, returned, damages>>

WriteBlockIds ==
    /\ step = "naming"
    /\ named' = named \cup {at}
    /\ step' = "certifying"
    /\ UNCHANGED <<blocks, manifest, progress, combined, at, batch, returned, damages>>

CertifyBlock ==
    /\ step = "certifying"
    /\ manifest' = [manifest EXCEPT !.digests[at] = Digest(blocks[at])]
    /\ step' = "counting"
    /\ UNCHANGED <<blocks, named, progress, combined, at, batch, returned, damages>>

CountBlock ==
    /\ step = "counting"
    /\ progress' = "in_progress"
    /\ at' = at + 1
    /\ step' = "scanning"
    /\ UNCHANGED <<blocks, named, manifest, combined, batch, returned, damages>>

Combine ==
    /\ step = "scanning"
    /\ at > BlockCount
    /\ \A b \in Blocks : Valid(b)
    /\ vectors' = blocks
    /\ step' = "listing"
    /\ UNCHANGED <<stored, ids, metadata, at, batch, returned, damages>>

WriteIds ==
    /\ step = "listing"
    /\ ids' = TRUE
    /\ step' = "describing"
    /\ UNCHANGED <<stored, vectors, metadata, at, batch, returned, damages>>

WriteMetadata ==
    /\ step = "describing"
    /\ metadata' = TRUE
    /\ step' = "finishing"
    /\ UNCHANGED <<stored, vectors, ids, at, batch, returned, damages>>

FinishEncoding ==
    /\ step = "finishing"
    /\ progress' = "complete"
    /\ returned' = vectors
    /\ step' = "idle"
    /\ UNCHANGED <<blocks, named, manifest, combined, at, batch, damages>>

(* The process is killed, or the encoder raised. *)
Stop ==
    /\ step # "idle"
    /\ step' = "idle"
    /\ UNCHANGED <<stored, combined, at, batch, returned, damages>>

DamageBlock ==
    /\ step = "idle"
    /\ damages < MaxDamages
    /\ \E b \in Blocks :
          /\ blocks[b] # Absent
          /\ blocks' = [blocks EXCEPT ![b] = Damaged]
    /\ damages' = damages + 1
    /\ UNCHANGED <<named, manifest, progress, combined, step, at, batch, returned>>

Encoding ==
    \/ WriteInitialProgress
    \/ SkipBlock
    \/ HalveBatch
    \/ WriteBlock
    \/ WriteBlockIds
    \/ CertifyBlock
    \/ CountBlock
    \/ Combine
    \/ WriteIds
    \/ WriteMetadata
    \/ FinishEncoding

Next ==
    \/ LegacyHit
    \/ \E s \in Settings : StartEncoding(s)
    \/ Encoding
    \/ Stop
    \/ DamageBlock

Spec == Init /\ [][Next]_vars

-----------------------------------------------------------------------------
(* Properties. *)

Steps == {"idle", "opening", "scanning", "naming", "certifying", "counting",
          "listing", "describing", "finishing"}

Files == Encoded \cup {Absent, Damaged}

(* The type invariant; the vectors read back for a digest are never damaged. *)
TypeOK ==
    /\ blocks \in [Blocks -> Files]
    /\ named \subseteq Blocks
    /\ manifest \in [settings : Settings \cup {"none"},
                     digests : [Blocks -> Encoded \cup {Absent}]]
    /\ progress \in {"absent", "in_progress", "complete"}
    /\ vectors \in [Blocks -> Files]
    /\ ids \in BOOLEAN
    /\ metadata \in BOOLEAN
    /\ step \in Steps
    /\ at \in 1..(BlockCount + 1)
    /\ batch \in Batches
    /\ returned \in [Blocks -> Files]
    /\ damages \in 0..MaxDamages

(***************************************************************************)
(* What load_cached_embeddings accepts (it looks at metadata.json and at   *)
(* the shapes) is a whole encoding of the corpus: every block present and  *)
(* undamaged, all encoded under the same settings.                         *)
(***************************************************************************)
LoadedIsWhole ==
    metadata =>
        /\ ids
        /\ \E s \in Settings : \A b \in Blocks :
              vectors[b] \in [settings : {s}, batch : Batches]

(* A block the manifest vouches for was encoded under the manifest's own   *)
(* settings (its model_config), and so are all the blocks combined with it.*)
CertifiedUnderManifest ==
    \A b \in Blocks :
        manifest.digests[b] # Absent => manifest.digests[b].settings = manifest.settings

(* progress.json reads "complete" only when the combined cache can be loaded,*)
(* whenever the process that wrote it may have ended.                      *)
CompleteIsLoadable == progress = "complete" => metadata /\ ids

(* What the cache's own files say of it is true of its vectors. *)
CacheIsSound == LoadedIsWhole /\ CertifiedUnderManifest /\ CompleteIsLoadable

(***************************************************************************)
(* It stays true, and resuming never encodes a valid block again: its file *)
(* and its digest stay, whatever happens to the other blocks, unless the   *)
(* file itself is damaged.                                                 *)
(***************************************************************************)
CacheStaysSound ==
    [][/\ CacheIsSound'
       /\ damages' = damages =>
             \A b \in Blocks : Valid(b) => Valid(b)' /\ blocks'[b] = blocks[b]]_vars
=============================================================================
