--------------------------- MODULE AnnotationPack ---------------------------
(***************************************************************************)
(* The private annotation records of the extraction experiment             *)
(* (extraction/annotation.py and the annotation commands of                *)
(* extraction/orchestration.py): a pack of DEV and HOLDOUT records is      *)
(* prepared, exported for review, reviewed by other models and by a        *)
(* person, adjudicated, and the HOLDOUT half is frozen as a release.       *)
(*                                                                         *)
(* A command replaces records one file at a time and may end between two   *)
(* of them.  The interactive session is a process of its own: a person     *)
(* reads a record and saves it later.  Review and adjudication files come  *)
(* from outside, once a batch was exported; the adjudication in use is the *)
(* one the code names by hash.  A text is whose proposal it is.            *)
(***************************************************************************)
EXTENDS Naturals

CONSTANTS
    DevRecords,      \* units selected for DEV
    HoldoutRecords,  \* units selected for HOLDOUT
    Agreed           \* the HOLDOUT record both reviews agreed on

ASSUME PackAssumption ==
    /\ Agreed \in HoldoutRecords
    /\ DevRecords \cap HoldoutRecords = {}

AllRecords == DevRecords \cup HoldoutRecords

VARIABLES
    pack,            \* the file of each record
    packManifest,    \* the selection manifest exists
    holdoutBatch,    \* the HOLDOUT batch was exported
    devBatch,        \* the DEV batch was exported
    writing,         \* the command that replaces records, or "nothing"
    unwritten,       \* records it has yet to replace
    session,         \* the DEV record a person is annotating, if any
    release,         \* the HOLDOUT records as the private release holds them
    releaseManifest  \* the tracked manifest of the release exists

batches  == <<packManifest, holdoutBatch, devBatch>>
writer   == <<writing, unwritten>>
frozenRelease == <<release, releaseManifest>>
packVars == <<pack, batches, writer, session, frozenRelease>>

Statuses == {"absent", "unreviewed", "in_review", "reviewed", "independent_ai_review",
             "dual_ai_agreed"}
Provenances == {"unreviewed", "independent_ai_review", "adjudicated", "dual_ai_agreed",
                "human_adjudicated"}
AnnotationRecord ==
    [status : Statuses, provenance : Provenances, verified : BOOLEAN,
     text : {"none", "review", "final", "human"}]

Record(status, provenance, verified, text) ==
    [status |-> status, provenance |-> provenance, verified |-> verified, text |-> text]

AbsentRecord == Record("absent", "unreviewed", FALSE, "none")
Unreviewed   == Record("unreviewed", "unreviewed", FALSE, "none")
NoRelease    == [h \in HoldoutRecords |-> AbsentRecord]

PackInit ==
    /\ pack = [r \in AllRecords |-> AbsentRecord]
    /\ packManifest = FALSE
    /\ holdoutBatch = FALSE
    /\ devBatch = FALSE
    /\ writing = "nothing"
    /\ unwritten = {}
    /\ session = {}
    /\ release = NoRelease
    /\ releaseManifest = FALSE

(* The records of a split load when the manifest names them and every file *)
(* is there.                                                               *)
Loads(split) == packManifest /\ \A r \in split : pack[r].status # "absent"

(* A proposal may be saved unless it claims what its status or provenance  *)
(* does not allow.                                                         *)
ValidRecord(record) ==
    record.verified =>
        /\ record.provenance \in {"unreviewed", "human_adjudicated"}
        /\ record.status = "reviewed"

IsHumanGold(record) ==
    /\ record.status = "reviewed"
    /\ record.provenance \in {"unreviewed", "human_adjudicated"}
    /\ record.verified

Begin(name, targets) ==
    /\ writing = "nothing"
    /\ writing' = name
    /\ unwritten' = targets
    /\ UNCHANGED <<pack, batches, session, frozenRelease>>

(* Nothing asks whether a pack exists already. *)
StartPrepare == Begin("prepare", AllRecords)

StartImportDev ==
    /\ Loads(DevRecords)
    /\ devBatch
    /\ \E reviewed \in (SUBSET DevRecords) \ {{}} : Begin("import dev", reviewed)

StartImportHoldout ==
    /\ Loads(HoldoutRecords)
    /\ holdoutBatch
    /\ Begin("import holdout", HoldoutRecords)

StartAdjudication ==
    /\ Loads(HoldoutRecords)
    /\ holdoutBatch
    /\ Begin("adjudicate", HoldoutRecords)

(* Fault: an import replaces the proposal and leaves what is said of it. *)
ReviewedTextOnly(record) == [record EXCEPT !.text = "review"]

Reviewed(record) ==
    [record EXCEPT !.text = "review", !.status = "independent_ai_review",
                   !.provenance = "independent_ai_review", !.verified = FALSE]

Adjudicated(record) ==
    [record EXCEPT !.text = "final", !.status = "reviewed",
                   !.provenance = "adjudicated", !.verified = FALSE]

DualAgreed(record) ==
    [record EXCEPT !.text = "review", !.status = "dual_ai_agreed",
                   !.provenance = "dual_ai_agreed", !.verified = FALSE]

Replaced(r) ==
    CASE writing = "prepare" -> Unreviewed
      [] writing = "adjudicate" /\ r # Agreed -> Adjudicated(pack[r])
      [] writing = "adjudicate" /\ r = Agreed -> DualAgreed(pack[r])
      [] OTHER -> Reviewed(pack[r])

ReplaceRecord ==
    /\ writing # "nothing"
    /\ \E r \in unwritten :
          /\ pack' = [pack EXCEPT ![r] = Replaced(r)]
          /\ unwritten' = unwritten \ {r}
    /\ UNCHANGED <<batches, writing, session, frozenRelease>>

(* A pack is complete with its manifest; an import with its last record. *)
FinishCommand ==
    /\ writing \notin {"nothing", "freeze"}
    /\ unwritten = {}
    /\ writing' = "nothing"
    /\ packManifest' = (packManifest \/ writing = "prepare")
    /\ UNCHANGED <<pack, holdoutBatch, devBatch, unwritten, session, frozenRelease>>

KillCommand ==
    /\ writing # "nothing"
    /\ writing' = "nothing"
    /\ unwritten' = {}
    /\ UNCHANGED <<pack, batches, session, frozenRelease>>

(* The second DEV batch and the HOLDOUT batch need untouched records. *)
ExportDev ==
    /\ writing = "nothing"
    /\ Loads(DevRecords)
    /\ devBatch' = TRUE
    /\ UNCHANGED <<pack, packManifest, holdoutBatch, writer, session, frozenRelease>>

ExportHoldout ==
    /\ writing = "nothing"
    /\ Loads(HoldoutRecords)
    /\ \A h \in HoldoutRecords : pack[h] = Unreviewed
    /\ holdoutBatch' = TRUE
    /\ UNCHANGED <<pack, packManifest, devBatch, writer, session, frozenRelease>>

(* The session shows a record nobody has reviewed, or continues one. *)
OpenSession ==
    /\ session = {}
    /\ Loads(DevRecords)
    /\ \E d \in DevRecords :
          /\ pack[d].status \in {"unreviewed", "in_review"}
          /\ session' = {d}
    /\ UNCHANGED <<pack, batches, writer, frozenRelease>>

CloseSession ==
    /\ session # {}
    /\ session' = {}
    /\ UNCHANGED <<pack, batches, writer, frozenRelease>>

(* The record is read again; only its proposal and status are new, and its *)
(* provenance when a person vouches for it.                                *)
Saved(record, status, verified) ==
    Record(status, IF verified THEN "human_adjudicated" ELSE record.provenance,
           verified, "human")

SaveUpdate(d) ==
    /\ Loads(DevRecords)
    /\ \E status \in {"in_review", "reviewed"}, verified \in BOOLEAN :
          /\ ValidRecord(Saved(pack[d], status, verified))
          /\ pack' = [pack EXCEPT ![d] = Saved(pack[d], status, verified)]
    /\ UNCHANGED <<batches, writer, frozenRelease>>

SaveSession == \E d \in session : SaveUpdate(d) /\ session' = {}

(* An update from a file names its record. *)
SaveFile == \E d \in DevRecords : SaveUpdate(d) /\ UNCHANGED session

(* Fault: a release needs reviewed records, whoever reviewed them. *)
ReviewedHoldout == \A h \in HoldoutRecords : pack[h].status # "unreviewed"

FinalHoldout ==
    /\ \A h \in HoldoutRecords :
          pack[h].provenance \in {"adjudicated", "dual_ai_agreed"} /\ ~pack[h].verified
    /\ \E h \in HoldoutRecords :
          {g \in HoldoutRecords : pack[g].provenance = "dual_ai_agreed"} = {h}

NotFrozen == release = NoRelease /\ ~releaseManifest

(* The private release is written first, its manifest after it. *)
FreezeRelease ==
    /\ writing = "nothing"
    /\ NotFrozen
    /\ Loads(HoldoutRecords)
    /\ holdoutBatch
    /\ FinalHoldout
    /\ release' = [h \in HoldoutRecords |-> pack[h]]
    /\ writing' = "freeze"
    /\ unwritten' = {}
    /\ UNCHANGED <<pack, batches, session, releaseManifest>>

FreezeManifest ==
    /\ writing = "freeze"
    /\ releaseManifest' = TRUE
    /\ writing' = "nothing"
    /\ UNCHANGED <<pack, batches, unwritten, session, release>>

PackNext ==
    \/ StartPrepare \/ StartImportDev \/ StartImportHoldout \/ StartAdjudication
    \/ ReplaceRecord \/ FinishCommand \/ KillCommand
    \/ ExportDev \/ ExportHoldout
    \/ OpenSession \/ CloseSession \/ SaveSession \/ SaveFile
    \/ FreezeRelease \/ FreezeManifest

PackSpec == PackInit /\ [][PackNext]_packVars
-----------------------------------------------------------------------------
(* Every variable holds a value of its kind. *)
PackTypeOK ==
    /\ pack \in [AllRecords -> AnnotationRecord]
    /\ packManifest \in BOOLEAN
    /\ holdoutBatch \in BOOLEAN
    /\ devBatch \in BOOLEAN
    /\ writing \in {"nothing", "prepare", "import dev", "import holdout", "adjudicate", "freeze"}
    /\ unwritten \in SUBSET AllRecords
    /\ session \in SUBSET DevRecords
    /\ release \in [HoldoutRecords -> AnnotationRecord]
    /\ releaseManifest \in BOOLEAN

(* What counts as human gold is a person's own proposal: no import, session*)
(* or adjudication, in any order, passes a model's text off as verified    *)
(* (is_human_gold, import_reviewed_dev, _prepare_dev_annotation_update).   *)
GoldIsHuman ==
    \A r \in AllRecords :
        /\ IsHumanGold(pack[r]) => pack[r].text = "human" /\ r \in DevRecords
        /\ pack[r].verified => IsHumanGold(pack[r])

(* The release holds the adjudicated text of every record but the one both *)
(* reviews agree on, whatever imports were cut short or run again before the*)
(* freeze (freeze_holdout_annotation_release).                             *)
FrozenIsFinal ==
    release # NoRelease =>
        \A h \in HoldoutRecords :
            /\ ~release[h].verified
            /\ release[h].text = (IF h = Agreed THEN "review" ELSE "final")

(* What a freeze writes is adjudicated, and a freeze that ended between its*)
(* two files stays without its manifest: the command refuses because the   *)
(* private release exists.                                                 *)
FreezeIsFinal ==
    [][ /\ FrozenIsFinal'
        /\ release # NoRelease /\ ~releaseManifest /\ writing # "freeze"
            => ~releaseManifest' /\ writing' # "freeze" ]_packVars
=============================================================================
