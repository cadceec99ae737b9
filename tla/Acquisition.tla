------------------------------ MODULE Acquisition ------------------------------
(***************************************************************************)
(* Gated acquisition (acquisition/orchestrator.py, storage.py, policy.py,  *)
(* integrity.py, manifests.py): raw files are installed once, under the    *)
(* version of their specification, and five tracked manifests say of every *)
(* source which version and which bytes are there.  A manifest build       *)
(* replaces its source's rows in each of the five, one after the other,    *)
(* and keeps what it reads of the others; a rebuild does so for every      *)
(* source that has a folder.                                               *)
(*                                                                         *)
(* The three JSON manifests are replaced atomically; the two CSV ones are  *)
(* opened for writing, which empties them, before the rows are written.    *)
(* A command may be killed between any two of its writes.                  *)
(***************************************************************************)
EXTENDS Naturals, Sequences

CONSTANTS
    SourceOrder,  \* the sources that have a specification, in order
    RawFiles,     \* the files of each, in the specification's order
    HubSources,   \* those acquired from the hub; the others are imported
    LocalFiles,   \* bytes a local file may have
    Misfit,       \* bytes without the specified number of rows
    LastVersion   \* bound: the versions a source's specification may have

RawSources == {SourceOrder[i] : i \in DOMAIN SourceOrder}
FilesOf(s) == {RawFiles[s][i] : i \in DOMAIN RawFiles[s]}

ASSUME AcquisitionAssumption ==
    /\ HubSources \subseteq RawSources
    /\ \A s \in RawSources : /\ RawFiles[s] \in Seq(STRING) /\ Len(RawFiles[s]) > 0
                             /\ LastVersion[s] \in Nat \ {0}
    /\ "missing" \notin LocalFiles \cup {"pinned", Misfit}

VARIABLES
    versions,  \* version in each source's specification
    raw,       \* bytes of each installed file
    folders,   \* <<source, version>> whose raw folder exists
    partials,  \* partial files left in the raw root
    books,     \* the five manifests: a row per source
    bundles,   \* private privacy review of each source: the version screened
    task       \* the command running

acquisitionVars == <<versions, raw, folders, partials, books, bundles, task>>

Bytes == {"missing", "pinned"} \cup LocalFiles
NoBookRow == [version |-> 0, bytes |-> <<>>]
Row(s, v) == [version |-> v, bytes |-> raw[s][v]]

(* The manifests in the order a build writes them. *)
Books == <<"lock", "snapshots", "privacy status", "privacy summaries", "raw files">>
Csv == {"privacy status", "raw files"}

Idle == [name |-> "none", source |-> "none", step |-> 0, bytes |-> "missing",
         kept |-> <<>>, todo |-> {}, rebuild |-> FALSE]
Free == task.name = "none"

AcquisitionInit ==
    /\ versions = [s \in RawSources |-> 1]
    /\ raw = [s \in RawSources |->
                 [v \in 1..LastVersion[s] |-> [f \in FilesOf(s) |-> "missing"]]]
    /\ folders = {}
    /\ partials = {}
    /\ books = [b \in {Books[i] : i \in DOMAIN Books} |-> [s \in RawSources |-> NoBookRow]]
    /\ bundles = [s \in RawSources |-> 0]
    /\ task = Idle

(* A new revision is pinned in the specification. *)
PinVersion(s) ==
    /\ Free
    /\ versions[s] < LastVersion[s]
    /\ versions' = [versions EXCEPT ![s] = @ + 1]
    /\ UNCHANGED <<raw, folders, partials, books, bundles, task>>

---------------------------------------------------------------------------
(* Authorization: by source, operation and purpose. *)
Purposes(s) ==
    {"local_parsing", "integrity", "duplicate_analysis", "privacy_inspection"} \cup
    CASE s = "alarb" -> {"evaluation"}
      [] s = "arabiccr" -> {"local_research", "inspection"}
      [] s = "saudi-moj-derived" -> {"local_research"}
      [] OTHER -> {}

Authorized(s, operation, purpose) ==
    /\ purpose \notin {"training", "publishing", "public_display", "public_demo"}
    /\ s \in {"alarb", "arabiccr", "saudi-moj-derived"}
    /\ purpose \in Purposes(s)
    /\ operation \in {"acquire", "import_local", "verify", "audit", "manifest_build"}

---------------------------------------------------------------------------
(* acquire, import-local: the partial files of earlier commands are removed,*)
(* then each file is copied to a partial one and installed.                *)
StartInstall(s, bytes) ==
    /\ Free
    /\ IF s \in HubSources
       THEN bytes = "pinned" /\ \E p \in Purposes(s) : Authorized(s, "acquire", p)
       ELSE bytes \in LocalFiles /\ Len(RawFiles[s]) = 1
            /\ \E p \in Purposes(s) : Authorized(s, "import_local", p)
    /\ partials' = {}
    /\ task' = [Idle EXCEPT !.name = "copy", !.source = s, !.step = 1, !.bytes = bytes]
    /\ UNCHANGED <<versions, raw, folders, books, bundles>>

Installing == task.source
File == RawFiles[Installing][task.step]
Place == <<Installing, versions[Installing], File>>
Existing == raw[Installing][versions[Installing]][File]

CopyPartial ==
    /\ task.name = "copy"
    /\ folders' = folders \cup {<<Installing, versions[Installing]>>}
    /\ partials' = partials \cup {Place}
    /\ task' = [task EXCEPT !.name = "install"]
    /\ UNCHANGED <<versions, raw, books, bundles>>

DownloadFails ==
    /\ task.name = "copy" /\ Installing \in HubSources
    /\ task' = Idle
    /\ UNCHANGED <<versions, raw, folders, partials, books, bundles>>

(* An installed file stays: the copy must have its bytes. *)
MayStand(bytes) == Existing \in {"missing", bytes}

InstallFile ==
    /\ task.name = "install"
    /\ partials' = partials \ {Place}
    /\ IF MayStand(task.bytes)
       THEN /\ raw' = [raw EXCEPT ![Installing][versions[Installing]][File] = task.bytes]
            /\ task' = IF task.step = Len(RawFiles[Installing]) THEN Idle
                       ELSE [task EXCEPT !.name = "copy", !.step = @ + 1]
       ELSE raw' = raw /\ task' = Idle
    /\ UNCHANGED <<versions, folders, books, bundles>>

(* The command is killed; what it had opened for writing stays empty. *)
TaskDies ==
    /\ ~Free
    /\ task' = Idle
    /\ UNCHANGED <<versions, raw, folders, partials, books, bundles>>

---------------------------------------------------------------------------
(* Verification asks for every file, and of the tables, all files but the  *)
(* README, for their rows: never for the digest recorded at acquisition.   *)
Fits(f, bytes) == bytes # "missing" /\ (f # "README.md" => bytes # Misfit)

Verified(s) ==
    /\ Authorized(s, "verify", "integrity")
    /\ \A f \in FilesOf(s) : Fits(f, raw[s][versions[s]][f])

(* The screening reads every table; the bundle keeps masked findings only. *)
Screen(s) == bundles' = [bundles EXCEPT ![s] = versions[s]]

Audit(s) ==
    /\ Free
    /\ Authorized(s, "audit", "privacy_inspection")
    /\ \A f \in FilesOf(s) \ {"README.md"} : raw[s][versions[s]][f] # "missing"
    /\ Screen(s)
    /\ UNCHANGED <<versions, raw, folders, partials, books, task>>

StartBuild(s) ==
    /\ Free
    /\ Authorized(s, "manifest_build", "integrity")
    /\ Verified(s)
    /\ Screen(s)
    /\ task' = [Idle EXCEPT !.name = "write", !.source = s, !.step = 1]
    /\ UNCHANGED <<versions, raw, folders, partials, books>>

StartRebuild ==
    /\ Free
    /\ task' = [Idle EXCEPT !.name = "next", !.rebuild = TRUE,
                   !.todo = {s \in RawSources : <<s, versions[s]>> \in folders}]
    /\ UNCHANGED <<versions, raw, folders, partials, books, bundles>>

(* A rebuild takes the sources by name; one that does not verify ends it. *)
FirstToDo(i) ==
    /\ SourceOrder[i] \in task.todo
    /\ \A j \in 1..(i - 1) : SourceOrder[j] \notin task.todo

NextSource ==
    /\ task.name = "next"
    /\ \E i \in DOMAIN SourceOrder :
           LET s == SourceOrder[i] IN
           /\ FirstToDo(i)
           /\ IF Verified(s)
              THEN Screen(s) /\ task' = [task EXCEPT !.name = "write", !.source = s, !.step = 1,
                                                     !.todo = @ \ {s}]
              ELSE bundles' = bundles /\ task' = Idle
    /\ UNCHANGED <<versions, raw, folders, partials, books>>

EndRebuild ==
    /\ task.name = "next" /\ task.todo = {}
    /\ task' = Idle
    /\ UNCHANGED <<versions, raw, folders, partials, books, bundles>>

Book == Books[task.step]

(* A CSV manifest is read, then opened for writing. *)
OpenCsv ==
    /\ task.name = "write" /\ Book \in Csv
    /\ books' = [books EXCEPT ![Book] = [s \in RawSources |-> NoBookRow]]
    /\ task' = [task EXCEPT !.name = "rows", !.kept = books[Book]]
    /\ UNCHANGED <<versions, raw, folders, partials, bundles>>

AfterBook ==
    IF task.step < Len(Books) THEN [task EXCEPT !.name = "write", !.step = @ + 1, !.kept = <<>>]
    ELSE [task EXCEPT !.name = IF task.rebuild THEN "next" ELSE "built", !.step = 0,
                      !.kept = <<>>]

(* The raw files' rows take their version from the lock. *)
RowOf(s) ==
    IF Book = "raw files" THEN [Row(s, versions[s]) EXCEPT !.version = books["lock"][s].version]
    ELSE Row(s, versions[s])

(* Fault: the source's row is all that is written. *)
OthersDropped(rows) == [s \in RawSources |-> NoBookRow]

(* The rows of the other sources. *)
Others(rows) == [rows EXCEPT ![task.source] = NoBookRow]

WriteBook ==
    /\ \/ task.name = "write" /\ Book \notin Csv
       \/ task.name = "rows"
    /\ books' = [books EXCEPT ![Book] =
                    [Others(IF Book \in Csv THEN task.kept ELSE books[Book])
                        EXCEPT ![task.source] = RowOf(task.source)]]
    /\ task' = AfterBook
    /\ UNCHANGED <<versions, raw, folders, partials, bundles>>

EndBuild ==
    /\ task.name = "built"
    /\ task' = Idle
    /\ UNCHANGED <<versions, raw, folders, partials, books, bundles>>

AcquisitionNext ==
    \/ \E s \in RawSources : PinVersion(s) \/ Audit(s) \/ StartBuild(s)
    \/ \E s \in RawSources, bytes \in {"pinned"} \cup LocalFiles : StartInstall(s, bytes)
    \/ CopyPartial \/ DownloadFails \/ InstallFile
    \/ StartRebuild \/ NextSource \/ EndRebuild
    \/ OpenCsv \/ WriteBook \/ EndBuild \/ TaskDies

AcquisitionSpec == AcquisitionInit /\ [][AcquisitionNext]_acquisitionVars

---------------------------------------------------------------------------
(* The type invariant. *)
AcquisitionTypeOK ==
    /\ versions \in [RawSources -> Nat \ {0}]
    /\ \A s \in RawSources : \A v \in DOMAIN raw[s], f \in FilesOf(s) : raw[s][v][f] \in Bytes
    /\ \A place \in folders : place[2] \in 1..LastVersion[place[1]]
    /\ \A b \in DOMAIN books, s \in RawSources : books[b][s].version \in 0..LastVersion[s]
    /\ task.name \in {"none", "copy", "install", "write", "rows", "next", "built"}

(* Whatever a manifest says of a source is what is installed, in full and  *)
(* of the rows specified, under the version it names; and the review bundle*)
(* is at least as new as the privacy status that counts its findings       *)
(* (build_manifest, _source_version_from_lock, copy_immutable).            *)
RowsAreTrue ==
    \A s \in RawSources :
        /\ \A row \in {books[b][s] : b \in DOMAIN books} \ {NoBookRow} :
               /\ row = Row(s, row.version)
               /\ \A f \in FilesOf(s) : Fits(f, row.bytes[f])
        /\ books["privacy status"][s].version <= bundles[s]

(* Where a build ends the five say the same of its source; where a rebuild *)
(* ends they say it of every source that has a folder, whatever was killed *)
(* before it (rebuild_auto).                                               *)
Agree(s) == \A b \in DOMAIN books : books[b][s] = Row(s, versions[s])

BuildsAgree ==
    /\ task.name = "built" => Agree(task.source)
    /\ task.name = "next" /\ task.todo = {} =>
           \A s \in RawSources : <<s, versions[s]>> \in folders => Agree(s)

(* An installed raw file is never changed, and nothing removes a source's  *)
(* row from a JSON manifest, nor from a CSV one but the writing of it.     *)
RawStays ==
    \A s \in RawSources : \A v \in DOMAIN raw[s], f \in FilesOf(s) :
        raw[s][v][f] # "missing" => raw'[s][v][f] = raw[s][v][f]

RowsStay ==
    \A b \in DOMAIN books, s \in RawSources :
        books[b][s] # NoBookRow /\ books'[b][s] = NoBookRow => b \in Csv /\ task'.kept[s] = books[b][s]

(* Raw files and their manifests: all four, at every step of every command *)
(* and of those that die.                                                  *)
AcquisitionIsSound ==
    [][RowsAreTrue' /\ BuildsAgree' /\ RawStays /\ RowsStay]_acquisitionVars
=============================================================================
