-------------------------- MODULE EvaluationRelease --------------------------
(***************************************************************************)
(* The retrieval evaluation dataset, from its drafts to its two releases   *)
(* (evaluation/orchestrator.py, review.py, freeze.py).  Each draft is made *)
(* from the one before it and an external adjudication file; the commands  *)
(* work on the last one that exists.  Human review is exported and         *)
(* imported as packets; freeze releases a reviewed draft as v1, and        *)
(* freeze-ai-reviewed copies the final candidate, unreviewed, to a release *)
(* of its own.                                                             *)
(*                                                                         *)
(* A draft's items are taken as a whole: the adjudication file they were   *)
(* made with, and how far their review is.  The process may be killed      *)
(* between any two files a command writes.                                 *)
(***************************************************************************)
EXTENDS Naturals

CONSTANTS
    FinalDraft,     \* the final candidate, the last of the drafts
    Adjudications,  \* adjudication files a draft may be built with
    ReviewedDrafts  \* bound: the drafts human review is imported into

Drafts == 1..FinalDraft

ASSUME ReleaseAssumption ==
    /\ FinalDraft \in Nat \ {0}
    /\ "none" \notin Adjudications
    /\ ReviewedDrafts \subseteq Drafts

VARIABLES
    drafts,       \* items file of each draft
    conformance,  \* the adjudication the final candidate's conformance file is of
    frozen,       \* frozen v1 of each draft: its files and its manifest
    aiRelease,    \* the copied release: how much of it exists, and of what
    aiManifest,   \* the release's manifest
    command       \* the command running: what it does next, for which draft and items

releaseVars == <<drafts, conformance, frozen, aiRelease, aiManifest,
                 command>>

(* How far the review of all items is: no item is reviewed; some are; some *)
(* are attested too; all pass the human gate; an item still a draft is     *)
(* attested, which no command can read.                                    *)
Reviews == {"draft", "reviewed", "attested", "verified", "unreadable"}

ItemSets == [made : Adjudications, review : Reviews, complete : BOOLEAN]
NoItems == [made |-> "none", review |-> "draft", complete |-> FALSE]
NoV1 == [files |-> NoItems, manifest |-> NoItems]
NotCopied == [copied |-> "none", items |-> NoItems, conformance |-> "none", v1 |-> NoItems]
NoCommand == [name |-> "none", draft |-> 0, items |-> NoItems]
Fresh(a) == [made |-> a, review |-> "draft", complete |-> TRUE]

Exists(d) == drafts[d] # NoItems
Active == CHOOSE d \in Drafts : Exists(d) /\ \A other \in Drafts : Exists(other) => other <= d
SomeDraft == \E d \in Drafts : Exists(d)

(* An adjudication names every item of the draft it is of. *)
Buildable(items) == items.complete /\ items.review # "unreadable"

ReleaseInit ==
    /\ drafts = [d \in Drafts |-> NoItems]
    /\ conformance = "none"
    /\ frozen = [d \in Drafts |-> NoV1]
    /\ aiRelease = NotCopied
    /\ aiManifest = NoItems
    /\ command = NoCommand

Between == command = NoCommand

Built(d, a) ==
    /\ drafts' = [drafts EXCEPT ![d] = Fresh(a)]
    /\ UNCHANGED <<conformance, frozen, aiRelease, aiManifest, command>>

(* The first draft is drawn from the corpus, the next ones from the draft  *)
(* before them and its adjudication.                                       *)
BuildFirst(a) ==
    /\ Between
    /\ FinalDraft > 1
    /\ Built(1, a)

BuildDraft(d, a) ==
    /\ Between
    /\ d \in 2..(FinalDraft - 1)
    /\ Buildable(drafts[d - 1])
    /\ Built(d, a)

(* The final candidate is validated, the corpus digest with it, before its *)
(* items are written; its conformance file follows.                        *)
BuildFinal(a) ==
    /\ Between
    /\ FinalDraft > 1 => Buildable(drafts[FinalDraft - 1])
    /\ drafts' = [drafts EXCEPT ![FinalDraft] = Fresh(a)]
    /\ command' = [name |-> "build", draft |-> FinalDraft, items |-> Fresh(a)]
    /\ UNCHANGED <<conformance, frozen, aiRelease, aiManifest>>

SaveConformance ==
    /\ command.name = "build"
    /\ conformance' = command.items.made
    /\ command' = NoCommand
    /\ UNCHANGED <<drafts, frozen, aiRelease, aiManifest>>

(* What a packet may make of a review: one step of every item's state, an  *)
(* attestation that is never kept from before.                             *)
Importable(from) ==
    CASE from = "draft" -> {"draft", "reviewed", "attested", "unreadable"}
      [] from \in {"reviewed", "attested"} -> Reviews \ {"draft"}
      [] from = "verified" -> {"reviewed", "attested", "verified"}
      [] OTHER -> {}

(* The items file becomes the packet's items, without validation and without*)
(* those the packet leaves out.                                            *)
ImportReview(review, complete) ==
    /\ Between
    /\ SomeDraft /\ Active \in ReviewedDrafts
    /\ review \in Importable(drafts[Active].review)
    /\ drafts' = [drafts EXCEPT ![Active].review = review,
                                ![Active].complete = @ /\ complete]
    /\ UNCHANGED <<conformance, frozen, aiRelease, aiManifest, command>>

(* Every item adjudicated and attested, every recheck made. *)
PassesGate(items) == items.review = "verified"

(* Fault: a manifest is not looked for. *)
FreezeAgain ==
    /\ Between
    /\ SomeDraft
    /\ PassesGate(drafts[Active])
    /\ frozen' = [frozen EXCEPT ![Active].files = drafts[Active]]
    /\ command' = [name |-> "freeze", draft |-> Active, items |-> drafts[Active]]
    /\ UNCHANGED <<drafts, conformance, aiRelease, aiManifest>>

(* freeze: the files of v1 are written; a v1 that has its manifest is kept,*)
(* and refused when it is of other items.                                  *)
FreezeFiles ==
    /\ Between
    /\ SomeDraft
    /\ PassesGate(drafts[Active])
    /\ frozen[Active].manifest = NoItems
    /\ frozen' = [frozen EXCEPT ![Active].files = drafts[Active]]
    /\ command' = [name |-> "freeze", draft |-> Active, items |-> drafts[Active]]
    /\ UNCHANGED <<drafts, conformance, aiRelease, aiManifest>>

SaveFrozenManifest ==
    /\ command.name = "freeze"
    /\ frozen' = [frozen EXCEPT ![command.draft].manifest = command.items]
    /\ command' = NoCommand
    /\ UNCHANGED <<drafts, conformance, aiRelease, aiManifest>>

(* Every item is there, none attested. *)
Releasable(items) == items.complete /\ items.review \in {"draft", "reviewed"}

(* The final candidate's directory, the files that follow from these left  *)
(* out: a corpus snapshot or a new packet in it only adds refusals.        *)
Source == [copied |-> "whole", items |-> drafts[FinalDraft],
           conformance |-> conformance, v1 |-> frozen[FinalDraft].files]

(* freeze-ai-reviewed: nothing attested, valid, the expected corpus.  A    *)
(* release that exists must be the candidate's directory byte for byte.    *)
CopyRelease ==
    /\ Between
    /\ Releasable(drafts[FinalDraft]) /\ conformance # "none"
    /\ IF aiRelease = NotCopied
       THEN /\ aiRelease' = [Source EXCEPT !.copied = "part"]
            /\ command' = [name |-> "copy", draft |-> FinalDraft, items |-> drafts[FinalDraft]]
       ELSE /\ aiRelease = Source
            /\ command' = [name |-> "release", draft |-> FinalDraft, items |-> drafts[FinalDraft]]
            /\ UNCHANGED aiRelease
    /\ UNCHANGED <<drafts, conformance, frozen, aiManifest>>

FinishCopy ==
    /\ command.name = "copy"
    /\ aiRelease' = [aiRelease EXCEPT !.copied = "whole"]
    /\ command' = [command EXCEPT !.name = "release"]
    /\ UNCHANGED <<drafts, conformance, frozen, aiManifest>>

SaveAiManifest ==
    /\ command.name = "release"
    /\ aiManifest' = command.items
    /\ command' = NoCommand
    /\ UNCHANGED <<drafts, conformance, frozen, aiRelease>>

KillRelease ==
    /\ ~Between
    /\ command' = NoCommand
    /\ UNCHANGED <<drafts, conformance, frozen, aiRelease, aiManifest>>

ReleaseNext ==
    \/ \E a \in Adjudications :
          BuildFirst(a) \/ BuildFinal(a) \/ \E d \in Drafts : BuildDraft(d, a)
    \/ SaveConformance
    \/ \E review \in Reviews, complete \in BOOLEAN : ImportReview(review, complete)
    \/ FreezeFiles
    \/ SaveFrozenManifest
    \/ CopyRelease
    \/ FinishCopy
    \/ SaveAiManifest
    \/ KillRelease

ReleaseSpec == ReleaseInit /\ [][ReleaseNext]_releaseVars

-----------------------------------------------------------------------------
(* Properties. *)

(* The type invariant; the copied release is never of an absent candidate. *)
ReleaseTypeOK ==
    /\ drafts \in [Drafts -> ItemSets \cup {NoItems}]
    /\ conformance \in Adjudications \cup {"none"}
    /\ frozen \in [Drafts -> [files : ItemSets \cup {NoItems},
                              manifest : ItemSets \cup {NoItems}]]
    /\ aiRelease.copied # "none" => aiRelease.items \in ItemSets
    /\ aiManifest \in ItemSets \cup {NoItems}
    /\ command.name \in {"none", "build", "freeze", "copy", "release"}
    /\ command.draft \in Drafts \cup {0}
    /\ command.items \in ItemSets \cup {NoItems}

(* A v1 that has its manifest holds the very items the manifest names, all *)
(* of which had passed the human gate, whatever was killed, imported or    *)
(* built again since.                                                      *)
FrozenAgrees ==
    \A d \in Drafts :
        frozen[d].manifest # NoItems =>
            /\ frozen[d].files = frozen[d].manifest
            /\ frozen[d].manifest.review = "verified"

(* The AI-reviewed manifest is of the release beside it: a whole copy, no  *)
(* item attested by a human, none missing.                                 *)
AiReleaseAgrees ==
    aiManifest # NoItems =>
        /\ aiRelease.copied = "whole"
        /\ aiRelease.items = aiManifest
        /\ aiManifest.complete
        /\ aiManifest.review \in {"draft", "reviewed"}

(* Both kinds of release are what their manifests say; a frozen v1 never   *)
(* changes; and a release killed while it was copied is never completed:   *)
(* every later command finds it different from the candidate and refuses.  *)
ReleasesStay ==
    /\ (FrozenAgrees /\ AiReleaseAgrees)'
    /\ \A d \in Drafts : frozen[d].manifest # NoItems => frozen'[d] = frozen[d]
    /\ aiRelease.copied = "part" /\ command.name = "none"
           => aiRelease' = aiRelease /\ aiManifest' = aiManifest
=============================================================================
