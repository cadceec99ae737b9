-------------------------- MODULE DiagnosticReview --------------------------
(***************************************************************************)
(* The review half of phase 15: the candidates drawn, the packet of cases, *)
(* its two tracked manifests, the reviewers' decisions, the automated      *)
(* adjudication and the aggregates of the report (phase15/orchestrator.py, *)
(* phase15/review.py, phase15/automated_adjudication.py,                   *)
(* phase15/final_artifacts.py).                                            *)
(*                                                                         *)
(* Tracked files come with a clone, private ones do not: a checkout may    *)
(* hold the manifests of a packet it has not.  Every file is replaced      *)
(* whole; a command may end between two of them.                           *)
(*                                                                         *)
(* A draw is what one collection of candidates gives: the identifiers of   *)
(* its cases, and the local model's suggestions, which may differ between  *)
(* draws of the same cases.  The thirty audited cases follow from both.    *)
(***************************************************************************)

CONSTANTS
    Draws,          \* what a collection may give
    Ids,            \* the identifiers of a draw's cases
    Picks,          \* the identifiers picked from them for the audit
    CommittedDraw,  \* the draw whose tracked files are in the repository
    Cases,          \* cases of the packet a reviewer decides
    NoDraw          \* no draw

ASSUME ReviewAssumption ==
    /\ CommittedDraw \in Draws
    /\ NoDraw \notin Draws
    /\ \A d, e \in Draws : Picks[d] = Picks[e] => Ids[d] = Ids[e]

VARIABLES
    suggestions,   \* ai_suggestions.json, private
    candidates,    \* review_candidates.json, private
    packet,        \* the review packet, private
    reviewed,      \* the packet's tracked manifest
    audited,       \* the audit's tracked manifest
    begun,         \* whether the reviewers' file is there, private
    decided,       \* the cases it has a decision of
    adjudication,  \* the automated adjudication, private
    summary,       \* its tracked aggregate
    analysis,      \* the tracked error analysis
    questions,     \* whether the tracked research questions are there
    preparing      \* what review-prepare, adjudication or synthesis writes next

trackedFiles == <<reviewed, audited, summary, analysis, questions>>
privateFiles == <<suggestions, candidates, packet, begun, decided, adjudication>>
reviewVars == <<trackedFiles, privateFiles, preparing>>

Draw == Draws \cup {NoDraw}

(* An adjudication: the packet it is made from, and the two hashes it was  *)
(* given from the manifests.                                               *)
Adjudication == [from : Draws, population : Draws, audit : Draws]
Unadjudicated == [from |-> NoDraw, population |-> NoDraw, audit |-> NoDraw]

PreparingSteps ==
    {"nothing", "candidates", "packet", "manifest", "audit manifest", "progress",
     "adjudication", "summary", "analysis", "questions"}

ReviewTypeOK ==
    /\ {suggestions, candidates, packet} \subseteq Draw
    /\ reviewed \in Draw /\ audited \in Draw
    /\ begun \in BOOLEAN /\ questions \in BOOLEAN
    /\ decided \subseteq Cases
    /\ {adjudication, summary, analysis} \subseteq Adjudication \cup {Unadjudicated}
    /\ preparing \in PreparingSteps

(* A clone with the tracked files of the committed draw, or a tree from    *)
(* before the review.                                                      *)
ReviewInit ==
    /\ suggestions = NoDraw /\ candidates = NoDraw /\ packet = NoDraw
    /\ begun = FALSE /\ decided = {}
    /\ adjudication = Unadjudicated
    /\ preparing = "nothing"
    /\ \/ /\ reviewed = CommittedDraw /\ audited = CommittedDraw
          /\ summary = [from |-> CommittedDraw, population |-> CommittedDraw,
                        audit |-> CommittedDraw]
          /\ analysis = summary
          /\ questions = TRUE
       \/ /\ reviewed = NoDraw /\ audited = NoDraw
          /\ summary = Unadjudicated /\ analysis = Unadjudicated
          /\ questions = FALSE

---------------------------------------------------------------------------
(* review-prepare *)

(* Candidates are collected when the packet is not there and they are not  *)
(* either, or when the historical inputs are named: the local model's      *)
(* suggestions are written, and then the cases.                            *)
Collect(d) ==
    /\ preparing = "nothing"
    /\ packet = NoDraw
    /\ suggestions' = d
    /\ preparing' = "candidates"
    /\ UNCHANGED <<trackedFiles, candidates, packet, begun, decided, adjudication>>

WriteCandidates ==
    /\ preparing = "candidates"
    /\ candidates' = suggestions
    /\ preparing' = "packet"
    /\ UNCHANGED <<trackedFiles, suggestions, packet, begun, decided, adjudication>>

UseCandidates ==
    /\ preparing = "nothing"
    /\ packet = NoDraw /\ candidates # NoDraw
    /\ preparing' = "packet"
    /\ UNCHANGED <<trackedFiles, privateFiles>>

WritePacket ==
    /\ preparing = "packet"
    /\ packet' = candidates
    /\ preparing' = "manifest"
    /\ UNCHANGED <<trackedFiles, suggestions, candidates, begun, decided, adjudication>>

WriteReviewManifest ==
    /\ preparing = "manifest"
    /\ reviewed' = packet
    /\ preparing' = "audit manifest"
    /\ UNCHANGED <<privateFiles, audited, summary, analysis, questions>>

(* The audit's manifest is written once; another one raises. *)
AuditAgrees == audited \in {NoDraw, packet}

WriteAuditManifest ==
    /\ AuditAgrees
    /\ audited' = packet

PrepareAudit ==
    /\ preparing = "audit manifest"
    /\ WriteAuditManifest
    /\ preparing' = "progress"
    /\ UNCHANGED <<privateFiles, reviewed, summary, analysis, questions>>

(* The reviewers' file is begun unless it is there: the review application *)
(* reads the packet, and may have begun it.                                *)
BeginProgress ==
    /\ preparing = "progress"
    /\ begun' = TRUE
    /\ preparing' = "nothing"
    /\ UNCHANGED <<trackedFiles, suggestions, candidates, packet, decided, adjudication>>

(* With a packet in place only the audit's manifest is seen to. *)
AlreadyPrepared ==
    /\ preparing = "nothing"
    /\ packet # NoDraw
    /\ WriteAuditManifest
    /\ UNCHANGED <<privateFiles, reviewed, summary, analysis, questions, preparing>>

(* The command raises, or its process ends, before its next write. *)
Abandon ==
    /\ preparing # "nothing"
    /\ preparing' = "nothing"
    /\ UNCHANGED <<trackedFiles, privateFiles>>

---------------------------------------------------------------------------
(* The reviewers, while commands run *)

SaveDecision(k) ==
    /\ packet # NoDraw
    /\ decided' = decided \cup {k}
    /\ begun' = TRUE
    /\ UNCHANGED <<trackedFiles, suggestions, candidates, packet, adjudication, preparing>>

---------------------------------------------------------------------------
(* automated-adjudication *)

(* Both manifests are read as they are; the thirty cases are those of the  *)
(* packet whose identifiers the audit's manifest names.                    *)
StartAutomatedAdjudication ==
    /\ preparing = "nothing"
    /\ packet # NoDraw /\ audited # NoDraw /\ reviewed # NoDraw
    /\ preparing' = "adjudication"
    /\ UNCHANGED <<trackedFiles, privateFiles>>

WriteAdjudication ==
    /\ preparing = "adjudication"
    /\ adjudication' = [from |-> packet, population |-> reviewed, audit |-> audited]
    /\ preparing' = "summary"
    /\ UNCHANGED <<trackedFiles, suggestions, candidates, packet, begun, decided>>

WriteSummary ==
    /\ preparing = "summary"
    /\ summary' = adjudication
    /\ preparing' = "nothing"
    /\ UNCHANGED <<privateFiles, reviewed, audited, analysis, questions>>

---------------------------------------------------------------------------
(* The report's aggregates *)

StartSynthesis ==
    /\ preparing = "nothing"
    /\ adjudication # Unadjudicated
    /\ preparing' = "analysis"
    /\ UNCHANGED <<trackedFiles, privateFiles>>

WriteAnalysis ==
    /\ preparing = "analysis"
    /\ analysis' = adjudication
    /\ preparing' = "questions"
    /\ UNCHANGED <<privateFiles, reviewed, audited, summary, questions>>

WriteQuestions ==
    /\ preparing = "questions"
    /\ questions' = TRUE
    /\ preparing' = "nothing"
    /\ UNCHANGED <<privateFiles, reviewed, audited, summary, analysis>>

---------------------------------------------------------------------------
(* finalize: what it asks of the review.  It writes nothing. *)

(* The audit's manifest is of the packet's population, and names the cases *)
(* the packet's own selection gives.                                       *)
AuditOfPacket ==
    /\ Ids[audited] = Ids[packet]
    /\ Picks[audited] = Picks[packet]

(* The adjudication and its aggregate carry the hashes of both manifests. *)
AdjudicationValid(a) ==
    /\ a # Unadjudicated
    /\ Ids[a.population] = Ids[reviewed]
    /\ Picks[a.audit] = Picks[audited]

ReviewGate ==
    /\ NoDraw \notin {packet, audited, reviewed}
    /\ AuditOfPacket
    /\ AdjudicationValid(adjudication) /\ AdjudicationValid(summary)
    /\ analysis # Unadjudicated /\ questions

ReviewNext ==
    \/ \E d \in Draws : Collect(d)
    \/ WriteCandidates \/ UseCandidates \/ WritePacket \/ WriteReviewManifest \/ PrepareAudit
    \/ BeginProgress \/ AlreadyPrepared \/ Abandon
    \/ \E k \in Cases : SaveDecision(k)
    \/ StartAutomatedAdjudication \/ WriteAdjudication \/ WriteSummary
    \/ StartSynthesis \/ WriteAnalysis \/ WriteQuestions

ReviewSpec == ReviewInit /\ [][ReviewNext]_reviewVars

---------------------------------------------------------------------------
(* What finalize lets pass is one review: the packet, both manifests and   *)
(* both adjudications are of the same cases and the same audited ones, and *)
(* the private adjudication was made from the packet that is there         *)
(* (phase15_finalize, ReviewStore.audit_case_ids).                         *)
OneReview ==
    ReviewGate =>
        /\ Ids[reviewed] = Ids[packet]
        /\ adjudication.from = packet
        /\ \A a \in {adjudication, summary, analysis} :
               Ids[a.population] = Ids[packet] /\ Picks[a.audit] = Picks[packet]

(* Finalize never lets a mixture pass.  A packet, once written, is the     *)
(* packet; its audit's manifest is never replaced; no decision is lost,    *)
(* whatever runs beside the reviewers; and a packet that was left without  *)
(* its own manifest stays so: review-prepare answers "already prepared",   *)
(* and finalize can never pass.                                            *)
ReviewIsFinal ==
    /\ OneReview'
    /\ packet # NoDraw => packet' = packet
    /\ audited # NoDraw => audited' = audited
    /\ decided \subseteq decided'
    /\ packet # NoDraw /\ reviewed = NoDraw /\ preparing # "manifest"
           => reviewed' = NoDraw /\ preparing' # "manifest"
=============================================================================
