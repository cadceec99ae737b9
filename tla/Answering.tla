------------------------------ MODULE Answering ------------------------------
(***************************************************************************)
(* One grounded answer: the context of the ranked chunks is assembled, the *)
(* policy decides whether to generate, the model replies once, and only a  *)
(* draft whose every citation verifies against the canonical text is       *)
(* answered (generation/serving.py with policy.py, answerability.py,       *)
(* quote_registry.py and grounding/).  Offline runs finish differently     *)
(* (generation/postprocessing.py): a query names the pipeline it runs in.  *)
(*                                                                         *)
(* A quotation is a model value that occurs in some units; the label of an *)
(* evidence item or of a registry entry stands for its unit.  A draft is   *)
(* the set of its claims; its answer text is the union of theirs, so every *)
(* claim is represented in it.                                             *)
(***************************************************************************)
EXTENDS ContextAssembly, FiniteSetsExt

CONSTANTS
    Queries,        \* what is asked, and in which pipeline: see Query
    Jurisdictions,  \* jurisdictions a query can name
    Active,         \* the server's jurisdiction
    Primary,        \* units of an eligible primary legal source
    Operative,      \* units whose structural role is a holding or disposition
    Quotes,         \* quotations a model can write
    Occurs,         \* units in whose text each quotation occurs
    Whole,          \* the quotation that is the whole text of a unit
    Written,        \* bound: citations an offline model can write
    MaxClaims,      \* claims of a reply (three in the code)
    MaxCitations    \* bound: citations of a claim

Features == {"blank", "advice", "currentness", "future", "official", "temporal",
             "case_facts", "identified", "dispositive", "missing_section", "forum"}
(* staged: the Stage-D policy refines the base policy; requested:          *)
(* jurisdictions named; scoped: units of sources in the forum's scope.     *)
Query == [pipeline : {"serving", "offline"}, staged : BOOLEAN, features : SUBSET Features,
          requested : SUBSET Jurisdictions, scoped : SUBSET Units]

ASSUME AnsweringAssumption ==
    /\ Queries \subseteq Query
    /\ \A q \in Queries : q.pipeline = "serving" => q.staged
    /\ Active \in Jurisdictions
    /\ Primary \subseteq Units
    /\ Operative \subseteq Units
    /\ Occurs \in [Quotes -> SUBSET Units]
    /\ Whole \in [Units -> Quotes]
    /\ Written \subseteq [evidence : Units \cup {"unknown"}, quote : Quotes]
    /\ \A u \in Units : u \in Occurs[Whole[u]]
    /\ MaxClaims \in Nat \ {0}
    /\ MaxCitations \in Nat \ {0}
    /\ "unknown" \notin Units
    /\ "paraphrase" \notin Quotes

VARIABLES
    stage,  \* "context", "drafting", "verifying", "done"
    query,  \* what is asked
    calls,  \* calls of the generator
    draft,  \* claims of the draft to verify
    result  \* what the pipeline returned or raised

answerVars == <<stage, query, calls, draft, result>>
vars == <<assemblyVars, answerVars>>

Citations == [evidence : Units \cup {"unknown"}, quote : Quotes]
Claims == [mode : {"direct", "interpretation"}, citations : SUBSET Citations]

NoResult == [kind |-> "none", reason |-> "none", shown |-> {}, cited |-> {}]
Ended(kind, reason) == [NoResult EXCEPT !.kind = kind, !.reason = reason]

Init ==
    /\ AssemblyInit
    /\ stage = "context"
    /\ query \in Queries
    /\ calls = 0
    /\ draft = {}
    /\ result = NoResult

Finishes(r) == stage' = "done" /\ result' = r

Assemble ==
    /\ stage = "context"
    /\ AssemblyNext
    /\ UNCHANGED answerVars

(* The assembler raised: serving does not catch it, an offline run records *)
(* the failure as the query's outcome.                                     *)
ContextFails ==
    /\ stage = "context" /\ status = "failed"
    /\ Finishes(Ended("error", "context"))
    /\ UNCHANGED <<assemblyVars, query, calls, draft>>

(***************************************************************************)
(* The policy.  No caller sets the other fields of PolicyContext, so its   *)
(* gates on conflicting evidence, superseded sources, the context's own    *)
(* jurisdictions and retrieval confidence never fire, and a source's       *)
(* status is never available.                                              *)
(***************************************************************************)
Asks(feature) == feature \in query.features
Serving == query.pipeline = "serving"

(* Fault: a query that names several jurisdictions only has to name ours. *)
JurisdictionRefusalByAny ==
    IF query.requested # {} /\ Active \notin query.requested THEN "JURISDICTION_MISMATCH" ELSE "none"

JurisdictionRefusal ==
    CASE Cardinality(query.requested) > 1    -> "JURISDICTION_AMBIGUOUS"
      [] query.requested \ {Active} # {}     -> "JURISDICTION_MISMATCH"
      [] OTHER                               -> "none"

BaseRefusal ==
    CASE Asks("blank")                       -> "REQUESTED_INFO_NOT_FOUND"
      [] Asks("advice")                      -> "PERSONALIZED_LEGAL_ADVICE"
      [] JurisdictionRefusal # "none"        -> JurisdictionRefusal
      [] Asks("currentness")                 -> "CURRENTNESS_UNVERIFIED"
      [] Kept = {}                           -> "NO_CONTEXT"
      [] OTHER                               -> "none"

StageDRefusal ==
    CASE Asks("future")                                        -> "FUTURE_LAW_UNKNOWABLE"
      [] Asks("official") /\ Kept \cap Primary = {}            -> "AUTHORITATIVE_SOURCE_UNAVAILABLE"
      [] Asks("temporal")                                      -> "CURRENTNESS_UNVERIFIED"
      [] Asks("case_facts") /\ ~Asks("identified")             -> "CASE_FACTS_NOT_ESTABLISHED"
      [] Asks("dispositive") /\ (Asks("missing_section") \/ Kept \cap Operative = {})
                                                               -> "REQUIRED_CASE_SECTION_MISSING"
      [] Asks("forum") /\ Kept \cap query.scoped = {}          -> "FORUM_OR_SOURCE_SCOPE_MISMATCH"
      [] OTHER                                                 -> "none"

(* The Stage-D gates come first and name the reason; none of them lifts the*)
(* base decision.                                                          *)
Refusal == IF query.staged /\ StageDRefusal # "none" THEN StageDRefusal ELSE BaseRefusal

PolicyRefuses ==
    /\ stage = "context" /\ status = "packed"
    /\ Refusal # "none"
    /\ Finishes(Ended("abstention", Refusal))
    /\ UNCHANGED <<assemblyVars, query, calls, draft>>

PolicyPermits ==
    /\ stage = "context" /\ status = "packed"
    /\ Refusal = "none"
    /\ stage' = "drafting"
    /\ UNCHANGED <<assemblyVars, query, calls, draft, result>>

(***************************************************************************)
(* The generator is called once.                                           *)
(***************************************************************************)
Replies == stage = "drafting" /\ calls' = calls + 1 /\ UNCHANGED <<assemblyVars, query>>

(* An exception of the generator's own; serving passes the absence of a    *)
(* provider on to the caller (503).                                        *)
GeneratorRaises ==
    /\ Replies
    /\ \/ Finishes(Ended("abstention", "INVALID_GENERATION"))
       \/ Serving /\ Finishes(Ended("unavailable", "none"))
    /\ UNCHANGED draft

ModelAbstains ==
    /\ Replies
    /\ Finishes(Ended("abstention", "MODEL_ABSTENTION"))
    /\ UNCHANGED draft

(* A timeout, a transport error, malformed output, an unknown reference: the*)
(* provider reports an abstention with a reason.  The serving adapter turns*)
(* it into a draft without text or claims, which is then verified.         *)
ReportsInvalid ==
    IF Serving
    THEN stage' = "verifying" /\ draft' = {} /\ UNCHANGED result
    ELSE Finishes(Ended("abstention", "INVALID_GENERATION")) /\ UNCHANGED draft

ProviderFails == Replies /\ ReportsInvalid

(* What a model can write.  A serving model names registry entries, and a  *)
(* name resolves to the whole text of its unit; an offline model may write *)
(* any quotation for any label, and interpret it.                          *)
CitationChoices ==
    IF Serving
    THEN {[evidence |-> u, quote |-> Whole[u]] : u \in Units}
            \cup {[evidence |-> "unknown", quote |-> q] : q \in Quotes}
    ELSE Written
(* The nonempty subsets of S with at most n members. *)
UpTo(n, S) == {{f[i] : i \in 1..n} : f \in [1..n -> S]}
ClaimChoices ==
    [mode : IF Serving THEN {"direct"} ELSE {"direct", "interpretation"},
     citations : UpTo(MaxCitations, CitationChoices)]
DraftChoices == UpTo(MaxClaims, ClaimChoices)

(* Every reference of a serving reply is an entry of this request's registry. *)
Resolvable(claims) ==
    Serving => \A k \in claims : \A c \in k.citations : c.evidence \in Kept

ModelAnswers ==
    /\ Replies
    /\ \E claims \in DraftChoices :
          IF Resolvable(claims)
          THEN stage' = "verifying" /\ draft' = claims /\ UNCHANGED result
          ELSE ReportsInvalid

(***************************************************************************)
(* Verification.                                                           *)
(***************************************************************************)
(* Fault: only the chunk ranked first is searched.                         *)
CarriersFirst(c) ==
    {r \in ranks[c.evidence] : r = 1 /\ c.evidence \in Contents(ranked[r]) /\ c.evidence \in Occurs[c.quote]}

(* Ranks of the contributing chunks in whose unit the quotation is found. *)
Carriers(c) ==
    {r \in ranks[c.evidence] : c.evidence \in Contents(ranked[r]) /\ c.evidence \in Occurs[c.quote]}

CitationValid(c) == c.evidence \in Kept /\ Carriers(c) # {}

(* Fault: the last contributing chunk is cited. *)
VerifiedByLast(c) == [evidence |-> c.evidence, quote |-> c.quote, chunk |-> ranked[Max(Carriers(c))]]

Verified(c) == [evidence |-> c.evidence, quote |-> c.quote, chunk |-> ranked[Min(Carriers(c))]]

StructurallyValid(claims) ==
    /\ Kept # {}
    /\ \A k \in claims : /\ \E c \in k.citations : CitationValid(c)
                         /\ \A c \in k.citations : CitationValid(c)

(* The serving draft is answered as it is.  Offline, interpretations need a*)
(* semantic support that is deferred, and are dropped.                     *)
Accepted(claims) ==
    IF Serving THEN claims ELSE {k \in claims : k.mode = "direct"}

(* A direct claim's text is its quotations. *)
Text(k) == IF k.mode = "direct" THEN {c.quote : c \in k.citations} ELSE {"paraphrase"}

Answer(claims) ==
    [kind |-> "answer", reason |-> "none",
     shown |-> UNION {Text(k) : k \in claims},
     cited |-> {Verified(c) : c \in UNION {k.citations : k \in claims}}]

VerifyDraft ==
    /\ stage = "verifying"
    /\ Finishes(CASE ~StructurallyValid(draft) -> Ended("abstention", "INVALID_GENERATION")
                  [] draft # {} /\ Accepted(draft) = {}
                                     -> Ended("abstention", "SEMANTIC_SUPPORT_UNAVAILABLE")
                  [] OTHER -> Answer(Accepted(draft)))
    /\ UNCHANGED <<assemblyVars, query, calls, draft>>

Next ==
    \/ Assemble \/ ContextFails
    \/ PolicyRefuses \/ PolicyPermits
    \/ GeneratorRaises \/ ModelAbstains \/ ProviderFails \/ ModelAnswers
    \/ VerifyDraft

Spec == Init /\ [][Next]_vars

(***************************************************************************)
(* Properties.                                                             *)
(***************************************************************************)
(* Context, draft and result have their types.                             *)
TypeOK ==
    /\ AssemblyTypeOK
    /\ stage \in {"context", "drafting", "verifying", "done"}
    /\ query \in Queries
    /\ calls \in Nat
    /\ draft \subseteq Claims
    /\ result.kind \in {"none", "answer", "abstention", "error", "unavailable"}

(* Whatever the model wrote, an answer shows only quotations that occur in *)
(* the canonical text of a unit of this context, each cited to the best    *)
(* ranked of the chunks this query retrieved that unit with.               *)
AnswersAreGrounded ==
    result.kind = "answer" =>
        /\ \A q \in result.shown : \E c \in result.cited : c.quote = q
        /\ \A c \in result.cited :
              /\ c.evidence \in Kept
              /\ c.evidence \in Occurs[c.quote]
              /\ \E r \in RanksOf(c.evidence) :
                    /\ c.chunk = ranked[r]
                    /\ \A s \in RanksOf(c.evidence) : r <= s

(* The model is never asked for a query outside the server's jurisdiction, *)
(* for legal advice, without evidence, or, under the Stage-D policy, for an*)
(* official text or a disposition the context does not carry.              *)
GeneratedWhenEligible ==
    calls > 0 =>
        /\ query.requested \subseteq {Active}
        /\ ~Asks("advice")
        /\ Kept # {}
        /\ query.staged /\ Asks("official") => Kept \cap Primary # {}
        /\ query.staged /\ Asks("dispositive") => Kept \cap Operative # {}

(* Verification rejects nothing it should not: a reply that names only     *)
(* entries of the registry is answered, with the texts of exactly those.   *)
KnownReferencesAnswered ==
    Serving /\ stage = "done" /\ draft # {} =>
        /\ result.kind = "answer"
        /\ result.shown = {Whole[c.evidence] : c \in UNION {k.citations : k \in draft}}

(* An answerable response carries verified citations. *)
AnswersAreCited == result.kind = "answer" => result.cited # {}
=============================================================================
