----------------------------- MODULE SpanAssembly -----------------------------
(***************************************************************************)
(* What becomes of a model's semantic proposal (extraction/hybrid.py), and *)
(* of the one a person enters (extraction/interactive.py): quotations are  *)
(* looked up in the canonical text, references in the registry of          *)
(* candidates.  What does not resolve is dropped with a diagnostic by the  *)
(* assembly, and refused by the annotation (extraction/span_validation.py, *)
(* validate_annotation_record).                                            *)
(*                                                                         *)
(* A text is a sequence of characters.  A proposal holds a sequence of     *)
(* quotations or references in each field; its rules are assembled one by  *)
(* one and do not interfere, so it holds one.                              *)
(***************************************************************************)
EXTENDS Integers, Sequences, FiniteSets

CONSTANTS
    Texts,      \* canonical texts
    Proposals,  \* what is proposed: fields -> sequences of quotations or references
    Registry    \* candidate -> its type

NoOccurrence == -1   \* None

(* Top-level exceptions and penalties are as regulated entities, a rule's  *)
(* exceptions as its conditions, percentages as amounts.                   *)
RuleSpanFields == {"actor", "action", "conditions"}
SpanFields == RuleSpanFields \cup {"regulated_entities"}
RuleRefFields == {"rule deadline", "rule effective date", "rule amount"}
RefFields == RuleRefFields \cup {"deadline", "effective date", "amount"}
Fields == SpanFields \cup RefFields
ExpectedType(field) == IF field \in {"rule amount", "amount"} THEN "monetary" ELSE "temporal"

ASSUME SpanAssumption ==
    /\ Texts \subseteq Seq(STRING)
    /\ \A p \in Proposals :
          /\ DOMAIN p = Fields /\ DOMAIN p["action"] = {1} /\ DOMAIN p["actor"] \subseteq {1}
          /\ \A field \in SpanFields : \A i \in DOMAIN p[field] :
                /\ p[field][i].text \in Seq(STRING) \ {<<>>}
                /\ p[field][i].occurrence \in Nat \cup {NoOccurrence}
    /\ \A id \in DOMAIN Registry : Registry[id] \in {"temporal", "monetary"}

VARIABLES
    canonicalText,  \* the record's text
    hasRegistry,    \* whether the deterministic result has its candidates
    proposal,       \* what is proposed
    assembly        \* what was assembled: kept values and diagnostics of each field

spanVars == <<canonicalText, hasRegistry, proposal, assembly>>

(***************************************************************************)
(* Quotations.                                                             *)
(***************************************************************************)
(* Where a text occurs; occurrences may overlap.                           *)
Offsets(quoted) ==
    {i \in 0 .. Len(canonicalText) - Len(quoted) :
        SubSeq(canonicalText, i + 1, i + Len(quoted)) = quoted}

NthOffset(quoted, n) ==
    CHOOSE i \in Offsets(quoted) : Cardinality({j \in Offsets(quoted) : j < i}) = n

Outcome(kept, at, code) == [kept |-> kept, at |-> at, code |-> code]
Kept(at) == Outcome(TRUE, at, "none")
Dropped(code) == Outcome(FALSE, 0, code)

(* Fault: a quotation without an occurrence is taken to be the first. *)
ResolveFirst(q) ==
    IF hasRegistry /\ Offsets(q.text) # {} THEN Kept(NthOffset(q.text, 0))
    ELSE Dropped("UNSUPPORTED_MODEL_SPAN")

(* _resolve *)
Resolve(q) ==
    LET count == Cardinality(Offsets(q.text)) IN
    CASE ~hasRegistry -> Dropped("MISSING_REGISTRY")
      [] hasRegistry /\ count = 0 -> Dropped("UNSUPPORTED_MODEL_SPAN")
      [] hasRegistry /\ count = 1 ->
            Outcome(TRUE, NthOffset(q.text, 0),
                    IF q.occurrence \in {NoOccurrence, 0} THEN "none"
                    ELSE "INVALID_OCCURRENCE_CORRECTED")
      [] hasRegistry /\ count > 1 ->
            IF q.occurrence = NoOccurrence \/ q.occurrence >= count
            THEN Dropped("AMBIGUOUS_OR_INVALID_OCCURRENCE")
            ELSE Kept(NthOffset(q.text, q.occurrence))

(* resolve_exact_span: what it finds, or that it raises. *)
ResolveExact(q) ==
    LET count == Cardinality(Offsets(q.text))
        selected == IF q.occurrence = NoOccurrence THEN 0 ELSE q.occurrence
    IN IF \/ count = 0
          \/ q.occurrence = NoOccurrence /\ count # 1
          \/ selected >= count
       THEN Dropped("raises")
       ELSE Kept(NthOffset(q.text, selected))

(* _candidate *)
Refer(id, field) ==
    CASE ~hasRegistry -> Dropped("MISSING_REGISTRY")
      [] hasRegistry /\ id \in DOMAIN Registry /\ Registry[id] = ExpectedType(field) -> Kept(0)
      [] OTHER -> Dropped("INVALID_CANDIDATE_REFERENCE")

(***************************************************************************)
(* assemble_hybrid_result                                                  *)
(***************************************************************************)
(* The outcome of each value of a field; a rule is made from its action    *)
(* on, and a rule has no effective date to put one in.                     *)
Unexamined(p, field) ==
    \/ field = "rule effective date"
    \/ field \in (RuleSpanFields \cup RuleRefFields) \ {"action"}
       /\ ~Resolve(p["action"][1]).kept

Outcomes(p, field) ==
    IF Unexamined(p, field) THEN <<>>
    ELSE [i \in DOMAIN p[field] |->
             IF field \in SpanFields THEN Resolve(p[field][i]) ELSE Refer(p[field][i], field)]

KeptOf(p, field) ==
    {[value |-> p[field][i], at |-> Outcomes(p, field)[i].at] :
        i \in {j \in DOMAIN Outcomes(p, field) : Outcomes(p, field)[j].kept}}

DiagnosticsOf(p, field) ==
    {[index |-> i, code |-> Outcomes(p, field)[i].code] :
        i \in {j \in DOMAIN Outcomes(p, field) : Outcomes(p, field)[j].code # "none"}}

NotAssembled ==
    [done |-> FALSE, valid |-> FALSE, kept |-> [field \in Fields |-> {}],
     diagnostics |-> [field \in Fields |-> {}]]

Assemble ==
    /\ ~assembly.done
    /\ assembly' =
          [done |-> TRUE, valid |-> TRUE,
           kept |-> [field \in Fields |-> KeptOf(proposal, field)],
           diagnostics |-> [field \in Fields |-> DiagnosticsOf(proposal, field)]]
    /\ UNCHANGED <<canonicalText, hasRegistry, proposal>>

(* parse_semantic_proposal refuses what the provider sent. *)
AssembleUnparsed ==
    /\ ~assembly.done
    /\ assembly' = [NotAssembled EXCEPT !.done = TRUE]
    /\ UNCHANGED <<canonicalText, hasRegistry, proposal>>

SpanInit ==
    /\ canonicalText \in Texts
    /\ hasRegistry \in BOOLEAN
    /\ proposal \in Proposals
    /\ assembly = NotAssembled

SpanNext == Assemble \/ AssembleUnparsed

SpanSpec == SpanInit /\ [][SpanNext]_spanVars

(***************************************************************************)
(* Annotation.                                                             *)
(***************************************************************************)
(* What the terminal lets a person enter: a quotation that occurs, and,    *)
(* only when it occurs again, which of its occurrences (_span).            *)
Enterable(q) ==
    LET count == Cardinality(Offsets(q.text)) IN
    IF count = 1 THEN q.occurrence = NoOccurrence ELSE q.occurrence \in 0 .. count - 1

NoneTwice(values) == \A i, j \in DOMAIN values : values[i] = values[j] => i = j

(* validate_annotation_record, on the proposal of a record with candidates. *)
ValidSpans(quotations) ==
    /\ \A i \in DOMAIN quotations : ResolveExact(quotations[i]).kept
    /\ NoneTwice([i \in DOMAIN quotations |->
                     <<quotations[i].text, ResolveExact(quotations[i]).at>>])

ValidReferences(ids, field) ==
    /\ NoneTwice(ids)
    /\ \A i \in DOMAIN ids :
          ids[i] \in DOMAIN Registry /\ Registry[ids[i]] = ExpectedType(field)

Annotatable(p) ==
    /\ \A field \in SpanFields : ValidSpans(p[field])
    /\ \A field \in RefFields : ValidReferences(p[field], field)

-----------------------------------------------------------------------------
(* Properties. *)

(* Every kept quotation is in the canonical text where it is said to be,   *)
(* and stands for the occurrence that was meant: the one named, or the     *)
(* only one there is.                                                      *)
KeptIsMeant ==
    \A field \in SpanFields : \A k \in assembly.kept[field] :
        LET q == k.value IN
        /\ SubSeq(canonicalText, k.at + 1, k.at + Len(q.text)) = q.text
        /\ \/ Offsets(q.text) = {k.at}
           \/ Cardinality({i \in Offsets(q.text) : i < k.at}) = q.occurrence

(* Nothing proposed is lost without a diagnostic, of its own or of its     *)
(* rule's action; a rule's effective date always is (ProposedRule has one, *)
(* NormativeRule none).                                                    *)
LossIsDiagnosed ==
    assembly.valid =>
        \A field \in Fields \ {"rule effective date"} : \A i \in DOMAIN proposal[field] :
            \/ \E k \in assembly.kept[field] : k.value = proposal[field][i]
            \/ \E d \in assembly.diagnostics[field] : d.index = i
            \/ /\ field \in RuleSpanFields \cup RuleRefFields
               /\ assembly.kept["action"] = {} /\ assembly.diagnostics["action"] # {}

(* What an annotation may hold, the assembly would keep, all of it, where  *)
(* the annotation puts it and without a diagnostic; and what a person can  *)
(* enter at the terminal, the annotation may hold.  The two were written   *)
(* apart, and predictions are compared with annotations.                   *)
AnnotatedIsKept ==
    /\ assembly.valid /\ hasRegistry /\ Annotatable(proposal) =>
          \A field \in Fields \ {"rule effective date"} :
              /\ assembly.diagnostics[field] = {}
              /\ field \in SpanFields =>
                    assembly.kept[field] =
                        {[value |-> proposal[field][i], at |-> ResolveExact(proposal[field][i]).at] :
                            i \in DOMAIN proposal[field]}
    /\ \A field \in SpanFields : \A i \in DOMAIN proposal[field] :
          Enterable(proposal[field][i]) => ResolveExact(proposal[field][i]).kept

(* What resolving a proposal promises. *)
AssemblyIsExact == KeptIsMeant /\ LossIsDiagnosed /\ AnnotatedIsKept
=============================================================================
