-------------------------- MODULE ComputationProofs --------------------------
(***************************************************************************)
(* Proofs about what is computed at once, for inputs of any size: the      *)
(* split of the items, the assembly of a proposal, the evidence of a query.*)
(* Induction is by the least number, or the smallest subset, of which a    *)
(* statement would be false (WFMin).                                       *)
(***************************************************************************)
EXTENDS Splits, SpanAssembly, HybridSearch, FiniteSetTheorems, WellFoundedInduction, TLAPS

(***************************************************************************)
(* Numbers and finite sets of them.                                        *)
(***************************************************************************)
LEMMA LeastOfNat ==
  ASSUME NEW S \in SUBSET Nat, S # {}
  PROVE  \E n \in S : \A m \in S : n <= m
  <1> DEFINE R == OpToRel(<, Nat)
  <1>1. IsWellFoundedOn(R, Nat)
    BY NatLessThanWellFounded
  <1>2. \A x, y \in Nat : x < y => <<x, y>> \in R
    BY DEF OpToRel
  <1> HIDE DEF R
  <1>3. PICK n \in S : \A m \in S : ~(<<m, n>> \in R)
    BY <1>1, WFMin, Zenon
  <1>4. \A m \in S : ~(m < n)
    BY <1>2, <1>3
  <1> QED
    BY <1>4

(* Induction: a set with zero, and with the successor of all it has. *)
LEMMA NatIsLeast ==
  ASSUME NEW S, 0 \in S, \A n \in Nat : n \in S => n + 1 \in S
  PROVE  Nat \subseteq S
  <1>1. SUFFICES ASSUME Nat \ S # {} PROVE FALSE
    OBVIOUS
  <1>2. PICK n \in Nat \ S : \A m \in Nat \ S : n <= m
    BY <1>1, LeastOfNat
  <1>3. n # 0 /\ n - 1 \in Nat
    BY <1>2
  <1>4. n - 1 \in S
    BY <1>2, <1>3
  <1>5. (n - 1) + 1 \in S
    BY <1>3, <1>4
  <1> QED
    BY <1>2, <1>5

(* A finite set of numbers has an element with n smaller ones. *)
Below(S, i) == {j \in S : j < i}

LEMMA NthExists ==
  ASSUME NEW S \in SUBSET Nat, IsFiniteSet(S), NEW n \in Nat, n < Cardinality(S)
  PROVE  \E i \in S : Cardinality(Below(S, i)) = n
  <1> DEFINE Good == {k \in Nat : \A T \in SUBSET Nat :
                          IsFiniteSet(T) /\ k < Cardinality(T) =>
                              \E i \in T : Cardinality(Below(T, i)) = k}
  <1>1. 0 \in Good
    <2> SUFFICES ASSUME NEW T \in SUBSET Nat, IsFiniteSet(T), 0 < Cardinality(T)
                 PROVE  \E i \in T : Cardinality(Below(T, i)) = 0
      OBVIOUS
    <2>1. T # {}
      BY FS_EmptySet
    <2>2. PICK i \in T : \A j \in T : i <= j
      BY <2>1, LeastOfNat
    <2>3. Below(T, i) = {}
      <3>1. \A j \in T : ~(j < i)
        BY <2>2
      <3> QED
        BY <3>1 DEF Below
    <2> QED
      BY <2>3, FS_EmptySet
  <1>2. ASSUME NEW k \in Nat, k \in Good
        PROVE  k + 1 \in Good
    <2> SUFFICES ASSUME NEW T \in SUBSET Nat, IsFiniteSet(T), k + 1 < Cardinality(T)
                 PROVE  \E i \in T : Cardinality(Below(T, i)) = k + 1
      OBVIOUS
    <2>1. T # {} /\ Cardinality(T) \in Nat
      BY FS_EmptySet, FS_CardinalityType
    <2>2. PICK m \in T : \A j \in T : m <= j
      BY <2>1, LeastOfNat
    <2> DEFINE Rest == T \ {m}
    <2>3. IsFiniteSet(Rest) /\ Cardinality(Rest) = Cardinality(T) - 1
      BY FS_RemoveElement
    <2>4. k < Cardinality(Rest) /\ Rest \in SUBSET Nat
      BY <2>1, <2>3
    <2> HIDE DEF Rest
    <2>5. PICK i \in Rest : Cardinality(Below(Rest, i)) = k
      BY <1>2, <2>3, <2>4
    <2>6. i \in T /\ m < i
      BY <2>2, <2>5 DEF Rest
    <2>7. Below(T, i) = Below(Rest, i) \cup {m} /\ m \notin Below(Rest, i)
      BY <2>2, <2>6 DEF Below, Rest
    <2>8. IsFiniteSet(Below(Rest, i))
      BY <2>3, FS_Subset DEF Below
    <2>9. Cardinality(Below(T, i)) = k + 1
      BY <2>5, <2>7, <2>8, FS_AddElement
    <2> QED
      BY <2>6, <2>9
  <1> HIDE DEF Good
  <1>3. n \in Good
    BY <1>1, <1>2, NatIsLeast
  <1> QED
    BY <1>3 DEF Good

(***************************************************************************)
(* SpanAssembly: what resolves, and what becomes of what does not.         *)
(***************************************************************************)
LEMMA OffsetsFacts ==
  ASSUME canonicalText \in Seq(STRING), NEW quoted \in Seq(STRING)
  PROVE  /\ Offsets(quoted) \in SUBSET Nat
         /\ IsFiniteSet(Offsets(quoted))
         /\ Cardinality(Offsets(quoted)) \in Nat
         /\ \A n \in Nat : n < Cardinality(Offsets(quoted)) =>
               /\ NthOffset(quoted, n) \in Offsets(quoted)
               /\ Cardinality({j \in Offsets(quoted) : j < NthOffset(quoted, n)}) = n
  <1>1. Len(canonicalText) - Len(quoted) \in Int
    OBVIOUS
  <1>2. Offsets(quoted) \subseteq 0 .. Len(canonicalText) - Len(quoted)
    BY DEF Offsets
  <1>3. Offsets(quoted) \in SUBSET Nat
    BY <1>1, <1>2
  <1>4. IsFiniteSet(Offsets(quoted))
    <2>1. IsFiniteSet(0 .. Len(canonicalText) - Len(quoted))
      BY <1>1, FS_Interval
    <2> QED
      BY <1>2, <2>1, FS_Subset
  <1>5. ASSUME NEW n \in Nat, n < Cardinality(Offsets(quoted))
        PROVE  /\ NthOffset(quoted, n) \in Offsets(quoted)
               /\ Cardinality({j \in Offsets(quoted) : j < NthOffset(quoted, n)}) = n
    <2>1. \E i \in Offsets(quoted) : Cardinality({j \in Offsets(quoted) : j < i}) = n
      BY <1>3, <1>4, <1>5, NthExists DEF Below
    <2> QED
      BY <2>1 DEF NthOffset
  <1> QED
    BY <1>3, <1>4, <1>5, FS_CardinalityType

IsQuotation(q) == q.text \in Seq(STRING) \ {<<>>} /\ q.occurrence \in Nat \cup {NoOccurrence}

(* A quotation that is kept stands where it was meant, one that is not has *)
(* a diagnostic, and what an annotation may hold is kept without one.      *)
LEMMA ResolveFacts ==
  ASSUME canonicalText \in Seq(STRING), hasRegistry \in BOOLEAN, NEW q, IsQuotation(q)
  PROVE  /\ Resolve(q).kept =>
               /\ Resolve(q).at \in Offsets(q.text)
               /\ \/ Offsets(q.text) = {Resolve(q).at}
                  \/ Cardinality({i \in Offsets(q.text) : i < Resolve(q).at}) = q.occurrence
         /\ Resolve(q).kept \/ Resolve(q).code # "none"
         /\ hasRegistry /\ ResolveExact(q).kept => Resolve(q) = ResolveExact(q)
         /\ ResolveExact(q).kept => ResolveExact(q).code = "none"
         /\ Enterable(q) => ResolveExact(q).kept
  <1> DEFINE count == Cardinality(Offsets(q.text))
             nth(n) == NthOffset(q.text, n)
  <1>1. /\ count \in Nat /\ IsFiniteSet(Offsets(q.text))
        /\ \A n \in Nat : n < count =>
              /\ nth(n) \in Offsets(q.text)
              /\ Cardinality({j \in Offsets(q.text) : j < nth(n)}) = n
    BY OffsetsFacts DEF IsQuotation
  <1>2. q.occurrence \in Nat \/ q.occurrence = -1
    BY DEF IsQuotation, NoOccurrence
  <1>3. count = 1 => Offsets(q.text) = {nth(0)}
    <2>1. count = 1 => \E x : Offsets(q.text) = {x}
      BY <1>1, FS_Singleton
    <2>2. count = 1 => nth(0) \in Offsets(q.text)
      <3>1. 0 < count => nth(0) \in Offsets(q.text)
        BY <1>1, Zenon
      <3> HIDE DEF count, nth
      <3> QED
        BY <3>1
    <2> QED
      BY <2>1, <2>2
  <1> HIDE DEF count, nth
  <1>4. \/ ~hasRegistry /\ Resolve(q) = Dropped("MISSING_REGISTRY")
        \/ hasRegistry /\ count = 0 /\ Resolve(q) = Dropped("UNSUPPORTED_MODEL_SPAN")
        \/ /\ hasRegistry /\ count = 1
           /\ Resolve(q) = Outcome(TRUE, nth(0),
                                   IF q.occurrence \in {NoOccurrence, 0} THEN "none"
                                   ELSE "INVALID_OCCURRENCE_CORRECTED")
        \/ /\ hasRegistry /\ count > 1
           /\ q.occurrence = NoOccurrence \/ q.occurrence >= count
           /\ Resolve(q) = Dropped("AMBIGUOUS_OR_INVALID_OCCURRENCE")
        \/ /\ hasRegistry /\ count > 1 /\ q.occurrence # NoOccurrence /\ q.occurrence < count
           /\ Resolve(q) = Kept(nth(q.occurrence))
    <2>1. ~hasRegistry \/ count = 0 \/ count = 1 \/ count > 1
      BY <1>1
    <2>2. q.occurrence # NoOccurrence => (q.occurrence < count \/ q.occurrence >= count)
      BY <1>1, <1>2 DEF NoOccurrence
    <2>3. CASE ~hasRegistry
      BY <2>3 DEF Resolve
    <2>4. CASE hasRegistry /\ count = 0
      BY <2>4 DEF Resolve, count
    <2>5. CASE hasRegistry /\ count = 1
      BY <2>5 DEF Resolve, count, nth
    <2>6. CASE hasRegistry /\ count > 1
      <3>1. count # 0 /\ count # 1
        BY <1>1, <2>6
      <3>2. Resolve(q) = IF q.occurrence = NoOccurrence \/ q.occurrence >= count
                         THEN Dropped("AMBIGUOUS_OR_INVALID_OCCURRENCE")
                         ELSE Kept(nth(q.occurrence))
        BY <2>6, <3>1 DEF Resolve, count, nth
      <3>3. CASE q.occurrence = NoOccurrence \/ q.occurrence >= count
        BY <2>6, <3>2, <3>3
      <3>4. CASE ~(q.occurrence = NoOccurrence \/ q.occurrence >= count)
        BY <2>2, <2>6, <3>2, <3>4
      <3> QED
        BY <3>3, <3>4
    <2> QED
      BY <2>1, <2>3, <2>4, <2>5, <2>6
  <1>5. \/ ~ResolveExact(q).kept /\ (count = 0 \/ (q.occurrence = NoOccurrence /\ count # 1)
                                     \/ (q.occurrence # NoOccurrence /\ q.occurrence >= count)
                                     \/ (q.occurrence = NoOccurrence /\ 0 >= count))
        \/ /\ ResolveExact(q).kept /\ count # 0
           /\ \/ q.occurrence = NoOccurrence /\ count = 1 /\ ResolveExact(q) = Kept(nth(0))
              \/ /\ q.occurrence # NoOccurrence /\ ~(q.occurrence >= count)
                 /\ ResolveExact(q) = Kept(nth(q.occurrence))
    BY DEF ResolveExact, count, nth, Kept, Dropped, Outcome
  <1>6. q.occurrence \in Nat /\ ~(q.occurrence >= count) /\ count = 1 => q.occurrence = 0
    BY <1>1
  <1> DEFINE Meant(place) == \/ Offsets(q.text) = {place}
                         \/ Cardinality({i \in Offsets(q.text) : i < place}) = q.occurrence
  <1>12. /\ count = 1 => nth(0) \in Offsets(q.text) /\ Meant(nth(0))
         /\ \A n \in Nat : n < count /\ q.occurrence = n =>
                nth(n) \in Offsets(q.text) /\ Meant(nth(n))
    BY <1>1, <1>3
  <1>13. q.occurrence # NoOccurrence /\ q.occurrence < count =>
             nth(q.occurrence) \in Offsets(q.text) /\ Meant(nth(q.occurrence))
    BY <1>2, <1>12 DEF NoOccurrence
  <1> HIDE DEF Meant
  <1>14. /\ Resolve(q).kept => Resolve(q).at \in Offsets(q.text) /\ Meant(Resolve(q).at)
         /\ Resolve(q).kept \/ Resolve(q).code # "none"
    BY <1>4, <1>12, <1>13 DEF Kept, Dropped, Outcome
  <1>7. /\ Resolve(q).kept =>
               /\ Resolve(q).at \in Offsets(q.text)
               /\ \/ Offsets(q.text) = {Resolve(q).at}
                  \/ Cardinality({i \in Offsets(q.text) : i < Resolve(q).at}) = q.occurrence
        /\ Resolve(q).kept \/ Resolve(q).code # "none"
    BY <1>14 DEF Meant
  <1>8. hasRegistry /\ ResolveExact(q).kept => Resolve(q) = ResolveExact(q)
    <2>1. CASE q.occurrence = NoOccurrence /\ count = 1 /\ ResolveExact(q) = Kept(nth(0))
      <3>1. hasRegistry => Resolve(q) = Outcome(TRUE, nth(0), "none")
        BY <1>4, <2>1
      <3> QED
        BY <2>1, <3>1 DEF Kept
    <2>2. CASE /\ q.occurrence # NoOccurrence /\ ~(q.occurrence >= count)
               /\ count # 0 /\ ResolveExact(q) = Kept(nth(q.occurrence))
      <3>1. CASE count = 1
        <4>1. q.occurrence = 0
          BY <1>2, <1>6, <2>2, <3>1 DEF NoOccurrence
        <4>2. hasRegistry => Resolve(q) = Outcome(TRUE, nth(0), "none")
          BY <1>4, <3>1, <4>1
        <4> QED
          BY <2>2, <4>1, <4>2 DEF Kept
      <3>2. CASE count # 1
        BY <1>4, <2>2, <3>2
      <3> QED
        BY <3>1, <3>2
    <2> QED
      BY <1>5, <2>1, <2>2
  <1>9. ResolveExact(q).kept => ResolveExact(q).code = "none"
    BY <1>5 DEF Kept, Outcome
  <1>10. Enterable(q) => IF count = 1 THEN q.occurrence = NoOccurrence ELSE q.occurrence \in 0 .. count - 1
    BY DEF Enterable, count
  <1>11. Enterable(q) => ResolveExact(q).kept
    BY <1>1, <1>2, <1>5, <1>10 DEF NoOccurrence
  <1> QED
    BY <1>7, <1>8, <1>9, <1>11

(* The outcomes are of the text, the registry and the proposal alone. *)
LEMMA SpanFrame ==
  ASSUME UNCHANGED <<canonicalText, hasRegistry, proposal>>, NEW field \in Fields
  PROVE  /\ KeptOf(proposal, field)' = KeptOf(proposal, field)
         /\ DiagnosticsOf(proposal, field)' = DiagnosticsOf(proposal, field)
  <1>1. \A quoted : Offsets(quoted)' = Offsets(quoted)
    BY DEF Offsets
  <1>2. \A quoted, n : NthOffset(quoted, n)' = NthOffset(quoted, n)
    BY <1>1 DEF NthOffset
  <1>3. \A q : Resolve(q)' = Resolve(q)
    BY <1>1, <1>2 DEF Resolve, Kept, Dropped, Outcome
  <1>4. \A id, f : Refer(id, f)' = Refer(id, f)
    BY DEF Refer
  <1>5. Unexamined(proposal, field)' <=> Unexamined(proposal, field)
    BY <1>3 DEF Unexamined
  <1>6. Outcomes(proposal, field)' = Outcomes(proposal, field)
    BY <1>3, <1>4, <1>5 DEF Outcomes
  <1> QED
    BY <1>6 DEF KeptOf, DiagnosticsOf

(* What is assembled is what the proposal's fields come to, or nothing. *)
SpanTyped ==
    /\ canonicalText \in Texts /\ hasRegistry \in BOOLEAN /\ proposal \in Proposals

AssemblyOf ==
    /\ assembly.valid =>
          /\ assembly.kept = [field \in Fields |-> KeptOf(proposal, field)]
          /\ assembly.diagnostics = [field \in Fields |-> DiagnosticsOf(proposal, field)]
    /\ ~assembly.valid => assembly.kept = [field \in Fields |-> {}]

SpanInvariant == SpanTyped /\ AssemblyOf

LEMMA ProposalFacts ==
  ASSUME SpanTyped
  PROVE  /\ canonicalText \in Seq(STRING)
         /\ DOMAIN proposal["action"] = {1}
         /\ \A field \in SpanFields : \A i \in DOMAIN proposal[field] :
               IsQuotation(proposal[field][i])
  BY SpanAssumption DEF SpanTyped, IsQuotation

LEMMA FieldFacts ==
  /\ SpanFields \subseteq Fields /\ RefFields \subseteq Fields
  /\ \A field \in Fields : field \in SpanFields \/ field \in RefFields
  /\ \A field \in SpanFields : field \notin RefFields
  /\ "action" \in RuleSpanFields /\ "action" \in SpanFields /\ "action" \in Fields
  /\ RuleSpanFields \subseteq SpanFields /\ RuleRefFields \subseteq RefFields
  /\ "action" # "rule effective date" /\ "rule effective date" \notin SpanFields
  BY DEF Fields, SpanFields, RefFields, RuleSpanFields, RuleRefFields

LEMMA ActionExamined == ~Unexamined(proposal, "action")
  BY FieldFacts DEF Unexamined

(* The outcome of one value of an examined field. *)
LEMMA OutcomeFacts ==
  ASSUME SpanTyped, NEW field \in Fields, ~Unexamined(proposal, field),
         NEW i \in DOMAIN proposal[field]
  PROVE  /\ DOMAIN Outcomes(proposal, field) = DOMAIN proposal[field]
         /\ field \in SpanFields => Outcomes(proposal, field)[i] = Resolve(proposal[field][i])
         /\ field \in RefFields => Outcomes(proposal, field)[i] = Refer(proposal[field][i], field)
         /\ Outcomes(proposal, field)[i].kept \/ Outcomes(proposal, field)[i].code # "none"
  <1>1. Outcomes(proposal, field) =
            [j \in DOMAIN proposal[field] |->
                IF field \in SpanFields THEN Resolve(proposal[field][j])
                ELSE Refer(proposal[field][j], field)]
    BY DEF Outcomes
  <1>2. CASE field \in SpanFields
    <2>1. Outcomes(proposal, field)[i] = Resolve(proposal[field][i])
      BY <1>1, <1>2
    <2>2. IsQuotation(proposal[field][i]) /\ canonicalText \in Seq(STRING)
      BY <1>2, ProposalFacts
    <2>3. Resolve(proposal[field][i]).kept \/ Resolve(proposal[field][i]).code # "none"
      BY <2>2, ResolveFacts DEF SpanTyped
    <2> QED
      BY <1>1, <1>2, <2>1, <2>3, FieldFacts
  <1>3. CASE field \notin SpanFields
    <2>1. Outcomes(proposal, field)[i] = Refer(proposal[field][i], field)
      BY <1>1, <1>3
    <2>2. \/ Refer(proposal[field][i], field) = Dropped("MISSING_REGISTRY")
          \/ Refer(proposal[field][i], field) = Kept(0)
          \/ Refer(proposal[field][i], field) = Dropped("INVALID_CANDIDATE_REFERENCE")
      BY DEF Refer
    <2>3. Refer(proposal[field][i], field).kept \/ Refer(proposal[field][i], field).code # "none"
      BY <2>2 DEF Kept, Dropped, Outcome
    <2> QED
      BY <1>1, <1>3, <2>1, <2>3
  <1> QED
    BY <1>2, <1>3

LEMMA KeptIsMeantAlways ==
  ASSUME SpanInvariant
  PROVE  KeptIsMeant
  <1> SUFFICES ASSUME NEW field \in SpanFields, NEW k \in assembly.kept[field]
               PROVE  /\ SubSeq(canonicalText, k.at + 1, k.at + Len(k.value.text)) = k.value.text
                      /\ \/ Offsets(k.value.text) = {k.at}
                         \/ Cardinality({i \in Offsets(k.value.text) : i < k.at})
                                = k.value.occurrence
    BY DEF KeptIsMeant
  <1>1. field \in Fields
    BY FieldFacts
  <1>2. assembly.valid /\ k \in KeptOf(proposal, field)
    BY <1>1 DEF SpanInvariant, AssemblyOf
  <1>3. PICK i \in DOMAIN Outcomes(proposal, field) :
            /\ Outcomes(proposal, field)[i].kept
            /\ k = [value |-> proposal[field][i], at |-> Outcomes(proposal, field)[i].at]
    BY <1>2 DEF KeptOf
  <1>4. ~Unexamined(proposal, field) /\ i \in DOMAIN proposal[field]
    BY <1>3 DEF Outcomes
  <1>5. Outcomes(proposal, field)[i] = Resolve(proposal[field][i])
    BY <1>1, <1>4, OutcomeFacts DEF SpanInvariant
  <1> DEFINE q == proposal[field][i]
  <1>6. IsQuotation(q) /\ canonicalText \in Seq(STRING) /\ hasRegistry \in BOOLEAN
    BY <1>4, ProposalFacts DEF SpanInvariant, SpanTyped
  <1>7. Resolve(q).kept /\ k.value = q /\ k.at = Resolve(q).at
    BY <1>3, <1>5
  <1> HIDE DEF q
  <1>8. /\ k.at \in Offsets(q.text)
        /\ \/ Offsets(q.text) = {k.at}
           \/ Cardinality({j \in Offsets(q.text) : j < k.at}) = q.occurrence
    BY <1>6, <1>7, ResolveFacts
  <1>9. SubSeq(canonicalText, k.at + 1, k.at + Len(q.text)) = q.text
    BY <1>8 DEF Offsets
  <1> QED
    BY <1>7, <1>8, <1>9

LEMMA LossIsDiagnosedAlways ==
  ASSUME SpanInvariant
  PROVE  LossIsDiagnosed
  <1> SUFFICES ASSUME assembly.valid, NEW field \in Fields \ {"rule effective date"},
                      NEW i \in DOMAIN proposal[field]
               PROVE  \/ \E k \in assembly.kept[field] : k.value = proposal[field][i]
                      \/ \E d \in assembly.diagnostics[field] : d.index = i
                      \/ /\ field \in RuleSpanFields \cup RuleRefFields
                         /\ assembly.kept["action"] = {} /\ assembly.diagnostics["action"] # {}
    BY DEF LossIsDiagnosed
  <1> USE DEF SpanInvariant
  <1>1. \A f \in Fields : /\ assembly.kept[f] = KeptOf(proposal, f)
                          /\ assembly.diagnostics[f] = DiagnosticsOf(proposal, f)
    BY DEF AssemblyOf
  <1>2. CASE ~Unexamined(proposal, field)
    <2>1. /\ i \in DOMAIN Outcomes(proposal, field)
          /\ \/ Outcomes(proposal, field)[i].kept
             \/ Outcomes(proposal, field)[i].code # "none"
      BY <1>2, OutcomeFacts
    <2>2. CASE Outcomes(proposal, field)[i].kept
      <3>1. [value |-> proposal[field][i], at |-> Outcomes(proposal, field)[i].at]
                \in KeptOf(proposal, field)
        BY <2>1, <2>2 DEF KeptOf
      <3>2. \E k \in KeptOf(proposal, field) : k.value = proposal[field][i]
        BY <3>1
      <3>3. assembly.kept[field] = KeptOf(proposal, field)
        BY <1>1
      <3> QED
        BY <3>2, <3>3
    <2>3. CASE Outcomes(proposal, field)[i].code # "none"
      <3>1. [index |-> i, code |-> Outcomes(proposal, field)[i].code]
                \in DiagnosticsOf(proposal, field)
        BY <2>1, <2>3 DEF DiagnosticsOf
      <3>2. \E d \in DiagnosticsOf(proposal, field) : d.index = i
        BY <3>1
      <3>3. assembly.diagnostics[field] = DiagnosticsOf(proposal, field)
        BY <1>1
      <3> QED
        BY <3>2, <3>3
    <2> QED
      BY <2>1, <2>2, <2>3
  <1>3. CASE Unexamined(proposal, field)
    <2>1. /\ field \in RuleSpanFields \cup RuleRefFields
          /\ ~Resolve(proposal["action"][1]).kept
      BY <1>3 DEF Unexamined
    <2>2. 1 \in DOMAIN proposal["action"] /\ DOMAIN proposal["action"] = {1}
      BY ProposalFacts
    <2>3. /\ DOMAIN Outcomes(proposal, "action") = {1}
          /\ Outcomes(proposal, "action")[1] = Resolve(proposal["action"][1])
          /\ Outcomes(proposal, "action")[1].code # "none"
      BY <2>1, <2>2, ActionExamined, FieldFacts, OutcomeFacts
    <2>4. KeptOf(proposal, "action") = {}
      BY <2>1, <2>3 DEF KeptOf
    <2>5. [index |-> 1, code |-> Outcomes(proposal, "action")[1].code]
              \in DiagnosticsOf(proposal, "action")
      BY <2>3 DEF DiagnosticsOf
    <2> QED
      BY <1>1, <2>1, <2>4, <2>5, FieldFacts
  <1> QED
    BY <1>2, <1>3

LEMMA AnnotatedIsKeptAlways ==
  ASSUME SpanInvariant
  PROVE  AnnotatedIsKept
  <1> USE DEF SpanInvariant
  <1>1. \A field \in SpanFields : \A i \in DOMAIN proposal[field] :
            Enterable(proposal[field][i]) => ResolveExact(proposal[field][i]).kept
    BY ProposalFacts, ResolveFacts DEF SpanTyped
  <1>2. ASSUME assembly.valid, hasRegistry, Annotatable(proposal),
               NEW field \in Fields \ {"rule effective date"}
        PROVE  /\ assembly.diagnostics[field] = {}
               /\ field \in SpanFields =>
                     assembly.kept[field] =
                        {[value |-> proposal[field][i], at |-> ResolveExact(proposal[field][i]).at] :
                            i \in DOMAIN proposal[field]}
    <2>1. /\ assembly.kept[field] = KeptOf(proposal, field)
          /\ assembly.diagnostics[field] = DiagnosticsOf(proposal, field)
      BY <1>2 DEF AssemblyOf
    <2>2. \A f \in SpanFields : \A i \in DOMAIN proposal[f] :
              /\ Resolve(proposal[f][i]) = ResolveExact(proposal[f][i])
              /\ ResolveExact(proposal[f][i]).kept
              /\ ResolveExact(proposal[f][i]).code = "none"
      <3>1. \A f \in SpanFields : \A i \in DOMAIN proposal[f] : ResolveExact(proposal[f][i]).kept
        BY <1>2 DEF Annotatable, ValidSpans
      <3> QED
        BY <1>2, <3>1, ProposalFacts, ResolveFacts DEF SpanTyped
    <2>3. Resolve(proposal["action"][1]).kept
      BY <2>2, ProposalFacts, FieldFacts
    <2>4. ~Unexamined(proposal, field)
      BY <2>3 DEF Unexamined
    <2>5. CASE field \in SpanFields
      <3>1. \A i \in DOMAIN proposal[field] :
                /\ DOMAIN Outcomes(proposal, field) = DOMAIN proposal[field]
                /\ Outcomes(proposal, field)[i] = ResolveExact(proposal[field][i])
        BY <2>2, <2>4, <2>5, OutcomeFacts
      <3>2. DOMAIN Outcomes(proposal, field) = DOMAIN proposal[field]
        BY <2>4 DEF Outcomes
      <3>3. \A i \in DOMAIN Outcomes(proposal, field) :
                /\ Outcomes(proposal, field)[i].kept
                /\ Outcomes(proposal, field)[i].code = "none"
                /\ Outcomes(proposal, field)[i].at = ResolveExact(proposal[field][i]).at
        <4> SUFFICES ASSUME NEW i \in DOMAIN proposal[field]
                     PROVE  /\ Outcomes(proposal, field)[i].kept
                            /\ Outcomes(proposal, field)[i].code = "none"
                            /\ Outcomes(proposal, field)[i].at
                                   = ResolveExact(proposal[field][i]).at
          BY <3>2
        <4>1. Outcomes(proposal, field)[i] = ResolveExact(proposal[field][i])
          BY <3>1
        <4>2. /\ ResolveExact(proposal[field][i]).kept
              /\ ResolveExact(proposal[field][i]).code = "none"
          BY <2>2, <2>5
        <4> QED
          BY <4>1, <4>2
      <3>4. DiagnosticsOf(proposal, field) = {}
        BY <3>3 DEF DiagnosticsOf
      <3>5. KeptOf(proposal, field) =
                {[value |-> proposal[field][i], at |-> ResolveExact(proposal[field][i]).at] :
                    i \in DOMAIN proposal[field]}
        BY <3>2, <3>3 DEF KeptOf
      <3> QED
        BY <2>1, <3>4, <3>5
    <2>6. CASE field \in RefFields
      <3>1. \A i \in DOMAIN proposal[field] :
                /\ DOMAIN Outcomes(proposal, field) = DOMAIN proposal[field]
                /\ Outcomes(proposal, field)[i] = Refer(proposal[field][i], field)
        BY <2>4, <2>6, OutcomeFacts
      <3>2. DOMAIN Outcomes(proposal, field) = DOMAIN proposal[field]
        BY <2>4 DEF Outcomes
      <3>3. \A i \in DOMAIN proposal[field] :
                /\ proposal[field][i] \in DOMAIN Registry
                /\ Registry[proposal[field][i]] = ExpectedType(field)
        BY <1>2, <2>6 DEF Annotatable, ValidReferences
      <3>4. \A i \in DOMAIN proposal[field] : Refer(proposal[field][i], field) = Kept(0)
        BY <1>2, <3>3 DEF Refer
      <3>5. \A i \in DOMAIN Outcomes(proposal, field) :
                Outcomes(proposal, field)[i].code = "none"
        <4> SUFFICES ASSUME NEW i \in DOMAIN proposal[field]
                     PROVE  Outcomes(proposal, field)[i].code = "none"
          BY <3>2
        <4>1. Outcomes(proposal, field)[i] = Kept(0)
          BY <3>1, <3>4
        <4>2. Kept(0).code = "none"
          BY DEF Kept, Outcome
        <4> QED
          BY <4>1, <4>2
      <3>6. DiagnosticsOf(proposal, field) = {}
        BY <3>5 DEF DiagnosticsOf
      <3> QED
        BY <2>1, <2>6, <3>6, FieldFacts
    <2> QED
      BY <2>5, <2>6, FieldFacts
  <1> QED
    BY <1>1, <1>2 DEF AnnotatedIsKept

LEMMA SpanStep ==
  ASSUME SpanInvariant, [SpanNext]_spanVars
  PROVE  SpanInvariant'
  <1> USE DEF SpanInvariant, SpanTyped, AssemblyOf
  <1>1. CASE Assemble
    <2>1. /\ UNCHANGED <<canonicalText, hasRegistry, proposal>>
          /\ assembly'.valid = TRUE
          /\ assembly'.kept = [field \in Fields |-> KeptOf(proposal, field)]
          /\ assembly'.diagnostics = [field \in Fields |-> DiagnosticsOf(proposal, field)]
      BY <1>1 DEF Assemble
    <2>2. \A field \in Fields : /\ KeptOf(proposal, field)' = KeptOf(proposal, field)
                                /\ DiagnosticsOf(proposal, field)' = DiagnosticsOf(proposal, field)
      BY <2>1, SpanFrame
    <2> QED
      BY <2>1, <2>2
  <1>2. CASE AssembleUnparsed
    BY <1>2 DEF AssembleUnparsed, NotAssembled
  <1>3. CASE UNCHANGED spanVars
    <2>1. \A field \in Fields : /\ KeptOf(proposal, field)' = KeptOf(proposal, field)
                                /\ DiagnosticsOf(proposal, field)' = DiagnosticsOf(proposal, field)
      BY <1>3, SpanFrame DEF spanVars
    <2> QED
      BY <1>3, <2>1 DEF spanVars
  <1> QED
    BY <1>1, <1>2, <1>3 DEF SpanNext

(* What resolves from a proposal is what was meant, nothing is lost without*)
(* a diagnostic, and what an annotation may hold is kept as it is there,   *)
(* for any texts, proposals and candidates (_resolve, resolve_exact_span,  *)
(* assemble_hybrid_result).                                                *)
THEOREM AssemblyExact == SpanSpec => []AssemblyIsExact
  <1>1. SpanInit => SpanInvariant
    BY DEF SpanInit, SpanInvariant, SpanTyped, AssemblyOf, NotAssembled
  <1>2. SpanInvariant /\ [SpanNext]_spanVars => SpanInvariant'
    BY SpanStep
  <1>3. SpanInvariant => AssemblyIsExact
    BY KeptIsMeantAlways, LossIsDiagnosedAlways, AnnotatedIsKeptAlways DEF AssemblyIsExact
  <1> QED
    BY <1>1, <1>2, <1>3, PTL DEF SpanSpec

(***************************************************************************)
(* Splits: the joined keys and documents.                                  *)
(***************************************************************************)
SplitTyped ==
    /\ dataset \in [Items -> Item]
    /\ keyOrder \in KeyOrders

(* What the joining comes to after each item. *)
Joined ==
    CHOOSE joined : joined = [n \in 0..ItemCount |->
                                 IF n = 0 THEN [k \in Nodes |-> k]
                                 ELSE JoinDocuments(joined[n - 1], n)]

LEMMA JoinedExists ==
  ASSUME NEW n \in Nat
  PROVE  \E g : g = [m \in 0..n |-> IF m = 0 THEN [k \in Nodes |-> k]
                                    ELSE JoinDocuments(g[m - 1], m)]
  <1> DEFINE Is(g, i) == g = [m \in 0..i |-> IF m = 0 THEN [k \in Nodes |-> k]
                                             ELSE JoinDocuments(g[m - 1], m)]
             Good == {i \in Nat : \E g : Is(g, i)}
  <1>1. 0 \in Good
    <2> DEFINE g == [m \in 0..0 |-> [k \in Nodes |-> k]]
    <2>1. Is(g, 0)
      OBVIOUS
    <2> QED
      BY <2>1
  <1>2. ASSUME NEW i \in Nat, i \in Good
        PROVE  i + 1 \in Good
    <2>1. PICK g : Is(g, i)
      BY <1>2
    <2> DEFINE h == [m \in 0..(i + 1) |-> IF m = i + 1 THEN JoinDocuments(g[i], i + 1) ELSE g[m]]
    <2>2. \A m \in 0..i : h[m] = g[m]
      OBVIOUS
    <2>3. ASSUME NEW m \in 0..(i + 1)
          PROVE  h[m] = IF m = 0 THEN [k \in Nodes |-> k] ELSE JoinDocuments(h[m - 1], m)
      <3>1. CASE m = i + 1
        <4>1. h[m - 1] = g[i] /\ m # 0
          BY <2>2, <3>1
        <4> QED
          BY <3>1, <4>1
      <3>2. CASE m \in 0..i
        <4>1. h[m] = g[m] /\ (m # 0 => h[m - 1] = g[m - 1])
          BY <2>2, <3>2
        <4>2. g[m] = IF m = 0 THEN [k \in Nodes |-> k] ELSE JoinDocuments(g[m - 1], m)
          BY <2>1, <3>2
        <4> QED
          BY <4>1, <4>2
      <3> QED
        BY <3>1, <3>2
    <2>4. h = [m \in 0..(i + 1) |-> h[m]]
      OBVIOUS
    <2> HIDE DEF h
    <2>5. Is(h, i + 1)
      BY <2>3, <2>4
    <2> QED
      BY <2>5
  <1> HIDE DEF Good
  <1>3. n \in Good
    BY <1>1, <1>2, NatIsLeast
  <1> QED
    BY <1>3 DEF Good

LEMMA JoinedFacts ==
  /\ Roots = Joined[ItemCount]
  /\ Joined[0] = [k \in Nodes |-> k]
  /\ \A n \in 1..ItemCount : Joined[n] = JoinDocuments(Joined[n - 1], n)
  <1>1. Joined = [n \in 0..ItemCount |-> IF n = 0 THEN [k \in Nodes |-> k]
                                         ELSE JoinDocuments(Joined[n - 1], n)]
    BY JoinedExists, SplitsAssumption DEF Joined
  <1>2. Roots = Joined[ItemCount]
    BY DEF Roots, Joined
  <1> HIDE DEF Joined
  <1>3. Joined[0] = [k \in Nodes |-> k]
    BY <1>1, SplitsAssumption
  <1>4. ASSUME NEW n \in 1..ItemCount
        PROVE  Joined[n] = JoinDocuments(Joined[n - 1], n)
    <2>1. n \in 0..ItemCount /\ n # 0
      BY SplitsAssumption
    <2> QED
      BY <1>1, <2>1
  <1> QED
    BY <1>2, <1>3, <1>4

LEMMA NodeFacts ==
  ASSUME SplitTyped
  PROVE  /\ \A i \in Items : /\ GroupKey(i) \in Nodes /\ GroupKey(i) \in Item
                             /\ GroupKey(i) = dataset[i]
                             /\ dataset[i].documents \subseteq Documents
         /\ \A d \in Documents : DocumentNode(d) \in Nodes
         /\ \A i \in Items, d \in Documents : GroupKey(i) # DocumentNode(d)
         /\ \A d, e \in Documents : DocumentNode(d) = DocumentNode(e) => d = e
  <1>1. \A i \in Items : dataset[i] \in Item
    BY DEF SplitTyped
  <1>2. \A i \in Items : GroupKey(i) = dataset[i]
    BY <1>1 DEF GroupKey, Item
  <1>3. \A i \in Items : dataset[i].documents \subseteq Documents /\ dataset[i].intent \in Intents
    BY <1>1 DEF Item
  <1>4. -1 \notin Intents
    BY SplitsAssumption
  <1>5. \A i \in Items, d \in Documents : GroupKey(i) # DocumentNode(d)
    BY <1>3, <1>4 DEF GroupKey, DocumentNode
  <1>6. \A d, e \in Documents : DocumentNode(d) = DocumentNode(e) => d = e
    <2> SUFFICES ASSUME NEW d \in Documents, NEW e \in Documents,
                        DocumentNode(d) = DocumentNode(e)
                 PROVE  d = e
      OBVIOUS
    <2>1. {d} = {e}
      BY DEF DocumentNode
    <2> QED
      BY <2>1
  <1> QED
    BY <1>1, <1>2, <1>3, <1>5, <1>6 DEF Nodes, Keys

(* After an item, its key and its documents have one root, and so have     *)
(* those of the items before it.                                           *)
LEMMA DocumentsJoined ==
  ASSUME SplitTyped
  PROVE  \A i \in Items : \A d \in dataset[i].documents :
             Roots[DocumentNode(d)] = Roots[GroupKey(i)]
  <1> DEFINE Together(n) == \A i \in 1..n : \A d \in dataset[i].documents :
                                Joined[n][DocumentNode(d)] = Joined[n][GroupKey(i)]
             Good == {n \in Nat : n <= ItemCount => Together(n)}
  <1>1. 0 \in Good
    OBVIOUS
  <1>2. ASSUME NEW n \in Nat, n \in Good
        PROVE  n + 1 \in Good
    <2> SUFFICES ASSUME n + 1 <= ItemCount,
                        NEW i \in 1..(n + 1), NEW d \in dataset[i].documents
                 PROVE  Joined[n + 1][DocumentNode(d)] = Joined[n + 1][GroupKey(i)]
      OBVIOUS
    <2>1. /\ n + 1 \in 1..ItemCount /\ i \in Items /\ n + 1 \in Items /\ n <= ItemCount
          /\ (n + 1) - 1 = n
      BY SplitsAssumption DEF Items
    <2> DEFINE root == Joined[n]
               joined == {root[DocumentNode(e)] : e \in dataset[n + 1].documents}
    <2>2. Joined[n + 1] = JoinDocuments(root, n + 1)
      BY <2>1, JoinedFacts
    <2>3. \A k \in Nodes : Joined[n + 1][k] = IF root[k] \in joined THEN root[GroupKey(n + 1)] ELSE root[k]
      BY <2>2 DEF JoinDocuments
    <2>4. GroupKey(i) \in Nodes /\ DocumentNode(d) \in Nodes
      BY <2>1, NodeFacts
    <2>5. CASE i = n + 1
      <3>1. root[DocumentNode(d)] \in joined
        BY <2>5
      <3> HIDE DEF joined, root
      <3> QED
        BY <2>3, <2>4, <2>5, <3>1
    <2>6. CASE i \in 1..n
      <3>1. root[DocumentNode(d)] = root[GroupKey(i)]
        BY <1>2, <2>1, <2>6
      <3> HIDE DEF joined, root
      <3> QED
        BY <2>3, <2>4, <3>1
    <2> QED
      BY <2>5, <2>6
  <1> HIDE DEF Good
  <1>3. ItemCount \in Good
    BY <1>1, <1>2, NatIsLeast, SplitsAssumption
  <1>4. Together(ItemCount)
    BY <1>3, SplitsAssumption DEF Good
  <1> QED
    BY <1>4, JoinedFacts DEF Items

(* Joining goes no further than the links: what has one root is on one side*)
(* of any set of items closed under them.                                  *)
Colour(side, k) ==
    \E i \in side : k = GroupKey(i) \/ \E d \in dataset[i].documents : k = DocumentNode(d)

LEMMA ColourFacts ==
  ASSUME SplitTyped, NEW side \in SUBSET Items, Closed(side), NEW i \in Items
  PROVE  /\ Colour(side, GroupKey(i)) <=> i \in side
         /\ \A d \in dataset[i].documents : Colour(side, DocumentNode(d)) <=> i \in side
  <1>1. i \in side => Colour(side, GroupKey(i))
    BY DEF Colour
  <1>2. ASSUME Colour(side, GroupKey(i))
        PROVE  i \in side
    <2>1. PICK j \in side : \/ GroupKey(i) = GroupKey(j)
                            \/ \E d \in dataset[j].documents : GroupKey(i) = DocumentNode(d)
      BY <1>2 DEF Colour
    <2>2. j \in Items
      OBVIOUS
    <2>3. dataset[i] = dataset[j]
      BY <2>1, <2>2, NodeFacts
    <2> QED
      BY <2>1, <2>3 DEF Closed, Linked
  <1>3. ASSUME NEW d \in dataset[i].documents
        PROVE  Colour(side, DocumentNode(d)) <=> i \in side
    <2>1. i \in side => Colour(side, DocumentNode(d))
      BY DEF Colour
    <2>2. ASSUME Colour(side, DocumentNode(d))
          PROVE  i \in side
      <3>1. PICK j \in side : \/ DocumentNode(d) = GroupKey(j)
                              \/ \E e \in dataset[j].documents : DocumentNode(d) = DocumentNode(e)
        BY <2>2 DEF Colour
      <3>2. j \in Items /\ d \in Documents /\ dataset[j].documents \subseteq Documents
        BY NodeFacts
      <3>3. PICK e \in dataset[j].documents : DocumentNode(d) = DocumentNode(e)
        BY <3>1, <3>2, NodeFacts
      <3>4. d = e
        BY <3>2, <3>3, NodeFacts
      <3>5. dataset[j].documents \cap dataset[i].documents # {}
        BY <3>4
      <3> QED
        BY <3>1, <3>5 DEF Closed, Linked
    <2> QED
      BY <2>1, <2>2
  <1> QED
    BY <1>1, <1>2, <1>3

LEMMA JoinedKeepsSides ==
  ASSUME SplitTyped, NEW side \in SUBSET Items, Closed(side)
  PROVE  \A k \in Nodes : Roots[k] \in Nodes /\ (Colour(side, Roots[k]) <=> Colour(side, k))
  <1> DEFINE Keeps(n) == \A k \in Nodes : /\ Joined[n][k] \in Nodes
                                          /\ Colour(side, Joined[n][k]) <=> Colour(side, k)
             Good == {n \in Nat : n <= ItemCount => Keeps(n)}
  <1>1. 0 \in Good
    BY JoinedFacts
  <1>2. ASSUME NEW n \in Nat, n \in Good
        PROVE  n + 1 \in Good
    <2> SUFFICES ASSUME n + 1 <= ItemCount, NEW k \in Nodes
                 PROVE  /\ Joined[n + 1][k] \in Nodes
                        /\ Colour(side, Joined[n + 1][k]) <=> Colour(side, k)
      OBVIOUS
    <2>1. /\ n + 1 \in 1..ItemCount /\ n + 1 \in Items /\ n <= ItemCount
          /\ (n + 1) - 1 = n
      BY SplitsAssumption DEF Items
    <2> DEFINE root == Joined[n]
               joined == {root[DocumentNode(e)] : e \in dataset[n + 1].documents}
    <2>2. Joined[n + 1] = JoinDocuments(root, n + 1)
      BY <2>1, JoinedFacts
    <2>3. Joined[n + 1][k] = IF root[k] \in joined THEN root[GroupKey(n + 1)] ELSE root[k]
      BY <2>2 DEF JoinDocuments
    <2>4. Keeps(n)
      BY <1>2, <2>1
    <2>5. GroupKey(n + 1) \in Nodes
      BY <2>1, NodeFacts
    <2>6. CASE root[k] \in joined
      <3>1. PICK e \in dataset[n + 1].documents : root[k] = root[DocumentNode(e)]
        BY <2>6
      <3>2. DocumentNode(e) \in Nodes
        BY <2>1, NodeFacts
      <3>3. Colour(side, k) <=> Colour(side, DocumentNode(e))
        BY <2>4, <3>1, <3>2
      <3>4. Colour(side, DocumentNode(e)) <=> Colour(side, GroupKey(n + 1))
        BY <2>1, ColourFacts
      <3>5. Joined[n + 1][k] = root[GroupKey(n + 1)]
        BY <2>3, <2>6
      <3>6. /\ root[GroupKey(n + 1)] \in Nodes
            /\ Colour(side, root[GroupKey(n + 1)]) <=> Colour(side, GroupKey(n + 1))
        BY <2>4, <2>5
      <3> QED
        BY <3>3, <3>4, <3>5, <3>6
    <2>7. CASE root[k] \notin joined
      <3>1. Joined[n + 1][k] = root[k]
        BY <2>3, <2>7
      <3>2. root[k] \in Nodes /\ (Colour(side, root[k]) <=> Colour(side, k))
        BY <2>4
      <3> QED
        BY <3>1, <3>2
    <2> QED
      BY <2>6, <2>7
  <1> HIDE DEF Good
  <1>3. ItemCount \in Good
    BY <1>1, <1>2, NatIsLeast, SplitsAssumption
  <1>4. Keeps(ItemCount)
    BY <1>3, SplitsAssumption DEF Good
  <1> QED
    BY <1>4, JoinedFacts

(* The groups: disjoint sets of items, whole on each side of a closed set. *)
GroupNames == {Roots[GroupKey(i)] : i \in Items}
GroupOf(root) == {i \in Items : Roots[GroupKey(i)] = root}
ItemsOf(names) == UNION {GroupOf(root) : root \in names}

LEMMA GroupFacts ==
  /\ DOMAIN Groups = GroupNames
  /\ \A root \in GroupNames : Groups[root] = GroupOf(root)
  /\ \A names : \A i \in Items : i \in ItemsOf(names) <=> Roots[GroupKey(i)] \in names
  /\ IsFiniteSet(Items) /\ IsFiniteSet(GroupNames)
  <1>1. Groups = [root \in GroupNames |-> GroupOf(root)]
    BY DEF Groups, GroupNames, GroupOf
  <1>2. \A names : \A i \in Items : i \in ItemsOf(names) <=> Roots[GroupKey(i)] \in names
    BY DEF ItemsOf, GroupOf
  <1>3. IsFiniteSet(Items)
    BY FS_Interval, SplitsAssumption DEF Items
  <1>4. IsFiniteSet(GroupNames)
    <2> DEFINE f == [i \in Items |-> Roots[GroupKey(i)]]
    <2>1. f \in Surjection(Items, GroupNames)
      BY DEF Surjection, GroupNames
    <2> QED
      BY <1>3, <2>1, FS_Surjection
  <1> QED
    BY <1>1, <1>2, <1>3, <1>4

LEMMA ClosedIsWhole ==
  ASSUME SplitTyped, NEW side \in SUBSET Items, Closed(side)
  PROVE  \E names \in SUBSET GroupNames : side = ItemsOf(names)
  <1> DEFINE names == {Roots[GroupKey(i)] : i \in side}
  <1>1. names \in SUBSET GroupNames
    BY DEF GroupNames
  <1>2. ASSUME NEW i \in Items, Roots[GroupKey(i)] \in names
        PROVE  i \in side
    <2>1. PICK j \in side : Roots[GroupKey(i)] = Roots[GroupKey(j)]
      BY <1>2
    <2>2. j \in Items /\ GroupKey(i) \in Nodes /\ GroupKey(j) \in Nodes
      BY NodeFacts
    <2>3. Colour(side, GroupKey(i)) <=> Colour(side, GroupKey(j))
      BY <2>1, <2>2, JoinedKeepsSides
    <2> QED
      BY <2>2, <2>3, ColourFacts
  <1>3. \A i \in side : Roots[GroupKey(i)] \in names
    OBVIOUS
  <1> HIDE DEF names
  <1>4. \A i \in Items : i \in side <=> i \in ItemsOf(names)
    BY <1>2, <1>3, GroupFacts
  <1>5. ItemsOf(names) \subseteq Items
    BY DEF ItemsOf, GroupOf
  <1> QED
    BY <1>1, <1>4, <1>5

(***************************************************************************)
(* Splits: the groups in the order of their names.                         *)
(***************************************************************************)
LEMMA RootsAreKeys ==
  ASSUME SplitTyped
  PROVE  GroupNames \subseteq Keys
  <1> DEFINE Stays(n) == \A k \in Keys : Joined[n][k] \in Keys
             Good == {n \in Nat : n <= ItemCount => Stays(n)}
  <1>1. Keys \subseteq Nodes /\ \A i \in Items : GroupKey(i) \in Keys
    BY DEF Keys, Nodes
  <1>2. 0 \in Good
    BY <1>1, JoinedFacts
  <1>3. ASSUME NEW n \in Nat, n \in Good
        PROVE  n + 1 \in Good
    <2> SUFFICES ASSUME n + 1 <= ItemCount, NEW k \in Keys
                 PROVE  Joined[n + 1][k] \in Keys
      OBVIOUS
    <2>1. /\ n + 1 \in 1..ItemCount /\ n + 1 \in Items /\ n <= ItemCount
          /\ (n + 1) - 1 = n
      BY SplitsAssumption DEF Items
    <2> DEFINE root == Joined[n]
               joined == {root[DocumentNode(e)] : e \in dataset[n + 1].documents}
    <2>2. Joined[n + 1] = JoinDocuments(root, n + 1)
      BY <2>1, JoinedFacts
    <2>3. Joined[n + 1][k] = IF root[k] \in joined THEN root[GroupKey(n + 1)] ELSE root[k]
      BY <1>1, <2>2 DEF JoinDocuments
    <2>4. Stays(n)
      BY <1>3, <2>1
    <2>5. GroupKey(n + 1) \in Keys
      BY <1>1, <2>1
    <2> HIDE DEF joined
    <2> QED
      BY <2>3, <2>4, <2>5
  <1> HIDE DEF Good
  <1>4. ItemCount \in Good
    BY <1>2, <1>3, NatIsLeast, SplitsAssumption
  <1>5. Stays(ItemCount)
    BY <1>4, SplitsAssumption DEF Good
  <1> QED
    BY <1>1, <1>5, JoinedFacts DEF GroupNames

Place(name) == keyOrder[name]

LEMMA PlaceFacts ==
  ASSUME SplitTyped
  PROVE  /\ \A k \in GroupNames : Place(k) \in Nat
         /\ \A k, l \in GroupNames : Place(k) = Place(l) => k = l
         /\ \A k, l \in GroupNames : Before(k, l) <=> Place(k) < Place(l)
  <1>1. GroupNames \subseteq Item
    BY RootsAreKeys, NodeFacts DEF Keys
  <1>2. /\ keyOrder \in [Item -> Nat]
        /\ \A k, l \in Item : keyOrder[k] = keyOrder[l] => k = l
    BY SplitsAssumption DEF SplitTyped
  <1> QED
    BY <1>1, <1>2 DEF Place, Before

Before1(name) == {k \in GroupNames : Before(k, name)}
Rank(name) == Cardinality(Before1(name))

LEMMA RankOrders ==
  ASSUME SplitTyped, NEW k \in GroupNames, NEW l \in GroupNames
  PROVE  /\ Rank(k) \in Nat /\ Rank(k) < Cardinality(GroupNames)
         /\ Place(k) < Place(l) => Rank(k) < Rank(l)
         /\ Rank(k) = Rank(l) => k = l
  <1>1. \A m \in GroupNames : /\ IsFiniteSet(Before1(m)) /\ Rank(m) \in Nat
                              /\ Before1(m) \subseteq GroupNames /\ m \notin Before1(m)
    <2> TAKE m \in GroupNames
    <2>1. Before1(m) \subseteq GroupNames
      BY DEF Before1
    <2>2. IsFiniteSet(Before1(m)) /\ Rank(m) \in Nat
      BY <2>1, GroupFacts, FS_Subset, FS_CardinalityType DEF Rank
    <2>3. m \notin Before1(m)
      BY PlaceFacts DEF Before1
    <2> QED
      BY <2>1, <2>2, <2>3
  <1>2. ASSUME NEW a \in GroupNames, NEW b \in SUBSET GroupNames, Before1(a) \subseteq b, a \in b
        PROVE  Rank(a) < Cardinality(b)
    <2>1. IsFiniteSet(b) /\ Cardinality(b) \in Nat
      BY GroupFacts, FS_Subset, FS_CardinalityType
    <2>2. /\ IsFiniteSet(Before1(a) \cup {a})
          /\ Cardinality(Before1(a) \cup {a}) = Rank(a) + 1
      BY <1>1, FS_AddElement DEF Rank
    <2>3. Cardinality(Before1(a) \cup {a}) <= Cardinality(b)
      BY <1>2, <2>1, FS_Subset
    <2> QED
      BY <1>1, <2>1, <2>2, <2>3
  <1>3. \A a, b \in GroupNames : Place(a) < Place(b) => Rank(a) < Rank(b)
    <2> SUFFICES ASSUME NEW a \in GroupNames, NEW b \in GroupNames, Place(a) < Place(b)
                 PROVE  Rank(a) < Rank(b)
      OBVIOUS
    <2>1. Before1(a) \subseteq Before1(b)
      BY PlaceFacts DEF Before1
    <2>2. a \in Before1(b)
      BY PlaceFacts DEF Before1
    <2> QED
      BY <1>1, <1>2, <2>1, <2>2 DEF Rank
  <1>4. Rank(k) < Cardinality(GroupNames)
    BY <1>1, <1>2
  <1>5. Rank(k) = Rank(l) => k = l
    <2>1. k # l => Place(k) < Place(l) \/ Place(l) < Place(k)
      BY PlaceFacts
    <2> QED
      BY <1>1, <1>3, <2>1
  <1> QED
    BY <1>1, <1>3, <1>4, <1>5

LEMMA RankExists ==
  ASSUME SplitTyped, NEW n \in Nat, n < Cardinality(GroupNames)
  PROVE  \E k \in GroupNames : Rank(k) = n
  <1> DEFINE places == {Place(k) : k \in GroupNames}
             f == [k \in GroupNames |-> Place(k)]
  <1>1. f \in Surjection(GroupNames, places) /\ f \in Injection(GroupNames, places)
    BY PlaceFacts DEF Surjection, Injection, IsInjective
  <1>2. IsFiniteSet(places) /\ Cardinality(places) = Cardinality(GroupNames)
    BY <1>1, GroupFacts, FS_Surjection
  <1>3. places \in SUBSET Nat
    BY PlaceFacts
  <1> HIDE DEF places
  <1>4. PICK p \in places : Cardinality(Below(places, p)) = n
    BY <1>2, <1>3, NthExists
  <1>5. PICK k \in GroupNames : p = Place(k)
    BY DEF places
  <1> DEFINE g == [l \in Before1(k) |-> Place(l)]
  <1>6. Before1(k) \subseteq GroupNames
    BY DEF Before1
  <1>7. g \in Surjection(Before1(k), Below(places, p))
    BY <1>5, PlaceFacts DEF Surjection, Before1, Below, places
  <1>8. g \in Injection(Before1(k), Below(places, p))
    BY <1>5, <1>7, PlaceFacts DEF Surjection, Injection, IsInjective, Before1
  <1>9. IsFiniteSet(Before1(k))
    BY <1>6, GroupFacts, FS_Subset
  <1>10. Cardinality(Below(places, p)) = Cardinality(Before1(k))
    BY <1>7, <1>8, <1>9, FS_Surjection
  <1> QED
    BY <1>4, <1>10 DEF Rank

NthName(n) ==
    CHOOSE k \in DOMAIN Groups : Cardinality({l \in DOMAIN Groups : Before(l, k)}) = n - 1
First(n) == {NthName(m) : m \in 1..n}

LEMMA NamesInOrder ==
  ASSUME SplitTyped
  PROVE  /\ Cardinality(GroupNames) \in Nat
         /\ \A n \in 1..Cardinality(GroupNames) :
               /\ NthName(n) \in GroupNames
               /\ NthName(n) \notin First(n - 1)
               /\ First(n) = First(n - 1) \cup {NthName(n)}
         /\ First(0) = {}
         /\ First(Cardinality(GroupNames)) = GroupNames
  <1> DEFINE N == Cardinality(GroupNames)
  <1>1. N \in Nat
    BY GroupFacts, FS_CardinalityType
  <1>2. \A n \in 1..N : NthName(n) \in GroupNames /\ Rank(NthName(n)) = n - 1
    <2> TAKE n \in 1..N
    <2>1. n - 1 \in Nat /\ n - 1 < N
      BY <1>1
    <2>2. \E k \in GroupNames : Rank(k) = n - 1
      BY <2>1, RankExists
    <2>3. NthName(n) = CHOOSE k \in GroupNames : Rank(k) = n - 1
      BY GroupFacts DEF NthName, Rank, Before1
    <2> QED
      BY <2>2, <2>3
  <1> HIDE DEF N
  <1>3. ASSUME NEW n \in 1..N
        PROVE  /\ NthName(n) \notin First(n - 1)
               /\ First(n) = First(n - 1) \cup {NthName(n)}
    <2>1. \A m \in 1..(n - 1) : m \in 1..N /\ m - 1 # n - 1
      BY <1>1
    <2>2. \A m \in 1..(n - 1) : NthName(m) # NthName(n)
      BY <1>2, <2>1
    <2>3. \A m \in 1..n : m = n \/ m \in 1..(n - 1)
      BY <1>1
    <2>4. n \in 1..n /\ \A m \in 1..(n - 1) : m \in 1..n
      BY <1>1
    <2> QED
      BY <2>2, <2>3, <2>4 DEF First
  <1>4. First(0) = {}
    BY DEF First
  <1>5. GroupNames \subseteq First(N)
    <2> SUFFICES ASSUME NEW k \in GroupNames
                 PROVE  k \in First(N)
      OBVIOUS
    <2>1. Rank(k) \in Nat /\ Rank(k) < N
      BY RankOrders DEF N
    <2> DEFINE n == Rank(k) + 1
    <2>2. n \in 1..N /\ n - 1 = Rank(k)
      BY <1>1, <2>1
    <2> HIDE DEF n
    <2>3. NthName(n) \in GroupNames /\ Rank(NthName(n)) = Rank(k)
      BY <1>2, <2>2
    <2>4. NthName(n) = k
      BY <2>3, RankOrders
    <2> QED
      BY <2>2, <2>4 DEF First
  <1>6. First(N) \subseteq GroupNames
    BY <1>2 DEF First
  <1> QED
    BY <1>1, <1>2, <1>3, <1>4, <1>5, <1>6 DEF N

(***************************************************************************)
(* Splits: the totals that can be reached, and the one chosen.             *)
(***************************************************************************)
Start == {[total |-> 0, chosen |-> {}]}
ExtendBy(old, n) == Extend(old, NthName(n), Cardinality(Groups[NthName(n)]))

Reached ==
    CHOOSE sums : sums = [n \in 0..Cardinality(DOMAIN Groups) |->
                             IF n = 0 THEN Start ELSE ExtendBy(sums[n - 1], n)]

LEMMA ReachedExists ==
  ASSUME NEW n \in Nat
  PROVE  \E g : g = [m \in 0..n |-> IF m = 0 THEN Start ELSE ExtendBy(g[m - 1], m)]
  <1> DEFINE Is(g, i) == g = [m \in 0..i |-> IF m = 0 THEN Start ELSE ExtendBy(g[m - 1], m)]
             Good == {i \in Nat : \E g : Is(g, i)}
  <1>1. 0 \in Good
    <2> DEFINE g == [m \in 0..0 |-> Start]
    <2>1. Is(g, 0)
      OBVIOUS
    <2> QED
      BY <2>1
  <1>2. ASSUME NEW i \in Nat, i \in Good
        PROVE  i + 1 \in Good
    <2>1. PICK g : Is(g, i)
      BY <1>2
    <2> DEFINE h == [m \in 0..(i + 1) |-> IF m = i + 1 THEN ExtendBy(g[i], i + 1) ELSE g[m]]
    <2>2. \A m \in 0..i : h[m] = g[m]
      OBVIOUS
    <2>3. ASSUME NEW m \in 0..(i + 1)
          PROVE  h[m] = IF m = 0 THEN Start ELSE ExtendBy(h[m - 1], m)
      <3>1. CASE m = i + 1
        <4>1. h[m - 1] = g[i] /\ m # 0
          BY <2>2, <3>1
        <4> QED
          BY <3>1, <4>1
      <3>2. CASE m \in 0..i
        <4>1. h[m] = g[m] /\ (m # 0 => h[m - 1] = g[m - 1])
          BY <2>2, <3>2
        <4>2. g[m] = IF m = 0 THEN Start ELSE ExtendBy(g[m - 1], m)
          BY <2>1, <3>2
        <4> QED
          BY <4>1, <4>2
      <3> QED
        BY <3>1, <3>2
    <2>4. h = [m \in 0..(i + 1) |-> h[m]]
      OBVIOUS
    <2> HIDE DEF h
    <2>5. Is(h, i + 1)
      BY <2>3, <2>4
    <2> QED
      BY <2>5
  <1> HIDE DEF Good
  <1>3. n \in Good
    BY <1>1, <1>2, NatIsLeast
  <1> QED
    BY <1>3 DEF Good

LEMMA ReachedFacts ==
  ASSUME SplitTyped
  PROVE  /\ Reachable(Groups) = Reached[Cardinality(GroupNames)]
         /\ Reached[0] = Start
         /\ \A n \in 1..Cardinality(GroupNames) :
               Reached[n] = Extend(Reached[n - 1], NthName(n), Cardinality(GroupOf(NthName(n))))
  <1> DEFINE N == Cardinality(DOMAIN Groups)
  <1>1. N = Cardinality(GroupNames) /\ N \in Nat
    BY GroupFacts, NamesInOrder
  <1>2. Reachable(Groups) = Reached[N]
    BY DEF Reachable, Reached, NthName, Start, ExtendBy
  <1>3. Reached = [n \in 0..N |-> IF n = 0 THEN Start ELSE ExtendBy(Reached[n - 1], n)]
    BY <1>1, ReachedExists DEF Reached
  <1> HIDE DEF N, Reached
  <1>4. Reached[0] = Start
    BY <1>1, <1>3
  <1>5. ASSUME NEW n \in 1..N
        PROVE  Reached[n] = Extend(Reached[n - 1], NthName(n), Cardinality(GroupOf(NthName(n))))
    <2>1. n \in 0..N /\ n # 0
      BY <1>1
    <2>2. Reached[n] = ExtendBy(Reached[n - 1], n)
      BY <1>3, <2>1
    <2>3. Groups[NthName(n)] = GroupOf(NthName(n))
      BY <1>1, <1>5, GroupFacts, NamesInOrder
    <2> QED
      BY <2>2, <2>3 DEF ExtendBy
  <1> QED
    BY <1>1, <1>2, <1>4, <1>5

Size(names) == Cardinality(ItemsOf(names))

LEMMA SizeFacts ==
  ASSUME NEW names \in SUBSET GroupNames
  PROVE  /\ Size(names) \in Nat
         /\ \A root \in GroupNames \ names :
               Size(names \cup {root}) = Size(names) + Cardinality(GroupOf(root))
  <1>1. \A some : /\ ItemsOf(some) \subseteq Items
                  /\ IsFiniteSet(ItemsOf(some)) /\ Cardinality(ItemsOf(some)) \in Nat
    <2> TAKE some
    <2>1. ItemsOf(some) \subseteq Items
      BY DEF ItemsOf, GroupOf
    <2> QED
      BY <2>1, GroupFacts, FS_Subset, FS_CardinalityType
  <1>2. ASSUME NEW root \in GroupNames \ names
        PROVE  Size(names \cup {root}) = Size(names) + Cardinality(GroupOf(root))
    <2>1. ItemsOf(names \cup {root}) = ItemsOf(names) \cup GroupOf(root)
      BY DEF ItemsOf
    <2>2. ItemsOf(names) \cap GroupOf(root) = {}
      BY DEF ItemsOf, GroupOf
    <2>3. GroupOf(root) \subseteq Items
      BY DEF GroupOf
    <2>4. IsFiniteSet(GroupOf(root)) /\ Cardinality(GroupOf(root)) \in Nat
      BY <2>3, GroupFacts, FS_Subset, FS_CardinalityType
    <2>5. Cardinality(ItemsOf(names) \cup GroupOf(root))
             = Cardinality(ItemsOf(names)) + Cardinality(GroupOf(root))
               - Cardinality(ItemsOf(names) \cap GroupOf(root))
      BY <1>1, <2>4, FS_Union
    <2>6. Cardinality(ItemsOf(names) \cap GroupOf(root)) = 0
      BY <2>2, FS_EmptySet
    <2>7. Cardinality(ItemsOf(names) \cup GroupOf(root))
             = Cardinality(ItemsOf(names)) + Cardinality(GroupOf(root))
      BY <1>1, <2>4, <2>5, <2>6
    <2> QED
      BY <2>1, <2>7 DEF Size
  <1> QED
    BY <1>1, <1>2 DEF Size

(* What is reached of the first names: choices among them under their own  *)
(* total, and a choice of the total of any of them.                        *)
Reaches(reachable, names) ==
    /\ \A r \in reachable : /\ r = [total |-> r.total, chosen |-> r.chosen]
                            /\ r.chosen \subseteq names /\ r.total = Size(r.chosen)
    /\ \A some \in SUBSET names : \E r \in reachable : r.total = Size(some)

LEMMA ExtendReaches ==
  ASSUME NEW names \in SUBSET GroupNames, NEW root \in GroupNames \ names,
         NEW reachable, Reaches(reachable, names)
  PROVE  Reaches(Extend(reachable, root, Cardinality(GroupOf(root))), names \cup {root})
  <1> DEFINE size == Cardinality(GroupOf(root))
             totals == {r.total : r \in reachable}
             new == {[total |-> r.total + size, chosen |-> r.chosen \cup {root}] :
                        r \in {old \in reachable : old.total + size \notin totals}}
  <1>1. Extend(reachable, root, size) = reachable \cup new
    BY DEF Extend
  <1>2. ASSUME NEW r \in reachable \cup new
        PROVE  /\ r = [total |-> r.total, chosen |-> r.chosen]
               /\ r.chosen \subseteq names \cup {root} /\ r.total = Size(r.chosen)
    <2>1. CASE r \in reachable
      BY <2>1 DEF Reaches
    <2>2. CASE r \in new
      <3>1. PICK old \in reachable :
                r = [total |-> old.total + size, chosen |-> old.chosen \cup {root}]
        BY <2>2
      <3>2. old.chosen \subseteq names /\ old.total = Size(old.chosen)
        BY DEF Reaches
      <3>3. Size(old.chosen \cup {root}) = Size(old.chosen) + size
        BY <3>2, SizeFacts
      <3> QED
        BY <3>1, <3>2, <3>3
    <2> QED
      BY <2>1, <2>2
  <1>3. ASSUME NEW some \in SUBSET (names \cup {root})
        PROVE  \E r \in reachable \cup new : r.total = Size(some)
    <2>1. CASE root \notin some
      <3>1. some \in SUBSET names
        BY <2>1
      <3> QED
        BY <3>1 DEF Reaches
    <2>2. CASE root \in some
      <3> DEFINE rest == some \ {root}
      <3>1. rest \in SUBSET names /\ rest \cup {root} = some /\ root \notin rest
        BY <2>2
      <3>2. Size(some) = Size(rest) + size
        BY <3>1, SizeFacts
      <3>3. PICK old \in reachable : old.total = Size(rest)
        BY <3>1 DEF Reaches
      <3>4. CASE old.total + size \in totals
        BY <3>2, <3>3, <3>4
      <3>5. CASE old.total + size \notin totals
        <4> DEFINE r == [total |-> old.total + size, chosen |-> old.chosen \cup {root}]
        <4>1. r \in new
          BY <3>5
        <4>2. r.total = Size(some)
          BY <3>2, <3>3
        <4> QED
          BY <4>1, <4>2
      <3> QED
        BY <3>4, <3>5
    <2> QED
      BY <2>1, <2>2
  <1> HIDE DEF new, size
  <1> QED
    BY <1>1, <1>2, <1>3 DEF Reaches, size

LEMMA AllReached ==
  ASSUME SplitTyped
  PROVE  Reaches(Reachable(Groups), GroupNames)
  <1> DEFINE N == Cardinality(GroupNames)
             Good == {n \in Nat : n <= N => Reaches(Reached[n], First(n))}
  <1>1. N \in Nat
    BY NamesInOrder
  <1>2. 0 \in Good
    <2>1. Size({}) = 0
      BY FS_EmptySet DEF Size, ItemsOf
    <2>2. Reached[0] = Start /\ First(0) = {}
      BY ReachedFacts, NamesInOrder
    <2>3. Reaches(Start, {})
      BY <2>1 DEF Reaches, Start
    <2> QED
      BY <2>2, <2>3
  <1>3. ASSUME NEW n \in Nat, n \in Good
        PROVE  n + 1 \in Good
    <2> SUFFICES ASSUME n + 1 <= N
                 PROVE  Reaches(Reached[n + 1], First(n + 1))
      OBVIOUS
    <2>1. n + 1 \in 1..N /\ n <= N /\ (n + 1) - 1 = n
      BY <1>1
    <2>2. /\ NthName(n + 1) \in GroupNames \ First(n)
          /\ First(n + 1) = First(n) \cup {NthName(n + 1)}
      BY <2>1, NamesInOrder
    <2>3. First(n) \in SUBSET GroupNames
      <3>1. \A m \in 1..n : m \in 1..N
        BY <1>1, <2>1
      <3> QED
        BY <3>1, NamesInOrder DEF First
    <2>4. Reached[n + 1] = Extend(Reached[n], NthName(n + 1), Cardinality(GroupOf(NthName(n + 1))))
      BY <2>1, ReachedFacts
    <2>5. Reaches(Reached[n], First(n))
      BY <1>3, <2>1
    <2> QED
      BY <2>2, <2>3, <2>4, <2>5, ExtendReaches
  <1> HIDE DEF Good
  <1>4. N \in Good
    BY <1>1, <1>2, <1>3, NatIsLeast
  <1>5. Reaches(Reached[N], First(N))
    BY <1>1, <1>4 DEF Good
  <1> QED
    BY <1>5, ReachedFacts, NamesInOrder

(* The one chosen is as close to the target as any, and the smaller of two. *)
Better(r, other) ==
    \/ Distance(r.total) < Distance(other.total)
    \/ Distance(r.total) = Distance(other.total) /\ r.total <= other.total

LEMMA DistanceType == \A n \in Nat : Distance(n) \in Nat
  BY SplitsAssumption DEF Distance, Target

LEMMA ChosenIsClosest ==
  ASSUME SplitTyped
  PROVE  /\ Chosen(Groups) \subseteq GroupNames
         /\ \A some \in SUBSET GroupNames : Distance(Size(Chosen(Groups))) <= Distance(Size(some))
  <1> DEFINE reachable == Reachable(Groups)
             distances == {Distance(r.total) : r \in reachable}
  <1>1. Reaches(reachable, GroupNames)
    BY AllReached
  <1>2. Chosen(Groups) = (CHOOSE r \in reachable : \A other \in reachable : Better(r, other)).chosen
    BY DEF Chosen, Better
  <1> HIDE DEF reachable
  <1>3. \A r \in reachable : r.total \in Nat
    BY <1>1, SizeFacts DEF Reaches
  <1>4. distances \in SUBSET Nat /\ distances # {}
    <2>1. reachable # {}
      BY <1>1 DEF Reaches
    <2> QED
      BY <1>3, <2>1, DistanceType
  <1>5. PICK n \in distances : \A m \in distances : n <= m
    BY <1>4, LeastOfNat
  <1> DEFINE nearest == {r \in reachable : Distance(r.total) = n}
             totals == {r.total : r \in nearest}
  <1>6. totals \in SUBSET Nat /\ totals # {}
    BY <1>3, <1>5
  <1>7. PICK best \in totals : \A m \in totals : best <= m
    BY <1>6, LeastOfNat
  <1>8. PICK r \in nearest : r.total = best
    BY <1>7
  <1>9. \A other \in reachable : Better(r, other)
    <2> SUFFICES ASSUME NEW other \in reachable
                 PROVE  Better(r, other)
      OBVIOUS
    <2>1. Distance(r.total) = n /\ n <= Distance(other.total)
      BY <1>5, <1>8
    <2>2. Distance(other.total) = n => r.total <= other.total
      BY <1>7, <1>8
    <2>3. n \in Nat /\ Distance(other.total) \in Nat
      BY <1>3, <1>4, DistanceType
    <2> QED
      BY <2>1, <2>2, <2>3 DEF Better
  <1> DEFINE found == CHOOSE x \in reachable : \A other \in reachable : Better(x, other)
  <1>10. found \in reachable /\ \A other \in reachable : Better(found, other)
    BY <1>8, <1>9
  <1> HIDE DEF found
  <1>11. found.chosen \subseteq GroupNames /\ found.total = Size(found.chosen)
    BY <1>1, <1>10 DEF Reaches
  <1>12. ASSUME NEW some \in SUBSET GroupNames
         PROVE  Distance(Size(found.chosen)) <= Distance(Size(some))
    <2>1. PICK other \in reachable : other.total = Size(some)
      BY <1>1 DEF Reaches
    <2>2. Better(found, other)
      BY <1>10
    <2>3. Distance(found.total) \in Nat /\ Distance(other.total) \in Nat
      BY <1>3, <1>10, DistanceType
    <2> QED
      BY <1>11, <2>1, <2>2, <2>3 DEF Better
  <1> QED
    BY <1>2, <1>11, <1>12 DEF found

(* An assignment is that of its data. *)
AssignmentOf ==
    [holdout |-> UNION {Groups[root] : root \in Chosen(Groups)},
     smoke |-> SmokeItems(Chosen(Groups)), done |-> TRUE]

SplitInvariant == SplitTyped /\ (assigned = Unassigned \/ assigned = AssignmentOf)

LEMMA HoldoutFacts ==
  ASSUME SplitTyped, assigned = AssignmentOf
  PROVE  /\ assigned.holdout = ItemsOf(Chosen(Groups))
         /\ \A i \in Items : i \in assigned.holdout <=> Roots[GroupKey(i)] \in Chosen(Groups)
         /\ assigned.smoke \subseteq {i \in Items : GroupKey(i) \notin Chosen(Groups)}
  <1>1. \A root \in Chosen(Groups) : Groups[root] = GroupOf(root)
    BY ChosenIsClosest, GroupFacts
  <1>2. UNION {Groups[root] : root \in Chosen(Groups)} = ItemsOf(Chosen(Groups))
    BY <1>1 DEF ItemsOf
  <1>3. SmokeItems(Chosen(Groups)) \subseteq {i \in Items : GroupKey(i) \notin Chosen(Groups)}
    BY DEF SmokeItems
  <1> QED
    BY <1>2, <1>3, GroupFacts DEF AssignmentOf

LEMMA SplitImplications ==
  ASSUME SplitInvariant
  PROVE  SplitIsSound
  <1> USE DEF SplitInvariant
  <1>1. CASE assigned = Unassigned
    BY <1>1 DEF Unassigned, SplitIsSound, NoLeakage, FamiliesTogether, ClosestHoldout,
       SmokeIsDevUnlessJoined
  <1>2. CASE assigned = AssignmentOf
    <2>0. \A i \in assigned.holdout : i \in Items
      BY <1>2, HoldoutFacts DEF ItemsOf, GroupOf
    <2>1. \A i \in assigned.holdout, j \in Items \ assigned.holdout : ~Linked(i, j)
      <3> SUFFICES ASSUME NEW i \in assigned.holdout, NEW j \in Items \ assigned.holdout
                   PROVE  ~Linked(i, j)
        OBVIOUS
      <3>1. i \in Items
        BY <2>0
      <3>2. Roots[GroupKey(i)] # Roots[GroupKey(j)]
        BY <1>2, <3>1, HoldoutFacts
      <3>3. dataset[i] # dataset[j]
        BY <3>1, <3>2, NodeFacts
      <3>4. ASSUME NEW d \in dataset[i].documents \cap dataset[j].documents
            PROVE  FALSE
        BY <3>1, <3>2, DocumentsJoined
      <3> QED
        BY <3>3, <3>4 DEF Linked
    <2>4. NoLeakage
      <3>1. CrossSplitDocuments = {}
        <4> SUFFICES ASSUME NEW d \in Documents, BothSides({i \in Items : d \in dataset[i].documents})
                     PROVE  FALSE
          BY DEF CrossSplitDocuments
        <4>1. PICK i \in assigned.holdout : d \in dataset[i].documents
          BY DEF BothSides
        <4>2. PICK j \in Items \ assigned.holdout : d \in dataset[j].documents
          BY DEF BothSides
        <4> QED
          BY <2>1, <4>1, <4>2 DEF Linked
      <3>2. ASSUME NEW key \in Keys, BothSides({i \in Items : GroupKey(i) = key})
            PROVE  FALSE
        <4>1. PICK i \in assigned.holdout : GroupKey(i) = key
          BY <3>2 DEF BothSides
        <4>2. PICK j \in Items \ assigned.holdout : GroupKey(j) = key
          BY <3>2 DEF BothSides
        <4>3. i \in Items
          BY <2>0
        <4>4. Roots[GroupKey(i)] # Roots[GroupKey(j)]
          BY <1>2, <4>3, HoldoutFacts
        <4> QED
          BY <4>1, <4>2, <4>4
      <3> QED
        BY <3>1, <3>2 DEF NoLeakage
    <2>5. FamiliesTogether
      <3> SUFFICES ASSUME NEW f \in CrossSplitIntents
                   PROVE  \E i, j \in Items : /\ dataset[i].intent = f /\ dataset[j].intent = f
                                              /\ ~Linked(i, j)
        BY DEF FamiliesTogether
      <3>1. PICK i \in assigned.holdout : i \in Items /\ dataset[i].intent = f
        BY DEF CrossSplitIntents, BothSides
      <3>2. PICK j \in Items \ assigned.holdout : dataset[j].intent = f
        BY DEF CrossSplitIntents, BothSides
      <3> QED
        BY <2>1, <3>1, <3>2
    <2>2. ClosestHoldout
      <3> SUFFICES ASSUME NEW side \in SUBSET Items, Closed(side)
                   PROVE  Distance(Cardinality(assigned.holdout)) <= Distance(Cardinality(side))
        BY DEF ClosestHoldout
      <3>1. PICK names \in SUBSET GroupNames : side = ItemsOf(names)
        BY ClosedIsWhole
      <3>2. Distance(Size(Chosen(Groups))) <= Distance(Size(names))
        BY ChosenIsClosest
      <3> QED
        BY <1>2, <3>1, <3>2, HoldoutFacts DEF Size
    <2>3. SmokeIsDevUnlessJoined
      <3> SUFFICES ASSUME NEW i \in assigned.smoke \cap assigned.holdout
                   PROVE  Roots[GroupKey(i)] # GroupKey(i)
        BY DEF SmokeIsDevUnlessJoined
      <3> QED
        BY <1>2, HoldoutFacts
    <2> QED
      BY <2>2, <2>3, <2>4, <2>5 DEF SplitIsSound
  <1> QED
    BY <1>1, <1>2

(* The assignment is of the items and their digests alone. *)
LEMMA SplitFrame ==
  ASSUME UNCHANGED <<dataset, keyOrder>>
  PROVE  AssignmentOf' = AssignmentOf
  <1>1. \A i : GroupKey(i)' = GroupKey(i)
    BY DEF GroupKey
  <1>2. Keys' = Keys /\ Nodes' = Nodes
    BY <1>1 DEF Keys, Nodes
  <1>3. \A root, i : JoinDocuments(root, i)' = JoinDocuments(root, i)
    BY <1>1, <1>2 DEF JoinDocuments
  <1>4. Roots' = Roots
    BY <1>2, <1>3 DEF Roots
  <1>5. Groups' = Groups
    BY <1>1, <1>4 DEF Groups
  <1>6. \A k, l : Before(k, l)' <=> Before(k, l)
    BY DEF Before
  <1>7. Reachable(Groups)' = Reachable(Groups)
    <2>1. \A n : NthName(n)' = NthName(n)
      BY <1>5, <1>6 DEF NthName
    <2>2. \A old, n : ExtendBy(old, n)' = ExtendBy(old, n)
      BY <1>5, <2>1 DEF ExtendBy, Extend
    <2>3. Reached' = Reached
      BY <1>5, <2>2 DEF Reached, Start
    <2>4. Reachable(Groups) = Reached[Cardinality(DOMAIN Groups)]
      BY DEF Reachable, Reached, NthName, Start, ExtendBy
    <2>5. (Reachable(Groups) = Reached[Cardinality(DOMAIN Groups)])'
      BY DEF Reachable, Reached, NthName, Start, ExtendBy
    <2> QED
      BY <1>5, <2>3, <2>4, <2>5
  <1>8. Chosen(Groups)' = Chosen(Groups)
    BY <1>7 DEF Chosen
  <1>9. SmokeItems(Chosen(Groups))' = SmokeItems(Chosen(Groups))
    BY <1>1, <1>8 DEF SmokeItems
  <1> QED
    BY <1>5, <1>8, <1>9 DEF AssignmentOf

LEMMA SplitStep ==
  ASSUME SplitInvariant, [SplitsNext]_splitVars
  PROVE  SplitInvariant'
  <1>1. CASE AssignSplits
    <2>1. UNCHANGED <<dataset, keyOrder>> /\ assigned' = AssignmentOf
      BY <1>1 DEF AssignSplits, AssignmentOf
    <2> QED
      BY <2>1, SplitFrame DEF SplitInvariant, SplitTyped
  <1>2. CASE UNCHANGED splitVars
    <2>1. UNCHANGED <<dataset, keyOrder>> /\ assigned' = assigned
      BY <1>2 DEF splitVars
    <2>2. AssignmentOf' = AssignmentOf /\ Unassigned' = Unassigned
      BY <2>1, SplitFrame DEF Unassigned
    <2> QED
      BY <2>1, <2>2 DEF SplitInvariant, SplitTyped
  <1> QED
    BY <1>1, <1>2 DEF SplitsNext

(* Whatever the items, their documents and the order of the digests, the   *)
(* split leaks no document, divides a family only where its items share    *)
(* none, and no other choice of whole groups is closer to the third wanted *)
(* (assign_provisional_splits).                                            *)
THEOREM SplitSound == SplitsSpec => []SplitIsSound
  <1>1. SplitsInit => SplitInvariant
    BY DEF SplitsInit, SplitInvariant, SplitTyped
  <1>2. SplitInvariant /\ [SplitsNext]_splitVars => SplitInvariant'
    BY SplitStep
  <1>3. SplitInvariant => SplitIsSound
    BY SplitImplications
  <1> QED
    BY <1>1, <1>2, <1>3, PTL DEF SplitsSpec

(***************************************************************************)
(* HybridSearch: sets in order, and fractions.                             *)
(***************************************************************************)
IsOrder(elements, ahead) ==
    /\ ahead \in [elements -> SUBSET elements]
    /\ \A c \in elements : c \notin ahead[c]
    /\ \A c \in elements : \A b \in ahead[c] : ahead[b] \subseteq ahead[c]
    /\ \A b, c \in elements : b # c => b \in ahead[c] \/ c \in ahead[b]

(* A finite set in order has each element once, behind those ahead of it. *)
LEMMA ArrangedFacts ==
  ASSUME NEW elements, IsFiniteSet(elements), NEW ahead, IsOrder(elements, ahead)
  PROVE  /\ Cardinality(elements) \in Nat
         /\ Arranged(elements, ahead) \in [1 .. Cardinality(elements) -> elements]
         /\ \A c \in elements : \E n \in 1 .. Cardinality(elements) :
               Arranged(elements, ahead)[n] = c /\ Cardinality(ahead[c]) = n - 1
         /\ \A m, n \in 1 .. Cardinality(elements) :
               /\ Arranged(elements, ahead)[m] = Arranged(elements, ahead)[n] => m = n
               /\ m < n => Arranged(elements, ahead)[m] \in ahead[Arranged(elements, ahead)[n]]
  <1> DEFINE N == Cardinality(elements)
             size(c) == Cardinality(ahead[c])
             arranged == Arranged(elements, ahead)
  <1>1. N \in Nat
    BY FS_CardinalityType
  <1>2. \A c \in elements : IsFiniteSet(ahead[c]) /\ size(c) \in Nat
    BY FS_Subset, FS_CardinalityType DEF IsOrder
  <1>3. ASSUME NEW b \in elements, NEW more \in SUBSET elements, ahead[b] \subseteq more, b \in more
        PROVE  size(b) < Cardinality(more)
    <2>1. IsFiniteSet(more) /\ Cardinality(more) \in Nat
      BY FS_Subset, FS_CardinalityType
    <2>2. Cardinality(ahead[b] \cup {b}) = size(b) + 1
      BY <1>2, FS_AddElement DEF IsOrder
    <2>3. Cardinality(ahead[b] \cup {b}) <= Cardinality(more)
      BY <1>3, <2>1, FS_Subset
    <2> QED
      BY <1>2, <2>1, <2>2, <2>3
  <1>4. \A c \in elements : \A b \in ahead[c] : size(b) < size(c)
    BY <1>3 DEF IsOrder
  <1>5. \A c \in elements : size(c) < N
    BY <1>3 DEF IsOrder
  <1> HIDE DEF size, N
  <1>6. \A b, c \in elements : size(b) = size(c) => b = c
    <2> SUFFICES ASSUME NEW b \in elements, NEW c \in elements, size(b) = size(c), b # c
                 PROVE  FALSE
      OBVIOUS
    <2>1. b \in ahead[c] \/ c \in ahead[b]
      BY DEF IsOrder
    <2>2. size(b) < size(c) \/ size(c) < size(b)
      BY <1>4, <2>1
    <2> QED
      BY <1>2, <2>2
  <1>7. \A n \in 1..N : \E c \in elements : size(c) = n - 1
    <2> DEFINE f == [c \in elements |-> size(c) + 1]
    <2>1. f \in Injection(elements, 1..N)
      <3>1. \A c \in elements : size(c) + 1 \in 1..N
        BY <1>1, <1>2, <1>5
      <3>2. \A b, c \in elements : size(b) + 1 = size(c) + 1 => b = c
        BY <1>2, <1>6
      <3> QED
        BY <3>1, <3>2 DEF Injection, IsInjective
    <2>2. IsFiniteSet(1..N) /\ Cardinality(1..N) = N
      BY <1>1, FS_Interval
    <2>3. f \in Surjection(elements, 1..N)
      BY <2>1, <2>2, FS_Injection DEF N
    <2>4. \A n \in 1..N : \E c \in elements : size(c) + 1 = n
      BY <2>3 DEF Surjection
    <2> QED
      BY <1>1, <1>2, <2>4
  <1>8. arranged = [n \in 1..N |-> CHOOSE c \in elements : size(c) = n - 1]
    BY DEF Arranged, size, N
  <1> HIDE DEF arranged
  <1>9. \A n \in 1..N : arranged[n] \in elements /\ size(arranged[n]) = n - 1
    BY <1>7, <1>8
  <1>10. arranged \in [1..N -> elements]
    BY <1>8, <1>9
  <1>11. ASSUME NEW c \in elements
         PROVE  \E n \in 1..N : arranged[n] = c /\ size(c) = n - 1
    <2> DEFINE n == size(c) + 1
    <2>1. n \in 1..N /\ n - 1 = size(c)
      BY <1>1, <1>2, <1>5
    <2> HIDE DEF n
    <2>2. arranged[n] = c
      BY <1>6, <1>9, <2>1
    <2> QED
      BY <2>1, <2>2
  <1>12. ASSUME NEW m \in 1..N, NEW n \in 1..N
         PROVE  /\ arranged[m] = arranged[n] => m = n
                /\ m < n => arranged[m] \in ahead[arranged[n]]
    <2>1. size(arranged[m]) = m - 1 /\ size(arranged[n]) = n - 1
      BY <1>9
    <2>2. m \in Nat /\ n \in Nat
      BY <1>1
    <2>3. arranged[m] = arranged[n] => m = n
      BY <2>1, <2>2
    <2>4. ASSUME m < n
          PROVE  arranged[m] \in ahead[arranged[n]]
      <3>1. arranged[m] # arranged[n]
        BY <2>2, <2>3, <2>4
      <3>2. arranged[n] \notin ahead[arranged[m]]
        <4> SUFFICES ASSUME arranged[n] \in ahead[arranged[m]] PROVE FALSE
          OBVIOUS
        <4>1. size(arranged[n]) < size(arranged[m])
          BY <1>4, <1>9
        <4> QED
          BY <2>1, <2>2, <2>4, <4>1
      <3> QED
        BY <1>9, <3>1, <3>2 DEF IsOrder
    <2> QED
      BY <2>3, <2>4
  <1> QED
    BY <1>1, <1>10, <1>11, <1>12 DEF N, size, arranged

LEMMA CutFacts ==
  ASSUME NEW ranking, NEW elements, ranking \in Seq(elements), NEW n \in Nat
  PROVE  /\ Cut(ranking, n) \in Seq(elements)
         /\ Len(Cut(ranking, n)) = (IF Len(ranking) < n THEN Len(ranking) ELSE n)
         /\ DOMAIN Cut(ranking, n) = 1 .. (IF Len(ranking) < n THEN Len(ranking) ELSE n)
         /\ \A i \in DOMAIN Cut(ranking, n) :
               i \in DOMAIN ranking /\ Cut(ranking, n)[i] = ranking[i]
  <1> DEFINE end == IF Len(ranking) < n THEN Len(ranking) ELSE n
  <1>1. Len(ranking) \in Nat /\ DOMAIN ranking = 1 .. Len(ranking)
    OBVIOUS
  <1>2. end \in Nat /\ end <= Len(ranking)
    BY <1>1
  <1>3. Cut(ranking, n) = SubSeq(ranking, 1, end)
    BY DEF Cut
  <1> HIDE DEF end
  <1>4. /\ SubSeq(ranking, 1, end) \in Seq(elements) /\ Len(SubSeq(ranking, 1, end)) = end
        /\ \A i \in 1 .. end : SubSeq(ranking, 1, end)[i] = ranking[i]
    BY <1>2
  <1>5. \A i \in 1 .. end : i \in 1 .. Len(ranking)
    BY <1>1, <1>2
  <1> QED
    BY <1>1, <1>3, <1>4, <1>5 DEF end

(* A ranking without repetitions has a rank for each of its elements. *)
LEMMA RankFacts ==
  ASSUME NEW ranking, ~Repeats(ranking)
  PROVE  /\ \A i \in DOMAIN ranking : RankIn(ranking, ranking[i]) = i
         /\ \A c \in In(ranking) : RankIn(ranking, c) \in DOMAIN ranking
                                   /\ ranking[RankIn(ranking, c)] = c
  BY DEF Repeats, RankIn, In

IsFraction(p) == p.over \in Nat /\ p.under \in Nat \ {0}
Plus(p, q) == [over |-> p.over * q.under + q.over * p.under, under |-> p.under * q.under]

LEMMA Products ==
  /\ \A a, b \in Nat : a * b \in Nat /\ a * b = b * a
  /\ \A a, b \in Nat \ {0} : a * b \in Nat \ {0}
  /\ \A a, b, c \in Nat : (a * b) * c = (a * c) * b /\ (a * b) * c = a * (b * c)
  /\ \A a, b, c \in Nat : (a + b) * c = a * c + b * c
  OBVIOUS

LEMMA ProductOrder ==
  ASSUME NEW a \in Nat, NEW b \in Nat, NEW c \in Nat \ {0}
  PROVE  /\ a >= b <=> a * c >= b * c
         /\ a > b <=> a * c > b * c
  OBVIOUS

LEMMA ThirdProduct ==
  ASSUME NEW a \in Nat, NEW b \in Nat \ {0}, NEW c \in Nat, NEW d \in Nat \ {0},
         NEW e \in Nat, NEW f \in Nat \ {0},
         a * d >= c * b, c * f >= e * d
  PROVE  /\ a * f >= e * b
         /\ a * d > c * b \/ c * f > e * d => a * f > e * b
  <1>1. /\ a * d \in Nat /\ c * b \in Nat /\ c * f \in Nat /\ e * d \in Nat
        /\ a * f \in Nat /\ e * b \in Nat
    BY Products
  <1>2. /\ (a * d) * f >= (c * b) * f
        /\ a * d > c * b => (a * d) * f > (c * b) * f
    BY <1>1, ProductOrder
  <1>3. /\ (c * f) * b >= (e * d) * b
        /\ c * f > e * d => (c * f) * b > (e * d) * b
    BY <1>1, ProductOrder
  <1>4. /\ (c * b) * f = (c * f) * b /\ (a * d) * f = (a * f) * d
        /\ (e * d) * b = (e * b) * d
    BY Products
  <1>5. (a * f) * d \in Nat /\ (c * f) * b \in Nat /\ (e * b) * d \in Nat
    BY <1>1, Products
  <1>6. /\ (a * f) * d >= (e * b) * d
        /\ a * d > c * b \/ c * f > e * d => (a * f) * d > (e * b) * d
    <2> DEFINE x == (a * f) * d
               y == (c * f) * b
               z == (e * b) * d
    <2>1. /\ x >= y /\ (a * d > c * b => x > y)
          /\ y >= z /\ (c * f > e * d => y > z)
          /\ x \in Nat /\ y \in Nat /\ z \in Nat
      BY <1>2, <1>3, <1>4, <1>5
    <2> HIDE DEF x, y, z
    <2>2. x >= z /\ (x > y \/ y > z => x > z)
      BY <2>1
    <2> QED
      BY <2>1, <2>2 DEF x, z
  <1> QED
    BY <1>1, <1>6, ProductOrder

LEMMA NotAbove ==
  ASSUME NEW p, NEW q, IsFraction(p), IsFraction(q)
  PROVE  ~Above(q, p) <=> p.over * q.under >= q.over * p.under
  <1>1. p.over * q.under \in Nat /\ q.over * p.under \in Nat
    BY Products DEF IsFraction
  <1> QED
    BY <1>1 DEF Above

LEMMA FractionOrder ==
  ASSUME NEW p, NEW q, NEW r, IsFraction(p), IsFraction(q), IsFraction(r),
         ~Above(q, p), ~Above(r, q)
  PROVE  /\ ~Above(r, p)
         /\ Above(p, q) \/ Above(q, r) => Above(p, r)
  <1>1. p.over * q.under >= q.over * p.under /\ q.over * r.under >= r.over * q.under
    BY NotAbove
  <1>2. /\ p.over * r.under >= r.over * p.under
        /\ p.over * q.under > q.over * p.under \/ q.over * r.under > r.over * q.under =>
               p.over * r.under > r.over * p.under
    BY <1>1, ThirdProduct DEF IsFraction
  <1> QED
    BY <1>2, NotAbove DEF Above

LEMMA FractionTotal ==
  ASSUME NEW p, NEW q, IsFraction(p), IsFraction(q)
  PROVE  Above(p, q) => ~Above(q, p)
  <1>1. p.over * q.under \in Nat /\ q.over * p.under \in Nat
    BY Products DEF IsFraction
  <1> QED
    BY <1>1 DEF Above

LEMMA Rearranged ==
  ASSUME NEW x \in Nat, NEW y \in Nat, NEW z \in Nat, NEW w \in Nat
  PROVE  (x * y) * (z * w) = (x * z) * (y * w) /\ (x * y) * (z * w) = (x * w) * (y * z)
  OBVIOUS

LEMMA SumProduct ==
  ASSUME NEW a \in Nat, NEW b \in Nat \ {0}, NEW c \in Nat, NEW d \in Nat \ {0},
         NEW e \in Nat, NEW f \in Nat \ {0}, NEW g \in Nat, NEW h \in Nat \ {0},
         a * d >= c * b, e * h >= g * f
  PROVE  /\ (a * f + e * b) * (d * h) >= (c * h + g * d) * (b * f)
         /\ a * d > c * b \/ e * h > g * f =>
               (a * f + e * b) * (d * h) > (c * h + g * d) * (b * f)
  <1>1. /\ a * d \in Nat /\ c * b \in Nat /\ e * h \in Nat /\ g * f \in Nat
        /\ a * f \in Nat /\ e * b \in Nat /\ c * h \in Nat /\ g * d \in Nat
        /\ f * h \in Nat \ {0} /\ b * d \in Nat \ {0} /\ d * h \in Nat /\ b * f \in Nat
    BY Products
  <1>2. /\ (a * d) * (f * h) >= (c * b) * (f * h)
        /\ a * d > c * b => (a * d) * (f * h) > (c * b) * (f * h)
    BY <1>1, ProductOrder
  <1>3. /\ (e * h) * (b * d) >= (g * f) * (b * d)
        /\ e * h > g * f => (e * h) * (b * d) > (g * f) * (b * d)
    BY <1>1, ProductOrder
  <1>4. /\ (a * f + e * b) * (d * h) = (a * f) * (d * h) + (e * b) * (d * h)
        /\ (c * h + g * d) * (b * f) = (c * h) * (b * f) + (g * d) * (b * f)
    BY <1>1, Products
  <1>5. (a * f) * (d * h) = (a * d) * (f * h)
    BY Rearranged
  <1>6. (e * b) * (d * h) = (e * h) * (b * d)
    BY Rearranged
  <1>7. (c * h) * (b * f) = (c * b) * (f * h)
    <2>1. (c * h) * (b * f) = (c * b) * (h * f)
      BY Rearranged
    <2> QED
      BY <2>1, Products
  <1>8. (g * d) * (b * f) = (g * f) * (b * d)
    <2>1. (g * d) * (b * f) = (g * f) * (d * b)
      BY Rearranged
    <2> QED
      BY <2>1, Products
  <1>9. /\ (a * d) * (f * h) \in Nat /\ (c * b) * (f * h) \in Nat
        /\ (e * h) * (b * d) \in Nat /\ (g * f) * (b * d) \in Nat
    BY <1>1, Products
  <1> DEFINE w == (a * d) * (f * h)
             x == (c * b) * (f * h)
             y == (e * h) * (b * d)
             z == (g * f) * (b * d)
  <1>10. /\ w \in Nat /\ x \in Nat /\ y \in Nat /\ z \in Nat
         /\ w >= x /\ (a * d > c * b => w > x)
         /\ y >= z /\ (e * h > g * f => y > z)
         /\ (a * f + e * b) * (d * h) = w + y
         /\ (c * h + g * d) * (b * f) = x + z
    BY <1>2, <1>3, <1>4, <1>5, <1>6, <1>7, <1>8, <1>9
  <1> HIDE DEF w, x, y, z
  <1>11. w + y >= x + z /\ (w > x \/ y > z => w + y > x + z)
    BY <1>10
  <1> QED
    BY <1>10, <1>11

LEMMA PlusIsFraction ==
  ASSUME NEW p, NEW r, IsFraction(p), IsFraction(r)
  PROVE  IsFraction(Plus(p, r))
  <1>1. p.over * r.under \in Nat /\ r.over * p.under \in Nat /\ p.under * r.under \in Nat \ {0}
    BY Products DEF IsFraction
  <1>2. p.over * r.under + r.over * p.under \in Nat
    BY <1>1
  <1> QED
    BY <1>1, <1>2 DEF IsFraction, Plus

LEMMA FractionSum ==
  ASSUME NEW p, NEW q, NEW r, NEW v, IsFraction(p), IsFraction(q), IsFraction(r), IsFraction(v),
         ~Above(q, p), ~Above(v, r)
  PROVE  /\ ~Above(Plus(q, v), Plus(p, r))
         /\ Above(p, q) \/ Above(r, v) => Above(Plus(p, r), Plus(q, v))
  <1>1. p.over * q.under >= q.over * p.under /\ r.over * v.under >= v.over * r.under
    BY NotAbove
  <1> DEFINE left == (p.over * r.under + r.over * p.under) * (q.under * v.under)
             right == (q.over * v.under + v.over * q.under) * (p.under * r.under)
  <1>2. /\ left >= right
        /\ p.over * q.under > q.over * p.under \/ r.over * v.under > v.over * r.under =>
               left > right
    BY <1>1, SumProduct DEF IsFraction
  <1>3. /\ Plus(p, r).over * Plus(q, v).under = left
        /\ Plus(q, v).over * Plus(p, r).under = right
    BY DEF Plus
  <1> HIDE DEF left, right
  <1>4. ~Above(Plus(q, v), Plus(p, r))
    BY <1>2, <1>3, PlusIsFraction, NotAbove
  <1>5. Above(p, q) \/ Above(r, v) => Above(Plus(p, r), Plus(q, v))
    BY <1>2, <1>3 DEF Above
  <1> QED
    BY <1>4, <1>5

(***************************************************************************)
(* The first of a set in order.                                            *)
(***************************************************************************)
LEMMA CutAgain ==
  ASSUME NEW elements, NEW ranking \in Seq(elements), NEW m \in Nat, NEW n \in Nat, n <= m
  PROVE  Cut(Cut(ranking, m), n) = Cut(ranking, n)
  <1> DEFINE once == Cut(ranking, m)
             left == Cut(once, n)
             right == Cut(ranking, n)
  <1>1. /\ once \in Seq(elements)
        /\ Len(once) = (IF Len(ranking) < m THEN Len(ranking) ELSE m)
        /\ \A i \in DOMAIN once : i \in DOMAIN ranking /\ once[i] = ranking[i]
    BY CutFacts
  <1>2. /\ left \in Seq(elements)
        /\ Len(left) = (IF Len(once) < n THEN Len(once) ELSE n)
        /\ \A i \in DOMAIN left : i \in DOMAIN once /\ left[i] = once[i]
    BY <1>1, CutFacts
  <1>3. /\ right \in Seq(elements)
        /\ Len(right) = (IF Len(ranking) < n THEN Len(ranking) ELSE n)
        /\ \A i \in DOMAIN right : i \in DOMAIN ranking /\ right[i] = ranking[i]
    BY CutFacts
  <1>4. Len(ranking) \in Nat
    OBVIOUS
  <1>5. Len(left) = Len(right)
    BY <1>1, <1>2, <1>3, <1>4
  <1> HIDE DEF once, left, right
  <1>6. DOMAIN left = DOMAIN right
    BY <1>2, <1>3, <1>5
  <1>7. \A i \in DOMAIN left : left[i] = right[i]
    BY <1>1, <1>2, <1>3, <1>6
  <1>8. left = [i \in DOMAIN left |-> left[i]] /\ right = [i \in DOMAIN right |-> right[i]]
    BY <1>2, <1>3
  <1>9. left = right
    BY <1>6, <1>7, <1>8
  <1> QED
    BY <1>9 DEF left, right, once

LEMMA InSize ==
  ASSUME NEW elements, NEW ranking \in Seq(elements), ~Repeats(ranking)
  PROVE  IsFiniteSet(In(ranking)) /\ Cardinality(In(ranking)) = Len(ranking)
  <1>1. Len(ranking) \in Nat /\ DOMAIN ranking = 1 .. Len(ranking)
    OBVIOUS
  <1>2. ranking \in Bijection(1 .. Len(ranking), In(ranking))
    <2>1. ranking \in [1 .. Len(ranking) -> In(ranking)]
      BY <1>1 DEF In
    <2>2. \A i, j \in 1 .. Len(ranking) : ranking[i] = ranking[j] => i = j
      BY <1>1 DEF Repeats
    <2>3. \A c \in In(ranking) : \E i \in 1 .. Len(ranking) : ranking[i] = c
      BY <1>1 DEF In
    <2> QED
      BY <2>1, <2>2, <2>3 DEF Bijection, Injection, Surjection, IsInjective
  <1>3. IsFiniteSet(1 .. Len(ranking)) /\ Cardinality(1 .. Len(ranking)) = Len(ranking)
    BY <1>1, FS_Interval
  <1> QED
    BY <1>2, <1>3, FS_Bijection DEF ExistsBijection

(* The first n of a set in order: as many as there are, each once, with    *)
(* all that are ahead of them, and ahead of all that are left out.         *)
LEMMA FirstFacts ==
  ASSUME NEW elements, IsFiniteSet(elements), NEW ahead, IsOrder(elements, ahead), NEW n \in Nat
  PROVE  LET first == Cut(Arranged(elements, ahead), n) IN
         /\ first \in Seq(elements) /\ ~Repeats(first) /\ In(first) \subseteq elements
         /\ Len(first) = (IF n < Cardinality(elements) THEN n ELSE Cardinality(elements))
         /\ \A b \in In(first) : \A a \in ahead[b] :
               a \in In(first) /\ RankIn(first, a) < RankIn(first, b)
         /\ \A c \in elements \ In(first), e \in In(first) : e \in ahead[c]
  <1> DEFINE all == Arranged(elements, ahead)
             first == Cut(all, n)
             N == Cardinality(elements)
  <1>1. /\ N \in Nat /\ all \in [1 .. N -> elements]
        /\ \A c \in elements : \E i \in 1 .. N : all[i] = c
        /\ \A i, j \in 1 .. N :
              (all[i] = all[j] => i = j) /\ (i < j => all[i] \in ahead[all[j]])
    BY ArrangedFacts
  <1>2. all \in Seq(elements) /\ Len(all) = N /\ DOMAIN all = 1 .. N
    BY <1>1
  <1>3. /\ first \in Seq(elements)
        /\ Len(first) = (IF N < n THEN N ELSE n)
        /\ DOMAIN first = 1 .. (IF N < n THEN N ELSE n)
        /\ \A i \in DOMAIN first : i \in DOMAIN all /\ first[i] = all[i]
    BY <1>2, CutFacts
  <1> HIDE DEF all, first, N
  <1>4. ~Repeats(first)
    BY <1>1, <1>2, <1>3 DEF Repeats
  <1>5. In(first) \subseteq elements
    BY <1>1, <1>2, <1>3 DEF In
  <1>6. Len(first) = (IF n < N THEN n ELSE N)
    BY <1>1, <1>3
  <1>7. \A i, j \in 1 .. N : all[i] \in ahead[all[j]] => i < j
    <2> SUFFICES ASSUME NEW i \in 1 .. N, NEW j \in 1 .. N, all[i] \in ahead[all[j]], ~(i < j)
                 PROVE  FALSE
      OBVIOUS
    <2>1. all[i] \in elements /\ all[j] \in elements
      BY <1>1
    <2>2. CASE i = j
      BY <2>1, <2>2 DEF IsOrder
    <2>3. CASE i # j
      <3>1. j < i
        BY <1>1, <2>3
      <3>2. all[j] \in ahead[all[i]]
        BY <1>1, <3>1
      <3>3. all[i] \in ahead[all[i]]
        BY <2>1, <3>2 DEF IsOrder
      <3> QED
        BY <2>1, <3>3 DEF IsOrder
    <2> QED
      BY <2>2, <2>3
  <1>8. ASSUME NEW b \in In(first), NEW a \in ahead[b]
        PROVE  a \in In(first) /\ RankIn(first, a) < RankIn(first, b)
    <2>1. PICK j \in DOMAIN first : first[j] = b
      BY DEF In
    <2>2. j \in 1 .. N /\ all[j] = b
      BY <1>2, <1>3, <2>1
    <2>3. a \in elements
      BY <1>5, <1>8 DEF IsOrder
    <2>4. PICK i \in 1 .. N : all[i] = a
      BY <1>1, <2>3
    <2>5. i < j
      BY <1>7, <1>8, <2>2, <2>4
    <2>6. i \in DOMAIN first
      BY <1>1, <1>3, <2>1, <2>4, <2>5
    <2>7. first[i] = a
      BY <1>3, <2>4, <2>6
    <2>8. RankIn(first, a) = i /\ RankIn(first, b) = j
      BY <1>4, <2>1, <2>6, <2>7, RankFacts
    <2> QED
      BY <2>5, <2>6, <2>7, <2>8 DEF In
  <1>9. ASSUME NEW c \in elements \ In(first), NEW e \in In(first)
        PROVE  e \in ahead[c]
    <2>1. PICK j \in DOMAIN first : first[j] = e
      BY DEF In
    <2>2. j \in 1 .. N /\ all[j] = e
      BY <1>2, <1>3, <2>1
    <2>3. PICK i \in 1 .. N : all[i] = c
      BY <1>1
    <2>4. i \notin DOMAIN first
      BY <1>3, <1>9, <2>3 DEF In
    <2>5. j < i
      BY <1>1, <1>3, <2>1, <2>3, <2>4
    <2> QED
      BY <1>1, <2>2, <2>3, <2>5
  <1> QED
    BY <1>3, <1>4, <1>5, <1>6, <1>8, <1>9 DEF first, all, N

(* A ranking whose elements are each ahead of all that do not precede them *)
(* in it is how the order begins.                                          *)
LEMMA BeginsAsRanking ==
  ASSUME NEW elements, IsFiniteSet(elements), NEW ahead, IsOrder(elements, ahead),
         NEW ranking \in Seq(elements), ~Repeats(ranking),
         \A a \in In(ranking), c \in elements :
            a # c /\ AheadIn(ranking, a, c) => a \in ahead[c],
         NEW n \in Nat
  PROVE  BeginsWith(Cut(Arranged(elements, ahead), n), Cut(ranking, n))
  <1> DEFINE all == Arranged(elements, ahead)
             N == Cardinality(elements)
  <1>1. /\ N \in Nat /\ all \in [1 .. N -> elements]
        /\ \A c \in elements : \E i \in 1 .. N : all[i] = c /\ Cardinality(ahead[c]) = i - 1
    BY ArrangedFacts
  <1>2. all \in Seq(elements) /\ Len(all) = N /\ DOMAIN all = 1 .. N
    BY <1>1
  <1>3. Len(ranking) \in Nat /\ DOMAIN ranking = 1 .. Len(ranking)
    OBVIOUS
  <1>4. ASSUME NEW i \in DOMAIN ranking
        PROVE  Cardinality(ahead[ranking[i]]) = i - 1
    <2>1. ranking[i] \in elements /\ ranking[i] \in In(ranking)
      BY DEF In
    <2>2. \A j \in 1 .. i - 1 : j \in DOMAIN ranking /\ ranking[j] \in ahead[ranking[i]]
      <3> SUFFICES ASSUME NEW j \in 1 .. i - 1
                   PROVE  j \in DOMAIN ranking /\ ranking[j] \in ahead[ranking[i]]
        OBVIOUS
      <3>1. j \in DOMAIN ranking /\ j < i
        BY <1>3
      <3>2. RankIn(ranking, ranking[j]) = j /\ RankIn(ranking, ranking[i]) = i
        BY <3>1, RankFacts
      <3>3. ranking[j] \in In(ranking) /\ ranking[j] # ranking[i]
        BY <3>1, <3>2 DEF In
      <3>4. AheadIn(ranking, ranking[j], ranking[i])
        BY <3>1, <3>2, <3>3 DEF AheadIn
      <3> QED
        BY <2>1, <3>1, <3>3, <3>4
    <2>3. ASSUME NEW b \in ahead[ranking[i]]
          PROVE  \E j \in 1 .. i - 1 : ranking[j] = b
      <3>1. b \in elements /\ b # ranking[i] /\ ranking[i] \notin ahead[b]
        BY <2>1, <2>3 DEF IsOrder
      <3>2. ~AheadIn(ranking, ranking[i], b)
        BY <2>1, <3>1
      <3>3. b \in In(ranking) /\ ~(RankIn(ranking, ranking[i]) < RankIn(ranking, b))
        BY <2>1, <3>2 DEF AheadIn
      <3> DEFINE j == RankIn(ranking, b)
      <3>4. j \in DOMAIN ranking /\ ranking[j] = b /\ ~(i < j) /\ j # i
        BY <3>1, <3>3, RankFacts
      <3> HIDE DEF j
      <3>5. j \in 1 .. i - 1
        BY <1>3, <3>4
      <3> QED
        BY <3>4, <3>5
    <2> DEFINE f == [j \in 1 .. i - 1 |-> ranking[j]]
    <2>4. f \in Bijection(1 .. i - 1, ahead[ranking[i]])
      <3>1. f \in [1 .. i - 1 -> ahead[ranking[i]]]
        BY <2>2
      <3>2. \A j, k \in 1 .. i - 1 : f[j] = f[k] => j = k
        BY <2>2 DEF Repeats
      <3>3. \A b \in ahead[ranking[i]] : \E j \in 1 .. i - 1 : f[j] = b
        BY <2>3
      <3> QED
        BY <3>1, <3>2, <3>3 DEF Bijection, Injection, Surjection, IsInjective
    <2>5. IsFiniteSet(1 .. i - 1) /\ Cardinality(1 .. i - 1) = i - 1
      <3>1. i - 1 \in Nat /\ 1 \in Int /\ i - 1 \in Int
        BY <1>3
      <3> QED
        BY <3>1, FS_Interval
    <2> QED
      BY <2>4, <2>5, FS_Bijection DEF ExistsBijection
  <1>5. ASSUME NEW i \in DOMAIN ranking
        PROVE  i \in 1 .. N /\ all[i] = ranking[i]
    <2>1. PICK m \in 1 .. N : all[m] = ranking[i] /\ Cardinality(ahead[ranking[i]]) = m - 1
      BY <1>1
    <2>2. m = i
      BY <1>1, <1>3, <1>4, <2>1
    <2> QED
      BY <2>1, <2>2
  <1>6. /\ DOMAIN Cut(all, n) = 1 .. (IF N < n THEN N ELSE n)
        /\ \A i \in DOMAIN Cut(all, n) : Cut(all, n)[i] = all[i]
    BY <1>2, CutFacts
  <1>7. /\ DOMAIN Cut(ranking, n) = 1 .. (IF Len(ranking) < n THEN Len(ranking) ELSE n)
        /\ \A i \in DOMAIN Cut(ranking, n) :
              i \in DOMAIN ranking /\ Cut(ranking, n)[i] = ranking[i]
    BY CutFacts
  <1> HIDE DEF all, N
  <1>8. ASSUME NEW i \in DOMAIN Cut(ranking, n)
        PROVE  i \in DOMAIN Cut(all, n) /\ Cut(all, n)[i] = Cut(ranking, n)[i]
    <2>1. i \in DOMAIN ranking /\ i \in 1 .. N /\ all[i] = ranking[i]
      BY <1>5, <1>7
    <2>2. i <= n
      BY <1>3, <1>7
    <2>3. i \in DOMAIN Cut(all, n)
      BY <1>1, <1>6, <2>1, <2>2
    <2> QED
      BY <1>6, <1>7, <2>1, <2>3
  <1> QED
    BY <1>8 DEF BeginsWith, all

(***************************************************************************)
(* The evidence of a query.                                                *)
(***************************************************************************)
LEMMA ShareFacts ==
  ASSUME NEW ranking \in Seq(ChunkIds), ~Repeats(ranking), NEW weight \in Nat,
         NEW a, NEW b
  PROVE  /\ IsFraction(Share(ranking, weight, a))
         /\ AheadIn(ranking, a, b) =>
               ~Above(Share(ranking, weight, b), Share(ranking, weight, a))
         /\ AheadIn(ranking, a, b) /\ a \in In(ranking) /\ weight # 0 =>
               Above(Share(ranking, weight, a), Share(ranking, weight, b))
         /\ weight = 0 => ~Above(Share(ranking, weight, b), Share(ranking, weight, a))
  <1>1. RrfK \in Nat \ {0}
    BY SearchAssumption
  <1>2. ASSUME NEW c \in In(ranking)
        PROVE  /\ RankIn(ranking, c) \in Nat
               /\ Share(ranking, weight, c).over = weight
               /\ Share(ranking, weight, c).under = RrfK + RankIn(ranking, c)
    BY RankFacts DEF Share
  <1>3. ASSUME NEW c, c \notin In(ranking)
        PROVE  Share(ranking, weight, c).over = 0 /\ Share(ranking, weight, c).under = 1
    BY <1>3 DEF Share
  <1>4. \A c : IsFraction(Share(ranking, weight, c))
    BY <1>1, <1>2, <1>3 DEF IsFraction
  <1>5. CASE b \notin In(ranking)
    <2>1. Share(ranking, weight, b).over = 0 /\ Share(ranking, weight, b).under = 1
      BY <1>3, <1>5
    <2> DEFINE p == Share(ranking, weight, a)
               q == Share(ranking, weight, b)
    <2>2. IsFraction(p) /\ q.over = 0 /\ q.under = 1 /\ (a \in In(ranking) => p.over = weight)
      BY <1>2, <1>4, <2>1
    <2> HIDE DEF p, q
    <2>3. ~Above(q, p)
      BY <2>2 DEF Above, IsFraction
    <2>4. a \in In(ranking) /\ weight # 0 => Above(p, q)
      BY <2>2 DEF Above, IsFraction
    <2> QED
      BY <1>4, <2>3, <2>4 DEF p, q
  <1>6. CASE b \in In(ranking) /\ a \in In(ranking)
    <2> DEFINE p == Share(ranking, weight, a)
               q == Share(ranking, weight, b)
               m == RrfK + RankIn(ranking, a)
               n == RrfK + RankIn(ranking, b)
    <2>1. /\ m \in Nat \ {0} /\ n \in Nat \ {0}
          /\ p.over = weight /\ p.under = m /\ q.over = weight /\ q.under = n
          /\ AheadIn(ranking, a, b) => n > m
      BY <1>1, <1>2, <1>6 DEF AheadIn
    <2> HIDE DEF p, q, m, n
    <2>2. n > m => n * weight >= m * weight /\ (weight # 0 => n * weight > m * weight)
      <3>1. CASE weight = 0
        BY <2>1, <3>1
      <3>2. CASE weight # 0
        BY <2>1, <3>2, ProductOrder
      <3> QED
        BY <3>1, <3>2
    <2>3. /\ n * weight = weight * n /\ m * weight = weight * m
          /\ weight * n \in Nat /\ weight * m \in Nat
      BY <2>1, Products
    <2>4. n > m => ~Above(q, p) /\ (weight # 0 => Above(p, q))
      BY <2>1, <2>2, <2>3 DEF Above
    <2>5. weight = 0 => ~Above(q, p)
      BY <2>1 DEF Above
    <2> QED
      BY <1>4, <2>1, <2>4, <2>5 DEF p, q
  <1>7. CASE b \in In(ranking) /\ a \notin In(ranking)
    <2>1. ~AheadIn(ranking, a, b)
      BY <1>7 DEF AheadIn
    <2>2. weight = 0 => ~Above(Share(ranking, weight, b), Share(ranking, weight, a))
      BY <1>1, <1>2, <1>3, <1>7 DEF Above
    <2> QED
      BY <1>4, <2>1, <2>2
  <1> QED
    BY <1>5, <1>6, <1>7

(* Two rankings without repetitions, and two weights. *)
Searchable ==
    /\ sparse \in Seq(ChunkIds) /\ dense \in Seq(ChunkIds)
    /\ weights.sparse \in Nat /\ weights.dense \in Nat
    /\ ~Repeats(SparseHits) /\ ~Repeats(DenseHits)

LEMMA HitFacts ==
  ASSUME Searchable
  PROVE  /\ SparseHits \in Seq(ChunkIds) /\ DenseHits \in Seq(ChunkIds)
         /\ SparseHits \in Seq(Retrieved) /\ DenseHits \in Seq(Retrieved)
         /\ Retrieved \in SUBSET Nat /\ Retrieved \subseteq ChunkIds /\ IsFiniteSet(Retrieved)
  <1>1. SparseHits \in Seq(ChunkIds) /\ DenseHits \in Seq(ChunkIds)
    BY CutFacts, SearchAssumption DEF Searchable, SparseHits, DenseHits
  <1>2. SparseHits \in Seq(Retrieved) /\ DenseHits \in Seq(Retrieved)
    BY <1>1 DEF Retrieved, In
  <1>3. Retrieved \subseteq ChunkIds
    BY <1>1 DEF Retrieved, In
  <1>4. IsFiniteSet(Retrieved)
    BY <1>1, InSize, FS_Union DEF Searchable, Retrieved
  <1> QED
    BY <1>1, <1>2, <1>3, <1>4, SearchAssumption

LEMMA ScoreFacts ==
  ASSUME Searchable, NEW a, NEW b
  PROVE  /\ IsFraction(FusedScore(a))
         /\ (\/ AheadIn(SparseHits, a, b) /\ (AheadIn(DenseHits, a, b) \/ weights.dense = 0)
             \/ AheadIn(DenseHits, a, b) /\ weights.sparse = 0)
            => ~Above(FusedScore(b), FusedScore(a))
         /\ (\/ /\ AheadIn(SparseHits, a, b) /\ a \in In(SparseHits) /\ weights.sparse # 0
                /\ weights.dense = 0
             \/ /\ AheadIn(DenseHits, a, b) /\ a \in In(DenseHits) /\ weights.dense # 0
                /\ weights.sparse = 0)
            => Above(FusedScore(a), FusedScore(b))
  <1> DEFINE p == Share(SparseHits, weights.sparse, a)
             q == Share(SparseHits, weights.sparse, b)
             r == Share(DenseHits, weights.dense, a)
             v == Share(DenseHits, weights.dense, b)
  <1>1. FusedScore(a) = Plus(p, r) /\ FusedScore(b) = Plus(q, v)
    BY DEF FusedScore, Plus
  <1>2. SparseHits \in Seq(ChunkIds) /\ DenseHits \in Seq(ChunkIds)
    BY HitFacts
  <1>3. /\ IsFraction(p) /\ IsFraction(q)
        /\ AheadIn(SparseHits, a, b) => ~Above(q, p)
        /\ AheadIn(SparseHits, a, b) /\ a \in In(SparseHits) /\ weights.sparse # 0 => Above(p, q)
        /\ weights.sparse = 0 => ~Above(q, p)
    BY <1>2, ShareFacts DEF Searchable
  <1>4. /\ IsFraction(r) /\ IsFraction(v)
        /\ AheadIn(DenseHits, a, b) => ~Above(v, r)
        /\ AheadIn(DenseHits, a, b) /\ a \in In(DenseHits) /\ weights.dense # 0 => Above(r, v)
        /\ weights.dense = 0 => ~Above(v, r)
    BY <1>2, ShareFacts DEF Searchable
  <1> HIDE DEF p, q, r, v
  <1>5. IsFraction(FusedScore(a))
    BY <1>1, <1>3, <1>4, PlusIsFraction
  <1>6. ~Above(q, p) /\ ~Above(v, r) =>
            /\ ~Above(FusedScore(b), FusedScore(a))
            /\ Above(p, q) \/ Above(r, v) => Above(FusedScore(a), FusedScore(b))
    BY <1>1, <1>3, <1>4, FractionSum
  <1> QED
    BY <1>3, <1>4, <1>5, <1>6

RanksOf(c) == {RankIn(r, c) : r \in {l \in {SparseHits, DenseHits} : c \in In(l)}}

LEMMA BestRankFacts ==
  ASSUME Searchable, NEW c \in Retrieved
  PROVE  BestRank(c) \in RanksOf(c) /\ \A m \in RanksOf(c) : m \in Nat /\ BestRank(c) <= m
  <1>1. SparseHits \in Seq(ChunkIds) /\ DenseHits \in Seq(ChunkIds)
    BY HitFacts
  <1>2. RanksOf(c) \in SUBSET Nat
    BY <1>1, RankFacts DEF RanksOf, Searchable
  <1>3. RanksOf(c) # {}
    BY DEF RanksOf, Retrieved
  <1>4. \E n \in RanksOf(c) : \A m \in RanksOf(c) : n <= m
    BY <1>2, <1>3, LeastOfNat
  <1>5. BestRank(c) = CHOOSE n \in RanksOf(c) : \A m \in RanksOf(c) : n <= m
    BY DEF BestRank, RanksOf
  <1> QED
    BY <1>2, <1>4, <1>5

AheadInFusion == [c \in Retrieved |-> {b \in Retrieved : FusedBefore(b, c)}]

LEMMA FusionIsOrder ==
  ASSUME Searchable
  PROVE  IsOrder(Retrieved, AheadInFusion)
  <1>1. \A c \in Retrieved : IsFraction(FusedScore(c)) /\ BestRank(c) \in Nat /\ c \in Nat
    BY ScoreFacts, BestRankFacts, HitFacts
  <1>2. ASSUME NEW c \in Retrieved PROVE ~FusedBefore(c, c)
    BY <1>1, FractionTotal DEF FusedBefore
  <1>3. ASSUME NEW a \in Retrieved, NEW b \in Retrieved, a # b
        PROVE  FusedBefore(a, b) \/ FusedBefore(b, a)
    BY <1>1, <1>3 DEF FusedBefore
  <1>4. ASSUME NEW a \in Retrieved, NEW b \in Retrieved, NEW c \in Retrieved,
               FusedBefore(a, b), FusedBefore(b, c)
        PROVE  FusedBefore(a, c)
    <2>1. ~Above(FusedScore(b), FusedScore(a)) /\ ~Above(FusedScore(c), FusedScore(b))
      BY <1>1, <1>4, FractionTotal DEF FusedBefore
    <2>2. /\ ~Above(FusedScore(c), FusedScore(a))
          /\ Above(FusedScore(a), FusedScore(b)) \/ Above(FusedScore(b), FusedScore(c)) =>
                Above(FusedScore(a), FusedScore(c))
      BY <1>1, <2>1, FractionOrder
    <2>3. CASE Above(FusedScore(a), FusedScore(b)) \/ Above(FusedScore(b), FusedScore(c))
      BY <2>2, <2>3 DEF FusedBefore
    <2>4. CASE ~Above(FusedScore(a), FusedScore(b)) /\ ~Above(FusedScore(b), FusedScore(c))
      <3>1. /\ BestRank(a) < BestRank(b) \/ (BestRank(a) = BestRank(b) /\ a < b)
            /\ BestRank(b) < BestRank(c) \/ (BestRank(b) = BestRank(c) /\ b < c)
        BY <1>4, <2>4 DEF FusedBefore
      <3>2. BestRank(a) < BestRank(c) \/ (BestRank(a) = BestRank(c) /\ a < c)
        BY <1>1, <3>1
      <3> QED
        BY <2>2, <3>2 DEF FusedBefore
    <2> QED
      BY <2>3, <2>4
  <1> QED
    BY <1>2, <1>3, <1>4 DEF IsOrder, AheadInFusion

LEMMA FusedFacts ==
  ASSUME Searchable
  PROVE  /\ Fused = Cut(Arranged(Retrieved, AheadInFusion), CandidateK)
         /\ Fused \in Seq(ChunkIds) /\ ~Repeats(Fused) /\ In(Fused) \subseteq Retrieved
         /\ \A b \in In(Fused) : \A a \in AheadInFusion[b] :
               a \in In(Fused) /\ RankIn(Fused, a) < RankIn(Fused, b)
  <1>1. Fused = Cut(Arranged(Retrieved, AheadInFusion), CandidateK)
    BY DEF Fused, AheadInFusion
  <1>2. IsFiniteSet(Retrieved) /\ Retrieved \subseteq ChunkIds /\ CandidateK \in Nat
    BY HitFacts, SearchAssumption
  <1>3. /\ Fused \in Seq(Retrieved) /\ ~Repeats(Fused) /\ In(Fused) \subseteq Retrieved
        /\ \A b \in In(Fused) : \A a \in AheadInFusion[b] :
              a \in In(Fused) /\ RankIn(Fused, a) < RankIn(Fused, b)
    BY <1>1, <1>2, FusionIsOrder, FirstFacts
  <1> QED
    BY <1>1, <1>2, <1>3

(* Ahead in both rankings is ahead in the fusion. *)
LEMMA BothAhead ==
  ASSUME Searchable, NEW a \in Retrieved, NEW b \in Retrieved,
         AheadIn(SparseHits, a, b), AheadIn(DenseHits, a, b)
  PROVE  FusedBefore(a, b)
  <1>1. ~Above(FusedScore(b), FusedScore(a))
    BY ScoreFacts
  <1>2. BestRank(b) \in RanksOf(b) /\ BestRank(b) \in Nat
    BY BestRankFacts
  <1>3. PICK r \in {SparseHits, DenseHits} : b \in In(r) /\ BestRank(b) = RankIn(r, b)
    BY <1>2 DEF RanksOf
  <1>4. a \in In(r) /\ RankIn(r, a) < RankIn(r, b)
    BY <1>3 DEF AheadIn
  <1>5. RankIn(r, a) \in RanksOf(a)
    BY <1>4 DEF RanksOf
  <1>6. BestRank(a) <= RankIn(r, a) /\ RankIn(r, a) \in Nat /\ BestRank(a) \in Nat
    BY <1>5, BestRankFacts
  <1>7. BestRank(a) < BestRank(b)
    BY <1>2, <1>3, <1>4, <1>6
  <1> QED
    BY <1>1, <1>7 DEF FusedBefore

(* With one weight zero, the other ranking is how the fusion begins. *)
LEMMA BaselineBegins ==
  ASSUME Searchable
  PROVE  /\ weights.dense = 0 /\ weights.sparse # 0 => BeginsWith(Fused, Cut(SparseHits, CandidateK))
         /\ weights.sparse = 0 /\ weights.dense # 0 => BeginsWith(Fused, Cut(DenseHits, CandidateK))
  <1>1. /\ IsFiniteSet(Retrieved) /\ IsOrder(Retrieved, AheadInFusion) /\ CandidateK \in Nat
        /\ SparseHits \in Seq(Retrieved) /\ DenseHits \in Seq(Retrieved)
        /\ In(SparseHits) \subseteq Retrieved /\ In(DenseHits) \subseteq Retrieved
        /\ Fused = Cut(Arranged(Retrieved, AheadInFusion), CandidateK)
    BY HitFacts, FusionIsOrder, FusedFacts, SearchAssumption DEF Retrieved
  <1>2. ASSUME weights.dense = 0, weights.sparse # 0
        PROVE  BeginsWith(Fused, Cut(SparseHits, CandidateK))
    <2>1. \A a \in In(SparseHits), c \in Retrieved :
             a # c /\ AheadIn(SparseHits, a, c) => a \in AheadInFusion[c]
      BY <1>1, <1>2, ScoreFacts DEF FusedBefore, AheadInFusion
    <2> QED
      BY <1>1, <2>1, BeginsAsRanking DEF Searchable
  <1>3. ASSUME weights.sparse = 0, weights.dense # 0
        PROVE  BeginsWith(Fused, Cut(DenseHits, CandidateK))
    <2>1. \A a \in In(DenseHits), c \in Retrieved :
             a # c /\ AheadIn(DenseHits, a, c) => a \in AheadInFusion[c]
      BY <1>1, <1>3, ScoreFacts DEF FusedBefore, AheadInFusion
    <2> QED
      BY <1>1, <2>1, BeginsAsRanking DEF Searchable
  <1> QED
    BY <1>2, <1>3

(* The candidates in the order of the reranker's scores. *)
AheadOnceScored(scored) ==
    [c \in In(fused) |-> {b \in In(fused) : ScoredBefore(scored, b, c)}]

LEMMA RerankedFacts ==
  ASSUME fused \in Seq(ChunkIds), ~Repeats(fused), limit \in 1 .. Depth,
         NEW scored \in [In(fused) -> Scores]
  PROVE  LET ranked == Cut(Reranked(scored), limit) IN
         /\ ranked \in Seq(ChunkIds) /\ ~Repeats(ranked) /\ In(ranked) \subseteq In(fused)
         /\ Len(ranked) = (IF limit < Len(fused) THEN limit ELSE Len(fused))
         /\ \A c \in In(fused) \ In(ranked), e \in In(ranked) : ScoredBefore(scored, e, c)
  <1> DEFINE elements == In(fused)
             ahead == AheadOnceScored(scored)
             ranked == Cut(Reranked(scored), limit)
  <1>1. Depth \in Nat /\ limit \in Nat /\ limit <= Depth
    BY SearchAssumption
  <1>2. IsFiniteSet(elements) /\ Cardinality(elements) = Len(fused) /\ elements \subseteq ChunkIds
    BY InSize DEF In
  <1>3. IsOrder(elements, ahead)
    <2>1. \A c \in elements : scored[c] \in Int /\ RankIn(fused, c) \in Nat
                              /\ fused[RankIn(fused, c)] = c
      <3>1. \A c \in elements : RankIn(fused, c) \in DOMAIN fused /\ fused[RankIn(fused, c)] = c
        BY RankFacts
      <3>2. DOMAIN fused \subseteq Nat
        OBVIOUS
      <3>3. \A c \in elements : scored[c] \in Int
        BY SearchAssumption
      <3> QED
        BY <3>1, <3>2, <3>3
    <2>2. \A c \in elements : ~ScoredBefore(scored, c, c)
      BY <2>1 DEF ScoredBefore
    <2>3. \A b, c \in elements :
             b # c => ScoredBefore(scored, b, c) \/ ScoredBefore(scored, c, b)
      BY <2>1 DEF ScoredBefore
    <2>4. \A a, b, c \in elements :
             ScoredBefore(scored, a, b) /\ ScoredBefore(scored, b, c) => ScoredBefore(scored, a, c)
      BY <2>1 DEF ScoredBefore
    <2> HIDE DEF elements
    <2>5. ahead = [c \in elements |-> {b \in elements : ScoredBefore(scored, b, c)}]
      BY DEF AheadOnceScored, elements
    <2> QED
      BY <2>2, <2>3, <2>4, <2>5 DEF IsOrder
  <1>4. Reranked(scored) = Cut(Arranged(elements, ahead), Depth)
    BY DEF Reranked, AheadOnceScored
  <1>5. Arranged(elements, ahead) \in Seq(elements)
    BY <1>2, <1>3, ArrangedFacts
  <1>6. ranked = Cut(Arranged(elements, ahead), limit)
    BY <1>1, <1>4, <1>5, CutAgain
  <1>7. /\ ranked \in Seq(elements) /\ ~Repeats(ranked) /\ In(ranked) \subseteq elements
        /\ Len(ranked) = (IF limit < Cardinality(elements) THEN limit ELSE Cardinality(elements))
        /\ \A c \in elements \ In(ranked), e \in In(ranked) : e \in ahead[c]
    BY <1>1, <1>2, <1>3, <1>6, FirstFacts
  <1>8. \A c \in elements : ahead[c] = {b \in elements : ScoredBefore(scored, b, c)}
    BY DEF AheadOnceScored
  <1> QED
    BY <1>2, <1>7, <1>8

SearchInvariant ==
    /\ sparse \in Rankings /\ dense \in Rankings /\ weights \in Weights /\ limit \in 1 .. Depth
    /\ searched \in {"asked", "fused", "served", "failed"}
    /\ searched = "asked" => fused = <<>>
    /\ searched = "failed" => fused = <<>> \/ (Searchable /\ fused = Fused)
    /\ searched \in {"fused", "served"} => Searchable /\ fused = Fused
    /\ searched = "served" =>
          /\ scores \in [In(fused) -> Scores]
          /\ servedEvidence = Cut(Reranked(scores), limit)
          /\ In(servedEvidence) \subseteq corpus

LEMMA SearchImplications == SearchInvariant => SearchIsSound
  <1> SUFFICES ASSUME SearchInvariant PROVE SearchIsSound
    OBVIOUS
  <1>1. ASSUME Searchable, fused = Fused PROVE FusionRespectsBoth
    <2>1. ASSUME NEW a \in Retrieved, NEW b \in In(fused),
                 AheadIn(SparseHits, a, b), AheadIn(DenseHits, a, b)
          PROVE  a \in In(fused) /\ RankIn(fused, a) < RankIn(fused, b)
      <3>1. b \in Retrieved
        BY <1>1, FusedFacts
      <3>2. FusedBefore(a, b)
        BY <1>1, <2>1, <3>1, BothAhead
      <3>3. a \in AheadInFusion[b]
        BY <3>1, <3>2 DEF AheadInFusion
      <3> QED
        BY <1>1, <3>3, FusedFacts
    <2> QED
      BY <2>1 DEF FusionRespectsBoth
  <1>2. fused = <<>> => FusionRespectsBoth
    BY DEF FusionRespectsBoth, In
  <1>3. FusionRespectsBoth
    BY <1>1, <1>2 DEF SearchInvariant
  <1>4. BaselineIsItsRanking
    BY BaselineBegins DEF BaselineIsItsRanking, SearchInvariant
  <1>5. BestIsServed
    <2> SUFFICES ASSUME searched = "served" PROVE BestIsServed
      BY DEF BestIsServed
    <2>1. /\ Searchable /\ fused = Fused /\ scores \in [In(fused) -> Scores] /\ limit \in 1 .. Depth
          /\ servedEvidence = Cut(Reranked(scores), limit) /\ In(servedEvidence) \subseteq corpus
      BY DEF SearchInvariant
    <2>2. fused \in Seq(ChunkIds) /\ ~Repeats(fused) /\ In(fused) \subseteq Retrieved
      BY <2>1, FusedFacts
    <2>3. /\ ~Repeats(servedEvidence) /\ In(servedEvidence) \subseteq In(fused)
          /\ Len(servedEvidence) = (IF limit < Len(fused) THEN limit ELSE Len(fused))
          /\ \A c \in In(fused) \ In(servedEvidence), e \in In(servedEvidence) :
                ScoredBefore(scores, e, c)
      BY <2>1, <2>2, RerankedFacts
    <2>4. \A c \in In(fused) : scores[c] \in Int
      BY <2>1, SearchAssumption
    <2>5. \A c \in In(fused) \ In(servedEvidence), e \in In(servedEvidence) :
             \/ scores[c] < scores[e]
             \/ scores[c] = scores[e] /\ RankIn(fused, e) < RankIn(fused, c)
      BY <2>3, <2>4 DEF ScoredBefore
    <2>6. In(servedEvidence) \subseteq corpus \cap Retrieved
      BY <2>1, <2>2, <2>3
    <2> QED
      BY <2>3, <2>5, <2>6 DEF BestIsServed
  <1> QED
    BY <1>3, <1>4, <1>5 DEF SearchIsSound

LEMMA SearchFrame ==
  ASSUME UNCHANGED <<sparse, dense, weights>>
  PROVE  Fused' = Fused /\ (Searchable' <=> Searchable)
  <1>1. sparse' = sparse /\ dense' = dense /\ weights' = weights
    OBVIOUS
  <1>2. SparseHits' = SparseHits /\ DenseHits' = DenseHits
    BY <1>1 DEF SparseHits, DenseHits
  <1>3. Retrieved' = Retrieved
    BY <1>2 DEF Retrieved
  <1>4. \A c : FusedScore(c)' = FusedScore(c)
    BY <1>1, <1>2 DEF FusedScore
  <1>5. \A c : BestRank(c)' = BestRank(c)
    BY <1>2 DEF BestRank
  <1>6. \A a, b : FusedBefore(a, b)' <=> FusedBefore(a, b)
    BY <1>4, <1>5 DEF FusedBefore
  <1>7. Fused' = Fused
    BY <1>3, <1>6 DEF Fused
  <1>8. Searchable' <=> Searchable
    BY <1>1, <1>2 DEF Searchable
  <1> QED
    BY <1>7, <1>8

LEMMA RerankedFrame ==
  ASSUME UNCHANGED fused
  PROVE  \A scored : Reranked(scored)' = Reranked(scored)
  <1>1. \A scored, a, b : ScoredBefore(scored, a, b)' <=> ScoredBefore(scored, a, b)
    BY DEF ScoredBefore
  <1> QED
    BY <1>1 DEF Reranked

LEMMA SearchStep ==
  ASSUME SearchInvariant, [SearchNext]_searchVars
  PROVE  SearchInvariant'
  <1>1. CASE FirstStage
    <2>1. /\ searched = "asked" /\ fused = <<>>
          /\ UNCHANGED <<sparse, dense, weights>> /\ UNCHANGED limit
          /\ \/ searched' = "failed" /\ fused' = fused
             \/ /\ ~Repeats(SparseHits) /\ ~Repeats(DenseHits)
                /\ searched' = "fused" /\ fused' = Fused
      BY <1>1 DEF FirstStage, SearchInvariant
    <2>2. Fused' = Fused /\ (Searchable' <=> Searchable)
      BY <2>1, SearchFrame
    <2>3. searched' = "fused" => Searchable
      BY <2>1, SearchAssumption DEF SearchInvariant, Searchable
    <2> QED
      BY <2>1, <2>2, <2>3 DEF SearchInvariant
  <1>2. CASE Serve
    <2>1. /\ searched = "fused" /\ Searchable /\ fused = Fused
          /\ UNCHANGED <<sparse, dense, weights>> /\ UNCHANGED <<limit, corpus, fused>>
      BY <1>2 DEF Serve, SearchInvariant
    <2>2. Fused' = Fused /\ (Searchable' <=> Searchable)
      BY <2>1, SearchFrame
    <2>3. \A scored : Reranked(scored)' = Reranked(scored)
      BY <2>1, RerankedFrame
    <2>4. PICK scored \in UNION {[answered -> Scores] : answered \in SUBSET In(fused)} :
             /\ scores' = scored
             /\ \/ searched' = "failed"
                \/ /\ DOMAIN scored = In(fused)
                   /\ In(Cut(Reranked(scored), limit)) \subseteq corpus
                   /\ searched' = "served" /\ servedEvidence' = Cut(Reranked(scored), limit)
      BY <1>2 DEF Serve
    <2>5. DOMAIN scored = In(fused) => scored \in [In(fused) -> Scores]
      OBVIOUS
    <2>6. Reranked(scores)' = Reranked(scored)
      <3>1. Reranked(scored)' = Reranked(scored)
        BY <2>3
      <3> QED
        BY <2>4, <3>1 DEF Reranked, ScoredBefore
    <2> QED
      BY <2>1, <2>2, <2>4, <2>5, <2>6 DEF SearchInvariant
  <1>3. CASE UNCHANGED searchVars
    <2>1. /\ UNCHANGED <<sparse, dense, weights>>
          /\ UNCHANGED <<corpus, limit, searched, fused, scores, servedEvidence>>
      BY <1>3 DEF searchVars
    <2>2. Fused' = Fused /\ (Searchable' <=> Searchable)
      BY <2>1, SearchFrame
    <2>3. Reranked(scores)' = Reranked(scores)
      <3>1. fused' = fused /\ scores' = scores
        BY <2>1
      <3> QED
        BY <3>1 DEF Reranked, ScoredBefore
    <2> QED
      BY <2>1, <2>2, <2>3 DEF SearchInvariant
  <1> QED
    BY <1>1, <1>2, <1>3 DEF SearchNext

(* For rankings of any length, any weights and any scores: what is ahead in*)
(* both rankings stays ahead, a baseline begins with its ranking, and what *)
(* is served is the best of the candidates                                 *)
(* (HybridServingRetriever.search).                                        *)
THEOREM SearchSound == SearchSpec => []SearchIsSound
  <1>1. SearchInit => SearchInvariant
    BY DEF SearchInit, SearchInvariant
  <1>2. SearchInvariant /\ [SearchNext]_searchVars => SearchInvariant'
    BY SearchStep
  <1>3. SearchInvariant => SearchIsSound
    BY SearchImplications
  <1> QED
    BY <1>1, <1>2, <1>3, PTL DEF SearchSpec
=============================================================================
