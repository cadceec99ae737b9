--------------------------- MODULE ChunkingProofs ----------------------------
(***************************************************************************)
(* Proofs about the chunks of a document, for texts and windows of any     *)
(* size.  Segments are proved sound of a sentence's windows first, then of *)
(* whatever regions divide a block and a text, and then while they are     *)
(* packed.                                                                 *)
(***************************************************************************)
EXTENDS Chunking, ComputationProofs

(***************************************************************************)
(* Spans and tokens.                                                       *)
(***************************************************************************)
IsText(text) == text \in Seq(STRING)
IsIn(span, outer) == outer.start <= span.start /\ span.end <= outer.end
IsSpan(text, span) ==
    span.start \in Nat /\ span.end \in Nat /\ span.start <= span.end /\ span.end <= Len(text)

LEMMA ConstantFacts ==
  /\ Maximum \in Nat \ {0} /\ TargetTokens \in Nat \ {0} /\ Overlap \in Nat \ {0}
  /\ Step \in Nat \ {0} /\ Step <= Maximum
  /\ Maximum - Step \in Nat
  <1>1. Maximum \in Nat \ {0} /\ TargetTokens \in Nat \ {0} /\ Overlap \in Nat \ {0}
    BY ChunkingAssumption
  <1>2. Step \in Nat \ {0} /\ Step <= Maximum
    BY <1>1 DEF Step
  <1> QED
    BY <1>1, <1>2

LEMMA TokenFacts ==
  ASSUME NEW span, span.start \in Nat, span.end \in Nat, NEW text
  PROVE  /\ TokensIn(text, span) \in SUBSET Nat
         /\ IsFiniteSet(TokensIn(text, span))
         /\ TokenCount(text, span) \in Nat
         /\ \A i : i \in TokensIn(text, span) <=>
                      i \in Nat /\ span.start <= i /\ i < span.end /\ ~IsSpace(Char(text, i))
         /\ ~Blank(text, span) <=> TokenCount(text, span) > 0
  <1>1. span.start .. span.end - 1 \subseteq Nat /\ IsFiniteSet(span.start .. span.end - 1)
    <2>1. span.start \in Int /\ span.end - 1 \in Int
      OBVIOUS
    <2>2. IsFiniteSet(span.start .. span.end - 1)
      BY <2>1, FS_Interval
    <2> QED
      BY <2>2
  <1>2. TokensIn(text, span) \subseteq span.start .. span.end - 1
    BY DEF TokensIn
  <1>3. IsFiniteSet(TokensIn(text, span))
    BY <1>1, <1>2, FS_Subset
  <1>4. TokenCount(text, span) \in Nat
    BY <1>3, FS_CardinalityType DEF TokenCount
  <1>5. \A i : i \in TokensIn(text, span) <=>
                      i \in Nat /\ span.start <= i /\ i < span.end /\ ~IsSpace(Char(text, i))
    BY DEF TokensIn
  <1>6. ~Blank(text, span) <=> TokenCount(text, span) > 0
    BY <1>3, <1>4, FS_EmptySet DEF Blank, TokenCount
  <1> QED
    BY <1>1, <1>2, <1>3, <1>4, <1>5, <1>6

(* A wider span has no fewer tokens. *)
LEMMA WiderSpan ==
  ASSUME NEW span, span.start \in Nat, span.end \in Nat,
         NEW outer, outer.start \in Nat, outer.end \in Nat, IsIn(span, outer), NEW text
  PROVE  /\ TokensIn(text, span) \subseteq TokensIn(text, outer)
         /\ TokenCount(text, span) <= TokenCount(text, outer)
         /\ ~Blank(text, span) => ~Blank(text, outer)
  <1>1. TokensIn(text, span) \subseteq TokensIn(text, outer)
    BY TokenFacts DEF IsIn
  <1>2. IsFiniteSet(TokensIn(text, outer))
    BY TokenFacts
  <1>3. TokenCount(text, span) <= TokenCount(text, outer)
    BY <1>1, <1>2, FS_Subset DEF TokenCount
  <1> QED
    BY <1>1, <1>3 DEF Blank

(* Spans of which one ends where the other has not begun share no token. *)
LEMMA ApartSpans ==
  ASSUME NEW span, span.start \in Nat, span.end \in Nat,
         NEW after, after.start \in Nat, after.end \in Nat, span.end <= after.start, NEW text
  PROVE  TokensIn(text, span) \cap TokensIn(text, after) = {}
  BY TokenFacts

LEMMA SegmentFields ==
  ASSUME NEW a, NEW b, NEW fallback, NEW u
  PROVE  /\ Span(a, b).start = a /\ Span(a, b).end = b
         /\ Segment(Span(a, b), fallback).start = a /\ Segment(Span(a, b), fallback).end = b
         /\ Segment(Span(a, b), fallback).fallback = fallback
  BY DEF Span, Segment

(***************************************************************************)
(* What stands in order: numbers, and what has different starts.           *)
(***************************************************************************)
LEMMA AscendingFacts ==
  ASSUME NEW numbers \in SUBSET Nat, IsFiniteSet(numbers)
  PROVE  /\ Cardinality(numbers) \in Nat
         /\ Ascending(numbers) \in [1 .. Cardinality(numbers) -> numbers]
         /\ \A c \in numbers : \E n \in 1 .. Cardinality(numbers) : Ascending(numbers)[n] = c
         /\ \A m, n \in 1 .. Cardinality(numbers) :
               m < n <=> Ascending(numbers)[m] < Ascending(numbers)[n]
  <1> DEFINE ahead == [n \in numbers |-> {m \in numbers : m < n}]
             order == Ascending(numbers)
  <1>1. IsOrder(numbers, ahead)
    <2>1. ahead \in [numbers -> SUBSET numbers]
      OBVIOUS
    <2>2. \A c \in numbers : ahead[c] = {m \in numbers : m < c}
      OBVIOUS
    <2> HIDE DEF ahead
    <2>3. \A b, c \in numbers : b \in ahead[c] <=> b < c
      BY <2>2
    <2>4. \A c \in numbers : \A b \in ahead[c] : ahead[b] \subseteq ahead[c]
      <3> SUFFICES ASSUME NEW c \in numbers, NEW b \in ahead[c], NEW a \in ahead[b]
                   PROVE  a \in ahead[c]
        OBVIOUS
      <3>1. b \in numbers /\ b < c
        BY <2>2
      <3>2. a \in numbers /\ a < b
        BY <2>2, <3>1
      <3>3. a < c
        BY <3>1, <3>2
      <3> QED
        BY <2>2, <3>2, <3>3
    <2>5. \A b, c \in numbers : b # c => b \in ahead[c] \/ c \in ahead[b]
      BY <2>3
    <2> QED
      BY <2>1, <2>3, <2>4, <2>5 DEF IsOrder
  <1>2. order = Arranged(numbers, ahead)
    BY DEF Ascending
  <1>3. \A b, c \in numbers : b \in ahead[c] <=> b < c
    OBVIOUS
  <1> HIDE DEF ahead, order
  <1>4. /\ Cardinality(numbers) \in Nat
        /\ order \in [1 .. Cardinality(numbers) -> numbers]
        /\ \A c \in numbers : \E n \in 1 .. Cardinality(numbers) : order[n] = c
        /\ \A m, n \in 1 .. Cardinality(numbers) :
               /\ order[m] = order[n] => m = n
               /\ m < n => order[m] \in ahead[order[n]]
    BY <1>1, <1>2, ArrangedFacts
  <1>5. \A m, n \in 1 .. Cardinality(numbers) : m < n => order[m] < order[n]
    BY <1>3, <1>4
  <1>6. \A n \in 1 .. Cardinality(numbers) : order[n] \in Nat
    BY <1>4
  <1>7. \A m, n \in 1 .. Cardinality(numbers) : m < n <=> order[m] < order[n]
    <2> SUFFICES ASSUME NEW m \in 1 .. Cardinality(numbers), NEW n \in 1 .. Cardinality(numbers),
                        order[m] < order[n]
                 PROVE  m < n
      BY <1>5
    <2>1. m # n /\ ~(n < m)
      BY <1>5, <1>6
    <2> QED
      BY <1>4, <2>1
  <1> QED
    BY <1>4, <1>7 DEF order

HasStarts(spans) ==
    /\ IsFiniteSet(spans)
    /\ \A a \in spans : a.start \in Nat
    /\ \A a, b \in spans : a.start = b.start => a = b

LEMMA InOrderFacts ==
  ASSUME NEW spans, HasStarts(spans)
  PROVE  /\ Cardinality(spans) \in Nat
         /\ InOrder(spans) \in [1 .. Cardinality(spans) -> spans]
         /\ \A a \in spans : \E n \in 1 .. Cardinality(spans) : InOrder(spans)[n] = a
         /\ \A m, n \in 1 .. Cardinality(spans) :
               m < n <=> InOrder(spans)[m].start < InOrder(spans)[n].start
  <1> DEFINE ahead == [a \in spans |-> {b \in spans : b.start < a.start}]
             order == InOrder(spans)
  <1>1. IsOrder(spans, ahead)
    <2>1. ahead \in [spans -> SUBSET spans]
      OBVIOUS
    <2>2. \A a \in spans : ahead[a] = {b \in spans : b.start < a.start}
      OBVIOUS
    <2> HIDE DEF ahead
    <2>3. \A b, c \in spans : b \in ahead[c] <=> b.start < c.start
      BY <2>2
    <2>4. \A c \in spans : \A b \in ahead[c] : ahead[b] \subseteq ahead[c]
      BY <2>2 DEF HasStarts
    <2>5. \A b, c \in spans : b # c => b \in ahead[c] \/ c \in ahead[b]
      BY <2>3 DEF HasStarts
    <2> QED
      BY <2>1, <2>3, <2>4, <2>5 DEF IsOrder, HasStarts
  <1>2. order = Arranged(spans, ahead)
    BY DEF InOrder
  <1>3. \A b, c \in spans : b \in ahead[c] <=> b.start < c.start
    OBVIOUS
  <1> HIDE DEF ahead, order
  <1>4. /\ Cardinality(spans) \in Nat
        /\ order \in [1 .. Cardinality(spans) -> spans]
        /\ \A c \in spans : \E n \in 1 .. Cardinality(spans) : order[n] = c
        /\ \A m, n \in 1 .. Cardinality(spans) :
               /\ order[m] = order[n] => m = n
               /\ m < n => order[m] \in ahead[order[n]]
    BY <1>1, <1>2, ArrangedFacts DEF HasStarts
  <1>5. \A m, n \in 1 .. Cardinality(spans) : m < n => order[m].start < order[n].start
    BY <1>3, <1>4
  <1>6. \A n \in 1 .. Cardinality(spans) : order[n].start \in Nat
    BY <1>4 DEF HasStarts
  <1>7. \A m, n \in 1 .. Cardinality(spans) : m < n <=> order[m].start < order[n].start
    <2> SUFFICES ASSUME NEW m \in 1 .. Cardinality(spans), NEW n \in 1 .. Cardinality(spans),
                        order[m].start < order[n].start
                 PROVE  m < n
      BY <1>5
    <2>1. m # n /\ ~(n < m)
      BY <1>5, <1>6
    <2> QED
      BY <1>4, <2>1
  <1> QED
    BY <1>4, <1>7 DEF order

(***************************************************************************)
(* Windows, by the numbers of their first token and of the one after their *)
(* last.                                                                   *)
(***************************************************************************)
Ranged(text, span, f, l) == {Ascending(TokensIn(text, span))[i] : i \in f + 1 .. l}
Window(text, span, f, l) ==
    Span(Ascending(TokensIn(text, span))[f + 1], Ascending(TokensIn(text, span))[l] + 1)

LEMMA RangedFacts ==
  ASSUME NEW text, NEW span, IsSpan(text, span),
         NEW f \in Nat, NEW l \in Nat, f <= l, l <= TokenCount(text, span)
  PROVE  Cardinality(Ranged(text, span, f, l)) = l - f
  <1> DEFINE numbers == TokensIn(text, span)
             order == Ascending(numbers)
             count == TokenCount(text, span)
  <1>1. /\ count \in Nat /\ order \in [1 .. count -> numbers]
        /\ \A m, n \in 1 .. count : m < n <=> order[m] < order[n]
        /\ numbers \in SUBSET Nat
    BY TokenFacts, AscendingFacts DEF TokenCount, IsSpan
  <1> DEFINE S == f + 1 .. l
             T == {order[i] : i \in S}
             g == [i \in S |-> order[i]]
  <1> HIDE DEF numbers, order, count
  <1>2. S \subseteq 1 .. count
    <2>1. l <= count
      BY DEF count
    <2> QED
      BY <1>1, <2>1
  <1>3. \A i, j \in S : order[i] = order[j] => i = j
    <2> SUFFICES ASSUME NEW i \in S, NEW j \in S, order[i] = order[j]
                 PROVE  i = j
      OBVIOUS
    <2>1. i \in 1 .. count /\ j \in 1 .. count
      BY <1>2
    <2>2. order[i] \in Nat
      BY <1>1, <2>1
    <2>3. ~(i < j) /\ ~(j < i)
      BY <1>1, <2>1, <2>2
    <2> QED
      BY <2>1, <2>3
  <1>4. g \in Bijection(S, T)
    BY <1>3 DEF Bijection, Injection, Surjection, IsInjective
  <1>5. IsFiniteSet(S) /\ Cardinality(S) = l - f
    <2>1. f + 1 \in Int /\ l \in Int
      OBVIOUS
    <2>2. /\ IsFiniteSet(f + 1 .. l)
          /\ Cardinality(f + 1 .. l) = IF f + 1 > l THEN 0 ELSE l - (f + 1) + 1
      BY <2>1, FS_Interval
    <2> QED
      BY <2>2
  <1> HIDE DEF S, T, g
  <1>6. ExistsBijection(S, T)
    BY <1>4 DEF ExistsBijection
  <1>7. Cardinality(T) = l - f
    BY <1>5, <1>6, FS_Bijection
  <1> QED
    BY <1>7 DEF T, S, order, numbers, Ranged

LEMMA WindowFacts ==
  ASSUME NEW text, NEW span, IsSpan(text, span),
         NEW f \in Nat, NEW l \in Nat, f < l, l <= TokenCount(text, span)
  PROVE  LET window == Window(text, span, f, l) IN
         /\ window.start \in Nat /\ window.end \in Nat /\ window.start < window.end
         /\ IsIn(window, span)
         /\ TokensIn(text, window) = Ranged(text, span, f, l)
         /\ TokenCount(text, window) = l - f
         /\ ~Blank(text, window)
  <1> DEFINE numbers == TokensIn(text, span)
             order == Ascending(numbers)
             count == TokenCount(text, span)
             window == Window(text, span, f, l)
  <1>1. /\ count \in Nat /\ order \in [1 .. count -> numbers]
        /\ \A m, n \in 1 .. count : m < n <=> order[m] < order[n]
        /\ \A c \in numbers : \E n \in 1 .. count : order[n] = c
        /\ numbers \in SUBSET Nat
    BY TokenFacts, AscendingFacts DEF TokenCount, IsSpan
  <1>2. window.start = order[f + 1] /\ window.end = order[l] + 1
    BY DEF Window, Span
  <1>3. \A i : i \in numbers <=>
                 i \in Nat /\ span.start <= i /\ i < span.end /\ ~IsSpace(Char(text, i))
    BY TokenFacts DEF IsSpan
  <1>4. Ranged(text, span, f, l) = {order[i] : i \in f + 1 .. l}
    BY DEF Ranged
  <1>5. l <= count
    OBVIOUS
  <1> HIDE DEF numbers, order, count, window
  <1>6. f + 1 \in 1 .. count /\ l \in 1 .. count
    BY <1>1, <1>5
  <1>7. /\ order[f + 1] \in numbers /\ order[l] \in numbers /\ order[f + 1] <= order[l]
        /\ order[f + 1] \in Nat /\ order[l] \in Nat
    <2>1. order[f + 1] \in numbers /\ order[l] \in numbers
      BY <1>1, <1>6
    <2>2. order[f + 1] \in Nat /\ order[l] \in Nat
      BY <1>1, <2>1
    <2>3. f + 1 = l \/ f + 1 < l
      OBVIOUS
    <2>4. f + 1 < l => order[f + 1] < order[l]
      BY <1>1, <1>6
    <2> QED
      BY <2>1, <2>2, <2>3, <2>4
  <1>8. window.start \in Nat /\ window.end \in Nat /\ window.start < window.end
    BY <1>1, <1>2, <1>7
  <1>9. IsIn(window, span)
    BY <1>2, <1>3, <1>7, <1>8 DEF IsIn, IsSpan
  <1>10. \A i : i \in TokensIn(text, window) <=>
                  i \in Nat /\ window.start <= i /\ i < window.end /\ ~IsSpace(Char(text, i))
    BY <1>8, TokenFacts
  <1>11. \A i : i \in TokensIn(text, window) <=> i \in numbers /\ order[f + 1] <= i /\ i <= order[l]
    <2>1. \A i \in Nat : i < order[l] + 1 <=> i <= order[l]
      BY <1>7
    <2>2. span.start \in Nat /\ span.end \in Nat /\ span.start <= order[f + 1]
          /\ order[l] + 1 <= span.end
      BY <1>2, <1>9 DEF IsIn, IsSpan
    <2>3. \A i \in Nat : order[f + 1] <= i /\ i <= order[l] => span.start <= i /\ i < span.end
      BY <1>7, <2>2
    <2> QED
      BY <1>1, <1>2, <1>3, <1>10, <2>1, <2>3
  <1>12. ASSUME NEW i \in numbers, order[f + 1] <= i, i <= order[l]
         PROVE  i \in {order[n] : n \in f + 1 .. l}
    <2>1. PICK n \in 1 .. count : order[n] = i
      BY <1>1
    <2>2. ~(n < f + 1) /\ ~(l < n)
      <3>1. order[n] \in Nat /\ order[f + 1] \in Nat /\ order[l] \in Nat
        BY <1>1, <1>7, <2>1
      <3> QED
        BY <1>1, <1>6, <1>12, <2>1, <3>1
    <2>3. n \in f + 1 .. l
      BY <2>2
    <2> QED
      BY <2>1, <2>3
  <1>13. ASSUME NEW n \in f + 1 .. l
         PROVE  order[n] \in numbers /\ order[f + 1] <= order[n] /\ order[n] <= order[l]
    <2>1. n \in 1 .. count /\ (n = f + 1 \/ f + 1 < n) /\ (n = l \/ n < l)
      BY <1>1, <1>5
    <2>2. order[n] \in numbers
      BY <1>1, <2>1
    <2>3. (f + 1 < n => order[f + 1] < order[n]) /\ (n < l => order[n] < order[l])
      BY <1>1, <1>6, <2>1
    <2>4. order[n] \in Nat
      BY <1>1, <2>2
    <2>5. order[f + 1] <= order[n]
      BY <1>7, <2>1, <2>3, <2>4
    <2>6. order[n] <= order[l]
      BY <1>7, <2>1, <2>3, <2>4
    <2> QED
      BY <2>2, <2>5, <2>6
  <1>14. TokensIn(text, window) = Ranged(text, span, f, l)
    BY <1>4, <1>11, <1>12, <1>13
  <1>15. TokenCount(text, window) = l - f
    BY <1>14, <1>5, RangedFacts DEF TokenCount, count
  <1>16. ~Blank(text, window)
    BY <1>8, <1>15, TokenFacts
  <1> QED
    BY <1>8, <1>9, <1>14, <1>15, <1>16 DEF window

(* Where the windows may begin: at multiples of the step. *)
LEMMA Multiples ==
  /\ \A n \in Nat : n * Step \in Nat /\ n * Step >= n
  /\ 0 * Step = 0
  /\ \A n \in Nat : (n + 1) * Step = n * Step + Step
  /\ \A m, n \in Nat : m < n => m * Step + Step <= n * Step
  <1>1. Step \in Nat \ {0}
    BY ConstantFacts
  <1>2. \A n \in Nat : (n + 1) * Step = n * Step + Step
    BY <1>1, Products
  <1>3. ASSUME NEW m \in Nat, NEW n \in Nat, m < n
        PROVE  m * Step + Step <= n * Step
    <2>1. m + 1 \in Nat /\ n >= m + 1
      BY <1>3
    <2>2. n * Step >= (m + 1) * Step
      BY <1>1, <2>1, ProductOrder
    <2> QED
      BY <1>1, <1>2, <2>2, Products
  <1>4. \A n \in Nat : n * Step \in Nat
    BY <1>1, Products
  <1>5. 0 * Step = 0
    BY <1>1
  <1>6. \A n \in Nat : n * Step >= n
    <2> SUFFICES ASSUME NEW n \in Nat PROVE n * Step >= n
      OBVIOUS
    <2>1. n * Step >= n * 1
      <3>1. n * Step = Step * n /\ n * 1 = n /\ 1 * n = n
        BY <1>1, Products
      <3>2. CASE n = 0
        BY <3>1, <3>2, <1>5
      <3>3. CASE n # 0
        <4>1. Step * n >= 1 * n
          BY <1>1, <3>3, ProductOrder
        <4> QED
          BY <3>1, <4>1
      <3> QED
        BY <3>2, <3>3
    <2> QED
      BY <2>1
  <1> QED
    BY <1>2, <1>3, <1>4, <1>5, <1>6

LastOf(text, span, first) ==
    IF first + Maximum < TokenCount(text, span) THEN first + Maximum ELSE TokenCount(text, span)
FirstsOf(text, span) ==
    {first \in {n * Step : n \in 0 .. TokenCount(text, span)} :
        /\ first < TokenCount(text, span)
        /\ first > 0 => LastOf(text, span, first - Step) < TokenCount(text, span)}

LEMMA WindowsByFirst ==
  ASSUME NEW text, NEW span
  PROVE  Windows(text, span) =
            {Window(text, span, f, LastOf(text, span, f)) : f \in FirstsOf(text, span)}
  BY DEF Windows, Window, LastOf, FirstsOf

LEMMA FirstsFacts ==
  ASSUME NEW text, NEW span, IsSpan(text, span)
  PROVE  LET count == TokenCount(text, span)
             firsts == FirstsOf(text, span)
             last(f) == LastOf(text, span, f)
         IN /\ firsts \in SUBSET Nat
            /\ \A f \in firsts : /\ last(f) \in Nat /\ f < last(f) /\ last(f) <= count
                                 /\ last(f) <= f + Maximum
            /\ \A f, g \in firsts : f < g =>
                  /\ f + Step <= g /\ f + Step \in firsts
                  /\ last(f) = f + Maximum /\ last(f) < last(g)
            /\ \A k \in 1 .. count : \E f \in firsts : f < k /\ k <= last(f)
  <1> DEFINE count == TokenCount(text, span)
             firsts == FirstsOf(text, span)
             last(f) == LastOf(text, span, f)
             mult(n) == n * Step
  <1>1. count \in Nat
    BY TokenFacts DEF IsSpan
  <1>2. \A f : last(f) = IF f + Maximum < count THEN f + Maximum ELSE count
    BY DEF LastOf
  <1>3. \A f : f \in firsts <=> /\ \E n \in 0 .. count : f = mult(n)
                                /\ f < count /\ (f > 0 => last(f - Step) < count)
    BY DEF FirstsOf
  <1>4. /\ Maximum \in Nat \ {0} /\ Step \in Nat \ {0} /\ Step <= Maximum
    BY ConstantFacts
  <1>5. /\ \A n \in Nat : mult(n) \in Nat /\ mult(n) >= n
        /\ mult(0) = 0
        /\ \A n \in Nat : mult(n + 1) = mult(n) + Step
        /\ \A m, n \in Nat : m < n => mult(m) + Step <= mult(n)
    BY Multiples
  <1> HIDE DEF count, firsts, last, mult
  <1>6. firsts \in SUBSET Nat
    BY <1>1, <1>3, <1>5
  <1>7. \A f \in firsts : f \in Nat /\ f < count
    BY <1>3, <1>6
  <1>8. \A f \in firsts : last(f) \in Nat /\ f < last(f) /\ last(f) <= count /\ last(f) <= f + Maximum
    BY <1>1, <1>2, <1>4, <1>7
  <1>9. ASSUME NEW f \in firsts, NEW g \in firsts, f < g
        PROVE  /\ f + Step <= g /\ f + Step \in firsts
               /\ last(f) = f + Maximum /\ last(f) < last(g)
    <2>1. PICK m \in 0 .. count : f = mult(m)
      BY <1>3
    <2>2. PICK n \in 0 .. count : g = mult(n)
      BY <1>3
    <2>3. f \in Nat /\ g \in Nat /\ g < count /\ m \in Nat /\ n \in Nat
      BY <1>1, <1>7
    <2>4. m < n
      <3>1. SUFFICES ASSUME ~(m < n) PROVE FALSE
        OBVIOUS
      <3>2. n = m \/ n < m
        BY <2>3, <3>1
      <3>3. n < m => mult(n) + Step <= mult(m)
        BY <1>5, <2>3
      <3> QED
        BY <1>4, <1>9, <2>1, <2>2, <2>3, <3>2, <3>3
    <2>5. f + Step <= g
      BY <1>5, <2>1, <2>2, <2>3, <2>4
    <2>6. last(g - Step) < count
      <3>1. g > 0
        BY <1>9, <2>3
      <3> QED
        BY <1>3, <3>1
    <2>7. g - Step \in Nat /\ f <= g - Step
      BY <1>4, <2>3, <2>5
    <2>8. (g - Step) + Maximum < count
      BY <1>1, <1>2, <1>4, <2>6, <2>7
    <2>9. last(f) = f + Maximum
      BY <1>1, <1>2, <1>4, <2>3, <2>7, <2>8
    <2>10. f + Maximum < last(g)
      <3>1. last(g) = g + Maximum \/ last(g) = count
        BY <1>2
      <3> QED
        BY <1>1, <1>4, <1>9, <2>3, <2>7, <2>8, <3>1
    <2>11. f + Step \in firsts
      <3>1. f + Step = mult(m + 1) /\ m + 1 \in 0 .. count
        BY <1>1, <1>5, <2>1, <2>3, <2>4
      <3>2. f + Step < count
        BY <1>1, <1>4, <2>3, <2>5
      <3>3. (f + Step) - Step = f
        BY <1>4, <2>3
      <3>4. last(f) < count
        BY <1>1, <1>4, <2>3, <2>7, <2>8, <2>9
      <3> QED
        BY <1>3, <3>1, <3>2, <3>3, <3>4
    <2> QED
      BY <2>5, <2>9, <2>10, <2>11
  <1>10. ASSUME NEW k \in 1 .. count
         PROVE  \E f \in firsts : f < k /\ k <= last(f)
    <2> DEFINE Reach == {n \in Nat : k <= last(mult(n))}
    <2>1. k \in Nat /\ k > 0 /\ k <= count
      BY <1>1
    <2>2. count \in Reach
      <3>1. mult(count) + Maximum >= count
        BY <1>1, <1>4, <1>5
      <3>2. last(mult(count)) = count
        BY <1>1, <1>2, <1>4, <1>5, <3>1
      <3> QED
        BY <1>1, <2>1, <3>2
    <2>3. PICK n \in Reach : \A m \in Reach : n <= m
      BY <2>2, LeastOfNat
    <2> HIDE DEF Reach
    <2>4. n \in Nat /\ k <= last(mult(n)) /\ n <= count
      BY <2>2, <2>3 DEF Reach
    <2>5. CASE n = 0
      <3>1. mult(n) \in firsts
        BY <1>1, <1>3, <1>5, <2>1, <2>4, <2>5
      <3> QED
        BY <1>5, <2>1, <2>4, <2>5, <3>1
    <2>6. CASE n # 0
      <3>1. n - 1 \in Nat /\ (n - 1) + 1 = n
        BY <2>4, <2>6
      <3> DEFINE p == n - 1
      <3> HIDE DEF p
      <3>2. p \in Nat /\ p + 1 = n /\ p < n
        BY <3>1 DEF p
      <3>3. p \notin Reach
        BY <2>3, <2>4, <3>2
      <3>4. ~(k <= last(mult(p)))
        BY <3>2, <3>3 DEF Reach
      <3>5. mult(p) \in Nat /\ mult(n) = mult(p) + Step
        BY <1>5, <3>2
      <3>6. last(mult(p)) = mult(p) + Maximum /\ mult(p) + Maximum < k
        BY <1>1, <1>2, <1>4, <2>1, <3>4, <3>5
      <3>7. mult(n) < k /\ mult(n) > 0 /\ mult(n) - Step = mult(p)
        BY <1>4, <2>1, <3>5, <3>6
      <3>8. mult(n) < count /\ last(mult(p)) < count
        BY <1>1, <1>4, <2>1, <3>5, <3>6, <3>7
      <3>9. mult(n) \in firsts
        BY <1>1, <1>3, <2>4, <3>7, <3>8
      <3> QED
        BY <2>4, <3>7, <3>9
    <2> QED
      BY <2>5, <2>6
  <1> QED
    BY <1>6, <1>8, <1>9, <1>10 DEF count, firsts, last

(* What windows are: within the span and the maximum, in order, with the   *)
(* overlap where one follows another, and every token in one.              *)
WindowsFit(text, span, windows) ==
    \A v \in windows :
        /\ v.start \in Nat /\ v.end \in Nat /\ v.start < v.end
        /\ IsIn(v, span) /\ ~Blank(text, v) /\ TokenCount(text, v) <= Maximum

WindowsFollow(text, windows) ==
    \A v, w \in windows :
        /\ v.start = w.start => v = w
        /\ v.start < w.start => v.end < w.end
        /\ v.start < w.start /\ (\A u \in windows : ~(v.start < u.start /\ u.start < w.start)) =>
              /\ TokenCount(text, v) = Maximum
              /\ Cardinality(TokensIn(text, v) \cap TokensIn(text, w)) = Maximum - Step
              /\ ~(TokensIn(text, w) \subseteq TokensIn(text, v))

WindowsReach(text, span, windows) ==
    \A i \in TokensIn(text, span) : \E v \in windows : i \in TokensIn(text, v)

LEMMA RangedMeet ==
  ASSUME NEW text, NEW span, IsSpan(text, span),
         NEW f \in Nat, NEW g \in Nat, NEW l \in Nat, NEW m \in Nat,
         f <= g, g <= l, l < m, m <= TokenCount(text, span)
  PROVE  /\ Ranged(text, span, f, l) \cap Ranged(text, span, g, m) = Ranged(text, span, g, l)
         /\ ~(Ranged(text, span, g, m) \subseteq Ranged(text, span, f, l))
  <1> DEFINE numbers == TokensIn(text, span)
             order == Ascending(numbers)
             count == TokenCount(text, span)
  <1>1. /\ count \in Nat /\ order \in [1 .. count -> numbers]
        /\ \A j, n \in 1 .. count : j < n <=> order[j] < order[n]
        /\ numbers \in SUBSET Nat
    BY TokenFacts, AscendingFacts DEF TokenCount, IsSpan
  <1>2. \A a, b : Ranged(text, span, a, b) = {order[i] : i \in a + 1 .. b}
    BY DEF Ranged
  <1>3. m <= count
    OBVIOUS
  <1> HIDE DEF numbers, order, count
  <1>4. \A i, j \in 1 .. count : order[i] = order[j] => i = j
    <2> SUFFICES ASSUME NEW i \in 1 .. count, NEW j \in 1 .. count, order[i] = order[j]
                 PROVE  i = j
      OBVIOUS
    <2>1. order[i] \in Nat
      BY <1>1
    <2>2. ~(i < j) /\ ~(j < i)
      BY <1>1, <2>1
    <2> QED
      BY <1>1, <2>2
  <1>5. /\ f + 1 .. l \subseteq 1 .. count /\ g + 1 .. m \subseteq 1 .. count
        /\ \A i : (i \in f + 1 .. l /\ i \in g + 1 .. m) <=> i \in g + 1 .. l
    BY <1>1, <1>3
  <1>6. Ranged(text, span, f, l) \cap Ranged(text, span, g, m) = Ranged(text, span, g, l)
    <2>1. ASSUME NEW x \in Ranged(text, span, f, l), x \in Ranged(text, span, g, m)
          PROVE  x \in Ranged(text, span, g, l)
      <3>1. PICK i \in f + 1 .. l : x = order[i]
        BY <1>2
      <3>2. PICK j \in g + 1 .. m : x = order[j]
        BY <1>2, <2>1
      <3>3. i = j
        BY <1>4, <1>5, <3>1, <3>2
      <3> QED
        BY <1>2, <1>5, <3>1, <3>3
    <2>2. ASSUME NEW x \in Ranged(text, span, g, l)
          PROVE  x \in Ranged(text, span, f, l) /\ x \in Ranged(text, span, g, m)
      <3>1. PICK i \in g + 1 .. l : x = order[i]
        BY <1>2
      <3> QED
        BY <1>2, <1>5, <3>1
    <2> QED
      BY <2>1, <2>2
  <1>7. order[m] \in Ranged(text, span, g, m) /\ order[m] \notin Ranged(text, span, f, l)
    <2>1. m \in g + 1 .. m /\ m \in 1 .. count /\ m \notin f + 1 .. l
      BY <1>1, <1>3
    <2>2. order[m] \in Ranged(text, span, g, m)
      BY <1>2, <2>1
    <2>3. ASSUME NEW i \in f + 1 .. l, order[m] = order[i]
          PROVE  FALSE
      BY <1>4, <1>5, <2>1, <2>3
    <2> QED
      BY <1>2, <2>2, <2>3
  <1> QED
    BY <1>6, <1>7

LEMMA WindowsFacts ==
  ASSUME NEW text, NEW span, IsSpan(text, span)
  PROVE  /\ WindowsFit(text, span, Windows(text, span))
         /\ WindowsFollow(text, Windows(text, span))
         /\ WindowsReach(text, span, Windows(text, span))
  <1> DEFINE numbers == TokensIn(text, span)
             order == Ascending(numbers)
             count == TokenCount(text, span)
             firsts == FirstsOf(text, span)
             last(f) == LastOf(text, span, f)
             windows == Windows(text, span)
             at(f) == Window(text, span, f, last(f))
  <1>1. /\ count \in Nat /\ order \in [1 .. count -> numbers]
        /\ \A j, n \in 1 .. count : j < n <=> order[j] < order[n]
        /\ \A c \in numbers : \E n \in 1 .. count : order[n] = c
        /\ numbers \in SUBSET Nat
    BY TokenFacts, AscendingFacts DEF TokenCount, IsSpan
  <1>2. windows = {at(f) : f \in firsts}
    BY WindowsByFirst
  <1>3. /\ firsts \in SUBSET Nat
        /\ \A f \in firsts : /\ last(f) \in Nat /\ f < last(f) /\ last(f) <= count
                             /\ last(f) <= f + Maximum
        /\ \A f, g \in firsts : f < g =>
              /\ f + Step <= g /\ f + Step \in firsts
              /\ last(f) = f + Maximum /\ last(f) < last(g)
        /\ \A k \in 1 .. count : \E f \in firsts : f < k /\ k <= last(f)
    BY FirstsFacts
  <1>4. \A f \in firsts :
           /\ at(f).start = order[f + 1] /\ at(f).end = order[last(f)] + 1
           /\ at(f).start \in Nat /\ at(f).end \in Nat /\ at(f).start < at(f).end
           /\ IsIn(at(f), span)
           /\ TokensIn(text, at(f)) = Ranged(text, span, f, last(f))
           /\ TokenCount(text, at(f)) = last(f) - f
           /\ ~Blank(text, at(f))
    <2> SUFFICES ASSUME NEW f \in firsts
                 PROVE  /\ at(f).start = order[f + 1] /\ at(f).end = order[last(f)] + 1
                        /\ at(f).start \in Nat /\ at(f).end \in Nat /\ at(f).start < at(f).end
                        /\ IsIn(at(f), span)
                        /\ TokensIn(text, at(f)) = Ranged(text, span, f, last(f))
                        /\ TokenCount(text, at(f)) = last(f) - f
                        /\ ~Blank(text, at(f))
      OBVIOUS
    <2>1. f \in Nat /\ last(f) \in Nat /\ f < last(f) /\ last(f) <= count
      BY <1>3
    <2>2. at(f).start = order[f + 1] /\ at(f).end = order[last(f)] + 1
      BY DEF Window, Span
    <2> QED
      BY <2>1, <2>2, WindowFacts
  <1>5. Maximum \in Nat \ {0} /\ Step \in Nat \ {0} /\ Step <= Maximum
    BY ConstantFacts
  <1>6. \A a, b : Ranged(text, span, a, b) = {order[i] : i \in a + 1 .. b}
    BY DEF Ranged
  <1>7. ASSUME NEW f \in Nat, NEW g \in Nat, NEW l \in Nat, NEW m \in Nat,
               f <= g, g <= l, l < m, m <= count
        PROVE  /\ Ranged(text, span, f, l) \cap Ranged(text, span, g, m) = Ranged(text, span, g, l)
               /\ ~(Ranged(text, span, g, m) \subseteq Ranged(text, span, f, l))
               /\ Cardinality(Ranged(text, span, g, l)) = l - g
    <2>1. l <= count
      BY <1>1, <1>7
    <2> QED
      BY <1>7, <2>1, RangedMeet, RangedFacts
  <1>8. numbers = TokensIn(text, span)
    OBVIOUS
  <1> HIDE DEF numbers, order, count, firsts, last, windows, at
  <1>9. WindowsFit(text, span, windows)
    <2> SUFFICES ASSUME NEW f \in firsts
                 PROVE  /\ at(f).start \in Nat /\ at(f).end \in Nat /\ at(f).start < at(f).end
                        /\ IsIn(at(f), span) /\ ~Blank(text, at(f))
                        /\ TokenCount(text, at(f)) <= Maximum
      BY <1>2 DEF WindowsFit
    <2>1. last(f) - f <= Maximum
      BY <1>3, <1>5
    <2> QED
      BY <1>4, <2>1
  <1>10. ASSUME NEW f \in firsts, NEW g \in firsts
         PROVE  at(f).start < at(g).start <=> f < g
    <2>1. f + 1 \in 1 .. count /\ g + 1 \in 1 .. count /\ f \in Nat /\ g \in Nat
      BY <1>1, <1>3
    <2> QED
      BY <1>1, <1>4, <2>1
  <1>11. ASSUME NEW f \in firsts, NEW g \in firsts
         PROVE  /\ at(f).start = at(g).start => at(f) = at(g)
                /\ at(f).start < at(g).start => at(f).end < at(g).end
                /\ (/\ at(f).start < at(g).start
                    /\ \A u \in windows : ~(at(f).start < u.start /\ u.start < at(g).start))
                   => /\ TokenCount(text, at(f)) = Maximum
                      /\ Cardinality(TokensIn(text, at(f)) \cap TokensIn(text, at(g)))
                            = Maximum - Step
                      /\ ~(TokensIn(text, at(g)) \subseteq TokensIn(text, at(f)))
    <2>1. f \in Nat /\ g \in Nat
      BY <1>3
    <2>2. ASSUME at(f).start = at(g).start PROVE at(f) = at(g)
      <3>1. ~(f < g) /\ ~(g < f)
        BY <1>4, <1>10, <2>2
      <3>2. f = g
        BY <2>1, <3>1
      <3> QED
        BY <3>2
    <2>3. ASSUME f < g PROVE at(f).end < at(g).end
      <3>1. last(f) < last(g) /\ last(f) \in 1 .. count /\ last(g) \in 1 .. count
        BY <1>1, <1>3, <2>3
      <3>2. order[last(f)] < order[last(g)]
        BY <1>1, <3>1
      <3>3. order[last(f)] \in Nat /\ order[last(g)] \in Nat
        BY <1>1, <3>1
      <3> QED
        BY <1>4, <3>2, <3>3
    <2>4. ASSUME f < g, \A u \in windows : ~(at(f).start < u.start /\ u.start < at(g).start)
          PROVE  /\ TokenCount(text, at(f)) = Maximum
                 /\ Cardinality(TokensIn(text, at(f)) \cap TokensIn(text, at(g))) = Maximum - Step
                 /\ ~(TokensIn(text, at(g)) \subseteq TokensIn(text, at(f)))
      <3>1. /\ f + Step <= g /\ f + Step \in firsts
            /\ last(f) = f + Maximum /\ last(f) < last(g) /\ last(g) \in Nat /\ last(g) <= count
        BY <1>3, <2>4
      <3>2. g = f + Step
        <4>1. SUFFICES ASSUME f + Step < g PROVE FALSE
          BY <1>5, <2>1, <3>1
        <4>2. f < f + Step
          BY <1>5, <2>1
        <4>3. at(f).start < at(f + Step).start /\ at(f + Step).start < at(g).start
          BY <1>10, <3>1, <4>1, <4>2
        <4> QED
          BY <1>2, <2>4, <3>1, <4>3
      <3>3. f <= g /\ g <= f + Maximum /\ f + Maximum \in Nat /\ f + Maximum < last(g)
        BY <1>5, <2>1, <3>1, <3>2
      <3>4. /\ TokensIn(text, at(f)) = Ranged(text, span, f, f + Maximum)
            /\ TokensIn(text, at(g)) = Ranged(text, span, g, last(g))
            /\ TokenCount(text, at(f)) = (f + Maximum) - f
        BY <1>4, <3>1
      <3>5. /\ Ranged(text, span, f, f + Maximum) \cap Ranged(text, span, g, last(g))
                  = Ranged(text, span, g, f + Maximum)
            /\ ~(Ranged(text, span, g, last(g)) \subseteq Ranged(text, span, f, f + Maximum))
            /\ Cardinality(Ranged(text, span, g, f + Maximum)) = (f + Maximum) - g
        BY <1>7, <2>1, <3>1, <3>3
      <3>6. (f + Maximum) - f = Maximum /\ (f + Maximum) - g = Maximum - Step
        BY <1>5, <2>1, <3>2
      <3> QED
        BY <3>4, <3>5, <3>6
    <2> QED
      BY <1>10, <2>2, <2>3, <2>4
  <1>12. WindowsFollow(text, windows)
    <2> SUFFICES ASSUME NEW v \in windows, NEW w \in windows
                 PROVE  /\ v.start = w.start => v = w
                        /\ v.start < w.start => v.end < w.end
                        /\ (/\ v.start < w.start
                            /\ \A u \in windows : ~(v.start < u.start /\ u.start < w.start))
                           => /\ TokenCount(text, v) = Maximum
                              /\ Cardinality(TokensIn(text, v) \cap TokensIn(text, w)) = Maximum - Step
                              /\ ~(TokensIn(text, w) \subseteq TokensIn(text, v))
      BY DEF WindowsFollow
    <2>1. PICK f \in firsts : v = at(f)
      BY <1>2
    <2>2. PICK g \in firsts : w = at(g)
      BY <1>2
    <2> QED
      BY <1>11, <2>1, <2>2
  <1>13. WindowsReach(text, span, windows)
    <2> SUFFICES ASSUME NEW i \in numbers
                 PROVE  \E v \in windows : i \in TokensIn(text, v)
      BY <1>8 DEF WindowsReach
    <2>1. PICK k \in 1 .. count : order[k] = i
      BY <1>1
    <2>2. PICK f \in firsts : f < k /\ k <= last(f)
      BY <1>3
    <2>3. k \in f + 1 .. last(f)
      BY <1>1, <1>3, <2>2
    <2>4. i \in TokensIn(text, at(f))
      BY <1>4, <1>6, <2>1, <2>3
    <2> QED
      BY <1>2, <2>4
  <1> QED
    BY <1>9, <1>12, <1>13 DEF windows

(***************************************************************************)
(* Segments of a region: each within it and the maximum, one after the     *)
(* other but for windows, and every token in one.                          *)
(***************************************************************************)
IsSegment(r) == r \in [start : Nat, end : Nat, fallback : BOOLEAN]

SharedTokens(text, r, q) == Cardinality(TokensIn(text, r) \cap TokensIn(text, q))

(* As two windows of one sentence, or of different ones. *)
WindowsMeet(text, r, q) ==
    \/ SharedTokens(text, r, q) = 0
    \/ SharedTokens(text, r, q) = Maximum - Step /\ TokenCount(text, r) = Maximum

SegmentFits(text, region, r) ==
    /\ IsSegment(r) /\ r.start < r.end /\ IsIn(r, region)
    /\ ~Blank(text, r) /\ TokenCount(text, r) <= Maximum

SegmentFollows(text, segments, r, q) ==
    /\ r.start = q.start => r = q
    /\ r.start < q.start => r.end < q.end /\ (r.end <= q.start \/ (r.fallback /\ q.fallback))
    /\ (/\ r.start < q.start /\ r.fallback /\ q.fallback
        /\ \A p \in segments : ~(r.start < p.start /\ p.start < q.start)) => WindowsMeet(text, r, q)

SoundSegments(text, region, segments) ==
    /\ \A r \in segments : SegmentFits(text, region, r)
    /\ \A r, q \in segments : SegmentFollows(text, segments, r, q)
    /\ \A i \in TokensIn(text, region) : \E r \in segments : i \in TokensIn(text, r)

(* Regions that divide an outer one: apart, with all its tokens. *)
Divides(text, outer, regions) ==
    /\ \A p \in regions : IsSpan(text, p) /\ IsIn(p, outer)
    /\ \A p, q \in regions : p # q => p.end <= q.start \/ q.end <= p.start
    /\ \A i \in TokensIn(text, outer) : \E p \in regions : i \in TokensIn(text, p)

LEMMA SegmentTokens ==
  ASSUME NEW text, NEW span, NEW fallback
  PROVE  /\ TokensIn(text, Segment(span, fallback)) = TokensIn(text, span)
         /\ TokenCount(text, Segment(span, fallback)) = TokenCount(text, span)
         /\ Blank(text, Segment(span, fallback)) <=> Blank(text, span)
         /\ Segment(span, fallback).start = span.start /\ Segment(span, fallback).end = span.end
         /\ Segment(span, fallback).fallback = fallback
  <1>1. /\ Segment(span, fallback).start = span.start /\ Segment(span, fallback).end = span.end
        /\ Segment(span, fallback).fallback = fallback
    BY DEF Segment
  <1>2. TokensIn(text, Segment(span, fallback)) = TokensIn(text, span)
    BY <1>1 DEF TokensIn
  <1> QED
    BY <1>1, <1>2 DEF TokenCount, Blank

(* A region that is short enough is a segment itself. *)
LEMMA WholeIsSound ==
  ASSUME NEW text, NEW region, IsSpan(text, region), ~Blank(text, region),
         TokenCount(text, region) <= Maximum
  PROVE  SoundSegments(text, region, {Segment(region, FALSE)})
  <1> DEFINE r == Segment(region, FALSE)
  <1>1. /\ TokensIn(text, r) = TokensIn(text, region)
        /\ TokenCount(text, r) = TokenCount(text, region)
        /\ Blank(text, r) <=> Blank(text, region)
        /\ r.start = region.start /\ r.end = region.end /\ r.fallback = FALSE
    BY SegmentTokens
  <1>2. IsSegment(r)
    BY DEF IsSegment, Segment, IsSpan
  <1> HIDE DEF r
  <1>3. region.start < region.end
    <2>1. \E i \in TokensIn(text, region) : TRUE
      BY DEF Blank
    <2> QED
      BY <2>1, TokenFacts DEF IsSpan
  <1>4. SegmentFits(text, region, r)
    BY <1>1, <1>2, <1>3 DEF SegmentFits, IsIn, IsSpan
  <1>5. SegmentFollows(text, {r}, r, r)
    BY <1>1, <1>2 DEF SegmentFollows, IsSegment
  <1>6. SoundSegments(text, region, {r})
    BY <1>1, <1>4, <1>5 DEF SoundSegments
  <1> QED
    BY <1>6 DEF r

(* Otherwise its windows are. *)
LEMMA WindowsAreSound ==
  ASSUME NEW text, NEW region, IsSpan(text, region)
  PROVE  SoundSegments(text, region, {Segment(w, TRUE) : w \in Windows(text, region)})
  <1> DEFINE windows == Windows(text, region)
             of(w) == Segment(w, TRUE)
             segments == {of(w) : w \in windows}
  <1>1. /\ WindowsFit(text, region, windows)
        /\ WindowsFollow(text, windows)
        /\ WindowsReach(text, region, windows)
    BY WindowsFacts
  <1>2. \A w : /\ TokensIn(text, of(w)) = TokensIn(text, w)
               /\ TokenCount(text, of(w)) = TokenCount(text, w)
               /\ Blank(text, of(w)) <=> Blank(text, w)
               /\ of(w).start = w.start /\ of(w).end = w.end /\ of(w).fallback = TRUE
    BY SegmentTokens
  <1>3. \A w \in windows : IsSegment(of(w))
    BY <1>1 DEF IsSegment, Segment, WindowsFit
  <1> HIDE DEF windows, of
  <1>4. \A w \in windows : SegmentFits(text, region, of(w))
    BY <1>1, <1>2, <1>3 DEF WindowsFit, SegmentFits, IsIn
  <1>5. ASSUME NEW v \in windows, NEW w \in windows
        PROVE  SegmentFollows(text, segments, of(v), of(w))
    <2>1. v.start = w.start => v = w
      BY <1>1 DEF WindowsFollow
    <2>2. v.start < w.start => v.end < w.end
      BY <1>1 DEF WindowsFollow
    <2>3. ASSUME v.start < w.start,
                 \A p \in segments : ~(of(v).start < p.start /\ p.start < of(w).start)
          PROVE  WindowsMeet(text, of(v), of(w))
      <3>1. \A u \in windows : ~(v.start < u.start /\ u.start < w.start)
        BY <1>2, <2>3
      <3>2. /\ TokenCount(text, v) = Maximum
            /\ Cardinality(TokensIn(text, v) \cap TokensIn(text, w)) = Maximum - Step
        BY <1>1, <2>3, <3>1 DEF WindowsFollow
      <3> QED
        BY <1>2, <3>2 DEF WindowsMeet, SharedTokens
    <2> QED
      BY <1>2, <2>1, <2>2, <2>3 DEF SegmentFollows
  <1>6. \A i \in TokensIn(text, region) : \E r \in segments : i \in TokensIn(text, r)
    BY <1>1, <1>2 DEF WindowsReach
  <1>7. SoundSegments(text, region, segments)
    <2>1. \A r \in segments : SegmentFits(text, region, r)
      BY <1>4
    <2>2. \A r, q \in segments : SegmentFollows(text, segments, r, q)
      <3> SUFFICES ASSUME NEW r \in segments, NEW q \in segments
                   PROVE  SegmentFollows(text, segments, r, q)
        OBVIOUS
      <3>1. PICK v \in windows : r = of(v)
        OBVIOUS
      <3>2. PICK w \in windows : q = of(w)
        OBVIOUS
      <3> QED
        BY <1>5, <3>1, <3>2
    <2> QED
      BY <1>6, <2>1, <2>2 DEF SoundSegments
  <1> QED
    BY <1>7 DEF windows, of

(* Sound segments of the regions that divide another are so of that one. *)
LEMMA DividedIsSound ==
  ASSUME NEW text, NEW outer, IsSpan(text, outer),
         NEW regions, Divides(text, outer, regions),
         NEW segmentsOf, \A p \in regions : SoundSegments(text, p, segmentsOf[p])
  PROVE  SoundSegments(text, outer, UNION {segmentsOf[p] : p \in regions})
  <1> DEFINE segments == UNION {segmentsOf[p] : p \in regions}
  <1>1. \A r \in segments : \E p \in regions : r \in segmentsOf[p]
    OBVIOUS
  <1>2. \A p \in regions : segmentsOf[p] \subseteq segments
    OBVIOUS
  <1> HIDE DEF segments
  <1>3. \A p \in regions : /\ p.start \in Nat /\ p.end \in Nat
                           /\ outer.start <= p.start /\ p.end <= outer.end
    BY DEF Divides, IsIn, IsSpan
  <1>4. outer.start \in Nat /\ outer.end \in Nat
    BY DEF IsSpan
  <1>5. \A p \in regions : \A r \in segmentsOf[p] :
           /\ IsSegment(r) /\ r.start \in Nat /\ r.end \in Nat
           /\ p.start <= r.start /\ r.start < r.end /\ r.end <= p.end
           /\ ~Blank(text, r) /\ TokenCount(text, r) <= Maximum
    BY DEF SoundSegments, SegmentFits, IsSegment, IsIn
  <1>6. ASSUME NEW r \in segments
        PROVE  SegmentFits(text, outer, r)
    <2>1. PICK p \in regions : r \in segmentsOf[p]
      BY <1>1
    <2>2. IsIn(r, outer)
      BY <1>3, <1>4, <1>5, <2>1 DEF IsIn
    <2> QED
      BY <1>5, <2>1, <2>2 DEF SegmentFits
  <1>7. ASSUME NEW r \in segments, NEW q \in segments
        PROVE  SegmentFollows(text, segments, r, q)
    <2>1. PICK p \in regions : r \in segmentsOf[p]
      BY <1>1
    <2>2. PICK o \in regions : q \in segmentsOf[o]
      BY <1>1
    <2>3. CASE p = o
      <3>1. SegmentFollows(text, segmentsOf[p], r, q)
        BY <2>1, <2>2, <2>3 DEF SoundSegments
      <3> QED
        BY <1>2, <3>1 DEF SegmentFollows
    <2>4. CASE p # o
      <3>1. p.end <= o.start \/ o.end <= p.start
        BY <2>4 DEF Divides
      <3>2. r.end <= q.start \/ q.end <= r.start
        BY <1>3, <1>5, <2>1, <2>2, <3>1
      <3>3. /\ r.start \in Nat /\ r.end \in Nat /\ q.start \in Nat /\ q.end \in Nat
            /\ r.start < r.end /\ q.start < q.end
        BY <1>5, <2>1, <2>2
      <3>4. r.start # q.start /\ (r.start < q.start => r.end <= q.start /\ r.end < q.end)
        BY <3>2, <3>3
      <3>5. ASSUME r.start < q.start
            PROVE  WindowsMeet(text, r, q)
        <4>1. TokensIn(text, r) \cap TokensIn(text, q) = {}
          BY <3>3, <3>4, <3>5, ApartSpans
        <4> QED
          BY <4>1, FS_EmptySet DEF WindowsMeet, SharedTokens
      <3> QED
        BY <3>4, <3>5 DEF SegmentFollows
    <2> QED
      BY <2>3, <2>4
  <1>8. ASSUME NEW i \in TokensIn(text, outer)
        PROVE  \E r \in segments : i \in TokensIn(text, r)
    <2>1. PICK p \in regions : i \in TokensIn(text, p)
      BY DEF Divides
    <2>2. PICK r \in segmentsOf[p] : i \in TokensIn(text, r)
      BY <2>1 DEF SoundSegments
    <2> QED
      BY <1>2, <2>2
  <1>9. SoundSegments(text, outer, segments)
    BY <1>6, <1>7, <1>8 DEF SoundSegments
  <1> QED
    BY <1>9 DEF segments

(***************************************************************************)
(* Blocks divide a text, and sentences a block.                            *)
(***************************************************************************)
LEMMA GreatestBelow ==
  ASSUME NEW S \in SUBSET Nat, NEW n \in Nat, \E m \in S : m <= n
  PROVE  \E m \in S : m <= n /\ \A k \in S : k <= n => k <= m
  <1> DEFINE D == {d \in Nat : d <= n /\ n - d \in S}
  <1>1. D # {}
    <2>1. PICK m \in S : m <= n
      OBVIOUS
    <2>2. n - m \in Nat /\ n - m <= n /\ n - (n - m) = m
      BY <2>1
    <2>3. n - m \in D
      BY <2>1, <2>2
    <2> QED
      BY <2>3
  <1>2. PICK d \in D : \A e \in D : d <= e
    BY <1>1, LeastOfNat
  <1>3. d \in Nat /\ d <= n /\ n - d \in S
    BY <1>2
  <1>4. ASSUME NEW k \in S, k <= n
        PROVE  k <= n - d
    <2>1. n - k \in Nat /\ n - k <= n /\ n - (n - k) = k
      BY <1>4
    <2>2. n - k \in D
      BY <2>1, <1>4
    <2>3. d <= n - k
      BY <1>2, <2>2
    <2> QED
      BY <1>3, <1>4, <2>3
  <1> QED
    BY <1>3, <1>4

LEMMA BlocksDivide ==
  ASSUME NEW text, IsText(text)
  PROVE  /\ Divides(text, Span(0, Len(text)), TextBlocks(text))
         /\ \A block \in TextBlocks(text) : ~Blank(text, block)
  <1> DEFINE end == Len(text)
             newline(i) == Char(text, i) = "\n"
             blocks == TextBlocks(text)
             whole == Span(0, end)
  <1>1. end \in Nat /\ whole.start = 0 /\ whole.end = end
    BY DEF IsText, Span
  <1>2. \A b : b \in blocks <=>
           /\ b \in [start : 0 .. end, end : 0 .. end]
           /\ b.start = 0 \/ newline(b.start - 1)
           /\ b.end = end \/ newline(b.end)
           /\ \A i \in b.start .. b.end - 1 : ~newline(i)
           /\ ~Blank(text, b)
    BY DEF TextBlocks
  <1>3. \A i : newline(i) => IsSpace(Char(text, i))
    BY DEF IsSpace
  <1> HIDE DEF newline, blocks, whole
  <1>4. \A b \in blocks : /\ b.start \in Nat /\ b.end \in Nat /\ b.start < b.end /\ b.end <= end
                          /\ IsSpan(text, b) /\ IsIn(b, whole)
    <2> SUFFICES ASSUME NEW b \in blocks
                 PROVE  /\ b.start \in Nat /\ b.end \in Nat /\ b.start < b.end /\ b.end <= end
                        /\ IsSpan(text, b) /\ IsIn(b, whole)
      OBVIOUS
    <2>1. b.start \in Nat /\ b.end \in Nat /\ b.end <= end
      BY <1>1, <1>2
    <2>2. \E i \in TokensIn(text, b) : TRUE
      BY <1>2 DEF Blank
    <2>3. b.start < b.end
      BY <2>1, <2>2, TokenFacts
    <2> QED
      BY <1>1, <2>1, <2>3 DEF IsSpan, IsIn
  <1>5. ASSUME NEW p \in blocks, NEW q \in blocks, p # q
        PROVE  p.end <= q.start \/ q.end <= p.start
    <2>1. ASSUME NEW a \in blocks, NEW b \in blocks, a.start < b.start
          PROVE  a.end <= b.start
      <3>1. newline(b.start - 1)
        BY <1>2, <1>4, <2>1
      <3>2. SUFFICES ASSUME b.start < a.end PROVE FALSE
        BY <1>4
      <3>3. b.start - 1 \in a.start .. a.end - 1
        BY <1>4, <2>1, <3>2
      <3> QED
        BY <1>2, <3>1, <3>3
    <2>2. ASSUME NEW a \in blocks, NEW b \in blocks, a.start = b.start
          PROVE  ~(a.end < b.end)
      <3>1. SUFFICES ASSUME a.end < b.end PROVE FALSE
        OBVIOUS
      <3>2. newline(a.end)
        BY <1>2, <1>4, <3>1
      <3>3. a.end \in b.start .. b.end - 1
        BY <1>4, <2>2, <3>1
      <3> QED
        BY <1>2, <3>2, <3>3
    <2>3. p.start # q.start
      <3>1. SUFFICES ASSUME p.start = q.start PROVE FALSE
        OBVIOUS
      <3>2. p.end = q.end
        <4>1. ~(p.end < q.end) /\ ~(q.end < p.end)
          BY <2>2, <3>1
        <4> QED
          BY <1>4, <4>1
      <3>3. p = q
        BY <1>2, <3>1, <3>2
      <3> QED
        BY <1>5, <3>3
    <2>4. p.start < q.start \/ q.start < p.start
      BY <1>4, <2>3
    <2> QED
      BY <2>1, <2>4
  <1>6. ASSUME NEW i \in TokensIn(text, whole)
        PROVE  \E p \in blocks : i \in TokensIn(text, p)
    <2>1. i \in Nat /\ i < end /\ ~IsSpace(Char(text, i)) /\ ~newline(i)
      BY <1>1, <1>3, TokenFacts
    <2> DEFINE Firsts == {a \in Nat : a <= i /\ \A j \in a .. i : ~newline(j)}
               Ends == {b \in Nat : i < b /\ (b = end \/ newline(b))}
    <2>2. i \in Firsts /\ end \in Ends
      <3>1. \A j \in i .. i : j = i
        BY <2>1
      <3> QED
        BY <1>1, <2>1, <3>1
    <2>3. PICK a \in Firsts : \A c \in Firsts : a <= c
      BY <2>2, LeastOfNat
    <2>4. PICK b \in Ends : \A c \in Ends : b <= c
      BY <2>2, LeastOfNat
    <2>5. a \in Nat /\ a <= i /\ \A j \in a .. i : ~newline(j)
      BY <2>3
    <2>6. b \in Nat /\ i < b /\ (b = end \/ newline(b)) /\ b <= end
      BY <2>2, <2>4
    <2>7. a = 0 \/ newline(a - 1)
      <3>1. SUFFICES ASSUME a # 0, ~newline(a - 1) PROVE FALSE
        OBVIOUS
      <3>2. a - 1 \in Nat /\ a - 1 <= i /\ ~(a <= a - 1)
        <4>1. a \in Nat /\ a # 0 /\ a <= i /\ i \in Nat
          BY <2>1, <2>5, <3>1
        <4> HIDE DEF Firsts, Ends
        <4> QED
          BY <4>1
      <3>3. \A j \in a - 1 .. i : j = a - 1 \/ j \in a .. i
        BY <2>5
      <3>4. \A j \in a - 1 .. i : ~newline(j)
        BY <2>5, <3>1, <3>3
      <3>5. a - 1 \in Firsts
        BY <3>2, <3>4
      <3> QED
        BY <2>3, <3>2, <3>5
    <2>8. \A j \in a .. b - 1 : ~newline(j)
      <3> SUFFICES ASSUME NEW j \in a .. b - 1, newline(j) PROVE FALSE
        OBVIOUS
      <3>1. j \in Nat /\ j < b
        BY <2>5, <2>6
      <3>2. ~(j <= i)
        BY <2>5, <3>1
      <3>3. j \in Ends
        BY <2>1, <3>1, <3>2
      <3> QED
        BY <2>4, <2>6, <3>1, <3>3
    <2> DEFINE p == Span(a, b)
    <2>9. p.start = a /\ p.end = b /\ p \in [start : 0 .. end, end : 0 .. end]
      BY <1>1, <2>1, <2>5, <2>6 DEF Span
    <2> HIDE DEF p, Firsts, Ends
    <2>10. i \in TokensIn(text, p)
      BY <2>1, <2>5, <2>6, <2>9, TokenFacts
    <2>11. ~Blank(text, p)
      BY <2>10 DEF Blank
    <2>12. p \in blocks
      BY <1>2, <2>6, <2>7, <2>8, <2>9, <2>11
    <2> QED
      BY <2>10, <2>12
  <1>7. Divides(text, whole, blocks)
    BY <1>4, <1>5, <1>6 DEF Divides
  <1> QED
    BY <1>2, <1>7 DEF blocks, whole

LEMMA SentencesDivide ==
  ASSUME NEW text, IsText(text), NEW block, IsSpan(text, block)
  PROVE  /\ Divides(text, block, Sentences(text, block))
         /\ \A sentence \in Sentences(text, block) : ~Blank(text, sentence)
  <1> DEFINE starts == SentenceStarts(text, block)
             sentences == Sentences(text, block)
  <1>1. block.start \in Nat /\ block.end \in Nat /\ block.start <= block.end /\ block.end <= Len(text)
    BY DEF IsSpan
  <1>2. /\ block.start \in starts
        /\ \A e \in starts : /\ e \in Nat /\ block.start <= e /\ e <= block.end
                             /\ e # block.start => IsSpace(Char(text, e - 1))
    BY <1>1 DEF SentenceStarts
  <1>3. \A p : p \in sentences <=>
           /\ p \in [start : starts, end : block.start .. block.end]
           /\ p.end = block.end \/ p.end + 1 \in starts
           /\ \A next \in starts : next > p.start => next > p.end
           /\ ~Blank(text, p)
    BY DEF Sentences
  <1> HIDE DEF starts, sentences
  <1>4. \A p \in sentences : /\ p.start \in Nat /\ p.end \in Nat /\ p.start < p.end
                             /\ p.start \in starts
                             /\ IsSpan(text, p) /\ IsIn(p, block)
    <2> SUFFICES ASSUME NEW p \in sentences
                 PROVE  /\ p.start \in Nat /\ p.end \in Nat /\ p.start < p.end
                        /\ p.start \in starts
                        /\ IsSpan(text, p) /\ IsIn(p, block)
      OBVIOUS
    <2>1. p.start \in starts /\ p.end \in Nat /\ p.end <= block.end
      BY <1>1, <1>3
    <2>2. p.start \in Nat /\ block.start <= p.start
      BY <1>2, <2>1
    <2>3. \E i \in TokensIn(text, p) : TRUE
      BY <1>3 DEF Blank
    <2>4. p.start < p.end
      BY <2>1, <2>2, <2>3, TokenFacts
    <2>5. p.end <= Len(text)
      BY <1>1, <2>1
    <2> QED
      BY <1>1, <2>1, <2>2, <2>4, <2>5 DEF IsSpan, IsIn
  <1>5. ASSUME NEW p \in sentences, NEW q \in sentences, p # q
        PROVE  p.end <= q.start \/ q.end <= p.start
    <2>1. \A a, b \in sentences : a.start < b.start => a.end <= b.start
      BY <1>3, <1>4
    <2>2. ASSUME NEW a \in sentences, NEW b \in sentences, a.start = b.start
          PROVE  ~(a.end < b.end)
      <3>1. SUFFICES ASSUME a.end < b.end PROVE FALSE
        OBVIOUS
      <3>2. a.end + 1 \in starts
        BY <1>1, <1>3, <1>4, <3>1 DEF IsIn
      <3>3. a.end + 1 > b.start
        BY <1>4, <2>2
      <3>4. a.end + 1 > b.end
        BY <1>3, <3>2, <3>3
      <3> QED
        BY <1>4, <3>1, <3>4
    <2>3. p.start # q.start
      <3>1. SUFFICES ASSUME p.start = q.start PROVE FALSE
        OBVIOUS
      <3>2. p.end = q.end
        <4>1. ~(p.end < q.end) /\ ~(q.end < p.end)
          BY <2>2, <3>1
        <4> QED
          BY <1>4, <4>1
      <3>3. p = q
        BY <1>3, <3>1, <3>2
      <3> QED
        BY <1>5, <3>3
    <2>4. p.start < q.start \/ q.start < p.start
      BY <1>4, <2>3
    <2> QED
      BY <2>1, <2>4
  <1>6. ASSUME NEW i \in TokensIn(text, block)
        PROVE  \E p \in sentences : i \in TokensIn(text, p)
    <2>1. i \in Nat /\ block.start <= i /\ i < block.end /\ ~IsSpace(Char(text, i))
      BY <1>1, TokenFacts
    <2>2. starts \in SUBSET Nat
      BY <1>2
    <2>3. PICK a \in starts : a <= i /\ \A k \in starts : k <= i => k <= a
      BY <1>2, <2>1, <2>2, GreatestBelow
    <2>4. a \in Nat /\ block.start <= a
      BY <1>2, <2>3
    <2> DEFINE Later == {b \in starts : i < b}
    <2>5. \E e \in Nat : /\ i < e /\ e <= block.end
                         /\ e = block.end \/ e + 1 \in starts
                         /\ \A next \in starts : next > a => next > e
      <3>1. CASE Later = {}
        <4>1. \A next \in starts : ~(next > a)
          <5> SUFFICES ASSUME NEW next \in starts, next > a PROVE FALSE
            OBVIOUS
          <5>1. next \in Nat /\ ~(i < next)
            BY <1>2, <3>1
          <5>2. next <= a
            BY <2>1, <2>3, <5>1
          <5> QED
            BY <2>4, <5>1, <5>2
        <4> QED
          BY <1>1, <2>1, <4>1
      <3>2. CASE Later # {}
        <4>1. Later \in SUBSET Nat
          BY <2>2
        <4>2. PICK b \in Later : \A c \in Later : b <= c
          BY <3>2, <4>1, LeastOfNat
        <4>3. b \in starts /\ b \in Nat /\ i < b /\ b <= block.end /\ IsSpace(Char(text, b - 1))
          BY <1>2, <2>1, <4>2
        <4>4. i # b - 1
          BY <2>1, <4>3
        <4> DEFINE e == b - 1
        <4>5. e \in Nat /\ i < e /\ e <= block.end /\ e + 1 \in starts
          BY <1>1, <2>1, <4>3, <4>4
        <4>6. ASSUME NEW next \in starts, next > a
              PROVE  next > e
          <5>1. next \in Nat /\ ~(next <= i)
            BY <1>2, <2>3, <2>4, <4>6
          <5>2. next \in Later
            BY <2>1, <5>1
          <5>3. b <= next
            BY <4>2, <5>2
          <5> QED
            BY <4>3, <5>1, <5>3
        <4> HIDE DEF e
        <4> QED
          BY <4>5, <4>6
      <3> QED
        BY <3>1, <3>2
    <2>6. PICK e \in Nat : /\ i < e /\ e <= block.end
                           /\ e = block.end \/ e + 1 \in starts
                           /\ \A next \in starts : next > a => next > e
      BY <2>5
    <2> DEFINE p == Span(a, e)
    <2>7. p.start = a /\ p.end = e /\ p \in [start : starts, end : block.start .. block.end]
      BY <1>1, <2>1, <2>3, <2>6 DEF Span
    <2> HIDE DEF p, Later
    <2>8. i \in TokensIn(text, p)
      BY <2>1, <2>3, <2>4, <2>6, <2>7, TokenFacts
    <2>9. ~Blank(text, p)
      BY <2>8 DEF Blank
    <2>10. p \in sentences
      BY <1>3, <2>6, <2>7, <2>9
    <2> QED
      BY <2>8, <2>10
  <1>7. Divides(text, block, sentences)
    BY <1>4, <1>5, <1>6 DEF Divides
  <1> QED
    BY <1>3, <1>7 DEF sentences

(* Segments of a sentence, a block and a text are sound. *)
LEMMA SentenceIsSound ==
  ASSUME NEW text, NEW sentence, IsSpan(text, sentence), ~Blank(text, sentence)
  PROVE  SoundSegments(text, sentence, SentenceSegments(text, sentence))
  BY WholeIsSound, WindowsAreSound DEF SentenceSegments

LEMMA BlockIsSound ==
  ASSUME NEW text, IsText(text), NEW block, IsSpan(text, block), ~Blank(text, block)
  PROVE  SoundSegments(text, block, BlockSegments(text, block))
  <1> DEFINE sentences == Sentences(text, block)
             segmentsOf == [sentence \in sentences |-> SentenceSegments(text, sentence)]
  <1>1. /\ Divides(text, block, sentences)
        /\ \A sentence \in sentences : ~Blank(text, sentence) /\ IsSpan(text, sentence)
    BY SentencesDivide DEF Divides
  <1>2. UNION {SentenceSegments(text, sentence) : sentence \in sentences}
          = UNION {segmentsOf[sentence] : sentence \in sentences}
    OBVIOUS
  <1>3. \A sentence \in sentences : segmentsOf[sentence] = SentenceSegments(text, sentence)
    OBVIOUS
  <1>4. BlockSegments(text, block) =
           IF TokenCount(text, block) <= Maximum THEN {Segment(block, FALSE)}
           ELSE UNION {SentenceSegments(text, sentence) : sentence \in sentences}
    BY DEF BlockSegments
  <1> HIDE DEF sentences, segmentsOf
  <1>5. \A sentence \in sentences : SoundSegments(text, sentence, segmentsOf[sentence])
    BY <1>1, <1>3, SentenceIsSound
  <1>6. SoundSegments(text, block, UNION {segmentsOf[sentence] : sentence \in sentences})
    BY <1>1, <1>5, DividedIsSound
  <1> QED
    BY <1>2, <1>4, <1>6, WholeIsSound

TextSegments(text) == UNION {BlockSegments(text, block) : block \in TextBlocks(text)}

LEMMA TextIsSound ==
  ASSUME NEW text, IsText(text)
  PROVE  SoundSegments(text, Span(0, Len(text)), TextSegments(text))
  <1> DEFINE blocks == TextBlocks(text)
             whole == Span(0, Len(text))
             segmentsOf == [block \in blocks |-> BlockSegments(text, block)]
  <1>1. /\ Divides(text, whole, blocks)
        /\ \A block \in blocks : ~Blank(text, block) /\ IsSpan(text, block)
    BY BlocksDivide DEF Divides
  <1>2. TextSegments(text) = UNION {segmentsOf[block] : block \in blocks}
    BY DEF TextSegments
  <1>3. \A block \in blocks : segmentsOf[block] = BlockSegments(text, block)
    OBVIOUS
  <1>4. IsSpan(text, whole)
    BY DEF IsSpan, Span, IsText
  <1> HIDE DEF blocks, whole, segmentsOf
  <1>5. \A block \in blocks : SoundSegments(text, block, segmentsOf[block])
    BY <1>1, <1>3, BlockIsSound
  <1>6. SoundSegments(text, whole, UNION {segmentsOf[block] : block \in blocks})
    BY <1>1, <1>4, <1>5, DividedIsSound
  <1> QED
    BY <1>2, <1>6 DEF whole

(***************************************************************************)
(* Recursion over the numbers up to N: what next leads to from first on.   *)
(***************************************************************************)
Recurs(N, X, first, next) ==
    N \in Nat /\ first \in X /\ \A x \in X : \A n \in 1 .. N : next[<<x, n>>] \in X

LEMMA RecursionExists ==
  ASSUME NEW N, NEW X, NEW first, NEW next, Recurs(N, X, first, next)
  PROVE  \E f \in [0 .. N -> X] :
            f[0] = first /\ \A n \in 1 .. N : f[n] = next[<<f[n - 1], n>>]
  <1>0. N \in Nat /\ first \in X /\ \A x \in X : \A n \in 1 .. N : next[<<x, n>>] \in X
    BY DEF Recurs
  <1> DEFINE Is(f, k) == /\ f \in [0 .. k -> X] /\ f[0] = first
                         /\ \A n \in 1 .. k : f[n] = next[<<f[n - 1], n>>]
             Good == {k \in Nat : k <= N => \E f : Is(f, k)}
  <1>1. 0 \in Good
    <2> DEFINE f == [n \in 0 .. 0 |-> first]
    <2>1. f \in [0 .. 0 -> X] /\ f[0] = first
      BY <1>0
    <2>2. 1 .. 0 = {}
      OBVIOUS
    <2> HIDE DEF f
    <2>3. Is(f, 0)
      BY <2>1, <2>2
    <2> QED
      BY <2>3
  <1>2. ASSUME NEW k \in Nat, k \in Good
        PROVE  k + 1 \in Good
    <2> SUFFICES ASSUME k + 1 <= N PROVE \E f : Is(f, k + 1)
      OBVIOUS
    <2>0. k <= N
      BY <1>0
    <2>1. PICK g : Is(g, k)
      BY <1>2, <2>0
    <2> DEFINE f == [n \in 0 .. k + 1 |-> IF n = k + 1 THEN next[<<g[k], k + 1>>] ELSE g[n]]
    <2>2. /\ \A n \in 0 .. k : f[n] = g[n]
          /\ f[k + 1] = next[<<g[k], k + 1>>]
      OBVIOUS
    <2>3. g[k] \in X /\ k + 1 \in 1 .. N
      BY <1>0, <2>1
    <2>4. next[<<g[k], k + 1>>] \in X
      BY <1>0, <2>3
    <2>5. f \in [0 .. k + 1 -> X]
      <3>1. \A n \in 0 .. k + 1 : n = k + 1 \/ n \in 0 .. k
        OBVIOUS
      <3> QED
        BY <2>1, <2>4, <3>1
    <2> HIDE DEF f
    <2>6. ASSUME NEW n \in 1 .. k + 1
          PROVE  f[n] = next[<<f[n - 1], n>>]
      <3>1. CASE n = k + 1
        <4>1. n - 1 = k /\ k \in 0 .. k
          BY <3>1
        <4> QED
          BY <2>2, <3>1, <4>1
      <3>2. CASE n # k + 1
        <4>1. n \in 1 .. k /\ n \in 0 .. k /\ n - 1 \in 0 .. k
          BY <3>2
        <4> QED
          BY <2>1, <2>2, <4>1
      <3> QED
        BY <3>1, <3>2
    <2>7. f[0] = first
      BY <2>1, <2>2
    <2>8. Is(f, k + 1)
      BY <2>5, <2>6, <2>7
    <2> QED
      BY <2>8
  <1> HIDE DEF Good
  <1>3. N \in Good
    BY <1>0, <1>1, <1>2, NatIsLeast
  <1>4. PICK f : Is(f, N)
    BY <1>0, <1>3 DEF Good
  <1> QED
    BY <1>4

(***************************************************************************)
(* The segments of a text, and what they are packed into.                  *)
(***************************************************************************)
SegmentSet == [start : Nat, end : Nat, fallback : BOOLEAN]

LEMMA SegmentsFacts ==
  ASSUME NEW text, IsText(text)
  PROVE  LET segments == Segments(text) IN
         /\ segments \in Seq(SegmentSet) /\ Len(segments) \in Nat
         /\ \A n \in 1 .. Len(segments) : SegmentFits(text, Span(0, Len(text)), segments[n])
         /\ \A n \in 1 .. Len(segments) : n + 1 <= Len(segments) =>
               /\ segments[n].start < segments[n + 1].start
               /\ segments[n].end < segments[n + 1].end
               /\ IF segments[n].fallback /\ segments[n + 1].fallback
                  THEN WindowsMeet(text, segments[n], segments[n + 1])
                  ELSE segments[n].end <= segments[n + 1].start
         /\ \A i \in TokensIn(text, Span(0, Len(text))) :
               \E n \in 1 .. Len(segments) : i \in TokensIn(text, segments[n])
  <1> DEFINE whole == Span(0, Len(text))
             all == TextSegments(text)
             segments == Segments(text)
             size == Cardinality(all)
  <1>1. SoundSegments(text, whole, all)
    BY TextIsSound
  <1>2. Len(text) \in Nat /\ whole.start = 0 /\ whole.end = Len(text)
    BY DEF IsText, Span
  <1>3. segments = InOrder(all)
    BY DEF Segments, TextSegments
  <1> HIDE DEF whole, all, segments
  <1>4. \A r \in all : /\ SegmentFits(text, whole, r) /\ r \in SegmentSet
                       /\ r.start \in Nat /\ r.end \in Nat /\ r.start < r.end /\ r.end <= Len(text)
                       /\ r.fallback \in BOOLEAN
    BY <1>1, <1>2 DEF SoundSegments, SegmentFits, IsSegment, SegmentSet, IsIn
  <1>5. \A r, q \in all : r.start = q.start => r = q
    BY <1>1 DEF SoundSegments, SegmentFollows
  <1>6. IsFiniteSet(all)
    <2> DEFINE f == [r \in all |-> r.start]
    <2>1. f \in Injection(all, 0 .. Len(text))
      <3>1. \A r \in all : r.start \in 0 .. Len(text)
        BY <1>2, <1>4
      <3> QED
        BY <1>5, <3>1 DEF Injection, IsInjective
    <2>2. IsFiniteSet(0 .. Len(text))
      <3>1. 0 \in Int /\ Len(text) \in Int
        BY <1>2
      <3> QED
        BY <3>1, FS_Interval
    <2> HIDE DEF f
    <2> QED
      BY <2>1, <2>2, FS_Injection
  <1>7. HasStarts(all)
    BY <1>4, <1>5, <1>6 DEF HasStarts
  <1>8. /\ size \in Nat
        /\ segments \in [1 .. size -> all]
        /\ \A a \in all : \E n \in 1 .. size : segments[n] = a
        /\ \A m, n \in 1 .. size : m < n <=> segments[m].start < segments[n].start
    BY <1>3, <1>7, InOrderFacts
  <1> HIDE DEF size
  <1>9. segments \in Seq(SegmentSet) /\ Len(segments) = size
    <2>1. \A n \in 1 .. size : segments[n] \in SegmentSet
      BY <1>4, <1>8
    <2>2. segments \in [1 .. size -> SegmentSet]
      BY <1>8, <2>1
    <2> QED
      BY <1>8, <2>2
  <1>10. ASSUME NEW n \in 1 .. size, n + 1 <= size
         PROVE  /\ segments[n].start < segments[n + 1].start
                /\ segments[n].end < segments[n + 1].end
                /\ IF segments[n].fallback /\ segments[n + 1].fallback
                   THEN WindowsMeet(text, segments[n], segments[n + 1])
                   ELSE segments[n].end <= segments[n + 1].start
    <2> DEFINE r == segments[n]
               q == segments[n + 1]
    <2>1. n \in Nat /\ n + 1 \in 1 .. size
      BY <1>8, <1>10
    <2>2. r \in all /\ q \in all
      BY <1>8, <2>1
    <2>3. r.start < q.start
      <3>1. n < n + 1
        BY <2>1
      <3> QED
        BY <1>8, <2>1, <3>1
    <2>4. \A p \in all : ~(r.start < p.start /\ p.start < q.start)
      <3> SUFFICES ASSUME NEW p \in all, r.start < p.start, p.start < q.start PROVE FALSE
        OBVIOUS
      <3>1. PICK k \in 1 .. size : segments[k] = p
        BY <1>8
      <3>2. n < k /\ k < n + 1
        BY <1>8, <2>1, <3>1
      <3> QED
        BY <2>1, <3>2
    <2> HIDE DEF r, q
    <2>5. SegmentFollows(text, all, r, q)
      BY <1>1, <2>2 DEF SoundSegments
    <2>6. /\ r.end < q.end /\ (r.end <= q.start \/ (r.fallback /\ q.fallback))
          /\ r.fallback /\ q.fallback => WindowsMeet(text, r, q)
      BY <2>3, <2>4, <2>5 DEF SegmentFollows
    <2> QED
      BY <2>3, <2>6 DEF r, q
  <1>11. ASSUME NEW i \in TokensIn(text, whole)
         PROVE  \E n \in 1 .. size : i \in TokensIn(text, segments[n])
    <2>1. PICK r \in all : i \in TokensIn(text, r)
      BY <1>1 DEF SoundSegments
    <2> QED
      BY <1>8, <2>1
  <1>12. \A n \in 1 .. size : SegmentFits(text, whole, segments[n])
    BY <1>4, <1>8
  <1> QED
    BY <1>8, <1>9, <1>10, <1>11, <1>12 DEF segments, whole

(* One chunk follows another: as windows do, or apart, and then because the*)
(* first is long enough or both do not fit together.                       *)
Follows(text, r, q) ==
    /\ r.start < q.start /\ r.end < q.end
    /\ IF r.fallback /\ q.fallback THEN WindowsMeet(text, r, q) ELSE r.end <= q.start
    /\ \/ r.fallback \/ q.fallback
       \/ TokenCount(text, r) >= TargetTokens
       \/ TokenCount(text, Span(r.start, q.end)) > Maximum

Holds(r, segment) == r.start <= segment.start /\ segment.end <= r.end

PackedAre(text, packed, n) ==
    /\ packed \in Seq(SegmentSet)
    /\ \A i \in 1 .. Len(packed) : SegmentFits(text, Span(0, Len(text)), packed[i])
    /\ \A i \in 1 .. Len(packed) : i + 1 <= Len(packed) => Follows(text, packed[i], packed[i + 1])
    /\ n = 0 => packed = <<>>
    /\ n > 0 => /\ packed # <<>>
                /\ Current(packed).end = Segments(text)[n].end
                /\ Current(packed).start <= Segments(text)[n].start
                /\ Current(packed).fallback = Segments(text)[n].fallback
                /\ Current(packed).fallback => Current(packed) = Segments(text)[n]
    /\ \A m \in 1 .. n : \E i \in 1 .. Len(packed) : Holds(packed[i], Segments(text)[m])

LEMMA FitFacts ==
  ASSUME NEW text, IsText(text), NEW r, SegmentFits(text, Span(0, Len(text)), r)
  PROVE  /\ r \in SegmentSet /\ r.start \in Nat /\ r.end \in Nat /\ r.fallback \in BOOLEAN
         /\ r.start < r.end /\ r.end <= Len(text) /\ Len(text) \in Nat
         /\ TokenCount(text, r) \in Nat
  <1>1. /\ r \in SegmentSet /\ r.start \in Nat /\ r.end \in Nat /\ r.fallback \in BOOLEAN
        /\ r.start < r.end /\ r.end <= Len(text) /\ Len(text) \in Nat
    BY SegmentFields DEF SegmentFits, IsSegment, SegmentSet, IsIn, IsText
  <1> QED
    BY <1>1, TokenFacts

(* A segment that does not join. *)
LEMMA AppendStep ==
  ASSUME NEW text, IsText(text), NEW n \in Nat, n + 1 <= Len(Segments(text)),
         NEW packed, PackedAre(text, packed, n), ~Joins(text, packed, Segments(text)[n + 1])
  PROVE  PackedAre(text, Append(packed, Segments(text)[n + 1]), n + 1)
  <1> DEFINE segments == Segments(text)
             segment == segments[n + 1]
             L == Len(packed)
             new == Append(packed, segment)
             fits(r) == SegmentFits(text, Span(0, Len(text)), r)
  <1>1. /\ packed \in Seq(SegmentSet) /\ L \in Nat
        /\ \A i \in 1 .. L : fits(packed[i])
        /\ \A i \in 1 .. L : i + 1 <= L => Follows(text, packed[i], packed[i + 1])
        /\ \A m \in 1 .. n : \E i \in 1 .. L : Holds(packed[i], segments[m])
    BY DEF PackedAre
  <1>2. n + 1 \in 1 .. Len(segments)
    BY SegmentsFacts
  <1>3. fits(segment)
    BY <1>2, SegmentsFacts
  <1>4. segment \in SegmentSet /\ segment.start \in Nat /\ segment.end \in Nat
    BY <1>3, FitFacts
  <1>5. /\ new \in Seq(SegmentSet) /\ Len(new) = L + 1
        /\ \A i \in 1 .. L : new[i] = packed[i]
        /\ new[L + 1] = segment
    BY <1>1, <1>4
  <1>6. \A i \in 1 .. L + 1 : i \in 1 .. L \/ i = L + 1
    BY <1>1
  <1>7. n = 0 => L = 0
    BY <1>1 DEF PackedAre
  <1>8. ASSUME L # 0
        PROVE  Follows(text, packed[L], segment)
    <2>1. n > 0 /\ packed # <<>> /\ n \in 1 .. Len(segments)
      <3>1. n # 0
        BY <1>7, <1>8
      <3> QED
        BY <1>1, <1>2, <1>8, <3>1
    <2>2. Current(packed) = packed[L]
      BY DEF Current
    <2> DEFINE r == packed[L]
               before == segments[n]
    <2>3. /\ r.end = before.end /\ r.start <= before.start /\ r.fallback = before.fallback
          /\ r.fallback => r = before
      BY <2>1, <2>2 DEF PackedAre
    <2>4. /\ before.start < segment.start /\ before.end < segment.end
          /\ IF before.fallback /\ segment.fallback THEN WindowsMeet(text, before, segment)
             ELSE before.end <= segment.start
      BY <1>2, <2>1, SegmentsFacts
    <2>5. fits(before)
      BY <2>1, SegmentsFacts
    <2>6. fits(r)
      BY <1>1, <1>8
    <2>7. before.start \in Nat /\ r.start \in Nat /\ TokenCount(text, r) \in Nat
      BY <2>5, <2>6, FitFacts
    <2>8. r.start < segment.start /\ r.end < segment.end
      BY <1>4, <2>3, <2>4, <2>7
    <2>9. IF r.fallback /\ segment.fallback THEN WindowsMeet(text, r, segment)
          ELSE r.end <= segment.start
      BY <2>3, <2>4
    <2>10. \/ r.fallback \/ segment.fallback
           \/ ~(TokenCount(text, Span(r.start, segment.end)) <= Maximum)
           \/ ~(TokenCount(text, r) < TargetTokens)
      BY <2>1, <2>2 DEF Joins
    <2>11. TokenCount(text, Span(r.start, segment.end)) \in Nat
      BY <1>4, <2>7, SegmentFields, TokenFacts
    <2>12. Maximum \in Nat /\ TargetTokens \in Nat
      BY ConstantFacts
    <2> HIDE DEF r, before, segment
    <2>13. \/ r.fallback \/ segment.fallback
           \/ TokenCount(text, r) >= TargetTokens
           \/ TokenCount(text, Span(r.start, segment.end)) > Maximum
      BY <2>7, <2>10, <2>11, <2>12
    <2>14. Follows(text, r, segment)
      BY <2>8, <2>9, <2>13 DEF Follows
    <2> QED
      BY <2>14 DEF r
  <1> HIDE DEF segment, L, new, fits
  <1>9. \A i \in 1 .. Len(new) : fits(new[i])
    BY <1>1, <1>3, <1>5, <1>6
  <1>10. ASSUME NEW i \in 1 .. Len(new), i + 1 <= Len(new)
         PROVE  Follows(text, new[i], new[i + 1])
    <2>1. CASE i = L
      BY <1>1, <1>5, <1>8, <1>10, <2>1
    <2>2. CASE i # L
      <3>1. i \in 1 .. L /\ i + 1 \in 1 .. L
        BY <1>1, <1>5, <1>10, <2>2
      <3> QED
        BY <1>1, <1>5, <3>1
    <2> QED
      BY <2>1, <2>2
  <1>11. new # <<>> /\ Current(new) = segment
    <2>1. Len(new) # 0
      BY <1>1, <1>5
    <2> QED
      BY <1>5, <2>1 DEF Current
  <1>12. ASSUME NEW m \in 1 .. n + 1
         PROVE  \E i \in 1 .. Len(new) : Holds(new[i], segments[m])
    <2>1. CASE m = n + 1
      <3>1. L + 1 \in 1 .. Len(new) /\ segments[m] = segment
        BY <1>1, <1>5, <2>1 DEF segment
      <3> QED
        BY <1>4, <1>5, <3>1 DEF Holds
    <2>2. CASE m # n + 1
      <3>1. m \in 1 .. n
        BY <2>2
      <3>2. PICK i \in 1 .. L : Holds(packed[i], segments[m])
        BY <1>1, <3>1
      <3> QED
        BY <1>1, <1>5, <3>2
    <2> QED
      BY <2>1, <2>2
  <1>13. segment.start <= segment.start
    BY <1>4
  <1>14. PackedAre(text, new, n + 1)
    BY <1>5, <1>9, <1>10, <1>11, <1>12, <1>13 DEF PackedAre, fits, segment
  <1> QED
    BY <1>14 DEF new, segment

(* A segment that joins the one before it. *)
LEMMA JoinStep ==
  ASSUME NEW text, IsText(text), NEW n \in Nat, n + 1 <= Len(Segments(text)),
         NEW packed, PackedAre(text, packed, n), Joins(text, packed, Segments(text)[n + 1])
  PROVE  PackedAre(text, Pack(text, packed, Segments(text)[n + 1]), n + 1)
  <1> DEFINE segments == Segments(text)
             segment == segments[n + 1]
             before == segments[n]
             L == Len(packed)
             old == packed[L]
             joined == Segment(Span(old.start, segment.end), FALSE)
             new == [packed EXCEPT ![L] = joined]
             fits(r) == SegmentFits(text, Span(0, Len(text)), r)
  <1>1. /\ packed \in Seq(SegmentSet) /\ L \in Nat
        /\ \A i \in 1 .. L : fits(packed[i])
        /\ \A i \in 1 .. L : i + 1 <= L => Follows(text, packed[i], packed[i + 1])
        /\ \A m \in 1 .. n : \E i \in 1 .. L : Holds(packed[i], segments[m])
    <2> HIDE DEF segment, before, old, joined, new
    <2>1. packed \in Seq(SegmentSet) /\ L \in Nat
      BY DEF PackedAre
    <2> QED
      BY <2>1 DEF PackedAre
  <1>2. /\ packed # <<>> /\ ~old.fallback /\ ~segment.fallback
        /\ TokenCount(text, Span(old.start, segment.end)) <= Maximum
        /\ Current(packed) = old
    BY DEF Joins, Current
  <1>3. L \in 1 .. L
    BY <1>1, <1>2
  <1>4. n > 0 /\ n \in 1 .. Len(segments) /\ n + 1 \in 1 .. Len(segments)
    BY <1>2, SegmentsFacts DEF PackedAre
  <1>5. old.end = before.end /\ old.start <= before.start /\ old.fallback = before.fallback
    BY <1>2, <1>4 DEF PackedAre
  <1>6. fits(old) /\ fits(before) /\ fits(segment)
    BY <1>1, <1>3, <1>4, SegmentsFacts
  <1>7. /\ old.start \in Nat /\ old.end \in Nat /\ old.start < old.end
        /\ before.start \in Nat /\ before.end \in Nat
        /\ segment.start \in Nat /\ segment.end \in Nat /\ segment.end <= Len(text)
        /\ Len(text) \in Nat
    BY <1>6, FitFacts
  <1>8. /\ before.start < segment.start /\ before.end < segment.end
        /\ IF before.fallback /\ segment.fallback THEN WindowsMeet(text, before, segment)
           ELSE before.end <= segment.start
    BY <1>4, SegmentsFacts
  <1>9. /\ joined.start = old.start /\ joined.end = segment.end /\ joined.fallback = FALSE
        /\ TokensIn(text, joined) = TokensIn(text, Span(old.start, segment.end))
        /\ TokenCount(text, joined) = TokenCount(text, Span(old.start, segment.end))
        /\ IsSegment(joined) /\ joined \in SegmentSet
    <2>1. joined \in SegmentSet
      BY <1>7 DEF Segment, Span, SegmentSet
    <2> DEFINE span == Span(old.start, segment.end)
    <2>2. span.start = old.start /\ span.end = segment.end /\ joined = Segment(span, FALSE)
      BY SegmentFields
    <2> HIDE DEF span, joined
    <2>3. /\ joined.start = old.start /\ joined.end = segment.end /\ joined.fallback = FALSE
          /\ TokensIn(text, joined) = TokensIn(text, span)
          /\ TokenCount(text, joined) = TokenCount(text, span)
      BY <2>2, SegmentTokens
    <2> QED
      BY <2>1, <2>3 DEF IsSegment, SegmentSet, span
  <1>10. Pack(text, packed, segment) = new
    BY DEF Pack, Current
  <1>11. /\ new \in Seq(SegmentSet) /\ Len(new) = L
         /\ \A i \in 1 .. L : i # L => new[i] = packed[i]
         /\ new[L] = joined
    <2> HIDE DEF joined
    <2> QED
      BY <1>1, <1>3, <1>9
  <1> HIDE DEF joined, new, segment, before, old, L, fits
  <1>12. /\ joined.start < joined.end /\ old.end < joined.end
         /\ joined.start \in Nat /\ joined.end \in Nat
    <2>1. before.end < segment.end
      BY <1>8
    <2> QED
      BY <1>5, <1>7, <1>9, <2>1
  <1>13. IsIn(old, joined)
    <2>1. joined.start <= old.start /\ old.end <= joined.end
      BY <1>7, <1>9, <1>12
    <2> QED
      BY <2>1 DEF IsIn
  <1>14. fits(joined)
    <2>1. ~Blank(text, old) /\ IsIn(old, Span(0, Len(text)))
      BY <1>6 DEF SegmentFits, fits
    <2>2. ~Blank(text, joined)
      BY <1>7, <1>9, <1>13, <2>1, WiderSpan
    <2>3. IsIn(joined, Span(0, Len(text)))
      <3> DEFINE whole == Span(0, Len(text))
      <3>1. whole.start = 0 /\ whole.end = Len(text)
        BY SegmentFields
      <3> HIDE DEF whole
      <3>2. whole.start <= joined.start /\ joined.end <= whole.end
        BY <1>7, <1>9, <1>12, <3>1
      <3> QED
        BY <3>2 DEF IsIn, whole
    <2> QED
      BY <1>2, <1>9, <1>12, <2>2, <2>3 DEF SegmentFits, fits
  <1>15. \A i \in 1 .. Len(new) : fits(new[i])
    BY <1>1, <1>11, <1>14
  <1>16. ASSUME NEW i \in 1 .. Len(new), i + 1 <= Len(new)
         PROVE  Follows(text, new[i], new[i + 1])
    <2>1. i \in 1 .. L /\ i + 1 \in 1 .. L /\ i # L /\ new[i] = packed[i]
      BY <1>1, <1>11, <1>16
    <2>2. CASE i + 1 # L
      <3>1. new[i + 1] = packed[i + 1]
        BY <1>11, <2>1, <2>2
      <3>2. i + 1 <= L
        BY <1>1, <2>1
      <3>3. Follows(text, packed[i], packed[i + 1])
        BY <1>1, <2>1, <3>2
      <3> QED
        BY <2>1, <3>1, <3>3
    <2>3. CASE i + 1 = L
      <3> DEFINE r == packed[i]
      <3>1. Follows(text, r, old)
        BY <1>1, <2>1, <2>3 DEF old
      <3>2. new[i + 1] = joined
        BY <1>11, <2>3
      <3>3. fits(r)
        BY <1>1, <2>1
      <3>4. r.start \in Nat /\ r.end \in Nat /\ r.fallback \in BOOLEAN /\ TokenCount(text, r) \in Nat
        BY <3>3, FitFacts DEF fits
      <3> HIDE DEF r
      <3>5. r.start < joined.start /\ r.end < joined.end
        BY <1>7, <1>9, <1>12, <3>1, <3>4 DEF Follows
      <3>6. r.end <= joined.start
        BY <1>2, <1>9, <3>1 DEF Follows
      <3>7. ASSUME TokenCount(text, Span(r.start, old.end)) > Maximum
            PROVE  TokenCount(text, Span(r.start, joined.end)) > Maximum
        <4> DEFINE narrow == Span(r.start, old.end)
                   wide == Span(r.start, joined.end)
        <4>1. /\ narrow.start = r.start /\ narrow.end = old.end
              /\ wide.start = r.start /\ wide.end = joined.end
          BY SegmentFields
        <4>2. joined.end \in Nat
          BY <1>7, <1>9
        <4> HIDE DEF narrow, wide
        <4>3. IsIn(narrow, wide)
          <5>1. wide.start <= narrow.start /\ narrow.end <= wide.end
            <6>1. wide.start <= narrow.start
              BY <3>4, <4>1
            <6>2. old.end \in Nat /\ old.end < joined.end
              BY <1>7, <1>12
            <6>3. narrow.end <= wide.end
              BY <4>1, <4>2, <6>2
            <6> QED
              BY <6>1, <6>3
          <5> QED
            BY <5>1 DEF IsIn
        <4>4. TokenCount(text, narrow) <= TokenCount(text, wide)
          BY <1>7, <3>4, <4>1, <4>2, <4>3, WiderSpan
        <4>5. TokenCount(text, narrow) \in Nat /\ TokenCount(text, wide) \in Nat
          BY <1>7, <3>4, <4>1, <4>2, TokenFacts
        <4>6. TokenCount(text, narrow) > Maximum
          BY <3>7 DEF narrow
        <4>7. TokenCount(text, wide) > Maximum
          BY <4>4, <4>5, <4>6, ConstantFacts
        <4> QED
          BY <4>7 DEF wide
      <3>8. \/ r.fallback \/ joined.fallback
            \/ TokenCount(text, r) >= TargetTokens
            \/ TokenCount(text, Span(r.start, joined.end)) > Maximum
        BY <1>2, <3>1, <3>7 DEF Follows
      <3>9. Follows(text, r, joined)
        BY <1>9, <3>5, <3>6, <3>8 DEF Follows
      <3> QED
        BY <2>1, <3>2, <3>9 DEF r
    <2> QED
      BY <2>2, <2>3
  <1>17. new # <<>> /\ Current(new) = joined
    <2>1. Len(new) # 0
      BY <1>1, <1>3, <1>11
    <2> QED
      BY <1>11, <2>1 DEF Current
  <1>18. ASSUME NEW m \in 1 .. n + 1
         PROVE  \E i \in 1 .. Len(new) : Holds(new[i], segments[m])
    <2>1. CASE m = n + 1
      <3>1. segments[m] = segment
        BY <2>1 DEF segment
      <3>2. old.start <= segment.start
        BY <1>5, <1>7, <1>8
      <3>3. Holds(joined, segment)
        BY <1>7, <1>9, <3>2 DEF Holds
      <3> QED
        BY <1>3, <1>11, <3>1, <3>3
    <2>2. CASE m # n + 1
      <3>1. m \in 1 .. n
        BY <2>2
      <3>2. PICK i \in 1 .. L : Holds(packed[i], segments[m])
        BY <1>1, <3>1
      <3>3. CASE i # L
        BY <1>11, <3>2, <3>3
      <3>4. CASE i = L
        <4> DEFINE q == segments[m]
        <4>1. m \in 1 .. Len(segments)
          BY <1>4, <3>1, SegmentsFacts
        <4>2. SegmentFits(text, Span(0, Len(text)), q)
          BY <4>1, SegmentsFacts
        <4>3. q.start \in Nat /\ q.end \in Nat
          BY <4>2, FitFacts
        <4>4. Holds(old, q)
          BY <3>2, <3>4 DEF old
        <4> HIDE DEF q
        <4>5. Holds(joined, q)
          BY <1>7, <1>9, <1>12, <4>3, <4>4 DEF Holds
        <4> QED
          BY <1>3, <1>11, <4>5 DEF q
      <3> QED
        BY <3>3, <3>4
    <2> QED
      BY <2>1, <2>2
  <1>19. joined.start <= segment.start
    BY <1>5, <1>7, <1>8, <1>9
  <1>20. /\ Current(new).end = segment.end /\ Current(new).start <= segment.start
         /\ Current(new).fallback = segment.fallback /\ ~Current(new).fallback
    <2>1. segment.fallback = FALSE
      <3>1. segment.fallback \in BOOLEAN
        BY <1>6, FitFacts DEF fits
      <3> QED
        BY <1>2, <3>1
    <2> QED
      BY <1>9, <1>17, <1>19, <2>1
  <1>21. PackedAre(text, new, n + 1)
    BY <1>11, <1>15, <1>16, <1>17, <1>18, <1>20 DEF PackedAre, fits, segment
  <1> QED
    BY <1>10, <1>21 DEF segment

(* What the first segments come to, as ExactSegments has it. *)
Packed(text) ==
    CHOOSE packed : packed = [n \in 0 .. Len(Segments(text)) |->
                                 IF n = 0 THEN <<>> ELSE Pack(text, packed[n - 1], Segments(text)[n])]

LEMMA PackType ==
  ASSUME NEW text, NEW packed \in Seq(SegmentSet), NEW segment \in SegmentSet
  PROVE  Pack(text, packed, segment) \in Seq(SegmentSet)
  <1> DEFINE L == Len(packed)
             joined == Segment(Span(packed[L].start, segment.end), FALSE)
  <1>1. CASE ~Joins(text, packed, segment)
    BY <1>1 DEF Pack
  <1>2. CASE Joins(text, packed, segment)
    <2>1. packed # <<>>
      BY <1>2 DEF Joins
    <2>2. L \in 1 .. L /\ DOMAIN packed = 1 .. L /\ L \in Nat
      BY <2>1
    <2>3. packed[L] \in SegmentSet
      BY <2>2
    <2>4. joined \in SegmentSet
      BY <2>3 DEF SegmentSet, Segment, Span
    <2>5. Pack(text, packed, segment) = [packed EXCEPT ![L] = joined]
      BY <1>2 DEF Pack, Current
    <2> HIDE DEF joined
    <2> QED
      BY <2>2, <2>4, <2>5
  <1> QED
    BY <1>1, <1>2

LEMMA PackedFacts ==
  ASSUME NEW text, IsText(text)
  PROVE  /\ ExactSegments(text) = Packed(text)[Len(Segments(text))]
         /\ Packed(text)[0] = <<>>
         /\ \A n \in 1 .. Len(Segments(text)) :
               Packed(text)[n] = Pack(text, Packed(text)[n - 1], Segments(text)[n])
  <1> DEFINE segments == Segments(text)
             N == Len(segments)
             X == Seq(SegmentSet)
             next == [p \in X \X (1 .. N) |-> Pack(text, p[1], segments[p[2]])]
             first == <<>>
             Is(f) == f = [n \in 0 .. N |-> IF n = 0 THEN <<>> ELSE Pack(text, f[n - 1], segments[n])]
  <1>1. N \in Nat /\ segments \in X
    BY SegmentsFacts
  <1>2. \A x \in X : \A n \in 1 .. N : next[<<x, n>>] = Pack(text, x, segments[n])
    OBVIOUS
  <1>3. \A n \in 1 .. N : segments[n] \in SegmentSet
    BY <1>1
  <1>4. first \in X
    OBVIOUS
  <1> HIDE DEF segments, N, next, X, first
  <1>5. \A x \in X : \A n \in 1 .. N : next[<<x, n>>] \in X
    BY <1>2, <1>3, PackType DEF X
  <1>6. PICK f \in [0 .. N -> X] : f[0] = first /\ \A n \in 1 .. N : f[n] = next[<<f[n - 1], n>>]
    <2>1. Recurs(N, X, first, next)
      BY <1>1, <1>4, <1>5 DEF Recurs
    <2> QED
      BY <2>1, RecursionExists
  <1>7. \A n \in 0 .. N : f[n] = IF n = 0 THEN <<>> ELSE Pack(text, f[n - 1], segments[n])
    <2> SUFFICES ASSUME NEW n \in 0 .. N, n # 0
                 PROVE  f[n] = Pack(text, f[n - 1], segments[n])
      BY <1>6 DEF first
    <2>1. n \in 1 .. N /\ n - 1 \in 0 .. N
      BY <1>1
    <2> QED
      BY <1>2, <1>6, <2>1
  <1>8. Is(f)
    BY <1>6, <1>7
  <1>9. Packed(text) = CHOOSE g : Is(g)
    BY DEF Packed, segments, N
  <1>10. ExactSegments(text) = Packed(text)[N]
    BY DEF ExactSegments, Packed, segments, N
  <1>11. Is(Packed(text))
    BY <1>8, <1>9
  <1>12. Packed(text)[0] = <<>>
    BY <1>1, <1>11
  <1>13. ASSUME NEW n \in 1 .. N
         PROVE  Packed(text)[n] = Pack(text, Packed(text)[n - 1], segments[n])
    <2>1. n \in 0 .. N /\ n # 0
      BY <1>1
    <2> QED
      BY <1>11, <2>1
  <1> QED
    BY <1>10, <1>12, <1>13 DEF N, segments

(* Chunks of one text. *)
SoundChunks(text, packed) ==
    /\ packed \in Seq(SegmentSet) /\ Len(packed) \in Nat
    /\ \A i \in 1 .. Len(packed) : SegmentFits(text, Span(0, Len(text)), packed[i])
    /\ \A i \in 1 .. Len(packed) : i + 1 <= Len(packed) => Follows(text, packed[i], packed[i + 1])
    /\ \A j \in TokensIn(text, Span(0, Len(text))) :
          \E i \in 1 .. Len(packed) : j \in TokensIn(text, packed[i])

LEMMA ExactIsSound ==
  ASSUME NEW text, IsText(text)
  PROVE  SoundChunks(text, ExactSegments(text))
  <1> DEFINE segments == Segments(text)
             N == Len(segments)
             at(n) == Packed(text)[n]
             Good == {n \in Nat : n <= N => PackedAre(text, at(n), n)}
             exact == ExactSegments(text)
             whole == Span(0, Len(text))
  <1>1. N \in Nat /\ \A n \in 1 .. N : segments[n] \in SegmentSet
    BY SegmentsFacts
  <1>2. /\ exact = at(N) /\ at(0) = <<>>
        /\ \A n \in 1 .. N : at(n) = Pack(text, at(n - 1), segments[n])
    BY PackedFacts
  <1>3. \A n \in 1 .. N : segments[n].start \in Nat /\ segments[n].end \in Nat
    BY <1>1 DEF SegmentSet
  <1>4. \A j \in TokensIn(text, whole) : \E n \in 1 .. N : j \in TokensIn(text, segments[n])
    BY SegmentsFacts
  <1> HIDE DEF at
  <1>5. 0 \in Good
    <2>1. <<>> \in Seq(SegmentSet) /\ Len(<<>>) = 0 /\ 1 .. 0 = {}
      OBVIOUS
    <2>2. PackedAre(text, <<>>, 0)
      BY <2>1 DEF PackedAre
    <2> QED
      BY <1>2, <2>2
  <1>6. ASSUME NEW n \in Nat, n \in Good
        PROVE  n + 1 \in Good
    <2> SUFFICES ASSUME n + 1 <= N
                 PROVE  PackedAre(text, at(n + 1), n + 1)
      OBVIOUS
    <2>1. n <= N /\ n + 1 \in 1 .. N /\ (n + 1) - 1 = n
      BY <1>1
    <2>2. at(n + 1) = Pack(text, at(n), segments[n + 1])
      BY <1>2, <2>1
    <2>3. PackedAre(text, at(n), n)
      BY <1>6, <2>1
    <2>4. CASE Joins(text, at(n), segments[n + 1])
      BY <2>2, <2>3, <2>4, JoinStep
    <2>5. CASE ~Joins(text, at(n), segments[n + 1])
      <3>1. Pack(text, at(n), segments[n + 1]) = Append(at(n), segments[n + 1])
        BY <2>5 DEF Pack
      <3> QED
        BY <2>2, <2>3, <2>5, <3>1, AppendStep
    <2> QED
      BY <2>4, <2>5
  <1> HIDE DEF Good
  <1>7. N \in Good
    BY <1>1, <1>5, <1>6, NatIsLeast
  <1>8. PackedAre(text, exact, N)
    BY <1>1, <1>2, <1>7 DEF Good
  <1> HIDE DEF exact, N, whole, segments
  <1>9. ASSUME NEW j \in TokensIn(text, whole)
        PROVE  \E i \in 1 .. Len(exact) : j \in TokensIn(text, exact[i])
    <2>1. PICK n \in 1 .. N : j \in TokensIn(text, segments[n])
      BY <1>4
    <2>2. PICK i \in 1 .. Len(exact) : Holds(exact[i], segments[n])
      BY <1>8 DEF PackedAre, segments
    <2> DEFINE r == exact[i]
               q == segments[n]
    <2>3. r.start \in Nat /\ r.end \in Nat
      <3>1. SegmentFits(text, Span(0, Len(text)), r)
        BY <1>8 DEF PackedAre
      <3> QED
        BY <3>1, FitFacts
    <2>4. q.start \in Nat /\ q.end \in Nat /\ IsIn(q, r)
      BY <1>3, <2>2 DEF Holds, IsIn
    <2>5. j \in TokensIn(text, q)
      BY <2>1
    <2> HIDE DEF r, q
    <2>6. j \in TokensIn(text, r)
      BY <2>3, <2>4, <2>5, WiderSpan
    <2> QED
      BY <2>6 DEF r
  <1>10. exact \in Seq(SegmentSet) /\ Len(exact) \in Nat
    BY <1>8 DEF PackedAre
  <1> QED
    BY <1>8, <1>9, <1>10 DEF SoundChunks, PackedAre, exact, whole

(***************************************************************************)
(* The chunks of each section in order, and of all of them.                *)
(***************************************************************************)
PlaceSet(chunksOf) ==
    UNION {{[unit |-> u, nth |-> n] : n \in DOMAIN chunksOf[u]} : u \in DOMAIN chunksOf}

LEMMA PlaceSetFinite ==
  ASSUME NEW chunksOf, DOMAIN chunksOf \in SUBSET Nat, IsFiniteSet(DOMAIN chunksOf),
         \A u \in DOMAIN chunksOf : \E k \in Nat : DOMAIN chunksOf[u] = 1 .. k
  PROVE  IsFiniteSet(PlaceSet(chunksOf))
  <1> DEFINE units == DOMAIN chunksOf
             at(u) == {[unit |-> u, nth |-> n] : n \in DOMAIN chunksOf[u]}
             all == {at(u) : u \in units}
  <1>1. ASSUME NEW u \in units PROVE IsFiniteSet(at(u))
    <2> DEFINE D == DOMAIN chunksOf[u]
               f == [n \in D |-> [unit |-> u, nth |-> n]]
    <2>1. IsFiniteSet(D)
      <3>1. PICK k \in Nat : D = 1 .. k
        OBVIOUS
      <3>2. 1 \in Int /\ k \in Int
        OBVIOUS
      <3> QED
        BY <3>1, <3>2, FS_Interval
    <2> HIDE DEF D
    <2>2. f \in Surjection(D, {[unit |-> u, nth |-> n] : n \in D})
      BY DEF Surjection
    <2>3. IsFiniteSet({[unit |-> u, nth |-> n] : n \in D})
      BY <2>1, <2>2, FS_Surjection
    <2> QED
      BY <2>3 DEF D
  <1> HIDE DEF at
  <1>2. IsFiniteSet(all)
    <2> DEFINE f == [u \in units |-> at(u)]
    <2>1. f \in Surjection(units, all)
      BY DEF Surjection
    <2> HIDE DEF f, units, all
    <2> QED
      BY <2>1, FS_Surjection DEF units
  <1>3. \A T \in all : IsFiniteSet(T)
    BY <1>1
  <1> HIDE DEF all
  <1>4. IsFiniteSet(UNION all)
    BY <1>2, <1>3, FS_UNION
  <1> QED
    BY <1>4 DEF all, at, PlaceSet

LEMMA PlacesFacts ==
  ASSUME NEW chunksOf, DOMAIN chunksOf \in SUBSET Nat, IsFiniteSet(DOMAIN chunksOf),
         \A u \in DOMAIN chunksOf : \E k \in Nat : DOMAIN chunksOf[u] = 1 .. k
  PROVE  LET places == Places(chunksOf) IN
         \E N \in Nat :
            /\ DOMAIN places = 1 .. N
            /\ \A p \in 1 .. N : /\ places[p].unit \in DOMAIN chunksOf
                                 /\ places[p].nth \in DOMAIN chunksOf[places[p].unit]
            /\ \A u \in DOMAIN chunksOf : \A n \in DOMAIN chunksOf[u] :
                  \E p \in 1 .. N : places[p].unit = u /\ places[p].nth = n
            /\ \A p \in 1 .. N : p + 1 <= N /\ places[p].unit = places[p + 1].unit =>
                  places[p + 1].nth = places[p].nth + 1
  <1> DEFINE all == PlaceSet(chunksOf)
             before(q, p) == q.unit < p.unit \/ (q.unit = p.unit /\ q.nth < p.nth)
             ahead == [p \in all |-> {q \in all : before(q, p)}]
             places == Places(chunksOf)
             N == Cardinality(all)
  <1>1. IsFiniteSet(all)
    BY PlaceSetFinite
  <1>2. places = Arranged(all, ahead)
    BY DEF Places, PlaceSet
  <1>3. \A p \in all : /\ p.unit \in DOMAIN chunksOf /\ p.nth \in DOMAIN chunksOf[p.unit]
                       /\ p = [unit |-> p.unit, nth |-> p.nth]
    BY DEF PlaceSet
  <1>4. \A u \in DOMAIN chunksOf : \A n \in DOMAIN chunksOf[u] : [unit |-> u, nth |-> n] \in all
    BY DEF PlaceSet
  <1>5. \A u \in DOMAIN chunksOf : u \in Nat /\ DOMAIN chunksOf[u] \subseteq Nat
    OBVIOUS
  <1> HIDE DEF all, places
  <1>6. \A p \in all : p.unit \in Nat /\ p.nth \in Nat
    BY <1>3, <1>5
  <1>7. \A p, q \in all : q \in ahead[p] <=> before(q, p)
    OBVIOUS
  <1>8. ahead \in [all -> SUBSET all]
    OBVIOUS
  <1> HIDE DEF ahead
  <1>9. IsOrder(all, ahead)
    <2>1. \A c \in all : c \notin ahead[c]
      BY <1>6, <1>7
    <2>2. \A c \in all : \A b \in ahead[c] : ahead[b] \subseteq ahead[c]
      <3> SUFFICES ASSUME NEW c \in all, NEW b \in ahead[c], NEW a \in ahead[b]
                   PROVE  a \in ahead[c]
        OBVIOUS
      <3>1. b \in all /\ before(b, c)
        BY <1>7, <1>8
      <3>2. a \in all /\ before(a, b)
        BY <1>7, <1>8, <3>1
      <3>3. before(a, c)
        BY <1>6, <3>1, <3>2
      <3> QED
        BY <1>7, <3>2, <3>3
    <2>3. \A b, c \in all : b # c => b \in ahead[c] \/ c \in ahead[b]
      <3> SUFFICES ASSUME NEW b \in all, NEW c \in all, b # c
                   PROVE  before(b, c) \/ before(c, b)
        BY <1>7
      <3>1. b.unit # c.unit \/ b.nth # c.nth
        BY <1>3
      <3> QED
        BY <1>6, <3>1
    <2> QED
      BY <1>8, <2>1, <2>2, <2>3 DEF IsOrder
  <1>10. /\ N \in Nat
         /\ places \in [1 .. N -> all]
         /\ \A c \in all : \E n \in 1 .. N : places[n] = c
         /\ \A m, n \in 1 .. N : m < n => places[m] \in ahead[places[n]]
    BY <1>1, <1>2, <1>9, ArrangedFacts
  <1> HIDE DEF N
  <1>11. \A m, n \in 1 .. N : m < n => before(places[m], places[n])
    BY <1>7, <1>10
  <1>12. ASSUME NEW u \in DOMAIN chunksOf, NEW n \in DOMAIN chunksOf[u]
         PROVE  \E p \in 1 .. N : places[p].unit = u /\ places[p].nth = n
    <2>1. PICK p \in 1 .. N : places[p] = [unit |-> u, nth |-> n]
      BY <1>4, <1>10
    <2> QED
      BY <2>1
  <1>13. ASSUME NEW p \in 1 .. N, p + 1 <= N, places[p].unit = places[p + 1].unit
         PROVE  places[p + 1].nth = places[p].nth + 1
    <2>1. p \in Nat /\ p + 1 \in 1 .. N /\ p < p + 1
      BY <1>10, <1>13
    <2> DEFINE a == places[p]
               b == places[p + 1]
    <2>2. a \in all /\ b \in all /\ before(a, b)
      BY <1>10, <1>11, <2>1
    <2>3. a.nth \in Nat /\ b.nth \in Nat /\ a.unit \in Nat /\ a.unit = b.unit
      BY <1>6, <1>13, <2>2
    <2>4. a.nth < b.nth
      BY <2>2, <2>3
    <2>5. SUFFICES ASSUME a.nth + 1 < b.nth PROVE FALSE
      BY <2>3, <2>4
    <2> DEFINE c == [unit |-> a.unit, nth |-> a.nth + 1]
    <2>6. c \in all
      <3>1. a.unit \in DOMAIN chunksOf /\ b.nth \in DOMAIN chunksOf[a.unit]
        BY <1>3, <2>2, <2>3
      <3>2. PICK k \in Nat : DOMAIN chunksOf[a.unit] = 1 .. k
        BY <3>1
      <3>3. a.nth + 1 \in DOMAIN chunksOf[a.unit]
        BY <2>3, <2>5, <3>1, <3>2
      <3> QED
        BY <1>4, <3>1, <3>3
    <2>7. PICK n \in 1 .. N : places[n] = c
      BY <1>10, <2>6
    <2>8. before(a, c) /\ before(c, b)
      BY <2>3, <2>4, <2>5
    <2>9. ~before(c, a) /\ ~before(b, c)
      BY <2>3, <2>4, <2>5
    <2>10. ~(n < p) /\ ~(p + 1 < n)
      BY <1>11, <2>1, <2>7, <2>9
    <2>11. n # p /\ n # p + 1
      <3>1. ~before(a, a) /\ ~before(b, b)
        BY <2>3
      <3> QED
        BY <2>7, <2>8, <3>1
    <2> QED
      BY <1>10, <2>1, <2>10, <2>11
  <1>14. DOMAIN places = 1 .. N
    BY <1>10
  <1>15. \A p \in 1 .. N : places[p] \in all
    BY <1>10
  <1> QED
    BY <1>3, <1>10, <1>12, <1>13, <1>14, <1>15 DEF places

(***************************************************************************)
(* The sections of a document.                                             *)
(***************************************************************************)
UnitText(d, u) == d.units[u].text

LEMMA DocumentFacts ==
  ASSUME NEW d \in ChunkDocuments
  PROVE  /\ d.units \in Seq([kind : STRING, text : Seq(STRING)])
         /\ Len(d.units) \in Nat /\ DOMAIN d.units = 1 .. Len(d.units)
         /\ \A u \in DOMAIN d.units : IsText(UnitText(d, u))
         /\ Sections(d) \in SUBSET Nat /\ IsFiniteSet(Sections(d))
         /\ Sections(d) \subseteq DOMAIN d.units
  <1>1. d.units \in Seq([kind : STRING, text : Seq(STRING)])
    BY ChunkingAssumption
  <1>2. Len(d.units) \in Nat /\ DOMAIN d.units = 1 .. Len(d.units)
    BY <1>1
  <1>3. \A u \in DOMAIN d.units : IsText(UnitText(d, u))
    <2> DEFINE units == d.units
               Unit == [kind : STRING, text : Seq(STRING)]
    <2> HIDE DEF Unit
    <2>1. units \in Seq(Unit)
      BY <1>1 DEF Unit
    <2> HIDE DEF units
    <2>2. \A u \in DOMAIN units : units[u] \in Unit
      BY <2>1
    <2>3. \A u \in DOMAIN d.units : d.units[u] \in [kind : STRING, text : Seq(STRING)]
      BY <2>2 DEF units, Unit
    <2> QED
      BY <2>3 DEF IsText, UnitText
  <1>4. Sections(d) \subseteq DOMAIN d.units
    BY DEF Sections
  <1>5. IsFiniteSet(1 .. Len(d.units))
    <2>1. 1 \in Int /\ Len(d.units) \in Int
      BY <1>2
    <2> QED
      BY <2>1, FS_Interval
  <1>6. IsFiniteSet(Sections(d))
    BY <1>2, <1>4, <1>5, FS_Subset
  <1> QED
    BY <1>1, <1>2, <1>3, <1>4, <1>6

Structural == Strategies \ {"fixed"}

(* A chunk is its leaf; a wider context is of the leaf's unit and holds it. *)
IsLeafChunk(d, how, u, leaf, chunk) ==
    /\ chunk.spans = {UnitSpan(u, leaf)}
    /\ chunk.tokens = TokenCount(UnitText(d, u), leaf)
    /\ chunk.window = leaf.fallback
    /\ how # "structure" =>
          /\ \A c \in chunk.context : c.unit = u
          /\ \E c \in chunk.context : c.start <= leaf.start /\ leaf.end <= c.end

LEMMA SectionChunksFacts ==
  ASSUME NEW d \in ChunkDocuments, NEW u \in Sections(d), NEW how \in Structural
  PROVE  LET exact == ExactSegments(UnitText(d, u))
             of == SectionChunks(d, how, u)
         IN /\ Len(exact) \in Nat /\ DOMAIN of = 1 .. Len(exact)
            /\ \A n \in 1 .. Len(exact) : IsLeafChunk(d, how, u, exact[n], of[n])
  <1> DEFINE text == UnitText(d, u)
             exact == ExactSegments(text)
             leaves == Leaves(d, u)
             N == Len(exact)
             leaf(n) == Chunk({UnitSpan(u, exact[n])}, {}, TokenCount(text, exact[n]), exact[n].fallback)
  <1>1. IsText(text) /\ SoundChunks(text, exact)
    BY DocumentFacts, ExactIsSound
  <1>2. /\ N \in Nat /\ exact \in Seq(SegmentSet) /\ DOMAIN exact = 1 .. N
        /\ \A n \in 1 .. N : SegmentFits(text, Span(0, Len(text)), exact[n])
    BY <1>1 DEF SoundChunks
  <1>3. leaves = [n \in DOMAIN exact |-> leaf(n)]
    BY DEF Leaves, UnitText
  <1>4. \A n : /\ leaf(n).spans = {UnitSpan(u, exact[n])} /\ leaf(n).context = {}
               /\ leaf(n).tokens = TokenCount(text, exact[n])
               /\ leaf(n).window = exact[n].fallback
    BY DEF Chunk
  <1>5. \A n : UnitSpan(u, exact[n]).unit = u /\ UnitSpan(u, exact[n]).start = exact[n].start
               /\ UnitSpan(u, exact[n]).end = exact[n].end
    BY DEF UnitSpan
  <1>6. \A n \in 1 .. N : /\ exact[n].start \in Nat /\ exact[n].end \in Nat
                          /\ exact[n].end <= Len(text) /\ Len(text) \in Nat
    BY <1>1, <1>2, FitFacts
  <1>7. \A n, context :
           /\ [leaf(n) EXCEPT !.context = context].spans = {UnitSpan(u, exact[n])}
           /\ [leaf(n) EXCEPT !.context = context].tokens = TokenCount(text, exact[n])
           /\ [leaf(n) EXCEPT !.context = context].window = exact[n].fallback
           /\ [leaf(n) EXCEPT !.context = context].context = context
    BY DEF Chunk
  <1>8. DOMAIN leaves = 1 .. N /\ \A n \in 1 .. N : leaves[n] = leaf(n)
    BY <1>2, <1>3
  <1> HIDE DEF text, exact, leaves, N, leaf
  <1>9. CASE how = "structure"
    <2>1. SectionChunks(d, how, u) = leaves
      BY <1>9 DEF SectionChunks, leaves
    <2>2. \A n \in 1 .. N : IsLeafChunk(d, how, u, exact[n], leaves[n])
      BY <1>4, <1>8, <1>9 DEF IsLeafChunk, text
    <2> QED
      BY <1>2, <1>8, <2>1, <2>2 DEF N, exact, text
  <1>10. CASE how = "neighbor"
    <2> DEFINE near(n) == UNION {leaves[m].spans : m \in DOMAIN leaves \cap (n - 1 .. n + 1)}
               chunk(n) == [leaves[n] EXCEPT !.context = near(n)]
    <2>1. SectionChunks(d, how, u) = [n \in DOMAIN leaves |-> chunk(n)]
      BY <1>10 DEF SectionChunks, WithNeighbors, leaves
    <2>2. ASSUME NEW n \in 1 .. N
          PROVE  IsLeafChunk(d, how, u, exact[n], chunk(n))
      <3>1. \A c \in near(n) : c.unit = u
        <4> SUFFICES ASSUME NEW c \in near(n) PROVE c.unit = u
          OBVIOUS
        <4>1. PICK m \in DOMAIN leaves : c \in leaves[m].spans
          OBVIOUS
        <4>2. c \in {UnitSpan(u, exact[m])}
          BY <1>4, <1>8, <4>1
        <4> QED
          BY <1>5, <4>2
      <3>2. UnitSpan(u, exact[n]) \in near(n)
        <4>1. n \in DOMAIN leaves \cap (n - 1 .. n + 1)
          BY <1>2, <1>8
        <4>2. UnitSpan(u, exact[n]) \in leaves[n].spans
          BY <1>4, <1>8
        <4> QED
          BY <4>1, <4>2
      <3> HIDE DEF near
      <3>3. chunk(n) = [leaf(n) EXCEPT !.context = near(n)]
        BY <1>8
      <3>4. /\ chunk(n).spans = {UnitSpan(u, exact[n])}
            /\ chunk(n).tokens = TokenCount(text, exact[n])
            /\ chunk(n).window = exact[n].fallback
            /\ chunk(n).context = near(n)
        BY <1>7, <3>3
      <3> HIDE DEF chunk
      <3>5. \E c \in near(n) : c.start <= exact[n].start /\ exact[n].end <= c.end
        BY <1>5, <1>6, <3>2
      <3> QED
        BY <3>1, <3>4, <3>5 DEF IsLeafChunk, text
    <2> HIDE DEF chunk
    <2>3. /\ DOMAIN SectionChunks(d, how, u) = 1 .. N
          /\ \A n \in 1 .. N : SectionChunks(d, how, u)[n] = chunk(n)
      BY <1>8, <2>1
    <2> QED
      BY <1>2, <2>2, <2>3 DEF N, exact, text
  <1>11. CASE how = "parent-child"
    <2> DEFINE parent == {UnitSpan(u, Whole(d, u))}
               chunk(n) == [leaves[n] EXCEPT !.context = parent]
    <2>1. SectionChunks(d, how, u) = [n \in DOMAIN leaves |-> chunk(n)]
      BY <1>11 DEF SectionChunks, WithParent, leaves
    <2>2. /\ UnitSpan(u, Whole(d, u)).unit = u
          /\ UnitSpan(u, Whole(d, u)).start = 0
          /\ UnitSpan(u, Whole(d, u)).end = Len(text)
      BY DEF UnitSpan, Whole, Span, text, UnitText
    <2>3. ASSUME NEW n \in 1 .. N
          PROVE  IsLeafChunk(d, how, u, exact[n], chunk(n))
      <3>1. chunk(n) = [leaf(n) EXCEPT !.context = parent]
        BY <1>8
      <3> HIDE DEF parent
      <3>2. /\ chunk(n).spans = {UnitSpan(u, exact[n])}
            /\ chunk(n).tokens = TokenCount(text, exact[n])
            /\ chunk(n).window = exact[n].fallback
            /\ chunk(n).context = parent
        BY <1>7, <3>1
      <3> HIDE DEF chunk
      <3>3. \A c \in parent : c.unit = u
        BY <2>2 DEF parent
      <3>4. \E c \in parent : c.start <= exact[n].start /\ exact[n].end <= c.end
        BY <1>6, <2>2 DEF parent
      <3> QED
        BY <3>2, <3>3, <3>4 DEF IsLeafChunk, text
    <2> HIDE DEF chunk
    <2>4. /\ DOMAIN SectionChunks(d, how, u) = 1 .. N
          /\ \A n \in 1 .. N : SectionChunks(d, how, u)[n] = chunk(n)
      BY <1>8, <2>1
    <2> QED
      BY <1>2, <2>3, <2>4 DEF N, exact, text
  <1> QED
    BY <1>9, <1>10, <1>11 DEF Structural, Strategies

(***************************************************************************)
(* Chunks of the structural strategies, wherever they stand.               *)
(***************************************************************************)
IsLaidOut(d, how, N, unitOf, nthOf) ==
    /\ N \in Nat /\ DOMAIN Chunks(d, how) = 1 .. N
    /\ \A i \in 1 .. N :
          LET exact == ExactSegments(UnitText(d, unitOf[i])) IN
          /\ unitOf[i] \in Sections(d) /\ nthOf[i] \in 1 .. Len(exact)
          /\ IsLeafChunk(d, how, unitOf[i], exact[nthOf[i]], Chunks(d, how)[i])
    /\ \A u \in Sections(d) : \A n \in 1 .. Len(ExactSegments(UnitText(d, u))) :
          \E i \in 1 .. N : unitOf[i] = u /\ nthOf[i] = n
    /\ \A i \in 1 .. N : i + 1 <= N /\ unitOf[i] = unitOf[i + 1] => nthOf[i + 1] = nthOf[i] + 1

LEMMA StructuralFacts ==
  ASSUME NEW d \in ChunkDocuments, NEW how \in Structural
  PROVE  \E N, unitOf, nthOf : IsLaidOut(d, how, N, unitOf, nthOf)
  <1> DEFINE exact(u) == ExactSegments(UnitText(d, u))
             all == Chunks(d, how)
             of(u) == SectionChunks(d, how, u)
             chunksOf == [u \in Sections(d) |-> of(u)]
             places == Places(chunksOf)
  <1>1. \A u \in Sections(d) :
           /\ Len(exact(u)) \in Nat /\ DOMAIN of(u) = 1 .. Len(exact(u))
           /\ \A n \in 1 .. Len(exact(u)) : IsLeafChunk(d, how, u, exact(u)[n], of(u)[n])
    BY SectionChunksFacts
  <1>2. DOMAIN chunksOf = Sections(d) /\ \A u \in Sections(d) : chunksOf[u] = of(u)
    OBVIOUS
  <1>3. Sections(d) \in SUBSET Nat /\ IsFiniteSet(Sections(d))
    BY DocumentFacts
  <1>4. all = [i \in DOMAIN places |-> chunksOf[places[i].unit][places[i].nth]]
    BY DEF Chunks, Structural
  <1> HIDE DEF exact, all, of, chunksOf
  <1>5. \A u \in DOMAIN chunksOf : \E k \in Nat : DOMAIN chunksOf[u] = 1 .. k
    BY <1>1, <1>2
  <1>6. \E N \in Nat :
           /\ DOMAIN places = 1 .. N
           /\ \A p \in 1 .. N : /\ places[p].unit \in DOMAIN chunksOf
                                /\ places[p].nth \in DOMAIN chunksOf[places[p].unit]
           /\ \A u \in DOMAIN chunksOf : \A n \in DOMAIN chunksOf[u] :
                 \E p \in 1 .. N : places[p].unit = u /\ places[p].nth = n
           /\ \A p \in 1 .. N : p + 1 <= N /\ places[p].unit = places[p + 1].unit =>
                 places[p + 1].nth = places[p].nth + 1
    BY <1>2, <1>3, <1>5, PlacesFacts
  <1> HIDE DEF places
  <1>7. PICK N \in Nat :
           /\ DOMAIN places = 1 .. N
           /\ \A p \in 1 .. N : /\ places[p].unit \in DOMAIN chunksOf
                                /\ places[p].nth \in DOMAIN chunksOf[places[p].unit]
           /\ \A u \in DOMAIN chunksOf : \A n \in DOMAIN chunksOf[u] :
                 \E p \in 1 .. N : places[p].unit = u /\ places[p].nth = n
           /\ \A p \in 1 .. N : p + 1 <= N /\ places[p].unit = places[p + 1].unit =>
                 places[p + 1].nth = places[p].nth + 1
    BY <1>6
  <1> DEFINE unitOf == [i \in 1 .. N |-> places[i].unit]
             nthOf == [i \in 1 .. N |-> places[i].nth]
  <1>8. \A i \in 1 .. N : unitOf[i] = places[i].unit /\ nthOf[i] = places[i].nth
    OBVIOUS
  <1>9. DOMAIN all = 1 .. N /\ \A i \in 1 .. N : all[i] = chunksOf[places[i].unit][places[i].nth]
    BY <1>4, <1>7
  <1> HIDE DEF unitOf, nthOf
  <1>10. ASSUME NEW i \in 1 .. N
         PROVE  /\ unitOf[i] \in Sections(d) /\ nthOf[i] \in 1 .. Len(exact(unitOf[i]))
                /\ IsLeafChunk(d, how, unitOf[i], exact(unitOf[i])[nthOf[i]], all[i])
    <2> DEFINE u == unitOf[i]
               n == nthOf[i]
    <2>1. u \in Sections(d) /\ n \in DOMAIN chunksOf[u]
      BY <1>2, <1>7, <1>8
    <2>2. chunksOf[u] = of(u)
      BY <1>2, <2>1
    <2>3. n \in 1 .. Len(exact(u))
      BY <1>1, <2>1, <2>2
    <2>4. all[i] = of(u)[n]
      BY <1>8, <1>9, <2>2
    <2> HIDE DEF u, n
    <2>5. IsLeafChunk(d, how, u, exact(u)[n], all[i])
      BY <1>1, <2>1, <2>3, <2>4
    <2> QED
      BY <2>1, <2>3, <2>5 DEF u, n
  <1>11. ASSUME NEW u \in Sections(d), NEW n \in 1 .. Len(exact(u))
         PROVE  \E i \in 1 .. N : unitOf[i] = u /\ nthOf[i] = n
    <2>1. u \in DOMAIN chunksOf /\ n \in DOMAIN chunksOf[u]
      BY <1>1, <1>2
    <2>2. PICK i \in 1 .. N : places[i].unit = u /\ places[i].nth = n
      BY <1>7, <2>1
    <2> QED
      BY <1>8, <2>2
  <1>12. ASSUME NEW i \in 1 .. N, i + 1 <= N, unitOf[i] = unitOf[i + 1]
         PROVE  nthOf[i + 1] = nthOf[i] + 1
    <2>1. i + 1 \in 1 .. N
      BY <1>7, <1>12
    <2>2. places[i].unit = places[i + 1].unit
      BY <1>8, <1>12, <2>1
    <2>3. places[i + 1].nth = places[i].nth + 1
      BY <1>7, <1>12, <2>2
    <2> QED
      BY <1>8, <2>1, <2>3
  <1>13. IsLaidOut(d, how, N, unitOf, nthOf)
    BY <1>7, <1>9, <1>10, <1>11, <1>12 DEF IsLaidOut, exact, all
  <1> QED
    BY <1>13

(***************************************************************************)
(* What is promised, from the spans of the chunks.                         *)
(***************************************************************************)
LEMMA CoveredFacts ==
  ASSUME NEW u, NEW j
  PROVE  j \in Covered(u) <=>
            \E i \in DOMAIN chunks : \E c \in chunks[i].spans :
               c.unit = u /\ j \in TokensIn(TextOf(u), c)
  BY DEF Covered, TokensIn

LEMMA NothingIsLostThen ==
  ASSUME chunkDocument \in ChunkDocuments, Eligible,
         \A u \in Sections(chunkDocument) :
            Covered(u) = TokensIn(TextOf(u), Whole(chunkDocument, u)),
         \A i \in DOMAIN chunks : chunks[i].tokens \in 1 .. Maximum
  PROVE  NothingIsLost
  <1> DEFINE d == chunkDocument
  <1>1. SUFFICES ASSUME NEW u \in DOMAIN d.units, u \notin Sections(d)
                 PROVE  /\ d.units[u].kind = "case_text"
                        /\ \E v \in Sections(d) : Covered(v) # {}
    BY DEF NothingIsLost
  <1>2. d.source = "arabiccr" /\ d.units[u].kind = "case_text" /\ HasParts(d)
    BY <1>1 DEF Sections
  <1>3. PICK v \in DOMAIN d.units :
           d.units[v].kind = "part" /\ \E j \in DOMAIN d.units[v].text : ~IsSpace(d.units[v].text[j])
    BY <1>2 DEF HasParts
  <1>4. PICK j \in DOMAIN d.units[v].text : ~IsSpace(d.units[v].text[j])
    BY <1>3
  <1>5. v \in Sections(d)
    BY <1>3 DEF Sections
  <1>6. IsText(TextOf(v))
    BY DocumentFacts DEF TextOf, UnitText
  <1>7. j \in Nat /\ j >= 1 /\ j <= Len(TextOf(v)) /\ Len(TextOf(v)) \in Nat
    BY <1>6 DEF IsText, TextOf
  <1>8. Whole(d, v).start = 0 /\ Whole(d, v).end = Len(TextOf(v))
    BY DEF Whole, Span, TextOf
  <1>9. ~IsSpace(Char(TextOf(v), j - 1))
    <2>1. (j - 1) + 1 = j
      BY <1>7
    <2> QED
      BY <1>4, <2>1 DEF Char, TextOf
  <1>10. j - 1 \in TokensIn(TextOf(v), Whole(d, v))
    <2>1. j - 1 \in Nat /\ 0 <= j - 1 /\ j - 1 < Len(TextOf(v))
      BY <1>7
    <2> QED
      BY <1>7, <1>8, <1>9, <2>1, TokenFacts
  <1>11. Covered(v) # {}
    BY <1>5, <1>10
  <1> QED
    BY <1>2, <1>5, <1>11

LEMMA PairedCount ==
  ASSUME NEW u, NEW T, IsFiniteSet(T)
  PROVE  Cardinality({<<u, j>> : j \in T}) = Cardinality(T)
  <1> DEFINE P == {<<u, j>> : j \in T}
             f == [j \in T |-> <<u, j>>]
  <1>1. f \in Bijection(T, P)
    BY DEF Bijection, Injection, Surjection, IsInjective
  <1> HIDE DEF f, P
  <1>2. ExistsBijection(T, P)
    BY <1>1 DEF ExistsBijection
  <1>3. Cardinality(P) = Cardinality(T)
    BY <1>2, FS_Bijection
  <1> QED
    BY <1>3 DEF P

LEMMA SingleSpan ==
  ASSUME NEW i, NEW u, NEW r, chunks[i].spans = {UnitSpan(u, r)}
  PROVE  /\ SpanOf(i) = UnitSpan(u, r)
         /\ SpanOf(i).unit = u /\ SpanOf(i).start = r.start /\ SpanOf(i).end = r.end
         /\ TokensOf(i) = {<<u, j>> : j \in TokensIn(TextOf(u), r)}
  <1>1. SpanOf(i) = UnitSpan(u, r)
    BY DEF SpanOf
  <1>2. /\ UnitSpan(u, r).unit = u /\ UnitSpan(u, r).start = r.start
        /\ UnitSpan(u, r).end = r.end
    BY DEF UnitSpan
  <1>3. TokensIn(TextOf(u), UnitSpan(u, r)) = TokensIn(TextOf(u), r)
    BY <1>2 DEF TokensIn
  <1>4. TokensOf(i) = {<<u, j>> : j \in TokensIn(TextOf(u), r)}
    BY <1>2, <1>3 DEF TokensOf
  <1> QED
    BY <1>1, <1>2, <1>4

IsStructural(N, unitOf, nthOf) ==
    /\ chunkDocument \in ChunkDocuments /\ strategy \in Structural
    /\ chunks = Chunks(chunkDocument, strategy)
    /\ IsLaidOut(chunkDocument, strategy, N, unitOf, nthOf)

LeafAt(unitOf, nthOf, i) == ExactSegments(TextOf(unitOf[i]))[nthOf[i]]

LEMMA LeafFacts ==
  ASSUME NEW N, NEW unitOf, NEW nthOf, IsStructural(N, unitOf, nthOf)
  PROVE  LET leaf(i) == LeafAt(unitOf, nthOf, i)
             text(i) == TextOf(unitOf[i])
         IN /\ N \in Nat /\ DOMAIN chunks = 1 .. N
            /\ \A i \in 1 .. N :
                  /\ unitOf[i] \in Sections(chunkDocument)
                  /\ IsText(text(i)) /\ SegmentFits(text(i), Span(0, Len(text(i))), leaf(i))
                  /\ IsLeafChunk(chunkDocument, strategy, unitOf[i], leaf(i), chunks[i])
            /\ \A i \in 1 .. N : i + 1 <= N /\ unitOf[i] = unitOf[i + 1] =>
                  Follows(text(i), leaf(i), leaf(i + 1))
            /\ \A u \in Sections(chunkDocument) :
                  \A j \in TokensIn(TextOf(u), Whole(chunkDocument, u)) :
                     \E i \in 1 .. N : unitOf[i] = u /\ j \in TokensIn(TextOf(u), leaf(i))
  <1> DEFINE leaf(i) == LeafAt(unitOf, nthOf, i)
             text(i) == TextOf(unitOf[i])
             exact(u) == ExactSegments(TextOf(u))
             d == chunkDocument
  <1>1. \A u : UnitText(d, u) = TextOf(u) /\ Whole(d, u) = Span(0, Len(TextOf(u)))
    BY DEF UnitText, TextOf, Whole
  <1>2. /\ N \in Nat /\ DOMAIN chunks = 1 .. N
        /\ \A i \in 1 .. N :
              /\ unitOf[i] \in Sections(d) /\ nthOf[i] \in 1 .. Len(exact(unitOf[i]))
              /\ IsLeafChunk(d, strategy, unitOf[i], leaf(i), chunks[i])
        /\ \A u \in Sections(d) : \A n \in 1 .. Len(exact(u)) :
              \E i \in 1 .. N : unitOf[i] = u /\ nthOf[i] = n
        /\ \A i \in 1 .. N : i + 1 <= N /\ unitOf[i] = unitOf[i + 1] => nthOf[i + 1] = nthOf[i] + 1
    BY <1>1 DEF IsStructural, IsLaidOut, LeafAt
  <1>3. \A u \in Sections(d) : IsText(TextOf(u)) /\ SoundChunks(TextOf(u), exact(u))
    <2>1. \A u \in Sections(d) : IsText(TextOf(u))
      BY <1>1, DocumentFacts DEF IsStructural
    <2> QED
      BY <2>1, ExactIsSound
  <1>4. \A i : leaf(i) = exact(unitOf[i])[nthOf[i]]
    BY DEF LeafAt
  <1> HIDE DEF leaf, exact
  <1>5. ASSUME NEW i \in 1 .. N
        PROVE  IsText(text(i)) /\ SegmentFits(text(i), Span(0, Len(text(i))), leaf(i))
    BY <1>2, <1>3, <1>4 DEF SoundChunks
  <1>6. ASSUME NEW i \in 1 .. N, i + 1 <= N, unitOf[i] = unitOf[i + 1]
        PROVE  Follows(text(i), leaf(i), leaf(i + 1))
    <2>1. i + 1 \in 1 .. N
      BY <1>2, <1>6
    <2> DEFINE u == unitOf[i]
               n == nthOf[i]
    <2>2. u \in Sections(d) /\ n \in 1 .. Len(exact(u)) /\ n + 1 \in 1 .. Len(exact(u))
      BY <1>2, <1>6, <2>1
    <2>3. leaf(i) = exact(u)[n] /\ leaf(i + 1) = exact(u)[n + 1]
      BY <1>2, <1>4, <1>6
    <2> HIDE DEF u, n
    <2>4. n + 1 <= Len(exact(u))
      <3>1. Len(exact(u)) \in Nat
        BY <1>3, <2>2 DEF SoundChunks
      <3> QED
        BY <2>2, <3>1
    <2>5. Follows(TextOf(u), exact(u)[n], exact(u)[n + 1])
      BY <1>3, <2>2, <2>4 DEF SoundChunks
    <2> QED
      BY <2>3, <2>5 DEF u
  <1>7. ASSUME NEW u \in Sections(d), NEW j \in TokensIn(TextOf(u), Whole(d, u))
        PROVE  \E i \in 1 .. N : unitOf[i] = u /\ j \in TokensIn(TextOf(u), leaf(i))
    <2>1. PICK n \in 1 .. Len(exact(u)) : j \in TokensIn(TextOf(u), exact(u)[n])
      BY <1>1, <1>3 DEF SoundChunks
    <2>2. PICK i \in 1 .. N : unitOf[i] = u /\ nthOf[i] = n
      BY <1>2
    <2> QED
      BY <1>4, <2>1, <2>2
  <1> QED
    BY <1>2, <1>5, <1>6, <1>7 DEF leaf


(* The structural strategies keep what chunking promises. *)
LEMMA StructuralIsSound ==
  ASSUME NEW N, NEW unitOf, NEW nthOf, IsStructural(N, unitOf, nthOf)
  PROVE  ChunksAreSound
  <1> DEFINE leaf(i) == LeafAt(unitOf, nthOf, i)
             text(i) == TextOf(unitOf[i])
             d == chunkDocument
  <1>1. /\ N \in Nat /\ DOMAIN chunks = 1 .. N
        /\ \A i \in 1 .. N :
              /\ unitOf[i] \in Sections(d)
              /\ IsText(text(i)) /\ SegmentFits(text(i), Span(0, Len(text(i))), leaf(i))
              /\ IsLeafChunk(d, strategy, unitOf[i], leaf(i), chunks[i])
        /\ \A i \in 1 .. N : i + 1 <= N /\ unitOf[i] = unitOf[i + 1] =>
              Follows(text(i), leaf(i), leaf(i + 1))
        /\ \A u \in Sections(d) : \A j \in TokensIn(TextOf(u), Whole(d, u)) :
              \E i \in 1 .. N : unitOf[i] = u /\ j \in TokensIn(TextOf(u), leaf(i))
    BY LeafFacts
  <1>2. d \in ChunkDocuments /\ strategy \in {"structure", "neighbor", "parent-child"}
    BY DEF IsStructural, Structural, Strategies
  <1>3. \A u : UnitText(d, u) = TextOf(u)
    BY DEF UnitText, TextOf
  <1> HIDE DEF leaf
  <1>4. ASSUME NEW i \in 1 .. N
        PROVE  /\ leaf(i).start \in Nat /\ leaf(i).end \in Nat /\ leaf(i).start < leaf(i).end
               /\ leaf(i).end <= Len(text(i)) /\ leaf(i).fallback \in BOOLEAN
               /\ TokenCount(text(i), leaf(i)) \in 1 .. Maximum
    <2>1. IsText(text(i)) /\ SegmentFits(text(i), Span(0, Len(text(i))), leaf(i))
      BY <1>1
    <2>2. /\ leaf(i).start \in Nat /\ leaf(i).end \in Nat /\ leaf(i).start < leaf(i).end
          /\ leaf(i).end <= Len(text(i)) /\ leaf(i).fallback \in BOOLEAN
      BY <2>1, FitFacts
    <2>3. TokenCount(text(i), leaf(i)) \in Nat /\ TokenCount(text(i), leaf(i)) > 0
      BY <2>1, <2>2, TokenFacts DEF SegmentFits
    <2>4. TokenCount(text(i), leaf(i)) <= Maximum /\ Maximum \in Nat
      BY <2>1, ConstantFacts DEF SegmentFits
    <2>5. TokenCount(text(i), leaf(i)) \in 1 .. Maximum
      BY <2>3, <2>4
    <2> QED
      BY <2>2, <2>5
  <1>5. ASSUME NEW i \in 1 .. N
        PROVE  /\ chunks[i].spans = {UnitSpan(unitOf[i], leaf(i))}
               /\ chunks[i].tokens = TokenCount(text(i), leaf(i))
               /\ chunks[i].window = leaf(i).fallback
               /\ strategy # "structure" =>
                     /\ \A c \in chunks[i].context : c.unit = unitOf[i]
                     /\ \E c \in chunks[i].context : c.start <= leaf(i).start /\ leaf(i).end <= c.end
    BY <1>1, <1>3 DEF IsLeafChunk
  <1>6. ASSUME NEW i \in 1 .. N
        PROVE  /\ SpanOf(i).unit = unitOf[i]
               /\ SpanOf(i).start = leaf(i).start /\ SpanOf(i).end = leaf(i).end
               /\ TokensOf(i) = {<<unitOf[i], j>> : j \in TokensIn(text(i), leaf(i))}
    BY <1>5, SingleSpan
  <1>7. \A u, r : UnitSpan(u, r).unit = u /\ UnitSpan(u, r).start = r.start /\ UnitSpan(u, r).end = r.end
    BY DEF UnitSpan
  <1>8. Eligible
    <2> SUFFICES ASSUME NEW i \in 1 .. N
                 PROVE  /\ chunks[i].spans # {}
                        /\ \A c \in chunks[i].spans : ValidSpan(c)
                        /\ Cardinality({c.unit : c \in chunks[i].spans}) = 1
      BY <1>1 DEF Eligible
    <2> DEFINE c == UnitSpan(unitOf[i], leaf(i))
    <2>1. chunks[i].spans = {c} /\ c.unit = unitOf[i] /\ c.start = leaf(i).start /\ c.end = leaf(i).end
      BY <1>5, <1>7
    <2> HIDE DEF c
    <2>2. ValidSpan(c)
      BY <1>4, <2>1 DEF ValidSpan
    <2>3. {b.unit : b \in chunks[i].spans} = {unitOf[i]}
      BY <2>1
    <2>4. Cardinality({unitOf[i]}) = 1
      BY FS_Singleton
    <2> QED
      BY <2>1, <2>2, <2>3, <2>4
  <1>9. ASSUME NEW u \in Sections(d)
        PROVE  Covered(u) = TokensIn(TextOf(u), Whole(d, u))
    <2>1. IsText(TextOf(u))
      BY <1>2, <1>3, DocumentFacts
    <2>2. Whole(d, u).start = 0 /\ Whole(d, u).end = Len(TextOf(u)) /\ Len(TextOf(u)) \in Nat
      BY <2>1 DEF Whole, Span, TextOf, IsText
    <2>3. ASSUME NEW j \in Covered(u) PROVE j \in TokensIn(TextOf(u), Whole(d, u))
      <3>1. PICK i \in DOMAIN chunks : \E c \in chunks[i].spans :
                    c.unit = u /\ j \in TokensIn(TextOf(u), c)
        BY CoveredFacts
      <3>2. i \in 1 .. N
        BY <1>1, <3>1
      <3>3. unitOf[i] = u /\ j \in TokensIn(TextOf(u), UnitSpan(u, leaf(i)))
        BY <1>5, <1>7, <3>1, <3>2
      <3>4. j \in TokensIn(TextOf(u), leaf(i))
        BY <1>7, <3>3 DEF TokensIn
      <3>5. IsIn(leaf(i), Whole(d, u))
        BY <1>4, <2>2, <3>2, <3>3 DEF IsIn
      <3> DEFINE r == leaf(i)
                 w == Whole(d, u)
      <3>6. r.start \in Nat /\ r.end \in Nat /\ w.start \in Nat /\ w.end \in Nat /\ IsIn(r, w)
        BY <1>4, <2>2, <3>2, <3>5
      <3> HIDE DEF r, w
      <3>7. TokensIn(TextOf(u), r) \subseteq TokensIn(TextOf(u), w)
        BY <3>6, WiderSpan
      <3> QED
        BY <3>4, <3>7 DEF r, w
    <2>4. ASSUME NEW j \in TokensIn(TextOf(u), Whole(d, u)) PROVE j \in Covered(u)
      <3>1. PICK i \in 1 .. N : unitOf[i] = u /\ j \in TokensIn(TextOf(u), leaf(i))
        BY <1>1
      <3>2. j \in TokensIn(TextOf(u), UnitSpan(u, leaf(i)))
        BY <1>7, <3>1 DEF TokensIn
      <3>3. UnitSpan(u, leaf(i)) \in chunks[i].spans /\ i \in DOMAIN chunks
        BY <1>1, <1>5, <3>1
      <3> QED
        BY <1>7, <3>2, <3>3, CoveredFacts
    <2> QED
      BY <2>3, <2>4
  <1>10. NothingIsLost
    <2>1. \A i \in DOMAIN chunks : chunks[i].tokens \in 1 .. Maximum
      BY <1>1, <1>4, <1>5
    <2> QED
      BY <1>2, <1>8, <1>9, <2>1, NothingIsLostThen
  <1>11. WindowsAdvance
    BY <1>2 DEF WindowsAdvance
  <1>12. ContextIsOwn
    <2> SUFFICES ASSUME strategy # "structure", NEW i \in 1 .. N
                 PROVE  /\ \A c \in chunks[i].context : c.unit = SpanOf(i).unit
                        /\ \E c \in chunks[i].context :
                              c.start <= SpanOf(i).start /\ SpanOf(i).end <= c.end
      BY <1>1 DEF ContextIsOwn
    <2> QED
      BY <1>5, <1>6
  <1>13. ASSUME NEW i \in 1 .. N, i + 1 <= N, unitOf[i] = unitOf[i + 1]
         PROVE  LET both == Span(SpanOf(i).start, SpanOf(i + 1).end)
                    shared == Cardinality(TokensOf(i) \cap TokensOf(i + 1))
                IN /\ SpanOf(i).start < SpanOf(i + 1).start /\ SpanOf(i).end < SpanOf(i + 1).end
                   /\ IF chunks[i].window /\ chunks[i + 1].window
                      THEN shared \in {0, Maximum - Step} /\ (shared > 0 => chunks[i].tokens = Maximum)
                      ELSE shared = 0
                   /\ \/ chunks[i].window \/ chunks[i + 1].window
                      \/ chunks[i].tokens >= TargetTokens
                      \/ TokenCount(TextOf(SpanOf(i).unit), both) > Maximum
    <2> DEFINE u == unitOf[i]
               r == leaf(i)
               q == leaf(i + 1)
               T == TokensIn(TextOf(u), r) \cap TokensIn(TextOf(u), q)
               shared == Cardinality(TokensOf(i) \cap TokensOf(i + 1))
    <2>1. i + 1 \in 1 .. N
      BY <1>1, <1>13
    <2>2. Follows(TextOf(u), r, q)
      BY <1>1, <1>13
    <2>3. /\ SpanOf(i).unit = u /\ SpanOf(i).start = r.start /\ SpanOf(i).end = r.end
          /\ SpanOf(i + 1).start = q.start /\ SpanOf(i + 1).end = q.end
          /\ chunks[i].window = r.fallback /\ chunks[i + 1].window = q.fallback
          /\ chunks[i].tokens = TokenCount(TextOf(u), r)
          /\ TokensOf(i) = {<<u, j>> : j \in TokensIn(TextOf(u), r)}
          /\ TokensOf(i + 1) = {<<u, j>> : j \in TokensIn(TextOf(u), q)}
      BY <1>5, <1>6, <1>13, <2>1
    <2>4. r.start \in Nat /\ r.end \in Nat /\ q.start \in Nat /\ q.end \in Nat
      BY <1>4, <2>1
    <2> HIDE DEF u, r, q
    <2>5. IsFiniteSet(T)
      <3>1. IsFiniteSet(TokensIn(TextOf(u), r))
        BY <2>4, TokenFacts
      <3> QED
        BY <3>1, FS_Subset
    <2>6. TokensOf(i) \cap TokensOf(i + 1) = {<<u, j>> : j \in T}
      BY <2>3
    <2>7. shared = SharedTokens(TextOf(u), r, q)
      <3>1. Cardinality({<<u, j>> : j \in T}) = Cardinality(T)
        BY <2>5, PairedCount
      <3> QED
        BY <2>6, <3>1 DEF SharedTokens
    <2>8. r.end <= q.start => SharedTokens(TextOf(u), r, q) = 0
      BY <2>4, ApartSpans, FS_EmptySet DEF SharedTokens
    <2> HIDE DEF shared, T
    <2>9. IF r.fallback /\ q.fallback
          THEN shared \in {0, Maximum - Step} /\ (shared > 0 => TokenCount(TextOf(u), r) = Maximum)
          ELSE shared = 0
      BY <2>2, <2>7, <2>8 DEF Follows, WindowsMeet
    <2>10. /\ r.start < q.start /\ r.end < q.end
           /\ \/ r.fallback \/ q.fallback
              \/ TokenCount(TextOf(u), r) >= TargetTokens
              \/ TokenCount(TextOf(u), Span(r.start, q.end)) > Maximum
      BY <2>2 DEF Follows
    <2> QED
      BY <2>3, <2>9, <2>10 DEF shared
  <1>14. NothingIsSplitInVain
    <2> SUFFICES ASSUME NEW i \in 1 .. N, i + 1 \in 1 .. N, SpanOf(i).unit = SpanOf(i + 1).unit
                 PROVE  i + 1 <= N /\ unitOf[i] = unitOf[i + 1]
      BY <1>1, <1>13 DEF NothingIsSplitInVain
    <2> QED
      BY <1>1, <1>6
  <1> QED
    BY <1>10, <1>11, <1>12, <1>14 DEF ChunksAreSound

(***************************************************************************)
(* Fixed windows: the stream that the sections are joined into.            *)
(***************************************************************************)
SectionCount(d) == Cardinality(Sections(d))
SectionLength(d, n) == Len(SectionText(d, n))

LEMMA SectionFacts ==
  ASSUME NEW d \in ChunkDocuments
  PROVE  /\ SectionCount(d) \in Nat
         /\ OrderedSections(d) \in [1 .. SectionCount(d) -> Sections(d)]
         /\ \A u \in Sections(d) : \E n \in 1 .. SectionCount(d) : OrderedSections(d)[n] = u
         /\ \A m, n \in 1 .. SectionCount(d) : OrderedSections(d)[m] = OrderedSections(d)[n] => m = n
         /\ \A n \in 1 .. SectionCount(d) : /\ SectionText(d, n) \in Seq(STRING)
                                            /\ SectionLength(d, n) \in Nat
                                            /\ SectionText(d, n) = UnitText(d, OrderedSections(d)[n])
  <1> DEFINE order == OrderedSections(d)
             N == SectionCount(d)
  <1>1. /\ Sections(d) \in SUBSET Nat /\ IsFiniteSet(Sections(d))
        /\ Sections(d) \subseteq DOMAIN d.units
        /\ \A u \in DOMAIN d.units : IsText(UnitText(d, u))
    BY DocumentFacts
  <1>2. /\ N \in Nat /\ order \in [1 .. N -> Sections(d)]
        /\ \A u \in Sections(d) : \E n \in 1 .. N : order[n] = u
        /\ \A m, n \in 1 .. N : m < n <=> order[m] < order[n]
    BY <1>1, AscendingFacts DEF OrderedSections, SectionCount
  <1> HIDE DEF order, N
  <1>3. ASSUME NEW m \in 1 .. N, NEW n \in 1 .. N, order[m] = order[n]
        PROVE  m = n
    <2>1. order[m] \in Nat
      BY <1>1, <1>2
    <2>2. ~(m < n) /\ ~(n < m)
      BY <1>2, <1>3, <2>1
    <2> QED
      BY <1>2, <2>2
  <1>4. ASSUME NEW n \in 1 .. N
        PROVE  /\ SectionText(d, n) \in Seq(STRING) /\ SectionLength(d, n) \in Nat
               /\ SectionText(d, n) = UnitText(d, order[n])
    <2>1. order[n] \in Sections(d)
      BY <1>2
    <2>2. SectionText(d, n) = UnitText(d, order[n])
      BY DEF SectionText, UnitText, order
    <2>3. IsText(SectionText(d, n))
      BY <1>1, <2>1, <2>2
    <2>4. SectionText(d, n) \in Seq(STRING)
      BY <2>3 DEF IsText
    <2> QED
      BY <2>2, <2>4 DEF SectionLength
  <1> QED
    BY <1>2, <1>3, <1>4 DEF order, N

(* Where the sections begin, and what the first of them come to, as Begins *)
(* and Stream have them.                                                   *)
Beginnings(d) ==
    CHOOSE begins : begins = [n \in 1 .. Cardinality(Sections(d)) |->
        IF n = 1 THEN 0 ELSE begins[n - 1] + Len(SectionText(d, n - 1)) + 1]
Joinings(d) ==
    CHOOSE joined : joined = [n \in 0 .. Cardinality(Sections(d)) |->
        IF n = 0 THEN <<>>
        ELSE joined[n - 1] \o (IF n = 1 THEN <<>> ELSE <<"\n">>) \o SectionText(d, n)]

LEMMA BeginsFacts ==
  ASSUME NEW d \in ChunkDocuments
  PROVE  LET N == SectionCount(d) begins == Begins(d) IN
         /\ \A n \in 1 .. N : begins[n] \in Nat
         /\ 1 <= N => begins[1] = 0
         /\ \A n \in 1 .. N : n # 1 => begins[n] = begins[n - 1] + SectionLength(d, n - 1) + 1
  <1> DEFINE N == SectionCount(d)
             len(n) == SectionLength(d, n)
             next == [p \in Nat \X (1 .. N) |-> IF p[2] = 1 THEN 0 ELSE p[1] + len(p[2] - 1) + 1]
             Is(g) == g = [n \in 1 .. N |-> IF n = 1 THEN 0 ELSE g[n - 1] + len(n - 1) + 1]
  <1>1. N \in Nat /\ \A n \in 1 .. N : len(n) \in Nat
    BY SectionFacts
  <1>2. \A x \in Nat : \A n \in 1 .. N : next[<<x, n>>] = IF n = 1 THEN 0 ELSE x + len(n - 1) + 1
    OBVIOUS
  <1> HIDE DEF N, next, len
  <1>3. ASSUME NEW x \in Nat, NEW n \in 1 .. N
        PROVE  next[<<x, n>>] \in Nat
    <2>1. CASE n = 1
      BY <1>2, <2>1
    <2>2. CASE n # 1
      <3>1. n - 1 \in 1 .. N
        BY <1>1, <2>2
      <3>2. len(n - 1) \in Nat
        BY <1>1, <3>1
      <3> QED
        BY <1>2, <2>2, <3>2
    <2> QED
      BY <2>1, <2>2
  <1>4. PICK f \in [0 .. N -> Nat] : f[0] = 0 /\ \A n \in 1 .. N : f[n] = next[<<f[n - 1], n>>]
    <2>1. Recurs(N, Nat, 0, next)
      BY <1>1, <1>3 DEF Recurs
    <2> QED
      BY <2>1, RecursionExists
  <1> DEFINE g == [n \in 1 .. N |-> f[n]]
  <1>5. \A n \in 1 .. N : g[n] = f[n]
    OBVIOUS
  <1>6. ASSUME NEW n \in 1 .. N
        PROVE  f[n] = IF n = 1 THEN 0 ELSE g[n - 1] + len(n - 1) + 1
    <2>1. n - 1 \in 0 .. N
      BY <1>1
    <2>2. f[n - 1] \in Nat
      BY <1>4, <2>1
    <2>3. f[n] = next[<<f[n - 1], n>>]
      BY <1>4
    <2>4. f[n] = IF n = 1 THEN 0 ELSE f[n - 1] + len(n - 1) + 1
      BY <1>2, <2>2, <2>3
    <2>5. n # 1 => n - 1 \in 1 .. N
      BY <1>1
    <2> QED
      BY <1>5, <2>4, <2>5
  <1>7. Is(g)
    <2>1. g = [n \in 1 .. N |-> IF n = 1 THEN 0 ELSE g[n - 1] + len(n - 1) + 1]
      BY <1>6
    <2> QED
      BY <2>1
  <1>8. Beginnings(d) = CHOOSE h : Is(h)
    BY DEF Beginnings, N, SectionCount, len, SectionLength
  <1>9. Begins(d) = Beginnings(d)
    BY DEF Begins, Beginnings
  <1> DEFINE begins == Begins(d)
  <1> HIDE DEF g
  <1>10. Is(begins)
    BY <1>7, <1>8, <1>9
  <1> HIDE DEF begins
  <1>11. ASSUME NEW n \in 1 .. N
         PROVE  begins[n] = IF n = 1 THEN 0 ELSE begins[n - 1] + len(n - 1) + 1
    BY <1>10
  <1> DEFINE Good == {n \in Nat : n + 1 <= N => begins[n + 1] \in Nat}
  <1>12. 0 \in Good
    <2> SUFFICES ASSUME 0 + 1 <= N PROVE begins[0 + 1] \in Nat
      OBVIOUS
    <2>1. 1 \in 1 .. N /\ 0 + 1 = 1
      BY <1>1
    <2> QED
      BY <1>11, <2>1
  <1>13. ASSUME NEW n \in Nat, n \in Good PROVE n + 1 \in Good
    <2> SUFFICES ASSUME n + 1 + 1 <= N PROVE begins[n + 1 + 1] \in Nat
      OBVIOUS
    <2>1. n + 1 + 1 \in 1 .. N /\ n + 1 + 1 # 1 /\ (n + 1 + 1) - 1 = n + 1
          /\ n + 1 \in 1 .. N /\ n + 1 <= N
      BY <1>1
    <2>2. begins[n + 1] \in Nat /\ len(n + 1) \in Nat
      BY <1>1, <1>13, <2>1
    <2>3. begins[n + 1 + 1] = begins[n + 1] + len(n + 1) + 1
      BY <1>11, <2>1
    <2> QED
      BY <2>2, <2>3
  <1> HIDE DEF Good
  <1>14. \A n \in Nat : n \in Good
    BY <1>12, <1>13, NatIsLeast
  <1>15. ASSUME NEW n \in 1 .. N PROVE begins[n] \in Nat
    <2>1. n - 1 \in Nat /\ (n - 1) + 1 <= N /\ (n - 1) + 1 = n
      BY <1>1
    <2> QED
      BY <1>14, <2>1 DEF Good
  <1>16. 1 <= N => begins[1] = 0
    <2>1. 1 <= N => 1 \in 1 .. N
      BY <1>1
    <2> QED
      BY <1>11, <2>1
  <1> QED
    BY <1>11, <1>15, <1>16 DEF N, len, begins

(* What texts are joined of, by a newline. *)
Letters == STRING \cup {"\n"}

LEMMA TextIsLetters ==
  ASSUME NEW x \in Seq(STRING)
  PROVE  x \in Seq(Letters)
  <1>1. Len(x) \in Nat /\ x \in [1 .. Len(x) -> STRING]
    OBVIOUS
  <1>2. x \in [1 .. Len(x) -> Letters]
    BY <1>1 DEF Letters
  <1> QED
    BY <1>1, <1>2

(* Joined so far: sections one after the other, with what is between them  *)
(* no token.                                                               *)
JoinedAre(d, x, n) ==
    LET begins == Begins(d) IN
    /\ x \in Seq(Letters)
    /\ n = 0 => x = <<>>
    /\ n > 0 => Len(x) = begins[n] + SectionLength(d, n)
    /\ \A m \in 1 .. n :
          /\ begins[m] + SectionLength(d, m) <= Len(x)
          /\ m < n => begins[m] + SectionLength(d, m) < begins[n]
          /\ \A j \in 1 .. SectionLength(d, m) : x[begins[m] + j] = SectionText(d, m)[j]
    /\ \A p \in 1 .. Len(x) :
          \/ IsSpace(x[p])
          \/ \E m \in 1 .. n : begins[m] < p /\ p <= begins[m] + SectionLength(d, m)

LEMMA After ==
  ASSUME NEW X, NEW x \in Seq(X), NEW y \in Seq(X)
  PROVE  LET both == x \o y IN
         /\ both \in Seq(X) /\ Len(both) = Len(x) + Len(y)
         /\ \A p \in 1 .. Len(x) : both[p] = x[p]
         /\ \A j \in 1 .. Len(y) : both[Len(x) + j] = y[j]
  OBVIOUS

(* A text with another after it, and what separates them. *)
LEMMA AfterAnother ==
  ASSUME NEW x \in Seq(Letters), NEW y \in Seq(Letters), NEW between \in Seq(Letters)
  PROVE  LET all == x \o between \o y IN
         /\ all \in Seq(Letters) /\ Len(all) = Len(x) + Len(between) + Len(y)
         /\ \A p \in 1 .. Len(x) : all[p] = x[p]
         /\ \A j \in 1 .. Len(between) : all[Len(x) + j] = between[j]
         /\ \A j \in 1 .. Len(y) : all[Len(x) + Len(between) + j] = y[j]
  <1> DEFINE front == x \o between
             all == front \o y
  <1>1. /\ front \in Seq(Letters) /\ Len(front) = Len(x) + Len(between)
        /\ \A p \in 1 .. Len(x) : front[p] = x[p]
        /\ \A j \in 1 .. Len(between) : front[Len(x) + j] = between[j]
    BY After
  <1>2. Len(x) \in Nat /\ Len(between) \in Nat /\ Len(y) \in Nat
    OBVIOUS
  <1>3. front \in Seq(Letters)
    BY <1>1
  <1> HIDE DEF front
  <1>4. /\ all \in Seq(Letters) /\ Len(all) = Len(front) + Len(y)
        /\ \A p \in 1 .. Len(front) : all[p] = front[p]
        /\ \A j \in 1 .. Len(y) : all[Len(front) + j] = y[j]
    BY <1>3, After
  <1> HIDE DEF all
  <1>5. \A p \in 1 .. Len(x) : all[p] = x[p]
    <2> SUFFICES ASSUME NEW p \in 1 .. Len(x) PROVE all[p] = x[p]
      OBVIOUS
    <2>1. p \in 1 .. Len(front)
      BY <1>1, <1>2
    <2> QED
      BY <1>1, <1>4, <2>1
  <1>6. \A j \in 1 .. Len(between) : all[Len(x) + j] = between[j]
    <2> SUFFICES ASSUME NEW j \in 1 .. Len(between) PROVE all[Len(x) + j] = between[j]
      OBVIOUS
    <2>1. Len(x) + j \in 1 .. Len(front)
      BY <1>1, <1>2
    <2> QED
      BY <1>1, <1>4, <2>1
  <1> QED
    BY <1>1, <1>4, <1>5, <1>6 DEF all, front

LEMMA JoinedStep ==
  ASSUME NEW d \in ChunkDocuments, NEW n \in Nat, n + 1 <= SectionCount(d),
         NEW x, JoinedAre(d, x, n)
  PROVE  JoinedAre(d, x \o (IF n + 1 = 1 THEN <<>> ELSE <<"\n">>) \o SectionText(d, n + 1), n + 1)
  <1> DEFINE begins == Begins(d)
             N == SectionCount(d)
             len(m) == SectionLength(d, m)
             text(m) == SectionText(d, m)
             between == IF n + 1 = 1 THEN <<>> ELSE <<"\n">>
             y == text(n + 1)
             all == x \o between \o y
  <1>1. /\ N \in Nat /\ \A m \in 1 .. N : /\ text(m) \in Seq(Letters) /\ len(m) \in Nat
                                          /\ len(m) = Len(text(m))
    BY SectionFacts, TextIsLetters DEF SectionLength
  <1>2. /\ \A m \in 1 .. N : begins[m] \in Nat
        /\ 1 <= N => begins[1] = 0
        /\ \A m \in 1 .. N : m # 1 => begins[m] = begins[m - 1] + len(m - 1) + 1
    BY BeginsFacts
  <1>3. /\ x \in Seq(Letters) /\ Len(x) \in Nat
        /\ n > 0 => Len(x) = begins[n] + len(n)
        /\ \A m \in 1 .. n : /\ begins[m] + len(m) <= Len(x)
                             /\ \A j \in 1 .. len(m) : x[begins[m] + j] = text(m)[j]
        /\ \A p \in 1 .. Len(x) :
              IsSpace(x[p]) \/ \E m \in 1 .. n : begins[m] < p /\ p <= begins[m] + len(m)
    BY DEF JoinedAre
  <1>4. n + 1 \in 1 .. N /\ n + 1 <= N /\ (n + 1) - 1 = n /\ \A m \in 1 .. n : m \in 1 .. N
    BY <1>1
  <1>5. y \in Seq(Letters) /\ Len(y) = len(n + 1) /\ len(n + 1) \in Nat
    BY <1>1, <1>4
  <1>6. /\ between \in Seq(Letters) /\ Len(between) \in Nat
        /\ Len(between) = (IF n = 0 THEN 0 ELSE 1)
        /\ \A j \in 1 .. Len(between) : IsSpace(between[j])
    <2>1. CASE n = 0
      <3>1. between = <<>>
        BY <2>1
      <3> HIDE DEF between
      <3> QED
        BY <2>1, <3>1
    <2>2. CASE n # 0
      <3>1. between = <<"\n">>
        BY <2>2
      <3>2. IsSpace("\n")
        BY Zenon DEF IsSpace
      <3>3. "\n" \in Letters
        BY DEF Letters
      <3> HIDE DEF between
      <3> QED
        BY <2>2, <3>1, <3>2, <3>3
    <2> QED
      BY <2>1, <2>2
  <1>7. n = 0 => Len(x) = 0
    <2> SUFFICES ASSUME n = 0, Len(x) # 0 PROVE FALSE
      OBVIOUS
    <2>1. n = 0 => x = <<>>
      BY DEF JoinedAre
    <2> QED
      BY <2>1
  <1> HIDE DEF begins, N, len, text, between, y
  <1>8. /\ all \in Seq(Letters) /\ Len(all) = Len(x) + Len(between) + Len(y)
        /\ \A p \in 1 .. Len(x) : all[p] = x[p]
        /\ \A j \in 1 .. Len(between) : all[Len(x) + j] = between[j]
        /\ \A j \in 1 .. Len(y) : all[Len(x) + Len(between) + j] = y[j]
    BY <1>3, <1>5, <1>6, AfterAnother
  <1> HIDE DEF all
  <1>9. begins[n + 1] = Len(x) + Len(between)
    <2>1. CASE n = 0
      <3>1. begins[n + 1] = 0
        BY <1>2, <1>4, <2>1
      <3> QED
        BY <1>6, <1>7, <2>1, <3>1
    <2>2. CASE n # 0
      <3>1. begins[n + 1] = begins[n] + len(n) + 1
        BY <1>2, <1>4, <2>2
      <3>2. Len(x) = begins[n] + len(n)
        BY <1>3, <2>2
      <3> QED
        BY <1>6, <2>2, <3>1, <3>2
    <2> QED
      BY <2>1, <2>2
  <1>10. Len(all) = begins[n + 1] + len(n + 1)
    BY <1>5, <1>8, <1>9
  <1>11. ASSUME NEW m \in 1 .. n + 1
         PROVE  /\ begins[m] + len(m) <= Len(all)
                /\ m < n + 1 => begins[m] + len(m) < begins[n + 1]
                /\ \A j \in 1 .. len(m) : all[begins[m] + j] = text(m)[j]
    <2>1. CASE m = n + 1
      <3>1. begins[m] \in Nat /\ len(m) \in Nat
        BY <1>1, <1>2, <1>4, <2>1
      <3>2. \A j \in 1 .. len(m) : all[begins[m] + j] = text(m)[j]
        BY <1>5, <1>8, <1>9, <2>1 DEF y
      <3> QED
        BY <1>10, <2>1, <3>1, <3>2
    <2>2. CASE m # n + 1
      <3>1. m \in 1 .. n /\ m \in 1 .. N /\ n # 0
        BY <1>4, <2>2
      <3>2. begins[m] \in Nat /\ len(m) \in Nat /\ begins[m] + len(m) <= Len(x)
        BY <1>1, <1>2, <1>3, <3>1
      <3>3. begins[m] + len(m) < begins[n + 1]
        BY <1>3, <1>6, <1>9, <3>1, <3>2
      <3>4. begins[m] + len(m) <= Len(all)
        BY <1>3, <1>5, <1>6, <1>8, <3>2
      <3>5. ASSUME NEW j \in 1 .. len(m) PROVE all[begins[m] + j] = text(m)[j]
        <4>1. begins[m] + j \in 1 .. Len(x)
          BY <1>3, <3>2
        <4>2. all[begins[m] + j] = x[begins[m] + j]
          BY <1>8, <4>1
        <4> QED
          BY <1>3, <3>1, <4>2
      <3> QED
        BY <3>3, <3>4, <3>5
    <2> QED
      BY <2>1, <2>2
  <1>12. ASSUME NEW p \in 1 .. Len(all)
         PROVE  IsSpace(all[p]) \/ \E m \in 1 .. n + 1 : begins[m] < p /\ p <= begins[m] + len(m)
    <2>1. CASE p \in 1 .. Len(x)
      <3>1. \A m \in 1 .. n : m \in 1 .. n + 1
        OBVIOUS
      <3> QED
        BY <1>3, <1>8, <2>1, <3>1
    <2>2. CASE p \notin 1 .. Len(x) /\ p <= begins[n + 1]
      <3>1. p - Len(x) \in 1 .. Len(between) /\ Len(x) + (p - Len(x)) = p
        BY <1>3, <1>6, <1>9, <2>2
      <3>2. all[Len(x) + (p - Len(x))] = between[p - Len(x)]
        BY <1>8, <3>1
      <3> QED
        BY <1>6, <3>1, <3>2
    <2>3. CASE p > begins[n + 1]
      <3>1. n + 1 \in 1 .. n + 1
        OBVIOUS
      <3>2. p <= begins[n + 1] + len(n + 1)
        BY <1>10
      <3> QED
        BY <2>3, <3>1, <3>2
    <2>4. begins[n + 1] \in Nat
      BY <1>2, <1>4
    <2> QED
      BY <2>1, <2>2, <2>3, <2>4
  <1>13. JoinedAre(d, all, n + 1)
    BY <1>8, <1>10, <1>11, <1>12 DEF JoinedAre, begins, len, text
  <1> QED
    BY <1>13 DEF all, between, y, text

LEMMA JoiningsFacts ==
  ASSUME NEW d \in ChunkDocuments
  PROVE  LET N == SectionCount(d) IN
         /\ Stream(d) = Joinings(d)[N]
         /\ \A n \in 0 .. N : JoinedAre(d, Joinings(d)[n], n)
  <1> DEFINE N == SectionCount(d)
             joined == Joinings(d)
             text(n) == SectionText(d, n)
             between(n) == IF n = 1 THEN <<>> ELSE <<"\n">>
             more(x, n) == x \o between(n) \o text(n)
             X == Seq(Letters)
             first == <<>>
             next == [p \in X \X (1 .. N) |-> more(p[1], p[2])]
             Is(g) == g = [n \in 0 .. N |-> IF n = 0 THEN <<>> ELSE more(g[n - 1], n)]
  <1>1. N \in Nat /\ \A n \in 1 .. N : text(n) \in X
    BY SectionFacts, TextIsLetters
  <1>2. \A x \in X : \A n \in 1 .. N : next[<<x, n>>] = more(x, n)
    OBVIOUS
  <1>3. \A n : between(n) \in X
    <2>1. <<>> \in X /\ <<"\n">> \in X
      BY DEF Letters
    <2> QED
      BY <2>1
  <1>4. first \in X
    OBVIOUS
  <1>5. Stream(d) = joined[N]
    BY DEF Stream, Joinings, SectionCount
  <1>6. joined = CHOOSE h : Is(h)
    BY DEF Joinings, SectionCount
  <1> HIDE DEF N, joined, text, between, next, first
  <1>7. ASSUME NEW x \in X, NEW n \in 1 .. N
        PROVE  next[<<x, n>>] \in X
    <2>1. text(n) \in X /\ between(n) \in X
      BY <1>1, <1>3
    <2>2. more(x, n) \in X
      BY <2>1, AfterAnother
    <2> HIDE DEF more
    <2> QED
      BY <1>2, <2>2
  <1> HIDE DEF more, X
  <1>8. PICK f \in [0 .. N -> X] : f[0] = first /\ \A n \in 1 .. N : f[n] = next[<<f[n - 1], n>>]
    <2>1. Recurs(N, X, first, next)
      BY <1>1, <1>4, <1>7 DEF Recurs
    <2> QED
      BY <2>1, RecursionExists
  <1>9. \A n \in 0 .. N : f[n] = IF n = 0 THEN <<>> ELSE more(f[n - 1], n)
    <2> SUFFICES ASSUME NEW n \in 0 .. N, n # 0
                 PROVE  f[n] = more(f[n - 1], n)
      BY <1>8 DEF first
    <2>1. n \in 1 .. N /\ n - 1 \in 0 .. N
      BY <1>1
    <2>2. f[n - 1] \in X
      BY <1>8, <2>1
    <2> QED
      BY <1>2, <1>8, <2>1, <2>2
  <1>10. Is(f)
    BY <1>8, <1>9
  <1>11. Is(joined)
    BY <1>6, <1>10
  <1>12. joined[0] = <<>>
    BY <1>1, <1>11
  <1>13. ASSUME NEW n \in 1 .. N
         PROVE  joined[n] = more(joined[n - 1], n)
    <2>1. n \in 0 .. N /\ n # 0
      BY <1>1
    <2> QED
      BY <1>11, <2>1
  <1> DEFINE Good == {n \in Nat : n <= N => JoinedAre(d, joined[n], n)}
  <1>14. 0 \in Good
    <2>1. <<>> \in Seq(Letters) /\ Len(<<>>) = 0 /\ 1 .. 0 = {}
      OBVIOUS
    <2>2. JoinedAre(d, <<>>, 0)
      BY <2>1 DEF JoinedAre
    <2> QED
      BY <1>12, <2>2
  <1>15. ASSUME NEW n \in Nat, n \in Good
         PROVE  n + 1 \in Good
    <2> SUFFICES ASSUME n + 1 <= N
                 PROVE  JoinedAre(d, joined[n + 1], n + 1)
      OBVIOUS
    <2>1. n <= N /\ n + 1 \in 1 .. N /\ (n + 1) - 1 = n
      BY <1>1
    <2>2. JoinedAre(d, joined[n], n)
      BY <1>15, <2>1
    <2>3. joined[n + 1] = more(joined[n], n + 1)
      BY <1>13, <2>1
    <2>4. n + 1 <= SectionCount(d)
      BY DEF N
    <2>5. JoinedAre(d, more(joined[n], n + 1), n + 1)
      BY <2>2, <2>4, JoinedStep DEF more, between, text
    <2> QED
      BY <2>3, <2>5
  <1> HIDE DEF Good
  <1>16. \A n \in Nat : n \in Good
    BY <1>14, <1>15, NatIsLeast
  <1>17. \A n \in 0 .. N : JoinedAre(d, joined[n], n)
    BY <1>1, <1>16 DEF Good
  <1> QED
    BY <1>5, <1>17 DEF N, joined

(* A position of the stream that is in a section, with its offset in it. *)
IsAt(d, p, n) == Begins(d)[n] <= p /\ p < Begins(d)[n] + SectionLength(d, n)

LEMMA StreamFacts ==
  ASSUME NEW d \in ChunkDocuments
  PROVE  LET N == SectionCount(d)
             at(n) == Begins(d)[n]
             len(n) == SectionLength(d, n)
             text == Stream(d)
         IN /\ N \in Nat /\ Len(text) \in Nat
            /\ \A n \in 1 .. N :
                  /\ at(n) \in Nat /\ len(n) \in Nat /\ at(n) + len(n) <= Len(text)
                  /\ \A j \in Nat : j < len(n) => Char(text, at(n) + j) = Char(SectionText(d, n), j)
            /\ \A m, n \in 1 .. N : m < n => at(m) + len(m) < at(n)
            /\ \A p \in Nat : p < Len(text) =>
                  IsSpace(Char(text, p)) \/ \E n \in 1 .. N : IsAt(d, p, n)
  <1> DEFINE N == SectionCount(d)
             at(n) == Begins(d)[n]
             len(n) == SectionLength(d, n)
             text == Stream(d)
  <1>1. N \in Nat /\ \A n \in 1 .. N : at(n) \in Nat /\ len(n) \in Nat
    BY SectionFacts, BeginsFacts
  <1>2. text = Joinings(d)[N] /\ \A n \in 0 .. N : JoinedAre(d, Joinings(d)[n], n)
    BY JoiningsFacts
  <1>3. \A p, n : IsAt(d, p, n) <=> at(n) <= p /\ p < at(n) + len(n)
    BY DEF IsAt
  <1>4. JoinedAre(d, text, N)
    BY <1>1, <1>2
  <1>5. /\ text \in Seq(Letters) /\ Len(text) \in Nat
        /\ \A n \in 1 .. N : /\ at(n) + len(n) <= Len(text)
                             /\ \A j \in 1 .. len(n) : text[at(n) + j] = SectionText(d, n)[j]
        /\ \A p \in 1 .. Len(text) :
              IsSpace(text[p]) \/ \E m \in 1 .. N : at(m) < p /\ p <= at(m) + len(m)
    BY <1>4 DEF JoinedAre
  <1>6. ASSUME NEW m \in 1 .. N, NEW n \in 1 .. N, m < n
        PROVE  at(m) + len(m) < at(n)
    <2>1. n \in 0 .. N /\ m \in 1 .. n
      BY <1>1, <1>6
    <2>2. JoinedAre(d, Joinings(d)[n], n)
      BY <1>2, <2>1
    <2> QED
      BY <1>6, <2>1, <2>2 DEF JoinedAre
  <1> HIDE DEF N, at, len, text
  <1>7. ASSUME NEW n \in 1 .. N, NEW j \in Nat, j < len(n)
        PROVE  Char(text, at(n) + j) = Char(SectionText(d, n), j)
    <2>1. j + 1 \in 1 .. len(n) /\ (at(n) + j) + 1 = at(n) + (j + 1)
      BY <1>1, <1>7
    <2>2. text[at(n) + (j + 1)] = SectionText(d, n)[j + 1]
      BY <1>5, <2>1
    <2> QED
      BY <2>1, <2>2 DEF Char
  <1>8. ASSUME NEW p \in Nat, p < Len(text)
        PROVE  IsSpace(Char(text, p)) \/ \E n \in 1 .. N : IsAt(d, p, n)
    <2>1. p + 1 \in 1 .. Len(text)
      BY <1>5, <1>8
    <2>2. CASE IsSpace(text[p + 1])
      BY <2>2 DEF Char
    <2>3. CASE \E n \in 1 .. N : at(n) < p + 1 /\ p + 1 <= at(n) + len(n)
      <3>1. PICK n \in 1 .. N : at(n) < p + 1 /\ p + 1 <= at(n) + len(n)
        BY <2>3
      <3>2. at(n) <= p /\ p < at(n) + len(n)
        BY <1>1, <3>1
      <3> QED
        BY <1>3, <3>2
    <2> QED
      BY <1>5, <2>1, <2>2, <2>3
  <1> QED
    BY <1>1, <1>5, <1>6, <1>7, <1>8 DEF N, at, len, text

(***************************************************************************)
(* A token of the stream has one place, and keeps it in a window.          *)
(***************************************************************************)
StreamSpan(d) == Span(0, Len(Stream(d)))
SectionOf(d, p) == CHOOSE n \in 1 .. SectionCount(d) : IsAt(d, p, n)
Placed(d, p) == <<OrderedSections(d)[SectionOf(d, p)], p - Begins(d)[SectionOf(d, p)]>>

LEMMA PlacedFacts ==
  ASSUME NEW d \in ChunkDocuments
  PROVE  LET N == SectionCount(d)
             tokens == TokensIn(Stream(d), StreamSpan(d))
         IN /\ \A p \in Nat : \A n \in 1 .. N : IsAt(d, p, n) => SectionOf(d, p) = n
            /\ \A p \in tokens : SectionOf(d, p) \in 1 .. N /\ IsAt(d, p, SectionOf(d, p))
            /\ \A p, q \in tokens : Placed(d, p) = Placed(d, q) => p = q
            /\ \A p : p \in tokens <=>
                         p \in Nat /\ p < Len(Stream(d)) /\ ~IsSpace(Char(Stream(d), p))
  <1> DEFINE N == SectionCount(d)
             at(n) == Begins(d)[n]
             len(n) == SectionLength(d, n)
             text == Stream(d)
             whole == StreamSpan(d)
             tokens == TokensIn(text, whole)
             sec(p) == SectionOf(d, p)
             order == OrderedSections(d)
  <1>1. /\ N \in Nat /\ Len(text) \in Nat
        /\ \A n \in 1 .. N : at(n) \in Nat /\ len(n) \in Nat
        /\ \A m, n \in 1 .. N : m < n => at(m) + len(m) < at(n)
        /\ \A p \in Nat : p < Len(text) =>
              IsSpace(Char(text, p)) \/ \E n \in 1 .. N : IsAt(d, p, n)
    BY StreamFacts
  <1>2. whole.start = 0 /\ whole.end = Len(text)
    BY DEF StreamSpan, Span
  <1>3. \A p, n : IsAt(d, p, n) <=> at(n) <= p /\ p < at(n) + len(n)
    BY DEF IsAt
  <1>4. \A m, n \in 1 .. N : order[m] = order[n] => m = n
    BY SectionFacts
  <1>5. \A p : Placed(d, p) = <<order[sec(p)], p - at(sec(p))>>
    BY DEF Placed
  <1>6. \A p : sec(p) = CHOOSE n \in 1 .. N : IsAt(d, p, n)
    BY DEF SectionOf
  <1> HIDE DEF N, at, len, text, whole, sec, order
  <1>7. \A p : p \in tokens <=> p \in Nat /\ p < Len(text) /\ ~IsSpace(Char(text, p))
    <2>1. whole.start \in Nat /\ whole.end \in Nat
      BY <1>1, <1>2
    <2>2. \A p : p \in tokens <=>
                    p \in Nat /\ whole.start <= p /\ p < whole.end /\ ~IsSpace(Char(text, p))
      BY <2>1, TokenFacts
    <2> QED
      BY <1>2, <2>2
  <1> HIDE DEF tokens
  <1>8. ASSUME NEW p \in Nat, NEW m \in 1 .. N, NEW n \in 1 .. N, IsAt(d, p, m), IsAt(d, p, n)
        PROVE  m = n
    <2>1. /\ at(n) \in Nat /\ at(m) \in Nat /\ len(m) \in Nat /\ len(n) \in Nat
          /\ at(n) <= p /\ p < at(n) + len(n) /\ at(m) <= p /\ p < at(m) + len(m)
      BY <1>1, <1>3, <1>8
    <2>2. (m < n => at(m) + len(m) < at(n)) /\ (n < m => at(n) + len(n) < at(m))
      BY <1>1
    <2>3. ~(m < n) /\ ~(n < m)
      BY <2>1, <2>2
    <2> QED
      BY <1>1, <2>3
  <1>9. ASSUME NEW p \in Nat, NEW n \in 1 .. N, IsAt(d, p, n)
        PROVE  sec(p) = n
    <2>1. sec(p) \in 1 .. N /\ IsAt(d, p, sec(p))
      BY <1>6, <1>9
    <2> QED
      BY <1>8, <1>9, <2>1
  <1>10. ASSUME NEW p \in tokens
         PROVE  sec(p) \in 1 .. N /\ IsAt(d, p, sec(p))
    <2>1. PICK n \in 1 .. N : IsAt(d, p, n)
      BY <1>1, <1>7
    <2> QED
      BY <1>6, <2>1
  <1>11. ASSUME NEW p \in tokens, NEW q \in tokens, Placed(d, p) = Placed(d, q)
         PROVE  p = q
    <2>1. order[sec(p)] = order[sec(q)] /\ p - at(sec(p)) = q - at(sec(q))
      BY <1>5, <1>11
    <2>2. sec(p) = sec(q)
      BY <1>4, <1>10, <2>1
    <2>3. at(sec(p)) \in Nat /\ p \in Nat /\ q \in Nat
      BY <1>1, <1>7, <1>10
    <2> QED
      BY <2>1, <2>2, <2>3
  <1> QED
    BY <1>7, <1>9, <1>10, <1>11 DEF N, tokens, text, whole, sec

IsWindow(d, w) ==
    /\ w.start \in Nat /\ w.end \in Nat /\ w.start < w.end
    /\ IsIn(w, StreamSpan(d)) /\ ~Blank(Stream(d), w)

(* The span of a window in a section, if it reaches it. *)
LEMMA WindowInFacts ==
  ASSUME NEW d \in ChunkDocuments, NEW w, IsWindow(d, w), NEW n \in 1 .. SectionCount(d)
  PROVE  LET span == WindowIn(d, w, n)
             begins == Begins(d)[n]
         IN /\ span.unit = OrderedSections(d)[n]
            /\ span.start \in Nat /\ span.end \in Int /\ span.end <= SectionLength(d, n)
            /\ \A j \in Nat : j < SectionLength(d, n) =>
                  (span.start <= j /\ j < span.end <=> w.start <= begins + j /\ begins + j < w.end)
  <1> DEFINE begins == Begins(d)[n]
             length == SectionLength(d, n)
             ends == begins + length
             span == WindowIn(d, w, n)
  <1>1. begins \in Nat /\ length \in Nat
    BY StreamFacts
  <1>2. w.start \in Nat /\ w.end \in Nat /\ w.start < w.end
    BY DEF IsWindow
  <1>3. /\ span.unit = OrderedSections(d)[n]
        /\ span.start = (IF w.start < begins THEN begins ELSE w.start) - begins
        /\ span.end = (IF w.end > ends THEN ends ELSE w.end) - begins
    BY DEF WindowIn, UnitSpan, Span, SectionLength
  <1> HIDE DEF begins, length, span
  <1>4. span.start \in Nat /\ span.end \in Int /\ span.end <= length
    BY <1>1, <1>2, <1>3
  <1>5. ASSUME NEW j \in Nat, j < length
        PROVE  span.start <= j /\ j < span.end <=> w.start <= begins + j /\ begins + j < w.end
    BY <1>1, <1>2, <1>3, <1>5
  <1> QED
    BY <1>3, <1>4, <1>5 DEF span, begins, length

(* The spans of a chunk hold the tokens of the window that it is made of. *)
MadeOf(d, w, chunk) ==
    /\ chunk.tokens = TokenCount(Stream(d), w)
    /\ \A c \in chunk.spans :
          /\ c.unit \in Sections(d) /\ c.start \in Nat /\ c.end \in Nat /\ c.start < c.end
          /\ c.end <= Len(UnitText(d, c.unit))
    /\ \A c \in chunk.spans : \A j \in TokensIn(UnitText(d, c.unit), c) :
          \E p \in TokensIn(Stream(d), w) : Placed(d, p) = <<c.unit, j>>
    /\ \A p \in TokensIn(Stream(d), w) : \E c \in chunk.spans :
          \E j \in TokensIn(UnitText(d, c.unit), c) : Placed(d, p) = <<c.unit, j>>

LEMMA FixedChunkFacts ==
  ASSUME NEW d \in ChunkDocuments, NEW w, IsWindow(d, w)
  PROVE  MadeOf(d, w, FixedChunk(d, w))
  <1> DEFINE chunk == FixedChunk(d, w)
             N == SectionCount(d)
             at(n) == Begins(d)[n]
             len(n) == SectionLength(d, n)
             text == Stream(d)
             sec(p) == SectionOf(d, p)
             order == OrderedSections(d)
             in(n) == WindowIn(d, w, n)
             of(n) == UnitText(d, order[n])
  <1>1. chunk.spans = {c \in {in(n) : n \in 1 .. N} : c.end > c.start}
    BY DEF FixedChunk, Chunk, SectionCount
  <1>2. chunk.tokens = TokenCount(text, w)
    BY DEF FixedChunk, Chunk
  <1>3. /\ N \in Nat /\ Len(text) \in Nat
        /\ \A n \in 1 .. N :
              /\ at(n) \in Nat /\ len(n) \in Nat /\ at(n) + len(n) <= Len(text)
              /\ \A j \in Nat : j < len(n) => Char(text, at(n) + j) = Char(SectionText(d, n), j)
    BY StreamFacts
  <1>4. \A n \in 1 .. N : /\ SectionText(d, n) = of(n) /\ len(n) = Len(of(n))
                          /\ order[n] \in Sections(d)
    BY SectionFacts DEF SectionLength
  <1>5. \A n \in 1 .. N :
           /\ in(n).unit = order[n]
           /\ in(n).start \in Nat /\ in(n).end \in Int /\ in(n).end <= len(n)
           /\ \A j \in Nat : j < len(n) =>
                 (in(n).start <= j /\ j < in(n).end <=> w.start <= at(n) + j /\ at(n) + j < w.end)
    BY WindowInFacts
  <1>6. w.start \in Nat /\ w.end \in Nat /\ w.start < w.end /\ w.end <= Len(text)
    BY DEF IsWindow, IsIn, StreamSpan, Span
  <1>7. \A p : p \in TokensIn(text, w) <=>
                  p \in Nat /\ w.start <= p /\ p < w.end /\ ~IsSpace(Char(text, p))
    BY <1>6, TokenFacts
  <1>8. /\ \A p \in Nat : \A n \in 1 .. N : IsAt(d, p, n) => sec(p) = n
        /\ \A p : p \in Nat /\ p < Len(text) /\ ~IsSpace(Char(text, p)) =>
                     sec(p) \in 1 .. N /\ IsAt(d, p, sec(p))
    BY PlacedFacts
  <1>9. \A p, n : IsAt(d, p, n) <=> at(n) <= p /\ p < at(n) + len(n)
    BY DEF IsAt
  <1>10. \A p : Placed(d, p) = <<order[sec(p)], p - at(sec(p))>>
    BY DEF Placed
  <1> HIDE DEF chunk, N, at, len, text, sec, order, in, of
  <1>11. ASSUME NEW c \in chunk.spans
         PROVE  \E n \in 1 .. N : /\ c = in(n) /\ in(n).end \in Nat /\ in(n).start < in(n).end
    <2>1. PICK n \in 1 .. N : c = in(n)
      BY <1>1
    <2>2. c.end > c.start
      BY <1>1
    <2>3. in(n).end \in Nat /\ in(n).start < in(n).end
      BY <1>5, <2>1, <2>2
    <2> QED
      BY <2>1, <2>3
  <1>12. ASSUME NEW n \in 1 .. N, in(n).end \in Nat
         PROVE  \A j : j \in TokensIn(of(n), in(n)) <=>
                          /\ j \in Nat /\ in(n).start <= j /\ j < in(n).end
                          /\ ~IsSpace(Char(text, at(n) + j))
    <2>1. in(n).start \in Nat /\ in(n).end <= len(n) /\ len(n) \in Nat
      BY <1>3, <1>5
    <2>2. \A j : j \in TokensIn(of(n), in(n)) <=>
                    j \in Nat /\ in(n).start <= j /\ j < in(n).end /\ ~IsSpace(Char(of(n), j))
      BY <1>12, <2>1, TokenFacts
    <2>3. \A j \in Nat : j < in(n).end => j < len(n)
      BY <1>12, <2>1
    <2>4. \A j \in Nat : j < in(n).end => Char(of(n), j) = Char(text, at(n) + j)
      BY <1>3, <1>4, <2>3
    <2> QED
      BY <2>2, <2>4
  <1>13. ASSUME NEW c \in chunk.spans
         PROVE  /\ c.unit \in Sections(d) /\ c.start \in Nat /\ c.end \in Nat /\ c.start < c.end
                /\ c.end <= Len(UnitText(d, c.unit))
    <2>1. PICK n \in 1 .. N : c = in(n) /\ in(n).end \in Nat /\ in(n).start < in(n).end
      BY <1>11
    <2>2. c.unit = order[n] /\ UnitText(d, c.unit) = of(n)
      BY <1>5, <2>1 DEF of
    <2> QED
      BY <1>4, <1>5, <2>1, <2>2
  <1>14. ASSUME NEW c \in chunk.spans, NEW j \in TokensIn(UnitText(d, c.unit), c)
         PROVE  \E p \in TokensIn(text, w) : Placed(d, p) = <<c.unit, j>>
    <2>1. PICK n \in 1 .. N : c = in(n) /\ in(n).end \in Nat /\ in(n).start < in(n).end
      BY <1>11
    <2>2. c.unit = order[n] /\ UnitText(d, c.unit) = of(n)
      BY <1>5, <2>1 DEF of
    <2>3. /\ j \in Nat /\ in(n).start <= j /\ j < in(n).end
          /\ ~IsSpace(Char(text, at(n) + j))
      BY <1>12, <2>1, <2>2
    <2> DEFINE p == at(n) + j
    <2>4. at(n) \in Nat /\ len(n) \in Nat /\ j < len(n) /\ p \in Nat
      BY <1>3, <1>5, <2>1, <2>3
    <2>5. w.start <= p /\ p < w.end
      BY <1>5, <2>3, <2>4
    <2>6. p \in TokensIn(text, w)
      BY <1>7, <2>3, <2>4, <2>5
    <2>7. IsAt(d, p, n)
      BY <1>9, <2>3, <2>4
    <2>8. p - at(n) = j
      BY <2>3, <2>4
    <2> HIDE DEF p
    <2>9. Placed(d, p) = <<order[n], j>>
      BY <1>8, <1>10, <2>4, <2>7, <2>8
    <2> QED
      BY <2>2, <2>6, <2>9
  <1>15. ASSUME NEW p \in TokensIn(text, w)
         PROVE  \E c \in chunk.spans :
                   \E j \in TokensIn(UnitText(d, c.unit), c) : Placed(d, p) = <<c.unit, j>>
    <2>1. p \in Nat /\ w.start <= p /\ p < w.end /\ p < Len(text) /\ ~IsSpace(Char(text, p))
      BY <1>3, <1>6, <1>7
    <2> DEFINE n == sec(p)
               j == p - at(n)
    <2>2. n \in 1 .. N /\ at(n) <= p /\ p < at(n) + len(n)
      BY <1>8, <1>9, <2>1
    <2>3. Placed(d, p) = <<order[n], j>>
      BY <1>10
    <2> HIDE DEF n
    <2>4. at(n) \in Nat /\ len(n) \in Nat
      BY <1>3, <2>2
    <2>5. j \in Nat /\ j < len(n) /\ at(n) + j = p
      BY <2>1, <2>2, <2>4
    <2> HIDE DEF j
    <2>6. in(n).start <= j /\ j < in(n).end
      BY <1>5, <2>1, <2>2, <2>5
    <2>7. in(n).start \in Nat /\ in(n).end \in Int
      BY <1>5, <2>2
    <2>8. in(n).end \in Nat /\ in(n).end > in(n).start
      BY <2>5, <2>6, <2>7
    <2>9. in(n) \in chunk.spans
      BY <1>1, <2>2, <2>8
    <2>10. j \in TokensIn(of(n), in(n))
      BY <1>12, <2>1, <2>2, <2>5, <2>6, <2>8
    <2>11. in(n).unit = order[n] /\ UnitText(d, in(n).unit) = of(n)
      BY <1>5, <2>2 DEF of
    <2> QED
      BY <2>3, <2>9, <2>10, <2>11
  <1> QED
    BY <1>2, <1>13, <1>14, <1>15 DEF MadeOf, chunk, text

LEMMA PlacedCount ==
  ASSUME NEW d \in ChunkDocuments, NEW P \in SUBSET TokensIn(Stream(d), StreamSpan(d)),
         IsFiniteSet(P)
  PROVE  Cardinality({Placed(d, p) : p \in P}) = Cardinality(P)
  <1> DEFINE Q == {Placed(d, p) : p \in P}
             f == [p \in P |-> Placed(d, p)]
  <1>1. \A p, q \in P : Placed(d, p) = Placed(d, q) => p = q
    BY PlacedFacts
  <1>2. f \in Bijection(P, Q)
    BY <1>1 DEF Bijection, Injection, Surjection, IsInjective
  <1> HIDE DEF f, Q
  <1>3. ExistsBijection(P, Q)
    BY <1>2 DEF ExistsBijection
  <1>4. Cardinality(Q) = Cardinality(P)
    BY <1>3, FS_Bijection
  <1> QED
    BY <1>4 DEF Q

(* The windows of the stream, in order. *)
StreamWindows(d) == InOrder(Windows(Stream(d), StreamSpan(d)))

LEMMA StreamWindowsFacts ==
  ASSUME NEW d \in ChunkDocuments
  PROVE  LET text == Stream(d)
             windows == StreamWindows(d)
         IN \E N \in Nat :
            /\ DOMAIN windows = 1 .. N
            /\ \A i \in 1 .. N :
                  /\ IsWindow(d, windows[i]) /\ TokenCount(text, windows[i]) \in 1 .. Maximum
                  /\ TokensIn(text, windows[i]) \in SUBSET TokensIn(text, StreamSpan(d))
                  /\ IsFiniteSet(TokensIn(text, windows[i]))
            /\ \A i \in 1 .. N : i + 1 \in 1 .. N =>
                  /\ TokenCount(text, windows[i]) = Maximum
                  /\ Cardinality(TokensIn(text, windows[i]) \cap TokensIn(text, windows[i + 1]))
                        = Maximum - Step
                  /\ ~(TokensIn(text, windows[i + 1]) \subseteq TokensIn(text, windows[i]))
            /\ \A p \in TokensIn(text, StreamSpan(d)) :
                  \E i \in 1 .. N : p \in TokensIn(text, windows[i])
  <1> DEFINE text == Stream(d)
             span == StreamSpan(d)
             all == Windows(text, span)
             windows == StreamWindows(d)
             N == Cardinality(all)
  <1>1. Len(text) \in Nat
    BY StreamFacts
  <1>2. span.start = 0 /\ span.end = Len(text)
    BY DEF StreamSpan, Span
  <1> HIDE DEF span
  <1>3. IsSpan(text, span)
    BY <1>1, <1>2 DEF IsSpan
  <1>4. WindowsFit(text, span, all) /\ WindowsFollow(text, all) /\ WindowsReach(text, span, all)
    BY <1>3, WindowsFacts
  <1>5. windows = InOrder(all)
    BY DEF StreamWindows, span
  <1> HIDE DEF all, windows
  <1>6. \A w \in all : /\ w.start \in Nat /\ w.end \in Nat /\ w.start < w.end
                       /\ IsIn(w, span) /\ ~Blank(text, w) /\ TokenCount(text, w) <= Maximum
    BY <1>4 DEF WindowsFit
  <1>7. \A v, w \in all :
           /\ v.start = w.start => v = w
           /\ v.start < w.start /\ (\A u \in all : ~(v.start < u.start /\ u.start < w.start)) =>
                 /\ TokenCount(text, v) = Maximum
                 /\ Cardinality(TokensIn(text, v) \cap TokensIn(text, w)) = Maximum - Step
                 /\ ~(TokensIn(text, w) \subseteq TokensIn(text, v))
    BY <1>4 DEF WindowsFollow
  <1>8. \A p \in TokensIn(text, span) : \E w \in all : p \in TokensIn(text, w)
    BY <1>4 DEF WindowsReach
  <1>9. IsFiniteSet(all)
    <2> DEFINE f == [w \in all |-> w.start]
    <2>1. f \in Injection(all, 0 .. Len(text))
      <3>1. \A w \in all : w.start \in 0 .. Len(text)
        <4> SUFFICES ASSUME NEW w \in all PROVE w.start \in 0 .. Len(text)
          OBVIOUS
        <4>1. w.start \in Nat /\ w.end \in Nat /\ w.start < w.end /\ w.end <= Len(text)
          BY <1>2, <1>6 DEF IsIn
        <4> QED
          BY <1>1, <4>1
      <3> QED
        BY <1>7, <3>1 DEF Injection, IsInjective
    <2>2. IsFiniteSet(0 .. Len(text))
      <3>1. 0 \in Int /\ Len(text) \in Int
        BY <1>1
      <3> QED
        BY <3>1, FS_Interval
    <2> HIDE DEF f
    <2> QED
      BY <2>1, <2>2, FS_Injection
  <1>10. HasStarts(all)
    BY <1>6, <1>7, <1>9 DEF HasStarts
  <1>11. /\ N \in Nat
         /\ windows \in [1 .. N -> all]
         /\ \A w \in all : \E n \in 1 .. N : windows[n] = w
         /\ \A m, n \in 1 .. N : m < n <=> windows[m].start < windows[n].start
    BY <1>5, <1>10, InOrderFacts
  <1> HIDE DEF N, text
  <1>12. ASSUME NEW i \in 1 .. N
         PROVE  /\ IsWindow(d, windows[i]) /\ TokenCount(text, windows[i]) \in 1 .. Maximum
                /\ TokensIn(text, windows[i]) \in SUBSET TokensIn(text, span)
                /\ IsFiniteSet(TokensIn(text, windows[i]))
    <2> DEFINE w == windows[i]
    <2>1. w \in all
      BY <1>11
    <2> HIDE DEF w
    <2>2. /\ w.start \in Nat /\ w.end \in Nat /\ w.start < w.end
          /\ IsIn(w, span) /\ ~Blank(text, w) /\ TokenCount(text, w) <= Maximum
      BY <1>6, <2>1
    <2>3. IsWindow(d, w)
      BY <2>2 DEF IsWindow, text, span
    <2>4. /\ TokenCount(text, w) \in Nat /\ TokenCount(text, w) > 0
          /\ IsFiniteSet(TokensIn(text, w))
      BY <2>2, TokenFacts
    <2>5. TokenCount(text, w) \in 1 .. Maximum
      BY <2>2, <2>4, ConstantFacts
    <2>6. span.start \in Nat /\ span.end \in Nat
      BY <1>1, <1>2 DEF text
    <2>7. TokensIn(text, w) \subseteq TokensIn(text, span)
      BY <2>2, <2>6, WiderSpan
    <2> QED
      BY <2>3, <2>4, <2>5, <2>7 DEF w
  <1>13. ASSUME NEW i \in 1 .. N, i + 1 \in 1 .. N
         PROVE  /\ TokenCount(text, windows[i]) = Maximum
                /\ Cardinality(TokensIn(text, windows[i]) \cap TokensIn(text, windows[i + 1]))
                      = Maximum - Step
                /\ ~(TokensIn(text, windows[i + 1]) \subseteq TokensIn(text, windows[i]))
    <2> DEFINE v == windows[i]
               w == windows[i + 1]
    <2>1. v \in all /\ w \in all
      BY <1>11, <1>13
    <2>2. v.start < w.start
      <3>1. i < i + 1
        BY <1>11
      <3> QED
        BY <1>11, <1>13, <3>1
    <2>3. \A u \in all : ~(v.start < u.start /\ u.start < w.start)
      <3> SUFFICES ASSUME NEW u \in all, v.start < u.start, u.start < w.start PROVE FALSE
        OBVIOUS
      <3>1. PICK k \in 1 .. N : windows[k] = u
        BY <1>11
      <3>2. i < k /\ k < i + 1
        BY <1>11, <1>13, <3>1
      <3> QED
        BY <1>11, <3>2
    <2> HIDE DEF v, w
    <2>4. /\ TokenCount(text, v) = Maximum
          /\ Cardinality(TokensIn(text, v) \cap TokensIn(text, w)) = Maximum - Step
          /\ ~(TokensIn(text, w) \subseteq TokensIn(text, v))
      BY <1>7, <2>1, <2>2, <2>3
    <2> QED
      BY <2>4 DEF v, w
  <1>14. ASSUME NEW p \in TokensIn(text, span)
         PROVE  \E i \in 1 .. N : p \in TokensIn(text, windows[i])
    <2>1. PICK w \in all : p \in TokensIn(text, w)
      BY <1>8
    <2> QED
      BY <1>11, <2>1
  <1>15. DOMAIN windows = 1 .. N
    BY <1>11
  <1> QED
    BY <1>11, <1>12, <1>13, <1>14, <1>15 DEF text, span, windows

(* The fixed strategy keeps what chunking promises. *)
LEMMA FixedIsSound ==
  ASSUME chunkDocument \in ChunkDocuments, strategy = "fixed",
         chunks = FixedChunks(chunkDocument)
  PROVE  ChunksAreSound
  <1> DEFINE d == chunkDocument
             text == Stream(d)
             span == StreamSpan(d)
             windows == StreamWindows(d)
             in(i) == TokensIn(text, windows[i])
             placed(P) == {Placed(d, p) : p \in P}
  <1>1. PICK N \in Nat :
           /\ DOMAIN windows = 1 .. N
           /\ \A i \in 1 .. N :
                 /\ IsWindow(d, windows[i]) /\ TokenCount(text, windows[i]) \in 1 .. Maximum
                 /\ in(i) \in SUBSET TokensIn(text, span)
                 /\ IsFiniteSet(in(i))
           /\ \A i \in 1 .. N : i + 1 \in 1 .. N =>
                 /\ TokenCount(text, windows[i]) = Maximum
                 /\ Cardinality(in(i) \cap in(i + 1)) = Maximum - Step
                 /\ ~(in(i + 1) \subseteq in(i))
           /\ \A p \in TokensIn(text, span) : \E i \in 1 .. N : p \in in(i)
    BY StreamWindowsFacts
  <1>2. \A u : UnitText(d, u) = TextOf(u)
    BY DEF UnitText, TextOf
  <1>3. chunks = [n \in DOMAIN windows |-> FixedChunk(d, windows[n])]
    BY DEF FixedChunks, StreamWindows, StreamSpan
  <1> HIDE DEF text, span, windows
  <1>4. DOMAIN chunks = 1 .. N /\ \A i \in 1 .. N : chunks[i] = FixedChunk(d, windows[i])
    BY <1>1, <1>3
  <1>5. ASSUME NEW i \in 1 .. N
        PROVE  /\ chunks[i].tokens = TokenCount(text, windows[i])
               /\ \A c \in chunks[i].spans :
                     /\ c.unit \in Sections(d) /\ c.start \in Nat /\ c.end \in Nat
                     /\ c.start < c.end /\ c.end <= Len(TextOf(c.unit))
               /\ \A c \in chunks[i].spans : \A j \in TokensIn(TextOf(c.unit), c) :
                     \E p \in in(i) : Placed(d, p) = <<c.unit, j>>
               /\ \A p \in in(i) : \E c \in chunks[i].spans :
                     \E j \in TokensIn(TextOf(c.unit), c) : Placed(d, p) = <<c.unit, j>>
    <2>1. IsWindow(d, windows[i]) /\ chunks[i] = FixedChunk(d, windows[i])
      BY <1>1, <1>4
    <2>2. MadeOf(d, windows[i], FixedChunk(d, windows[i]))
      BY <2>1, FixedChunkFacts
    <2>3. MadeOf(d, windows[i], chunks[i])
      BY <2>1, <2>2
    <2> DEFINE spans == chunks[i].spans
    <2>4. \A u : TextOf(u) = UnitText(d, u)
      BY <1>2
    <2>5. chunks[i].tokens = TokenCount(text, windows[i])
      BY <2>3 DEF MadeOf, text
    <2>6. \A c \in spans : /\ c.unit \in Sections(d) /\ c.start \in Nat /\ c.end \in Nat
                           /\ c.start < c.end /\ c.end <= Len(TextOf(c.unit))
      BY <2>3, <2>4 DEF MadeOf
    <2>7. \A c \in spans : \A j \in TokensIn(TextOf(c.unit), c) :
             \E p \in in(i) : Placed(d, p) = <<c.unit, j>>
      BY <2>3, <2>4 DEF MadeOf, text
    <2>8. \A p \in in(i) : \E c \in spans :
             \E j \in TokensIn(TextOf(c.unit), c) : Placed(d, p) = <<c.unit, j>>
      <3> SUFFICES ASSUME NEW p \in in(i)
                   PROVE  \E c \in spans :
                             \E j \in TokensIn(TextOf(c.unit), c) : Placed(d, p) = <<c.unit, j>>
        OBVIOUS
      <3>1. p \in TokensIn(Stream(d), windows[i])
        BY DEF text
      <3>2. PICK c \in spans :
               \E j \in TokensIn(UnitText(d, c.unit), c) : Placed(d, p) = <<c.unit, j>>
        BY <2>3, <3>1 DEF MadeOf
      <3>3. TextOf(c.unit) = UnitText(d, c.unit)
        BY <2>4
      <3> QED
        BY <3>2, <3>3
    <2> QED
      BY <2>5, <2>6, <2>7, <2>8
  <1>6. ASSUME NEW i \in 1 .. N
        PROVE  TokensOf(i) = placed(in(i))
    <2>1. ASSUME NEW x \in TokensOf(i) PROVE x \in placed(in(i))
      <3>1. PICK c \in chunks[i].spans : x \in {<<c.unit, j>> : j \in TokensIn(TextOf(c.unit), c)}
        BY DEF TokensOf
      <3>2. PICK j \in TokensIn(TextOf(c.unit), c) : x = <<c.unit, j>>
        BY <3>1
      <3>3. PICK p \in in(i) : Placed(d, p) = <<c.unit, j>>
        BY <1>5
      <3> QED
        BY <3>2, <3>3
    <2>2. ASSUME NEW p \in in(i) PROVE Placed(d, p) \in TokensOf(i)
      <3>1. PICK c \in chunks[i].spans :
               \E j \in TokensIn(TextOf(c.unit), c) : Placed(d, p) = <<c.unit, j>>
        BY <1>5
      <3>2. Placed(d, p) \in {<<c.unit, j>> : j \in TokensIn(TextOf(c.unit), c)}
        BY <3>1
      <3> QED
        BY <3>2 DEF TokensOf
    <2> QED
      BY <2>1, <2>2
  <1>7. Eligible
    <2> SUFFICES ASSUME NEW i \in 1 .. N
                 PROVE  chunks[i].spans # {} /\ \A c \in chunks[i].spans : ValidSpan(c)
      BY <1>4 DEF Eligible
    <2>1. in(i) # {}
      BY <1>1 DEF IsWindow, Blank, text
    <2>2. chunks[i].spans # {}
      BY <1>5, <2>1
    <2>3. \A c \in chunks[i].spans : ValidSpan(c)
      BY <1>5 DEF ValidSpan
    <2> QED
      BY <2>2, <2>3
  <1>8. ASSUME NEW u \in Sections(d)
        PROVE  Covered(u) = TokensIn(TextOf(u), Whole(d, u))
    <2>1. IsText(TextOf(u))
      BY <1>2, DocumentFacts
    <2>2. Whole(d, u).start = 0 /\ Whole(d, u).end = Len(TextOf(u)) /\ Len(TextOf(u)) \in Nat
      BY <2>1 DEF Whole, Span, TextOf, IsText
    <2>3. ASSUME NEW j \in Covered(u) PROVE j \in TokensIn(TextOf(u), Whole(d, u))
      <3>1. PICK i \in DOMAIN chunks : \E c \in chunks[i].spans :
                    c.unit = u /\ j \in TokensIn(TextOf(u), c)
        BY CoveredFacts
      <3>2. PICK c \in chunks[i].spans : c.unit = u /\ j \in TokensIn(TextOf(u), c)
        BY <3>1
      <3>3. i \in 1 .. N
        BY <1>4
      <3>4. c.start \in Nat /\ c.end \in Nat /\ c.start < c.end /\ c.end <= Len(TextOf(u))
        BY <1>5, <3>2, <3>3
      <3> DEFINE w == Whole(d, u)
      <3>5. w.start \in Nat /\ w.end \in Nat /\ IsIn(c, w)
        BY <2>2, <3>4 DEF IsIn
      <3> HIDE DEF w
      <3>6. TokensIn(TextOf(u), c) \subseteq TokensIn(TextOf(u), w)
        BY <3>4, <3>5, WiderSpan
      <3> QED
        BY <3>2, <3>6 DEF w
    <2>4. ASSUME NEW j \in TokensIn(TextOf(u), Whole(d, u)) PROVE j \in Covered(u)
      <3>1. PICK n \in 1 .. SectionCount(d) : OrderedSections(d)[n] = u
        BY SectionFacts
      <3>2. SectionText(d, n) = TextOf(u) /\ SectionLength(d, n) = Len(TextOf(u))
        BY <1>2, <3>1, SectionFacts DEF SectionLength
      <3>3. j \in Nat /\ j < Len(TextOf(u)) /\ ~IsSpace(Char(TextOf(u), j))
        BY <2>2, TokenFacts
      <3> DEFINE at == Begins(d)[n]
                 p == at + j
      <3>4. /\ at \in Nat /\ at + SectionLength(d, n) <= Len(text) /\ Len(text) \in Nat
            /\ Char(text, at + j) = Char(SectionText(d, n), j)
        BY <3>2, <3>3, StreamFacts DEF text
      <3>5. p \in Nat /\ p < Len(text) /\ at <= p /\ p < at + SectionLength(d, n) /\ p - at = j
        BY <2>2, <3>2, <3>3, <3>4
      <3>6. ~IsSpace(Char(text, p))
        BY <3>2, <3>3, <3>4
      <3>7. IsAt(d, p, n)
        BY <3>5 DEF IsAt
      <3> HIDE DEF p
      <3>8. SectionOf(d, p) = n /\ p \in TokensIn(text, span)
        BY <3>5, <3>6, <3>7, PlacedFacts DEF text, span
      <3>9. Placed(d, p) = <<u, j>>
        BY <3>1, <3>5, <3>8 DEF Placed
      <3>10. PICK i \in 1 .. N : p \in in(i)
        BY <1>1, <3>8
      <3>11. PICK c \in chunks[i].spans :
                \E k \in TokensIn(TextOf(c.unit), c) : Placed(d, p) = <<c.unit, k>>
        BY <1>5, <3>10
      <3>12. c.unit = u /\ j \in TokensIn(TextOf(u), c)
        BY <3>9, <3>11
      <3> QED
        BY <1>4, <3>12, CoveredFacts
    <2> QED
      BY <2>3, <2>4
  <1>9. NothingIsLost
    <2>1. \A i \in DOMAIN chunks : chunks[i].tokens \in 1 .. Maximum
      BY <1>1, <1>4, <1>5
    <2> QED
      BY <1>7, <1>8, <2>1, NothingIsLostThen
  <1>10. NothingIsSplitInVain /\ ContextIsOwn
    BY DEF NothingIsSplitInVain, ContextIsOwn
  <1>11. \A x, y \in TokensIn(text, span) : Placed(d, x) = Placed(d, y) => x = y
    BY PlacedFacts DEF text, span
  <1>12. ASSUME NEW i \in 1 .. N, i + 1 \in 1 .. N
         PROVE  /\ chunks[i].tokens = Maximum
                /\ Cardinality(TokensOf(i) \cap TokensOf(i + 1)) = Maximum - Step
                /\ ~(TokensOf(i + 1) \subseteq TokensOf(i))
    <2> DEFINE v == in(i)
               w == in(i + 1)
               both == v \cap w
    <2>1. /\ TokenCount(text, windows[i]) = Maximum
          /\ Cardinality(both) = Maximum - Step /\ ~(w \subseteq v)
          /\ v \in SUBSET TokensIn(text, span) /\ w \in SUBSET TokensIn(text, span)
          /\ IsFiniteSet(v)
      BY <1>1, <1>12
    <2>2. TokensOf(i) = placed(v) /\ TokensOf(i + 1) = placed(w)
      BY <1>6, <1>12
    <2>3. chunks[i].tokens = Maximum
      BY <1>5, <2>1
    <2> HIDE DEF v, w
    <2>4. placed(v) \cap placed(w) = placed(both)
      BY <1>11, <2>1
    <2>5. IsFiniteSet(both) /\ both \in SUBSET TokensIn(text, span)
      BY <2>1, FS_Subset
    <2> HIDE DEF both
    <2>6. Cardinality(placed(both)) = Cardinality(both)
      BY <2>5, PlacedCount DEF text, span
    <2>7. ~(placed(w) \subseteq placed(v))
      BY <1>11, <2>1
    <2> QED
      BY <2>1, <2>2, <2>3, <2>4, <2>6, <2>7
  <1>13. WindowsAdvance
    BY <1>4, <1>12 DEF WindowsAdvance
  <1> QED
    BY <1>9, <1>10, <1>13 DEF ChunksAreSound

(***************************************************************************)
(* Before a strategy is chosen there are no chunks; afterwards they are    *)
(* those of the document.                                                  *)
(***************************************************************************)
ChunkInvariant ==
    /\ chunkDocument \in ChunkDocuments
    /\ strategy \in Strategies \cup {"none"}
    /\ chunks = IF strategy = "none" THEN <<>> ELSE Chunks(chunkDocument, strategy)

(* Before there is a strategy, nothing is promised. *)
LEMMA NoneIsSound ==
  ASSUME strategy = "none"
  PROVE  ChunksAreSound
  BY DEF ChunksAreSound, NothingIsLost, NothingIsSplitInVain, WindowsAdvance, ContextIsOwn

LEMMA ChunksSoundThen ==
  ASSUME ChunkInvariant
  PROVE  ChunksAreSound
  <1>1. CASE strategy = "none"
    BY <1>1, NoneIsSound
  <1>2. CASE strategy = "fixed"
    <2>1. chunks = FixedChunks(chunkDocument)
      BY <1>2 DEF ChunkInvariant, Chunks
    <2> QED
      BY <1>2, <2>1, FixedIsSound DEF ChunkInvariant
  <1>3. CASE strategy \in Structural
    <2>1. chunkDocument \in ChunkDocuments /\ chunks = Chunks(chunkDocument, strategy)
      BY <1>3 DEF ChunkInvariant, Structural, Strategies
    <2>2. PICK N, unitOf, nthOf : IsLaidOut(chunkDocument, strategy, N, unitOf, nthOf)
      BY <1>3, <2>1, StructuralFacts
    <2>3. IsStructural(N, unitOf, nthOf)
      BY <1>3, <2>1, <2>2 DEF IsStructural
    <2> QED
      BY <2>3, StructuralIsSound
  <1> QED
    BY <1>1, <1>2, <1>3 DEF ChunkInvariant, Structural

LEMMA ChunkingStep ==
  ASSUME ChunkInvariant, [ChunkingNext]_chunkVars
  PROVE  ChunkInvariant'
  <1>1. CASE BuildChunks
    <2>1. /\ chunkDocument' \in ChunkDocuments /\ strategy' \in Strategies
          /\ chunks' = Chunks(chunkDocument, strategy') /\ chunkDocument' = chunkDocument
      BY <1>1 DEF ChunkInvariant, BuildChunks
    <2>2. strategy' # "none"
      BY <2>1 DEF Strategies
    <2>3. chunks' = Chunks(chunkDocument', strategy')
      BY <2>1
    <2> QED
      BY <2>1, <2>2, <2>3 DEF ChunkInvariant
  <1>2. CASE UNCHANGED chunkVars
    BY <1>2 DEF chunkVars, ChunkInvariant
  <1> QED
    BY <1>1, <1>2 DEF ChunkingNext

(* Whatever the document, and for windows of any size, no strategy of      *)
(* chunking/strategies.py loses a token or fails the gates of              *)
(* chunking/validation.py; structural chunks follow one another, windows   *)
(* overlap as they should, and a wider context is the leaf's own.          *)
THEOREM ChunksSound == ChunkingSpec => []ChunksAreSound
  <1>1. ChunkingInit => ChunkInvariant
    BY DEF ChunkingInit, ChunkInvariant
  <1>2. ChunkInvariant /\ [ChunkingNext]_chunkVars => ChunkInvariant'
    BY ChunkingStep
  <1>3. ChunkInvariant => ChunksAreSound
    BY ChunksSoundThen
  <1> QED
    BY <1>1, <1>2, <1>3, PTL DEF ChunkingSpec
=============================================================================
