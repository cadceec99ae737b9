--------------------------- MODULE AnsweringProofs ---------------------------
(***************************************************************************)
(* Theorems of ContextAssembly and, on top of them, of Answering: the      *)
(* context assembler's promises for every corpus, ranking, budget and      *)
(* tokenizer whose counts grow with the text; and what an answer promises  *)
(* for every policy input and model reply.                                 *)
(***************************************************************************)
EXTENDS Answering, WellFoundedInduction, TLAPS

(* Ranks of the chunks in which u was met so far. *)
MetAt(u) ==
    {r \in 1..Len(ranked) :
        \/ r < at /\ u \in Contents(ranked[r])
        \/ r = at /\ \E i \in 1..(next - 1) : u = UnitsOf[ranked[r]][i]}

(* The position lies inside the chunk being read. *)
Position ==
    /\ status = "packed" => next = 0 /\ at = Len(ranked) + 1
    /\ next # 0 => /\ at \in 1..Len(ranked)
                   /\ next \in 1..Len(UnitsOf[ranked[at]])

(* What was met is kept with every rank it was met at, or omitted because it*)
(* does not fit, and then never fits again.                                *)
KeptWhereMet == \A u \in Units : u \in Kept => ranks[u] = MetAt(u)
MetIsPlaced == \A u \in Units : MetAt(u) # {} <=> u \in Kept \/ u \in Omitted
OmittedTooLarge == \A u \in Units : u \in Omitted => ~Fits(Kept \cup {u})

IInv ==
    /\ AssemblyTypeOK
    /\ Position
    /\ WithinBudget
    /\ KeptWhereMet
    /\ MetIsPlaced
    /\ OmittedTooLarge

(* An omitted unit is not kept: with it the context would not fit. *)
LEMMA OmittedNotKept ==
    ASSUME AssemblyTypeOK, WithinBudget, OmittedTooLarge
    PROVE  \A u \in Units : u \in Omitted => u \notin Kept
<1>1. SUFFICES ASSUME NEW u \in Units, u \in Omitted, u \in Kept PROVE FALSE
  OBVIOUS
<1>2. Kept \cup {u} = Kept
  BY <1>1
<1>3. QED
  BY <1>1, <1>2 DEF OmittedTooLarge, WithinBudget, Fits

(* A ranked chunk's units form a sequence. *)
LEMMA ChunkUnits ==
    ASSUME AssemblyTypeOK, NEW r \in 1..Len(ranked)
    PROVE  /\ ranked \in Seq(Chunks)
           /\ ranked[r] \in Chunks
           /\ UnitsOf[ranked[r]] \in Seq(Units)
           /\ Len(UnitsOf[ranked[r]]) \in Nat
<1>1. PICK n \in 0..Depth : ranked \in [1..n -> Chunks]
  BY DEF AssemblyTypeOK, Rankings
<1>2. n \in Nat
  BY AssemblyAssumption
<1>3. ranked \in Seq(Chunks) /\ Len(ranked) = n
  BY <1>1, <1>2
<1>4. ranked[r] \in Chunks
  BY <1>1, <1>3
<1>5. UnitsOf[ranked[r]] \in Seq(Units)
  BY <1>4, AssemblyAssumption
<1>6. QED
  BY <1>3, <1>4, <1>5

LEMMA RankedLength ==
    ASSUME AssemblyTypeOK
    PROVE  Len(ranked) \in Nat
<1>1. PICK n \in 0..Depth : ranked \in [1..n -> Chunks]
  BY DEF AssemblyTypeOK, Rankings
<1>2. n \in Nat
  BY AssemblyAssumption
<1>3. QED
  BY <1>1, <1>2

(* Considering a unit adds the rank of this chunk to it and to nothing else. *)
LEMMA MeetsOne ==
    ASSUME IInv, NEW u \in Units, Considers(u), Advance, ranked' = ranked
    PROVE  /\ at \in 1..Len(ranked)
           /\ at' \in 1..(Len(ranked) + 1)
           /\ next' \in Nat
           /\ next' # 0 => at' = at /\ next' \in 1..Len(UnitsOf[ranked[at]])
           /\ MetAt(u)' = MetAt(u) \cup {at}
           /\ \A v \in Units : v # u => MetAt(v)' = MetAt(v)
<1>1. at \in 1..Len(ranked) /\ next \in 1..Len(UnitsOf[ranked[at]]) /\ Len(ranked) \in Nat
  BY RankedLength DEF IInv, Position, Considers
<1>2. UnitsOf[ranked[at]] \in Seq(Units) /\ Len(UnitsOf[ranked[at]]) \in Nat
  BY <1>1, ChunkUnits DEF IInv
<1>3. u = UnitsOf[ranked[at]][next]
  BY DEF Considers
<1>4. CASE next < Len(UnitsOf[ranked[at]])
  <2>1. next' = next + 1 /\ at' = at
    BY <1>4 DEF Advance
  <2>2. \A v \in Units : v # u => MetAt(v)' = MetAt(v)
    BY <2>1, <1>1, <1>2, <1>3 DEF MetAt, Contents
  <2>3. MetAt(u)' = MetAt(u) \cup {at}
    BY <2>1, <1>1, <1>2, <1>3 DEF MetAt, Contents
  <2>4. QED
    BY <2>1, <2>2, <2>3, <1>1, <1>2, <1>4
<1>5. CASE ~(next < Len(UnitsOf[ranked[at]]))
  <2>1. next' = 0 /\ at' = at + 1
    BY <1>5 DEF Advance
  <2>2. next = Len(UnitsOf[ranked[at]])
    BY <1>1, <1>2, <1>5
  <2>3. \A v \in Units : v # u => MetAt(v)' = MetAt(v)
    BY <2>1, <2>2, <1>1, <1>2, <1>3 DEF MetAt, Contents
  <2>4. MetAt(u)' = MetAt(u) \cup {at}
    BY <2>1, <2>2, <1>1, <1>2, <1>3 DEF MetAt, Contents
  <2>5. QED
    BY <2>1, <2>3, <2>4, <1>1
<1>6. QED
  BY <1>4, <1>5

LEMMA AssemblyInitial == AssemblyInit => IInv
<1>1. SUFFICES ASSUME AssemblyInit PROVE IInv
  OBVIOUS
<1>2. PICK n \in 0..Depth : ranked \in [1..n -> Chunks]
  BY <1>1 DEF AssemblyInit, Rankings
<1>3. n \in Nat /\ Len(ranked) = n
  BY <1>2, AssemblyAssumption
<1>4. Kept = {} /\ Omitted = {}
  BY <1>1 DEF AssemblyInit, Kept, Omitted
<1>5. \A u \in Units : MetAt(u) = {}
  BY <1>1, <1>3 DEF AssemblyInit, MetAt
<1>6. AssemblyTypeOK
  BY <1>1, <1>3 DEF AssemblyInit, AssemblyTypeOK
<1>7. Position
  BY <1>1 DEF AssemblyInit, Position
<1>8. WithinBudget
  BY <1>4, AssemblyAssumption DEF WithinBudget
<1>9. KeptWhereMet /\ MetIsPlaced /\ OmittedTooLarge
  BY <1>4, <1>5 DEF KeptWhereMet, MetIsPlaced, OmittedTooLarge
<1>10. QED
  BY <1>6, <1>7, <1>8, <1>9 DEF IInv

LEMMA AssemblyStep == IInv /\ [AssemblyNext]_assemblyVars => IInv'
<1> SUFFICES ASSUME IInv, [AssemblyNext]_assemblyVars PROVE IInv'
  OBVIOUS
<1> USE DEF IInv
<1>0. Len(ranked) \in Nat
  BY RankedLength
<1>1. CASE ResolveChunk
  <2>1. at' = at /\ next = 0 /\ next' = 1 /\ ranked' = ranked /\ status' = status /\ status = "scanning"
        /\ at \in 1..Len(ranked)
    BY <1>1, <1>0 DEF ResolveChunk, AssemblyTypeOK
  <2>2. Kept' = Kept /\ Omitted' = Omitted /\ ranks' = ranks /\ omission' = omission
    BY <1>1 DEF ResolveChunk, Kept, Omitted
  <2>3. \A u \in Units : MetAt(u)' = MetAt(u)
    BY <2>1 DEF MetAt, Contents
  <2>4. UnitsOf[ranked[at]] # <<>> /\ UnitsOf[ranked[at]] \in Seq(Units)
    BY <1>1, <2>1, ChunkUnits DEF ResolveChunk, Resolves
  <2>5. 1 \in 1..Len(UnitsOf[ranked[at]])
    BY <2>4
  <2>6. AssemblyTypeOK'
    BY <1>1, <2>1, <2>2 DEF ResolveChunk, AssemblyTypeOK
  <2>7. Position'
    BY <2>1, <2>5 DEF Position
  <2>8. WithinBudget' /\ KeptWhereMet' /\ MetIsPlaced' /\ OmittedTooLarge'
    BY <2>2, <2>3 DEF WithinBudget, KeptWhereMet, MetIsPlaced, OmittedTooLarge, Fits
  <2>9. QED
    BY <2>6, <2>7, <2>8
<1>2. CASE ChunkFails \/ FinishPack \/ UNCHANGED assemblyVars
  <2>1. at' = at /\ next' = next /\ ranked' = ranked /\ ranks' = ranks /\ omission' = omission
    BY <1>2 DEF ChunkFails, FinishPack, assemblyVars
  <2>2. Kept' = Kept /\ Omitted' = Omitted
    BY <2>1 DEF Kept, Omitted
  <2>3. \A u \in Units : MetAt(u)' = MetAt(u)
    BY <2>1 DEF MetAt, Contents
  <2>4. AssemblyTypeOK'
    BY <1>2, <2>1 DEF ChunkFails, FinishPack, assemblyVars, AssemblyTypeOK
  <2>5. Position'
    BY <1>0, <1>2, <2>1 DEF ChunkFails, FinishPack, assemblyVars, Position, AssemblyTypeOK
  <2>6. WithinBudget' /\ KeptWhereMet' /\ MetIsPlaced' /\ OmittedTooLarge'
    BY <2>1, <2>2, <2>3 DEF WithinBudget, KeptWhereMet, MetIsPlaced, OmittedTooLarge, Fits
  <2>7. QED
    BY <2>4, <2>5, <2>6
<1>3. ASSUME NEW u \in Units, RepeatUnit(u) PROVE IInv'
  <2>1. Considers(u) /\ Advance /\ u \in Kept /\ ranked' = ranked /\ omission' = omission
        /\ status' = status /\ status = "scanning"
        /\ ranks' = [ranks EXCEPT ![u] = @ \cup {at}]
    BY <1>3 DEF RepeatUnit, Considers
  <2>2. /\ at \in 1..Len(ranked) /\ at' \in 1..(Len(ranked) + 1) /\ next' \in Nat
        /\ next' # 0 => at' = at /\ next' \in 1..Len(UnitsOf[ranked[at]])
        /\ MetAt(u)' = MetAt(u) \cup {at}
        /\ \A v \in Units : v # u => MetAt(v)' = MetAt(v)
    BY <2>1, MeetsOne
  <2>3. ranks \in [Units -> SUBSET (1..Len(ranked))]
    BY DEF AssemblyTypeOK
  <2>4. /\ ranks'[u] = ranks[u] \cup {at}
        /\ \A v \in Units : v # u => ranks'[v] = ranks[v]
    BY <2>1, <2>3
  <2>5. Kept' = Kept /\ Omitted' = Omitted
    BY <2>1, <2>4 DEF Kept, Omitted
  <2>6. AssemblyTypeOK'
    BY <2>1, <2>2, <2>3 DEF AssemblyTypeOK
  <2>7. Position'
    BY <2>1, <2>2 DEF Position
  <2>8. KeptWhereMet'
    BY <2>1, <2>2, <2>4, <2>5 DEF KeptWhereMet
  <2>9. MetIsPlaced'
    BY <2>1, <2>2, <2>5 DEF MetIsPlaced
  <2>10. WithinBudget' /\ OmittedTooLarge'
    BY <2>5 DEF WithinBudget, OmittedTooLarge, Fits
  <2>11. QED
    BY <2>6, <2>7, <2>8, <2>9, <2>10
<1>4. ASSUME NEW u \in Units, KeepUnit(u) PROVE IInv'
  <2>1. Considers(u) /\ Advance /\ u \notin Kept /\ ranked' = ranked /\ omission' = omission
        /\ status' = status /\ status = "scanning" /\ Fits(Kept \cup {u})
        /\ ranks' = [ranks EXCEPT ![u] = {at}]
    BY <1>4 DEF KeepUnit, Considers
  <2>2. /\ at \in 1..Len(ranked) /\ at' \in 1..(Len(ranked) + 1) /\ next' \in Nat
        /\ next' # 0 => at' = at /\ next' \in 1..Len(UnitsOf[ranked[at]])
        /\ MetAt(u)' = MetAt(u) \cup {at}
        /\ \A v \in Units : v # u => MetAt(v)' = MetAt(v)
    BY <2>1, MeetsOne
  <2>3. ranks \in [Units -> SUBSET (1..Len(ranked))]
    BY DEF AssemblyTypeOK
  <2>4. /\ ranks'[u] = {at}
        /\ \A v \in Units : v # u => ranks'[v] = ranks[v]
    BY <2>1, <2>3
  <2>5. Kept' = Kept \cup {u} /\ Omitted' = Omitted
    BY <2>1, <2>4 DEF Kept, Omitted
  <2>6. u \notin Omitted
    BY <2>1 DEF OmittedTooLarge
  <2>7. MetAt(u) = {}
    BY <2>1, <2>6 DEF MetIsPlaced
  <2>8. AssemblyTypeOK'
    BY <2>1, <2>2, <2>3 DEF AssemblyTypeOK
  <2>9. Position'
    BY <2>1, <2>2 DEF Position
  <2>10. KeptWhereMet'
    BY <2>1, <2>2, <2>4, <2>5, <2>7 DEF KeptWhereMet
  <2>11. MetIsPlaced'
    BY <2>1, <2>2, <2>5 DEF MetIsPlaced
  <2>12. WithinBudget'
    BY <2>1, <2>5 DEF WithinBudget, Fits
  <2>13. OmittedTooLarge'
    <3>1. SUFFICES ASSUME NEW v \in Units, v \in Omitted PROVE ~Fits(Kept' \cup {v})
      BY <2>5 DEF OmittedTooLarge, Fits
    <3>2. Kept \cup {v} \in SUBSET Units /\ Kept' \cup {v} \in SUBSET Units
      BY <2>5 DEF Kept
    <3>3. Kept \cup {v} \subseteq Kept' \cup {v}
      BY <2>5
    <3>4. Tokens[Kept \cup {v}] <= Tokens[Kept' \cup {v}]
      BY <3>2, <3>3, AssemblyAssumption
    <3>5. Tokens[Kept \cup {v}] \in Nat /\ Tokens[Kept' \cup {v}] \in Nat /\ Budget \in Nat
      BY <3>2, AssemblyAssumption
    <3>6. ~(Tokens[Kept \cup {v}] <= Budget)
      BY <3>1 DEF OmittedTooLarge, Fits
    <3>7. QED
      BY <3>4, <3>5, <3>6 DEF Fits
  <2>14. QED
    BY <2>8, <2>9, <2>10, <2>11, <2>12, <2>13
<1>5. ASSUME NEW u \in Units, OmitUnit(u) PROVE IInv'
  <2>1. Considers(u) /\ Advance /\ u \notin Kept /\ ranked' = ranked /\ ranks' = ranks
        /\ status' = status /\ status = "scanning" /\ ~Fits(Kept \cup {u})
        /\ omission' = [omission EXCEPT ![u] = at]
    BY <1>5 DEF OmitUnit, Considers
  <2>2. /\ at \in 1..Len(ranked) /\ at' \in 1..(Len(ranked) + 1) /\ next' \in Nat
        /\ next' # 0 => at' = at /\ next' \in 1..Len(UnitsOf[ranked[at]])
        /\ MetAt(u)' = MetAt(u) \cup {at}
        /\ \A v \in Units : v # u => MetAt(v)' = MetAt(v)
    BY <2>1, MeetsOne
  <2>3. omission \in [Units -> 0..Len(ranked)]
    BY DEF AssemblyTypeOK
  <2>4. /\ omission'[u] = at
        /\ \A v \in Units : v # u => omission'[v] = omission[v]
    BY <2>1, <2>3
  <2>5. Kept' = Kept
    BY <2>1 DEF Kept
  <2>6. Omitted' = Omitted \cup {u}
    <3>1. at # 0
      BY <2>2, <1>0
    <3>2. QED
      BY <2>4, <3>1 DEF Omitted
  <2>7. AssemblyTypeOK'
    BY <2>1, <2>2, <2>3, <1>0 DEF AssemblyTypeOK
  <2>8. Position'
    BY <2>1, <2>2 DEF Position
  <2>9. KeptWhereMet'
    BY <2>1, <2>2, <2>5 DEF KeptWhereMet
  <2>10. MetIsPlaced'
    BY <2>2, <2>5, <2>6 DEF MetIsPlaced
  <2>11. WithinBudget'
    BY <2>5 DEF WithinBudget
  <2>12. OmittedTooLarge'
    BY <2>1, <2>5, <2>6 DEF OmittedTooLarge, Fits
  <2>13. QED
    BY <2>7, <2>8, <2>9, <2>10, <2>11, <2>12
<1>6. QED
  BY <1>1, <1>2, <1>3, <1>4, <1>5 DEF AssemblyNext

LEMMA AssemblyInvariant == AssemblySpec => []IInv
<1>1. QED
  BY AssemblyInitial, AssemblyStep, PTL DEF AssemblySpec

(* When the walk is over, what was met is all that was retrieved. *)
LEMMA PackedMetAll ==
    ASSUME IInv, status = "packed"
    PROVE  \A u \in Units : MetAt(u) = RanksOf(u)
<1>1. at = Len(ranked) + 1 /\ next = 0 /\ Len(ranked) \in Nat
  BY RankedLength DEF IInv, Position
<1>2. QED
  BY <1>1 DEF MetAt, RanksOf

(* Theorem: the assembler's state has its types. *)
THEOREM AssemblyTypeCorrect == AssemblySpec => []AssemblyTypeOK
<1>1. QED
  BY AssemblyInvariant, PTL DEF IInv

(* Theorem: the context never exceeds its budget. *)
THEOREM BudgetKept == AssemblySpec => []WithinBudget
<1>1. QED
  BY AssemblyInvariant, PTL DEF IInv

(* Theorem: every retrieved unit is kept or reported omitted, never both. *)
THEOREM UnitsPlaced == AssemblySpec => []EveryUnitPlaced
<1>1. IInv => EveryUnitPlaced
  <2>1. SUFFICES ASSUME IInv, status = "packed"
                 PROVE  Kept \cup Omitted = Retrieved /\ Kept \cap Omitted = {}
    BY DEF EveryUnitPlaced
  <2>2. \A u \in Units : MetAt(u) = RanksOf(u)
    BY <2>1, PackedMetAll
  <2>3. Kept \cup Omitted = Retrieved
    BY <2>1, <2>2 DEF IInv, MetIsPlaced, Retrieved, Kept, Omitted
  <2>4. Kept \cap Omitted = {}
    BY <2>1, OmittedNotKept DEF IInv, Kept, Omitted
  <2>5. QED
    BY <2>3, <2>4
<1>2. QED
  BY <1>1, AssemblyInvariant, PTL

(* Theorem: a kept unit's provenance is every chunk that carried it. *)
THEOREM ProvenanceIsComplete == AssemblySpec => []ProvenanceComplete
<1>1. IInv => ProvenanceComplete
  BY PackedMetAll DEF IInv, KeptWhereMet, ProvenanceComplete, Kept
<1>2. QED
  BY <1>1, AssemblyInvariant, PTL

(* Theorem: nothing is left out that the finished context has room for. *)
THEOREM NothingLeftOut == AssemblySpec => []OmittedDoesNotFit
<1>1. IInv => OmittedDoesNotFit
  <2>1. SUFFICES ASSUME IInv, NEW u \in Omitted PROVE Tokens[Kept \cup {u}] > Budget
    BY DEF OmittedDoesNotFit
  <2>2. u \in Units /\ Kept \cup {u} \in SUBSET Units
    BY DEF Omitted, Kept
  <2>3. Tokens[Kept \cup {u}] \in Nat /\ Budget \in Nat
    BY <2>2, AssemblyAssumption
  <2>4. ~(Tokens[Kept \cup {u}] <= Budget)
    BY <2>1, <2>2 DEF IInv, OmittedTooLarge, Fits
  <2>5. QED
    BY <2>3, <2>4
<1>2. QED
  BY <1>1, AssemblyInvariant, PTL

(* Theorem: the finished context is what ContextIsSound says, for every    *)
(* corpus, ranking and monotone price.                                     *)
THEOREM ContextSound == AssemblySpec => []ContextIsSound
<1>1. /\ WithinBudget /\ OmittedDoesNotFit /\ EveryUnitPlaced /\ ProvenanceComplete
      => ContextIsSound
  BY DEF ContextIsSound
<1>2. QED
  BY <1>1, BudgetKept, NothingLeftOut, UnitsPlaced, ProvenanceIsComplete, PTL
-----------------------------------------------------------------------------
(***************************************************************************)
(* Answering.                                                              *)
(***************************************************************************)

(* A finished context is needed before anything is drafted; until the end  *)
(* there is no result, and nothing is generated before the policy decided. *)
Progress ==
    /\ stage \in {"context", "drafting", "verifying", "done"}
    /\ stage \in {"drafting", "verifying"} => status = "packed"
    /\ stage # "done" => result = NoResult
    /\ stage = "context" => calls = 0
    /\ calls \in Nat
    /\ draft \subseteq Claims
    /\ result.kind \in {"none", "answer", "abstention", "error", "unavailable"}

(* A serving draft interprets nothing. *)
DraftDirect == Serving => \A k \in draft : k.mode = "direct"

EligibleSoFar == stage = "drafting" \/ calls > 0 =>
    /\ query.requested \subseteq {Active}
    /\ ~Asks("advice")
    /\ Kept # {}
    /\ query.staged /\ Asks("official") => Kept \cap Primary # {}
    /\ query.staged /\ Asks("dispositive") => Kept \cap Operative # {}

AInv ==
    /\ IInv
    /\ query \in Queries
    /\ Progress
    /\ DraftDirect
    /\ EligibleSoFar
    /\ AnswersAreGrounded

LEMMA LeastRank ==
    ASSUME NEW S \in SUBSET Nat, S # {}
    PROVE  Min(S) \in S /\ \A y \in S : Min(S) <= y
<1> DEFINE R == OpToRel(<, Nat)
<1>1. IsWellFoundedOn(R, Nat)
  BY NatLessThanWellFounded
<1>2. R = {ss \in Nat \X Nat : ss[1] < ss[2]}
  BY DEF OpToRel
<1> HIDE DEF R
<1>3. \A x, y \in Nat : <<y, x>> \in R <=> y < x
  BY <1>2
<1>4. PICK x \in S : \A y \in S : ~(<<y, x>> \in R)
  BY <1>1, WFMin
<1>5. ASSUME NEW y \in S PROVE x <= y
  <2>1. x \in Nat /\ y \in Nat
    OBVIOUS
  <2>2. ~(y < x)
    BY <1>3, <1>4, <2>1
  <2>3. QED
    BY <2>1, <2>2
<1>6. QED
  BY <1>5 DEF Min

(* In a finished context, a valid citation is verified against every chunk *)
(* that carried its unit, and cites the best of them.                      *)
LEMMA VerifiedIsBest ==
    ASSUME IInv, status = "packed", NEW c, CitationValid(c)
    PROVE  /\ Verified(c).evidence = c.evidence /\ Verified(c).quote = c.quote
           /\ c.evidence \in Kept
           /\ c.evidence \in Occurs[c.quote]
           /\ \E r \in RanksOf(c.evidence) :
                 /\ Verified(c).chunk = ranked[r]
                 /\ \A s \in RanksOf(c.evidence) : r <= s
<1>1. c.evidence \in Kept /\ c.evidence \in Units /\ Carriers(c) # {}
  BY DEF CitationValid, Kept
<1>2. ranks[c.evidence] = RanksOf(c.evidence)
  BY <1>1, PackedMetAll DEF IInv, KeptWhereMet
<1>3. c.evidence \in Occurs[c.quote]
  BY <1>1 DEF Carriers
<1>4. Carriers(c) = RanksOf(c.evidence)
  BY <1>2, <1>3 DEF Carriers, RanksOf
<1>5. Len(ranked) \in Nat
  BY RankedLength DEF IInv
<1>6. RanksOf(c.evidence) \in SUBSET Nat
  BY <1>5 DEF RanksOf
<1>7. /\ Min(RanksOf(c.evidence)) \in RanksOf(c.evidence)
      /\ \A s \in RanksOf(c.evidence) : Min(RanksOf(c.evidence)) <= s
  BY <1>1, <1>4, <1>6, LeastRank
<1>8. Verified(c).chunk = ranked[Min(RanksOf(c.evidence))]
  BY <1>4 DEF Verified
<1>9. Verified(c).evidence = c.evidence /\ Verified(c).quote = c.quote
  BY DEF Verified
<1>10. QED
  BY <1>1, <1>3, <1>7, <1>8, <1>9

(* What is read of the assembler's state stays as it is. *)
LEMMA ContextUnchanged ==
    ASSUME UNCHANGED assemblyVars
    PROVE  /\ Kept' = Kept /\ ranked' = ranked /\ status' = status /\ ranks' = ranks
           /\ \A u : RanksOf(u)' = RanksOf(u)
BY DEF assemblyVars, Kept, RanksOf, Contents

LEMMA AnsweringInitial == Init => AInv
<1>1. SUFFICES ASSUME Init PROVE AInv
  OBVIOUS
<1>2. IInv
  BY <1>1, AssemblyInitial DEF Init
<1>3. Progress /\ DraftDirect /\ EligibleSoFar /\ AnswersAreGrounded /\ query \in Queries
  BY <1>1 DEF Init, Progress, NoResult, DraftDirect, EligibleSoFar, AnswersAreGrounded
<1>4. QED
  BY <1>2, <1>3 DEF AInv

(* A query the policy permits is eligible. *)
LEMMA PermittedIsEligible ==
    ASSUME Refusal = "none"
    PROVE  /\ query.requested \subseteq {Active}
           /\ ~Asks("advice")
           /\ Kept # {}
           /\ query.staged /\ Asks("official") => Kept \cap Primary # {}
           /\ query.staged /\ Asks("dispositive") => Kept \cap Operative # {}
<1>1. BaseRefusal = "none" /\ (query.staged => StageDRefusal = "none")
  BY DEF Refusal
<1>2. ~Asks("blank") /\ ~Asks("advice") /\ JurisdictionRefusal = "none" /\ Kept # {}
  BY <1>1 DEF BaseRefusal
<1>3. query.requested \ {Active} = {}
  BY <1>2 DEF JurisdictionRefusal
<1>4. query.staged => ~(Asks("official") /\ Kept \cap Primary = {})
  BY <1>1 DEF StageDRefusal
<1>5. query.staged => ~(Asks("dispositive") /\ Kept \cap Operative = {})
  BY <1>1 DEF StageDRefusal
<1>6. QED
  BY <1>2, <1>3, <1>4, <1>5

LEMMA UpToSubset ==
    ASSUME NEW n, NEW S, NEW T \in UpTo(n, S)
    PROVE  T \subseteq S
<1>1. PICK f \in [1..n -> S] : T = {f[i] : i \in 1..n}
  BY DEF UpTo
<1>2. QED
  BY <1>1

(* Every draft a model can write is a set of claims. *)
LEMMA DraftsAreClaims ==
    ASSUME NEW claims \in DraftChoices
    PROVE  /\ claims \subseteq Claims
           /\ Serving => \A k \in claims : k.mode = "direct"
<1>1. CitationChoices \subseteq Citations
  BY AnsweringAssumption DEF CitationChoices, Citations
<1>2. \A cs \in UpTo(MaxCitations, CitationChoices) : cs \subseteq Citations
  BY <1>1, UpToSubset
<1>3. claims \subseteq ClaimChoices
  BY UpToSubset DEF DraftChoices
<1>4. ASSUME NEW k \in ClaimChoices
      PROVE  k \in Claims /\ (Serving => k.mode = "direct")
  BY <1>2 DEF ClaimChoices, Claims
<1>5. QED
  BY <1>3, <1>4

LEMMA AnsweringStep == AInv /\ [Next]_vars => AInv'
<1> SUFFICES ASSUME AInv, [Next]_vars PROVE AInv'
  OBVIOUS
<1>1. IInv'
  <2>1. [AssemblyNext]_assemblyVars
    BY DEF Next, vars, Assemble, ContextFails, PolicyRefuses, PolicyPermits, GeneratorRaises,
           ModelAbstains, ProviderFails, ModelAnswers, VerifyDraft, Replies
  <2>2. QED
    BY <2>1, AssemblyStep DEF AInv
<1>2. CASE Assemble
  <2>1. UNCHANGED answerVars /\ stage = "context"
    BY <1>2 DEF Assemble
  <2>2. result.kind # "answer" /\ calls = 0
    BY <2>1 DEF AInv, Progress, NoResult
  <2>3. QED
    BY <1>1, <2>1, <2>2
       DEF AInv, answerVars, Progress, DraftDirect, Serving, EligibleSoFar, AnswersAreGrounded
<1>3. ASSUME UNCHANGED assemblyVars, UNCHANGED query,
             Progress', DraftDirect', EligibleSoFar',
             result' = result \/ result'.kind # "answer"
      PROVE  AInv'
  <2>1. AnswersAreGrounded'
    BY <1>3, ContextUnchanged DEF AInv, AnswersAreGrounded
  <2>2. QED
    BY <1>1, <1>3, <2>1 DEF AInv
<1>4. CASE UNCHANGED vars
  <2>1. UNCHANGED assemblyVars /\ UNCHANGED answerVars
    BY <1>4 DEF vars
  <2>2. Progress' /\ DraftDirect'
    BY <2>1, ContextUnchanged DEF AInv, Progress, DraftDirect, Serving, answerVars
  <2>3. EligibleSoFar'
    BY <2>1, ContextUnchanged DEF AInv, EligibleSoFar, answerVars, Asks
  <2>4. QED
    BY <1>3, <2>1, <2>2, <2>3 DEF answerVars
<1>5. CASE ContextFails \/ PolicyRefuses
  <2>1. /\ UNCHANGED <<assemblyVars, query, calls, draft>> /\ stage = "context" /\ stage' = "done"
        /\ result'.kind \in {"error", "abstention"}
    BY <1>5 DEF ContextFails, PolicyRefuses, Finishes, Ended, NoResult
  <2>2. Progress' /\ DraftDirect'
    BY <2>1 DEF AInv, Progress, DraftDirect, Serving
  <2>3. EligibleSoFar'
    BY <2>1 DEF AInv, Progress, EligibleSoFar
  <2>4. QED
    BY <1>3, <2>1, <2>2, <2>3
<1>6. CASE PolicyPermits
  <2>1. /\ UNCHANGED <<assemblyVars, query, calls, draft, result>> /\ stage = "context"
        /\ status = "packed" /\ stage' = "drafting" /\ Refusal = "none"
    BY <1>6 DEF PolicyPermits
  <2>2. Progress' /\ DraftDirect'
    BY <2>1, ContextUnchanged DEF AInv, Progress, DraftDirect, Serving
  <2>3. EligibleSoFar'
    BY <2>1, ContextUnchanged, PermittedIsEligible DEF EligibleSoFar, Asks
  <2>4. QED
    BY <1>3, <2>1, <2>2, <2>3
<1>7. CASE GeneratorRaises \/ ModelAbstains \/ ProviderFails \/ ModelAnswers
  <2>1. stage = "drafting" /\ calls' = calls + 1 /\ UNCHANGED <<assemblyVars, query>>
    BY <1>7 DEF GeneratorRaises, ModelAbstains, ProviderFails, ModelAnswers, Replies
  <2>2. EligibleSoFar'
    BY <2>1, ContextUnchanged DEF AInv, EligibleSoFar, Asks
  <2>3. ASSUME stage' = "done", draft' = draft, result'.kind \in {"abstention", "unavailable"}
        PROVE  AInv'
    <3>1. Progress' /\ DraftDirect'
      BY <2>1, <2>3 DEF AInv, Progress, DraftDirect, Serving
    <3>2. QED
      BY <1>3, <2>1, <2>2, <2>3, <3>1
  <2>4. ASSUME stage' = "verifying", result' = result, draft' \subseteq Claims,
               Serving => \A k \in draft' : k.mode = "direct"
        PROVE  AInv'
    <3>1. Progress' /\ DraftDirect'
      BY <2>1, <2>4, ContextUnchanged DEF AInv, Progress, DraftDirect, Serving
    <3>2. QED
      BY <1>3, <2>1, <2>2, <2>4, <3>1
  <2>5. ReportsInvalid => AInv'
    BY <2>3, <2>4 DEF ReportsInvalid, Finishes, Ended, NoResult
  <2>6. CASE GeneratorRaises \/ ModelAbstains
    BY <2>3, <2>6 DEF GeneratorRaises, ModelAbstains, Finishes, Ended, NoResult
  <2>7. CASE ProviderFails
    BY <2>5, <2>7 DEF ProviderFails
  <2>8. CASE ModelAnswers
    BY <2>4, <2>5, <2>8, DraftsAreClaims DEF ModelAnswers
  <2>9. QED
    BY <1>7, <2>6, <2>7, <2>8
<1>8. CASE VerifyDraft
  <2>1. /\ UNCHANGED <<assemblyVars, query, calls, draft>> /\ stage = "verifying" /\ stage' = "done"
        /\ status = "packed"
    BY <1>8 DEF VerifyDraft, Finishes, AInv, Progress
  <2>2. \/ result'.kind = "abstention"
        \/ StructurallyValid(draft) /\ result' = Answer(Accepted(draft))
    BY <1>8 DEF VerifyDraft, Finishes, Ended, NoResult
  <2>3. EligibleSoFar'
    BY <2>1, ContextUnchanged DEF AInv, EligibleSoFar, Asks
  <2>4. result'.kind \in {"abstention", "answer"}
    BY <2>2 DEF Answer
  <2>5. Progress' /\ DraftDirect'
    BY <2>1, <2>4 DEF AInv, Progress, DraftDirect, Serving
  <2>6. CASE StructurallyValid(draft) /\ result' = Answer(Accepted(draft))
    <3>1. Accepted(draft) \subseteq draft /\ \A k \in Accepted(draft) : k.mode = "direct"
      BY AnsweringAssumption DEF Accepted, AInv, DraftDirect, Serving
    <3>2. ASSUME NEW k \in Accepted(draft), NEW c \in k.citations
          PROVE  CitationValid(c)
      BY <2>6, <3>1 DEF StructurallyValid
    <3>3. ASSUME NEW q \in result'.shown PROVE \E d \in result'.cited : d.quote = q
      <4>1. PICK k \in Accepted(draft) : q \in Text(k)
        BY <2>6, <3>3 DEF Answer
      <4>2. PICK c \in k.citations : q = c.quote
        BY <3>1, <4>1 DEF Text
      <4>3. Verified(c) \in result'.cited
        BY <2>6, <4>1, <4>2 DEF Answer
      <4>4. QED
        BY <4>2, <4>3 DEF Verified
    <3>4. ASSUME NEW d \in result'.cited
          PROVE  /\ d.evidence \in Kept
                 /\ d.evidence \in Occurs[d.quote]
                 /\ \E r \in RanksOf(d.evidence) :
                       /\ d.chunk = ranked[r]
                       /\ \A s \in RanksOf(d.evidence) : r <= s
      <4>1. PICK k \in Accepted(draft) : \E c \in k.citations : d = Verified(c)
        BY <2>6, <3>4 DEF Answer
      <4>2. PICK c \in k.citations : d = Verified(c)
        BY <4>1
      <4>3. CitationValid(c)
        BY <3>2, <4>1, <4>2
      <4>4. QED
        BY <2>1, <4>2, <4>3, VerifiedIsBest DEF AInv
    <3>5. AnswersAreGrounded'
      BY <2>1, <3>3, <3>4, ContextUnchanged DEF AnswersAreGrounded
    <3>6. QED
      BY <1>1, <2>1, <2>3, <2>5, <3>5 DEF AInv
  <2>7. CASE result'.kind = "abstention"
    BY <1>3, <2>1, <2>3, <2>5, <2>7
  <2>8. QED
    BY <2>2, <2>6, <2>7
<1>9. QED
  BY <1>2, <1>4, <1>5, <1>6, <1>7, <1>8 DEF Next

LEMMA AnsweringInvariant == Spec => []AInv
<1>1. QED
  BY AnsweringInitial, AnsweringStep, PTL DEF Spec

(* Theorem: context, draft and result have their types. *)
THEOREM TypeCorrect == Spec => []TypeOK
<1>1. AInv => TypeOK
  BY DEF AInv, IInv, Progress, TypeOK
<1>2. QED
  BY <1>1, AnsweringInvariant, PTL

(* Theorem: whatever the model writes, an answer shows only quotations of  *)
(* this context's canonical text, cited to the best chunk that carried them.*)
THEOREM AnswersGrounded == Spec => []AnswersAreGrounded
<1>1. QED
  BY AnsweringInvariant, PTL DEF AInv

(* Theorem: the model is only asked what the policy lets it answer. *)
THEOREM GenerationGated == Spec => []GeneratedWhenEligible
<1>1. AInv => GeneratedWhenEligible
  BY DEF AInv, EligibleSoFar, GeneratedWhenEligible
<1>2. QED
  BY <1>1, AnsweringInvariant, PTL

(***************************************************************************)
(* Nothing is rejected that names only entries of the registry.            *)
(***************************************************************************)
(* A serving draft is empty or names units of the finished context, each   *)
(* quoted whole.                                                           *)
DraftKnown ==
    /\ stage \in {"context", "drafting"} => draft = {}
    /\ Serving => \A k \in draft :
           /\ k.mode = "direct"
           /\ k.citations # {}
           /\ \A c \in k.citations : c.evidence \in Kept /\ c.quote = Whole[c.evidence]

LEMMA UpToNonempty ==
    ASSUME NEW n \in Nat \ {0}, NEW S, NEW T \in UpTo(n, S)
    PROVE  T # {}
<1>1. PICK f \in [1..n -> S] : T = {f[i] : i \in 1..n}
  BY DEF UpTo
<1>2. 1 \in 1..n
  OBVIOUS
<1>3. QED
  BY <1>1, <1>2

(* A serving reply whose references are entries of the registry. *)
LEMMA RepliesKnown ==
    ASSUME Serving, NEW claims \in DraftChoices, Resolvable(claims)
    PROVE  \A k \in claims :
               /\ k.mode = "direct"
               /\ k.citations # {}
               /\ \A c \in k.citations : c.evidence \in Kept /\ c.quote = Whole[c.evidence]
<1> SUFFICES ASSUME NEW k \in claims
             PROVE  /\ k.mode = "direct"
                    /\ k.citations # {}
                    /\ \A c \in k.citations : c.evidence \in Kept /\ c.quote = Whole[c.evidence]
  OBVIOUS
<1>1. k \in ClaimChoices
  BY UpToSubset DEF DraftChoices
<1>2. k.mode = "direct" /\ k.citations \in UpTo(MaxCitations, CitationChoices)
  BY <1>1 DEF ClaimChoices
<1>3. k.citations # {} /\ k.citations \subseteq CitationChoices
  BY <1>2, UpToSubset, UpToNonempty, AnsweringAssumption
<1>4. ASSUME NEW c \in k.citations PROVE c.evidence \in Kept /\ c.quote = Whole[c.evidence]
  <2>1. c.evidence \in Kept
    BY DEF Resolvable
  <2>2. c.evidence \in Units /\ c.evidence # "unknown"
    BY <2>1, AnsweringAssumption DEF Kept
  <2>3. c \in {[evidence |-> u, quote |-> Whole[u]] : u \in Units}
               \cup {[evidence |-> "unknown", quote |-> q] : q \in Quotes}
    BY <1>3 DEF CitationChoices
  <2>4. QED
    BY <2>1, <2>2, <2>3
<1>5. QED
  BY <1>2, <1>3, <1>4

(* A whole unit of the finished context verifies as a quotation of it.     *)
LEMMA WholeUnitsValid ==
    ASSUME IInv, status = "packed", NEW c, c.evidence \in Kept, c.quote = Whole[c.evidence]
    PROVE  CitationValid(c)
<1>1. c.evidence \in Units /\ ranks[c.evidence] # {}
  BY DEF Kept
<1>2. ranks[c.evidence] = RanksOf(c.evidence)
  BY <1>1, PackedMetAll DEF IInv, KeptWhereMet
<1>3. c.evidence \in Occurs[c.quote]
  BY <1>1, AnsweringAssumption
<1>4. Carriers(c) = RanksOf(c.evidence)
  BY <1>2, <1>3 DEF Carriers, RanksOf
<1>5. QED
  BY <1>1, <1>2, <1>4 DEF CitationValid

(* Verification answers such a draft, and shows its units.                 *)
LEMMA KnownDraftAnswered ==
    ASSUME AInv, DraftKnown, Serving, VerifyDraft, draft # {}
    PROVE  /\ result'.kind = "answer"
           /\ result'.shown = {Whole[c.evidence] : c \in UNION {k.citations : k \in draft}}
<1>1. status = "packed"
  BY DEF VerifyDraft, AInv, Progress
<1>2. ASSUME NEW k \in draft
      PROVE  k.citations # {} /\ \A c \in k.citations : CitationValid(c)
  BY <1>1, WholeUnitsValid DEF DraftKnown, AInv
<1>3. Kept # {}
  BY DEF DraftKnown
<1>4. StructurallyValid(draft)
  BY <1>2, <1>3 DEF StructurallyValid
<1>5. Accepted(draft) = draft
  BY DEF Accepted
<1>6. result' = Answer(draft)
  BY <1>4, <1>5 DEF VerifyDraft, Finishes
<1>7. \A k \in draft : Text(k) = {Whole[c.evidence] : c \in k.citations}
  BY DEF Text, DraftKnown
<1>8. result'.shown = UNION {Text(k) : k \in draft}
  BY <1>6 DEF Answer
<1>9. result'.kind = "answer"
  BY <1>6 DEF Answer
<1>10. QED
  BY <1>7, <1>8, <1>9

LEMMA KnownStep ==
    AInv /\ DraftKnown /\ KnownReferencesAnswered /\ [Next]_vars
        => DraftKnown' /\ KnownReferencesAnswered'
<1> SUFFICES ASSUME AInv, DraftKnown, KnownReferencesAnswered, [Next]_vars
             PROVE  DraftKnown' /\ KnownReferencesAnswered'
  OBVIOUS
<1>1. CASE Assemble
  <2>1. UNCHANGED answerVars /\ stage = "context"
    BY <1>1 DEF Assemble
  <2>2. QED
    BY <2>1 DEF answerVars, DraftKnown, KnownReferencesAnswered
<1>2. ASSUME UNCHANGED assemblyVars, UNCHANGED query, draft' = {}
      PROVE  DraftKnown' /\ KnownReferencesAnswered'
  BY <1>2 DEF DraftKnown, KnownReferencesAnswered
<1>3. CASE ContextFails \/ PolicyRefuses \/ PolicyPermits
  BY <1>2, <1>3 DEF ContextFails, PolicyRefuses, PolicyPermits, DraftKnown
<1>4. CASE GeneratorRaises \/ ModelAbstains \/ ProviderFails
  BY <1>2, <1>4 DEF GeneratorRaises, ModelAbstains, ProviderFails, ReportsInvalid, Replies, DraftKnown
<1>5. CASE ModelAnswers
  <2>1. stage = "drafting" /\ UNCHANGED <<assemblyVars, query>>
    BY <1>5 DEF ModelAnswers, Replies
  <2>2. CASE ReportsInvalid
    BY <1>2, <2>1, <2>2 DEF ReportsInvalid, DraftKnown
  <2>3. ASSUME NEW claims \in DraftChoices, Resolvable(claims),
               stage' = "verifying", draft' = claims
        PROVE  DraftKnown' /\ KnownReferencesAnswered'
    <3>1. Serving => \A k \in draft' :
              /\ k.mode = "direct"
              /\ k.citations # {}
              /\ \A c \in k.citations : c.evidence \in Kept /\ c.quote = Whole[c.evidence]
      BY <2>3, RepliesKnown
    <3>2. QED
      BY <2>1, <2>3, <3>1, ContextUnchanged DEF DraftKnown, KnownReferencesAnswered, Serving
  <2>4. QED
    BY <1>5, <2>2, <2>3 DEF ModelAnswers
<1>6. CASE VerifyDraft
  <2>1. UNCHANGED <<assemblyVars, query, draft>> /\ stage' = "done"
    BY <1>6 DEF VerifyDraft, Finishes
  <2>2. DraftKnown'
    BY <2>1, ContextUnchanged DEF DraftKnown, Serving
  <2>3. KnownReferencesAnswered'
    BY <1>6, <2>1, KnownDraftAnswered DEF KnownReferencesAnswered, Serving
  <2>4. QED
    BY <2>2, <2>3
<1>7. CASE UNCHANGED vars
  <2>1. UNCHANGED assemblyVars /\ UNCHANGED answerVars
    BY <1>7 DEF vars
  <2>2. QED
    BY <2>1, ContextUnchanged DEF answerVars, DraftKnown, KnownReferencesAnswered, Serving
<1>8. QED
  BY <1>1, <1>3, <1>4, <1>5, <1>6, <1>7 DEF Next

(* Theorem: a serving reply that names only entries of its registry is     *)
(* answered, and the answer shows the texts of exactly those entries.      *)
THEOREM KnownAnswered == Spec => []KnownReferencesAnswered
<1>1. Init => DraftKnown /\ KnownReferencesAnswered
  BY DEF Init, DraftKnown, KnownReferencesAnswered
<1>2. QED
  BY <1>1, KnownStep, AnsweringInvariant, PTL DEF Spec
=============================================================================
