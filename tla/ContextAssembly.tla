--------------------------- MODULE ContextAssembly ---------------------------
(***************************************************************************)
(* The context assembler (grounding/assembly.py): it walks the ranked      *)
(* chunks of one query in order, and the canonical units of each chunk in  *)
(* document order, keeps a unit if the context with it still fits the      *)
(* token budget and records it as omitted otherwise.  A unit met again     *)
(* gains the rank of the chunk it was met in.                              *)
(*                                                                         *)
(* One action per unit.  Blocks, labels and the order of the rendering     *)
(* follow from the set of kept units and their ranks; what a rendering     *)
(* costs is the parameter Tokens.                                          *)
(***************************************************************************)
EXTENDS Integers, Sequences

CONSTANTS
    Chunks,   \* chunk ids a retriever may return
    Units,    \* canonical units
    UnitsOf,  \* units of each chunk in document order; none: it cannot be resolved
    Depth,    \* serving depth: at most so many chunks are ranked
    Tokens,   \* tokens of the rendering of each set of units
    Budget    \* max_context_tokens

(* The tokenizer's count of a rendering: nothing costs nothing, and more   *)
(* text never costs less.                                                  *)
ASSUME AssemblyAssumption ==
    /\ UnitsOf \in [Chunks -> Seq(Units)]
    /\ Depth \in Nat
    /\ Budget \in Nat
    /\ Tokens \in [SUBSET Units -> Nat]
    /\ Tokens[{}] = 0
    /\ \A S, T \in SUBSET Units : S \subseteq T => Tokens[S] <= Tokens[T]

VARIABLES
    ranked,   \* ranked chunks, best first
    status,   \* "scanning", "packed", or "failed": the call raised
    at,       \* rank of the chunk being read
    next,     \* position of the unit considered next; 0: chunk not resolved yet
    ranks,    \* contributing_ranks of each unit; none: not a candidate
    omission  \* best_retrieval_rank of each omission record; 0: no record

assemblyVars == <<ranked, status, at, next, ranks, omission>>

Kept == {u \in Units : ranks[u] # {}}
Omitted == {u \in Units : omission[u] # 0}

Contents(chunk) == {UnitsOf[chunk][i] : i \in 1..Len(UnitsOf[chunk])}

(* Ranks at which u was retrieved. *)
RanksOf(u) == {r \in 1..Len(ranked) : u \in Contents(ranked[r])}
Retrieved == {u \in Units : RanksOf(u) # {}}

Rankings == UNION {[1..n -> Chunks] : n \in 0..Depth}

AssemblyInit ==
    /\ ranked \in Rankings
    /\ status = "scanning"
    /\ at = 1
    /\ next = 0
    /\ ranks = [u \in Units |-> {}]
    /\ omission = [u \in Units |-> 0]

Fits(S) == Tokens[S] <= Budget

(* A chunk ranked twice, or one that has no canonical units, raises. *)
Resolves(r) == UnitsOf[ranked[r]] # <<>> /\ \A s \in 1..(r - 1) : ranked[s] # ranked[r]

ResolveChunk ==
    /\ status = "scanning" /\ next = 0 /\ at <= Len(ranked)
    /\ Resolves(at)
    /\ next' = 1
    /\ UNCHANGED <<ranked, status, at, ranks, omission>>

ChunkFails ==
    /\ status = "scanning" /\ next = 0 /\ at <= Len(ranked)
    /\ ~Resolves(at)
    /\ status' = "failed"
    /\ UNCHANGED <<ranked, at, next, ranks, omission>>

(* The unit considered, and the step to the next unit or the next chunk. *)
Considers(u) ==
    /\ status = "scanning" /\ next # 0
    /\ u = UnitsOf[ranked[at]][next]

(* Fault: leaving a chunk passes over the one that follows it. *)
AdvanceTooFar ==
    IF next < Len(UnitsOf[ranked[at]])
    THEN next' = next + 1 /\ at' = at
    ELSE next' = 0 /\ at' = at + 2

Advance ==
    IF next < Len(UnitsOf[ranked[at]])
    THEN next' = next + 1 /\ at' = at
    ELSE next' = 0 /\ at' = at + 1

(* Fault: only the rank the unit was first met at is recorded. *)
RepeatUnitUnrecorded(u) ==
    /\ Considers(u)
    /\ u \in Kept
    /\ Advance
    /\ UNCHANGED <<ranked, status, ranks, omission>>

(* The unit is already a candidate: only its provenance grows. *)
RepeatUnit(u) ==
    /\ Considers(u)
    /\ u \in Kept
    /\ ranks' = [ranks EXCEPT ![u] = @ \cup {at}]
    /\ Advance
    /\ UNCHANGED <<ranked, status, omission>>

KeepUnit(u) ==
    /\ Considers(u)
    /\ u \notin Kept
    /\ Fits(Kept \cup {u})
    /\ ranks' = [ranks EXCEPT ![u] = {at}]
    /\ Advance
    /\ UNCHANGED <<ranked, status, omission>>

(* The record of an earlier chunk is overwritten. *)
OmitUnit(u) ==
    /\ Considers(u)
    /\ u \notin Kept
    /\ ~Fits(Kept \cup {u})
    /\ omission' = [omission EXCEPT ![u] = at]
    /\ Advance
    /\ UNCHANGED <<ranked, status, ranks>>

(* The last line of assemble asserts the budget once more. *)
FinishPack ==
    /\ status = "scanning" /\ next = 0 /\ at > Len(ranked)
    /\ status' = IF Fits(Kept) THEN "packed" ELSE "failed"
    /\ UNCHANGED <<ranked, at, next, ranks, omission>>

AssemblyNext ==
    \/ ResolveChunk
    \/ ChunkFails
    \/ \E u \in Units : RepeatUnit(u) \/ KeepUnit(u) \/ OmitUnit(u)
    \/ FinishPack

AssemblySpec == AssemblyInit /\ [][AssemblyNext]_assemblyVars

(***************************************************************************)
(* Properties.                                                             *)
(***************************************************************************)
(* The ranking, the position in it and the records have their types.       *)
AssemblyTypeOK ==
    /\ ranked \in Rankings
    /\ status \in {"scanning", "packed", "failed"}
    /\ at \in 1..(Len(ranked) + 1)
    /\ next \in Nat
    /\ ranks \in [Units -> SUBSET (1..Len(ranked))]
    /\ omission \in [Units -> 0..Len(ranked)]

(* However the units of overlapping chunks arrive, the context never       *)
(* exceeds the budget, so the final assertion never raises.                *)
WithinBudget == Tokens[Kept] <= Budget

(* Every unit of every ranked chunk is in the finished context or reported *)
(* as omitted, and none is both: a unit refused once is refused whenever it*)
(* is met again.                                                           *)
EveryUnitPlaced ==
    status = "packed" => /\ Kept \cup Omitted = Retrieved
                         /\ Kept \cap Omitted = {}

(* The provenance of a kept unit is every chunk that carried it: the       *)
(* citation of its text is attributed to the best of them.                 *)
ProvenanceComplete ==
    status = "packed" => \A u \in Kept : ranks[u] = RanksOf(u)

(* No unit is left out that the finished context has room for. *)
OmittedDoesNotFit ==
    status = "packed" => \A u \in Omitted : Tokens[Kept \cup {u}] > Budget

(* The finished context uses its budget, places every unit and attributes  *)
(* each to all the chunks that carried it.                                 *)
ContextIsSound ==
    WithinBudget /\ OmittedDoesNotFit /\ EveryUnitPlaced /\ ProvenanceComplete
=============================================================================
