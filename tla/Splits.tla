------------------------------- MODULE Splits -------------------------------
(***************************************************************************)
(* The DEV/HOLDOUT split of the retrieval evaluation dataset               *)
(* (evaluation/splits.py).  Items that share a base intent and documents,  *)
(* or a document, are joined; the groups assigned to HOLDOUT are those     *)
(* whose sizes add up closest to a third of the items; the first DEV items *)
(* are marked as smoke.                                                    *)
(*                                                                         *)
(* A group is named by a digest of an intent and documents, so the groups' *)
(* order is arbitrary: it is chosen with the items.                        *)
(***************************************************************************)
EXTENDS Integers, FiniteSets

CONSTANTS
    ItemCount,  \* items of the dataset, in the order of their query IDs
    Intents,    \* base intents; a variant has its base's
    Documents,  \* source documents
    KeyOrders,  \* digests, as numbers, that intents with documents may have
    SmokeCount  \* items to mark (20 in the code)

Items == 1..ItemCount
Item == [intent : Intents, documents : SUBSET Documents]

ASSUME SplitsAssumption ==
    /\ ItemCount \in Nat \ {0}
    /\ SmokeCount \in Nat
    /\ Intents \subseteq Nat
    /\ Documents \subseteq Nat
    /\ \A order \in KeyOrders :
          /\ order \in [Item -> Nat]
          /\ \A k, l \in Item : order[k] = order[l] => k = l

VARIABLES
    dataset,   \* intent and documents of each item
    keyOrder,  \* the digests
    assigned   \* the last assignment: its HOLDOUT and its smoke items

splitVars == <<dataset, keyOrder, assigned>>

GroupKey(i) == [intent |-> dataset[i].intent, documents |-> dataset[i].documents]
Keys == {GroupKey(i) : i \in Items}

(* A key, or a document, and the group it is in. *)
DocumentNode(d) == [intent |-> -1, documents |-> {d}]
Nodes == Keys \cup {DocumentNode(d) : d \in Documents}

(* Fault: only items with the same intent and documents are joined. *)
JoinKeysOnly(root, i) == root

(* The groups of an item's documents become the group of its key. *)
JoinDocuments(root, i) ==
    LET joined == {root[DocumentNode(d)] : d \in dataset[i].documents}
    IN [k \in Nodes |-> IF root[k] \in joined THEN root[GroupKey(i)] ELSE root[k]]

Roots ==
    LET joined[n \in 0..ItemCount] ==
            IF n = 0 THEN [k \in Nodes |-> k] ELSE JoinDocuments(joined[n - 1], n)
    IN joined[ItemCount]

(* The groups, by name. *)
Groups ==
    LET roots == Roots
    IN [root \in {roots[GroupKey(i)] : i \in Items} |->
            {i \in Items : roots[GroupKey(i)] = root}]

Before(k, l) == keyOrder[k] < keyOrder[l]

(* A third of the items, to the nearest. *)
Target == (2 * ItemCount + 3) \div 6
Distance(n) == IF n < Target THEN Target - n ELSE n - Target

(* Every total reached so far, with and without this group; the groups that*)
(* reach a total first are kept.                                           *)
Extend(reachable, root, size) ==
    LET totals == {r.total : r \in reachable}
    IN reachable \cup {[total |-> r.total + size, chosen |-> r.chosen \cup {root}] :
                           r \in {old \in reachable : old.total + size \notin totals}}

Reachable(groups) ==
    LET names == DOMAIN groups
        nth(n) == CHOOSE k \in names : Cardinality({l \in names : Before(l, k)}) = n - 1
        reached[n \in 0..Cardinality(names)] ==
            IF n = 0 THEN {[total |-> 0, chosen |-> {}]}
            ELSE Extend(reached[n - 1], nth(n), Cardinality(groups[nth(n)]))
    IN reached[Cardinality(names)]

(* The names of the groups put into HOLDOUT. *)
Chosen(groups) ==
    LET reachable == Reachable(groups)
    IN (CHOOSE r \in reachable : \A other \in reachable :
            \/ Distance(r.total) < Distance(other.total)
            \/ Distance(r.total) = Distance(other.total) /\ r.total <= other.total).chosen

(* The first items whose own key is not the name of a HOLDOUT group. *)
SmokeItems(chosen) ==
    LET pool == {i \in Items : GroupKey(i) \notin chosen}
    IN {i \in pool : Cardinality({j \in pool : j < i}) < SmokeCount}

Unassigned == [holdout |-> {}, smoke |-> {}, done |-> FALSE]

SplitsInit ==
    /\ dataset \in [Items -> Item]
    /\ keyOrder \in KeyOrders
    /\ assigned = Unassigned

(* assign_provisional_splits, on a draft's items. *)
AssignSplits ==
    /\ ~assigned.done
    /\ LET groups == Groups
           chosen == Chosen(groups)
       IN assigned' = [holdout |-> UNION {groups[root] : root \in chosen},
                       smoke |-> SmokeItems(chosen), done |-> TRUE]
    /\ UNCHANGED <<dataset, keyOrder>>

SplitsNext == AssignSplits

SplitsSpec == SplitsInit /\ [][SplitsNext]_splitVars

(* split_diagnostics, of an assignment: the documents and the intents with *)
(* an item on either side.                                                 *)
BothSides(s) == s \cap assigned.holdout # {} /\ s \ assigned.holdout # {}
CrossSplitDocuments == {d \in Documents : BothSides({i \in Items : d \in dataset[i].documents})}
CrossSplitIntents == {f \in Intents : BothSides({i \in Items : dataset[i].intent = f})}

-----------------------------------------------------------------------------
(* Properties. *)

(* No document, and no set of documents of an intent, is on both sides,    *)
(* even through a chain of items.                                          *)
NoLeakage ==
    assigned.done =>
        /\ CrossSplitDocuments = {}
        /\ \A key \in Keys : ~BothSides({i \in Items : GroupKey(i) = key})

(* The assignment's groups, taken as what the joined items are: items that *)
(* are linked by a chain of shared documents, or equal.                    *)
Linked(i, j) ==
    dataset[i] = dataset[j] \/ dataset[i].documents \cap dataset[j].documents # {}

(* An intent is divided only when two items of it have different documents *)
(* and share none: its variants are joined through documents alone         *)
(* (splits.py, lines 26-27 and 56-58), so split_diagnostics may count it.  *)
FamiliesTogether ==
    assigned.done =>
        \A f \in CrossSplitIntents :
            \E i, j \in Items : dataset[i].intent = f /\ dataset[j].intent = f /\ ~Linked(i, j)

Closed(s) == \A i \in s, j \in Items : Linked(i, j) => j \in s

(* No other choice of whole groups has a size closer to the third wanted. *)
ClosestHoldout ==
    assigned.done =>
        \A s \in SUBSET Items :
            Closed(s) => Distance(Cardinality(assigned.holdout)) <= Distance(Cardinality(s))

(* A smoke item is a DEV item unless its group was joined, through a       *)
(* document, under another key than its own: the pool looks for the item's *)
(* key where the groups' names are (splits.py, line 76), so joined items of*)
(* the holdout can be marked smoke.                                        *)
SmokeIsDevUnlessJoined ==
    \A i \in assigned.smoke \cap assigned.holdout : Roots[GroupKey(i)] # GroupKey(i)

(* What the split promises, as far as the code keeps it. *)
SplitIsSound == NoLeakage /\ FamiliesTogether /\ ClosestHoldout /\ SmokeIsDevUnlessJoined
=============================================================================
