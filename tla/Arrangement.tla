----------------------------- MODULE Arrangement -----------------------------
(***************************************************************************)
(* Sets in order: what sorted() returns of keys that are all different.    *)
(***************************************************************************)
EXTENDS Integers, FiniteSets

(* The elements of a set in order, by those that are ahead of each. *)
Arranged(elements, ahead) ==
    [n \in 1 .. Cardinality(elements) |->
        CHOOSE c \in elements : Cardinality(ahead[c]) = n - 1]

Ascending(numbers) == Arranged(numbers, [n \in numbers |-> {m \in numbers : m < n}])
=============================================================================
