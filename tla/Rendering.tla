------------------------------ MODULE Rendering ------------------------------
(***************************************************************************)
(* What a context costs (grounding/rendering.py over the blocks built by   *)
(* grounding/assembly.py): each document once, its heading whenever it     *)
(* changes from one unit to the next, and the whole text of every unit.    *)
(* Text is counted in lines; the counter itself is a parameter of the code.*)
(***************************************************************************)
EXTENDS Integers, FiniteSetsExt

CONSTANTS
    DocumentOf,  \* document of each canonical unit
    OrdinalOf,   \* its position in the document
    HeadingOf,   \* its heading path, "" if it has none
    LinesOf      \* lines of its text

(* The unit rendered just before u: units of a document come in its order, *)
(* whether or not they share a block.                                      *)
Before(S, u) == {v \in S : DocumentOf[v] = DocumentOf[u] /\ OrdinalOf[v] < OrdinalOf[u]}
Previous(S, u) == CHOOSE v \in Before(S, u) : \A w \in Before(S, u) : OrdinalOf[w] <= OrdinalOf[v]

(* A heading is written where it differs from the one above it. *)
StartsHeading(S, u) ==
    /\ HeadingOf[u] # ""
    /\ Before(S, u) = {} \/ HeadingOf[Previous(S, u)] # HeadingOf[u]

(* Document lines, heading lines and text of a set of units. *)
RenderedLines(S) ==
    Cardinality({DocumentOf[u] : u \in S})
    + Cardinality({u \in S : StartsHeading(S, u)})
    + MapThenSumSet(LAMBDA u : LinesOf[u], S)
=============================================================================
