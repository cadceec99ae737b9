---------------------------- MODULE ContextCache ----------------------------
(***************************************************************************)
(* The generator's context of one query, assembled within the model's      *)
(* input cap or loaded from the files an earlier request left              *)
(* (generation/stage_c_context.py, generation/context.py).                 *)
(*                                                                         *)
(* Stages A and B keep the pack in one file.  Stages C and D keep it in two,*)
(* the pack and the registry of its quotes, written one after the other;   *)
(* the runner asks for the context of a query twice, without the           *)
(* jurisdiction's text and, once the policy named one, with it.            *)
(*                                                                         *)
(* A request stands for all its fingerprint is taken from.  Evidence is    *)
(* assembled in units of one size; in a prompt each also takes its markup. *)
(***************************************************************************)
EXTENDS Integers

CONSTANTS
    Caps,      \* input caps a run may be configured with
    Template,  \* tokens of the prompt without evidence
    Text,      \* tokens of the jurisdiction's text
    Margin,    \* tokens kept free
    Offered,   \* evidence units on offer
    Unit,      \* tokens of a unit
    Markup,    \* further tokens a unit takes in a prompt
    Attempts   \* packs assembled before a request fails

ASSUME ContextAssumption ==
    /\ Caps \subseteq Nat
    /\ Template \in Nat /\ Text \in Nat /\ Margin \in Nat
    /\ Offered \in Nat /\ Unit \in Nat \ {0} /\ Markup \in Nat
    /\ Attempts \in Nat \ {0}

VARIABLES
    packFile,      \* the pack's file
    registryFile,  \* the registry's file, Stages C and D
    singleFile,    \* the pack's file, Stages A and B
    asking,        \* the request in hand, and how far it is
    candidate,     \* the evidence budget tried next
    attempt,       \* packs assembled for it
    served         \* what the last request was given

contextFiles == <<packFile, registryFile, singleFile>>
contextVars == <<contextFiles, asking, candidate, attempt, served>>

Requests == [paired : BOOLEAN, text : BOOLEAN, cap : Caps]
Nobody == [paired |-> FALSE, text |-> FALSE, cap |-> 0]

Unwritten == [request |-> Nobody, kept |-> 0, budget |-> 0]
NoRegistry == [request |-> Nobody, quotes |-> 0]
Nothing == [request |-> Nobody, kept |-> 0, quotes |-> 0]
Idle == [request |-> Nobody, doing |-> "nothing"]

Fixed(r) == Template + (IF r.text THEN Text ELSE 0)
Prompt(r, kept) == Fixed(r) + kept * (Unit + Markup)

HasBudget(r) == r.cap > Fixed(r) + Margin
Budget(r) == r.cap - Fixed(r) - Margin

(* Whole units, in order, while the budget lasts. *)
Assembled(budget) == IF budget \div Unit < Offered THEN budget \div Unit ELSE Offered

(* The registry of a pack quotes its units. *)
Registry(kept) == kept

ContextInit ==
    /\ packFile = Unwritten
    /\ registryFile = NoRegistry
    /\ singleFile = Unwritten
    /\ asking = Idle
    /\ candidate = 0
    /\ attempt = 0
    /\ served = Nothing

(* Fault: only the pack's file is compared with the request. *)
PairServesByPack(r) ==
    /\ packFile.request = r
    /\ Prompt(r, packFile.kept) <= r.cap
    /\ packFile.budget = Budget(r)

(* Both files are of this request and of each other, the prompt fits, and  *)
(* the pack was not one made smaller.                                      *)
PairServes(r) ==
    /\ packFile.request = r
    /\ registryFile.request = r
    /\ registryFile.quotes = Registry(packFile.kept)
    /\ Prompt(r, packFile.kept) <= r.cap
    /\ packFile.budget = Budget(r)

SingleServes(r) == singleFile.request = r /\ Prompt(r, singleFile.kept) <= r.cap

(* A request that leaves no budget raises before it looks. *)
Ask(r) ==
    /\ asking = Idle
    /\ HasBudget(r)
    /\ asking' = [request |-> r, doing |-> "looking"]
    /\ candidate' = Budget(r)
    /\ attempt' = 0
    /\ served' = Nothing
    /\ UNCHANGED contextFiles

Looking(r) == asking = [request |-> r, doing |-> "looking"]

LoadPair(r) ==
    /\ Looking(r) /\ r.paired
    /\ PairServes(r)
    /\ served' = [request |-> r, kept |-> packFile.kept, quotes |-> registryFile.quotes]
    /\ asking' = Idle
    /\ UNCHANGED <<contextFiles, candidate, attempt>>

LoadSingle(r) ==
    /\ Looking(r) /\ ~r.paired
    /\ SingleServes(r)
    /\ served' = [request |-> r, kept |-> singleFile.kept, quotes |-> 0]
    /\ asking' = Idle
    /\ UNCHANGED <<contextFiles, candidate, attempt>>

Miss(r) ==
    /\ Looking(r)
    /\ IF r.paired THEN ~PairServes(r) ELSE ~SingleServes(r)
    /\ asking' = [asking EXCEPT !.doing = "assembling"]
    /\ UNCHANGED <<contextFiles, candidate, attempt, served>>

Assembling(r) == asking = [request |-> r, doing |-> "assembling"]
TooLong(r) == Prompt(r, Assembled(candidate)) > r.cap

(* One pack only: it fits or the request raises. *)
SaveSingle(r) ==
    /\ Assembling(r) /\ ~r.paired
    /\ ~TooLong(r)
    /\ singleFile' = [request |-> r, kept |-> Assembled(candidate), budget |-> candidate]
    /\ served' = [request |-> r, kept |-> Assembled(candidate), quotes |-> 0]
    /\ asking' = Idle
    /\ UNCHANGED <<packFile, registryFile, candidate, attempt>>

RaiseSingle(r) ==
    /\ Assembling(r) /\ ~r.paired
    /\ TooLong(r)
    /\ asking' = Idle
    /\ UNCHANGED <<contextFiles, candidate, attempt, served>>

SavePack(r) ==
    /\ Assembling(r) /\ r.paired
    /\ ~TooLong(r)
    /\ packFile' = [request |-> r, kept |-> Assembled(candidate), budget |-> candidate]
    /\ asking' = [asking EXCEPT !.doing = "registering"]
    /\ UNCHANGED <<registryFile, singleFile, candidate, attempt, served>>

SaveRegistry(r) ==
    /\ asking = [request |-> r, doing |-> "registering"]
    /\ registryFile' = [request |-> r, quotes |-> Registry(packFile.kept)]
    /\ served' = [request |-> r, kept |-> packFile.kept, quotes |-> Registry(packFile.kept)]
    /\ asking' = Idle
    /\ UNCHANGED <<packFile, singleFile, candidate, attempt>>

Excess(r) == Prompt(r, Assembled(candidate)) - r.cap

(* The budget shrinks by what was too long, at least by one. *)
Shrink(r) ==
    /\ Assembling(r) /\ r.paired
    /\ TooLong(r)
    /\ Excess(r) <= candidate
    /\ attempt + 1 < Attempts
    /\ candidate' = candidate - Excess(r)
    /\ attempt' = attempt + 1
    /\ UNCHANGED <<contextFiles, asking, served>>

(* Below zero, or no attempt left. *)
Surrender(r) ==
    /\ Assembling(r) /\ r.paired
    /\ TooLong(r)
    /\ Excess(r) > candidate \/ attempt + 1 = Attempts
    /\ asking' = Idle
    /\ UNCHANGED <<contextFiles, candidate, attempt, served>>

(* The process is killed. *)
Kill ==
    /\ asking # Idle
    /\ asking' = Idle
    /\ UNCHANGED <<contextFiles, candidate, attempt, served>>

ContextNext ==
    \/ \E r \in Requests :
          \/ Ask(r)
          \/ LoadPair(r) \/ LoadSingle(r) \/ Miss(r)
          \/ SaveSingle(r) \/ RaiseSingle(r)
          \/ SavePack(r) \/ SaveRegistry(r)
          \/ Shrink(r) \/ Surrender(r)
    \/ Kill

ContextSpec == ContextInit /\ [][ContextNext]_contextVars

-----------------------------------------------------------------------------
(* Properties. *)

(* The type invariant; a registry is never longer than the units on offer. *)
ContextTypeOK ==
    /\ packFile \in [request : Requests \cup {Nobody}, kept : 0..Offered, budget : Nat]
    /\ registryFile \in [request : Requests \cup {Nobody}, quotes : 0..Offered]
    /\ singleFile \in [request : Requests \cup {Nobody}, kept : 0..Offered, budget : Nat]
    /\ asking \in [request : Requests \cup {Nobody},
                   doing : {"nothing", "looking", "assembling", "registering"}]
    /\ candidate \in Nat
    /\ attempt \in 0..(Attempts - 1)
    /\ served \in [request : Requests \cup {Nobody}, kept : 0..Offered, quotes : 0..Offered]

(* The budgets tried for a request, in order, and what assembling ends with. *)
TriedBudgets(r) ==
    LET f[i \in 0..(Attempts - 1)] ==
          IF i = 0 THEN Budget(r)
          ELSE LET over == Prompt(r, Assembled(f[i - 1])) - r.cap
               IN IF over <= 0 \/ over > f[i - 1] THEN f[i - 1] ELSE f[i - 1] - over
    IN f

Tried(r) == TriedBudgets(r)[Attempts - 1]

(***************************************************************************)
(* Whatever requests, kills and configurations came before, a request is   *)
(* given what assembling afresh would give it, and a registry that is of   *)
(* this very pack: a file left by another cap, by the request without the  *)
(* text or by a run killed between the two files is never served.          *)
(***************************************************************************)
ServedAsAssembled ==
    served # Nothing =>
        LET r == served.request IN
        /\ served.kept = Assembled(IF r.paired THEN Tried(r) ELSE Budget(r))
        /\ served.quotes = IF r.paired THEN Registry(served.kept) ELSE 0
        /\ Prompt(r, served.kept) <= r.cap
=============================================================================
