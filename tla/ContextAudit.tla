----------------------------- MODULE ContextAudit -----------------------------
(***************************************************************************)
(* The audit of assembled contexts (grounding/dev.py) and what it counts   *)
(* (grounding/evaluation.py): of the evidence retrieval had found, how     *)
(* much a token budget leaves.  Readiness asks for the same counts.        *)
(*                                                                         *)
(* The counts are sums over queries, so one query stands for all.  A unit  *)
(* takes its size in tokens, wherever it stands.                           *)
(***************************************************************************)
EXTENDS Naturals, FiniteSets

CONSTANTS
    ChunkCount,  \* chunks retrieval found, best first
    UnitSizes,   \* tokens of each canonical unit
    Limits,      \* token budgets a command is given
    MaxAudits    \* audits begun

ASSUME AuditAssumption ==
    /\ {ChunkCount, MaxAudits} \subseteq Nat
    /\ DOMAIN UnitSizes \subseteq Nat /\ IsFiniteSet(DOMAIN UnitSizes)
    /\ \A u \in DOMAIN UnitSizes : UnitSizes[u] \in Nat
    /\ Limits \subseteq Nat

VARIABLES
    chunkUnits,    \* units of each chunk
    goldChunks,    \* chunks judged relevant
    evidence,      \* groups of units, one of each of which makes the evidence complete
    packsOf,       \* budget the private packs were assembled under
    auditedFiles,  \* budget each tracked document is of
    auditing,      \* the audit in progress: its budget and its next document
    audits,        \* audits begun
    auditReport    \* the report, with the documents whose hashes it holds

frozenInputs == <<chunkUnits, goldChunks, evidence>>
auditVars == <<frozenInputs, packsOf, auditedFiles, auditing, audits, auditReport>>

Chunks == 1 .. ChunkCount
EvidenceUnits == DOMAIN UnitSizes
AuditedInOrder == <<"policy", "schema", "contexts", "citations">>
AuditedFiles == {AuditedInOrder[i] : i \in DOMAIN AuditedInOrder}

Unaudited == 0
NotAuditing == [limit |-> Unaudited, next |-> 0]
AuditReport(limit, hashed) == [limit |-> limit, hashed |-> hashed]
Blank == [name \in AuditedFiles |-> Unaudited]

AuditInit ==
    /\ chunkUnits \in [Chunks -> (SUBSET EvidenceUnits) \ {{}}]
    /\ goldChunks \in SUBSET Chunks
    /\ \E g, h \in SUBSET EvidenceUnits : evidence = {g, h} \ {{}}
    /\ packsOf = Unaudited
    /\ auditedFiles = Blank
    /\ auditing = NotAuditing
    /\ audits = 0
    /\ auditReport = AuditReport(Unaudited, Blank)

(***************************************************************************)
(* The commands.                                                           *)
(***************************************************************************)
AssembleDev(limit) ==
    /\ auditing = NotAuditing
    /\ packsOf' = limit
    /\ UNCHANGED <<frozenInputs, auditedFiles, auditing, audits, auditReport>>

StartAudit(limit) ==
    /\ auditing = NotAuditing
    /\ audits < MaxAudits
    /\ audits' = audits + 1
    /\ packsOf' = limit
    /\ auditing' = [limit |-> limit, next |-> 1]
    /\ UNCHANGED <<frozenInputs, auditedFiles, auditReport>>

(* Fault: a document that is there is not written again. *)
WriteAuditedOnce ==
    /\ auditing.next \in DOMAIN AuditedInOrder
    /\ LET name == AuditedInOrder[auditing.next] IN
          auditedFiles' = IF auditedFiles[name] = Unaudited
                       THEN [auditedFiles EXCEPT ![name] = packsOf] ELSE auditedFiles
    /\ auditing' = [auditing EXCEPT !.next = @ + 1]
    /\ UNCHANGED <<frozenInputs, packsOf, audits, auditReport>>

(* It reads the packs again; a killed write leaves the document torn. *)
WriteAudited ==
    /\ auditing.next \in DOMAIN AuditedInOrder
    /\ auditedFiles' = [auditedFiles EXCEPT ![AuditedInOrder[auditing.next]] = packsOf]
    /\ auditing' = [auditing EXCEPT !.next = @ + 1]
    /\ UNCHANGED <<frozenInputs, packsOf, audits, auditReport>>

AuditDies ==
    /\ auditing # NotAuditing
    /\ auditing' = NotAuditing
    /\ IF auditing.next \in DOMAIN AuditedInOrder
       THEN \E after \in {auditedFiles,
                          [auditedFiles EXCEPT ![AuditedInOrder[auditing.next]] = Unaudited]} :
               auditedFiles' = after
       ELSE UNCHANGED auditedFiles
    /\ UNCHANGED <<frozenInputs, packsOf, audits, auditReport>>

WriteReport ==
    /\ auditing # NotAuditing
    /\ auditing.next \notin DOMAIN AuditedInOrder
    /\ auditReport' = AuditReport(auditing.limit, auditedFiles)
    /\ auditing' = NotAuditing
    /\ UNCHANGED <<frozenInputs, packsOf, auditedFiles, audits>>

AuditNext ==
    \/ \E limit \in Limits : AssembleDev(limit) \/ StartAudit(limit)
    \/ WriteAudited \/ WriteReport \/ AuditDies

AuditSpec == AuditInit /\ [][AuditNext]_auditVars

(***************************************************************************)
(* What is assembled: the units of the chunks, best chunk first, each once,*)
(* left out when it does not fit in what remains.                          *)
(***************************************************************************)
InputUnits == UNION {chunkUnits[c] : c \in Chunks}
BestChunk(u) == CHOOSE c \in Chunks : u \in chunkUnits[c] /\ \A b \in 1 .. c - 1 : u \notin chunkUnits[b]
Earlier(u, v) == BestChunk(u) < BestChunk(v) \/ (BestChunk(u) = BestChunk(v) /\ u < v)
Place(u) == Cardinality({v \in InputUnits : Earlier(v, u)}) + 1

Pack(limit) ==
    LET at[i \in 1 .. Cardinality(InputUnits)] == CHOOSE u \in InputUnits : Place(u) = i
        filled[i \in 0 .. Cardinality(InputUnits)] ==
            IF i = 0 THEN [units |-> {}, tokens |-> 0]
            ELSE LET before == filled[i - 1]
                     tokens == before.tokens + UnitSizes[at[i]]
                 IN IF tokens > limit THEN before
                    ELSE [units |-> before.units \cup {at[i]}, tokens |-> tokens]
    IN filled[Cardinality(InputUnits)].units

(* _assemble_unbounded_dev *)
Unbounded == InputUnits

(***************************************************************************)
(* audit_dev_contexts and audit_evidence_retention                         *)
(***************************************************************************)
Represented(c, units) == chunkUnits[c] \cap units # {}
RetainedGold(units) == {c \in goldChunks : Represented(c, units)}
AllGroups(units) == \A group \in evidence : group \cap units # {}

(* _all_evidence_groups_represented wants a group, _complete_retention_rate*)
(* of the readiness command does not.                                      *)
AllEvidence(units) == evidence # {} /\ AllGroups(units)
CompleteEvidence(units) == AllGroups(InputUnits) /\ AllGroups(units)

One(holds) == IF holds THEN 1 ELSE 0

ConditionalRetention(units) ==
    [goldQueries |-> One(goldChunks # {}),
     retainedQueries |-> One(RetainedGold(units) # {}),
     completeQueries |-> One(AllEvidence(InputUnits)),
     retainedComplete |-> One(AllEvidence(InputUnits) /\ AllEvidence(units))]

(* _structural_loss_reason, of what no pack retains. *)
LossReason(c) ==
    CASE Represented(c, Unbounded) -> "ordering"
      [] ~Represented(c, Unbounded) /\ Represented(c, InputUnits) -> "deduplication"
      [] OTHER -> "other"

Losses(units) ==
    LET lost == goldChunks \ RetainedGold(units)
        reasons == [c \in lost |->
                       IF Represented(c, Unbounded) THEN "token budget" ELSE LossReason(c)]
    IN [reason \in {"token budget", "ordering", "deduplication", "other"} |->
           Cardinality({c \in lost : reasons[c] = reason})]

Retention(units) ==
    [gold |-> Cardinality(goldChunks),
     budgeted |-> Cardinality(RetainedGold(units)),
     unbounded |-> Cardinality(RetainedGold(Unbounded)),
     losses |-> Losses(units),
     lostQueries |-> One(goldChunks # {}) - One(RetainedGold(units) # {})]

BudgetOnlyLosses(retention) ==
    (retention.gold - retention.budgeted) - (retention.gold - retention.unbounded)

-----------------------------------------------------------------------------
(* Properties. *)

(* The type invariant. *)
AuditTypeOK ==
    LET Budgets == Limits \cup {Unaudited} IN
    /\ packsOf \in Budgets
    /\ auditedFiles \in [AuditedFiles -> Budgets]
    /\ auditing \in [limit : Budgets, next : 0 .. Cardinality(AuditedFiles) + 1]
    /\ audits \in 0 .. MaxAudits
    /\ auditReport \in [limit : Budgets, hashed : [AuditedFiles -> Budgets]]

(* The two audits of one set of packs agree, every relevant chunk is       *)
(* retained or lost for one reason, nothing is lost but to the budget, and *)
(* the readiness command's rate differs only on a query without evidence.  *)
CountsAgree(limit) ==
    LET units == Pack(limit)
        retention == Retention(units)
        metrics == ConditionalRetention(units)
    IN
    /\ retention.budgeted + retention.losses["token budget"] = retention.gold
    /\ retention.unbounded = retention.gold
    /\ BudgetOnlyLosses(retention) = retention.losses["token budget"]
    /\ retention.lostQueries = metrics.goldQueries - metrics.retainedQueries
    /\ metrics.retainedComplete <= metrics.completeQueries
    /\ CompleteEvidence(units) <=> evidence = {} \/ metrics.retainedComplete = 1

(***************************************************************************)
(* However audits under different budgets were killed half way: a report   *)
(* is written over four documents of its own audit, and its counts agree.  *)
(***************************************************************************)
AuditIsSound ==
    auditReport' # auditReport =>
        /\ \A name \in AuditedFiles : auditReport'.hashed[name] = auditReport'.limit
        /\ CountsAgree(auditReport'.limit)
=============================================================================
