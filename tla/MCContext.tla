------------------------------ MODULE MCContext ------------------------------
(* Instances of GenerationRun, strict, of the context cache it asks, and of*)
(* the commands that read what a run left, checked in one run: each takes the*)
(* other's files as they are given, and a behaviour is one of one component.*)
EXTENDS GenerationRun, ContextCache, TimeoutDiagnostic, StageEvaluation,
        ContextAudit, Readiness, TLC

CONSTANTS c, d

TwoConfigurations == {c, d}
FirstQuery == {1}
SecondQuery == {2}
FiveCaps == {3, 14, 17, 21, 22}
Symmetry == Permutations(Configs)

(* A reply of each kind, and one that differs from another in its timing. *)
FiveBodies ==
    [kind : Kinds, timing : {1}] \cup {[kind |-> "verified", timing |-> 2]}

TwoQueries == {1, 2}
OneOfEach ==
    [q \in TwoQueries |-> IF q = 1 THEN "answerable_gold_in_top8" ELSE "explicitly_unanswerable"]

TwoUnits == <<2, 1>>
TwoLimits == {1, 2}
TwoLengths == <<1, 2>>

VARIABLE active   \* the component of this behaviour

GenerationInit ==
    /\ active \in {"run", "context", "timeouts", "evaluation", "audit", "readiness"}
    /\ Init /\ ContextInit /\ TimeoutInit
    /\ EvaluationInit /\ (active # "evaluation" => stage = "A")
    /\ AuditInit /\ (active # "audit" =>
                         chunkUnits = [n \in Chunks |-> {1}] /\ goldChunks = {} /\ evidence = {})
    /\ ReadinessInit /\ (active # "readiness" =>
                             /\ generatorName = "A"
                             /\ fits = [q \in ReadyQueries |-> "both"]
                             /\ policy = [q \in ReadyQueries |-> "allowed"])

GenerationNext ==
    /\ UNCHANGED active
    /\ \/ active = "run" /\ Next
       \/ active # "run" /\ UNCHANGED vars
    /\ \/ active = "context" /\ ContextNext
       \/ active # "context" /\ UNCHANGED contextVars
    /\ \/ active = "timeouts" /\ TimeoutNext
       \/ active # "timeouts" /\ UNCHANGED timeoutVars
    /\ \/ active = "evaluation" /\ EvaluationNext
       \/ active # "evaluation" /\ UNCHANGED evaluationVars
    /\ \/ active = "audit" /\ AuditNext
       \/ active # "audit" /\ UNCHANGED auditVars
    /\ \/ active = "readiness" /\ ReadinessNext
       \/ active # "readiness" /\ UNCHANGED readinessVars

generationVars ==
    <<active, vars, contextVars, timeoutVars, evaluationVars, auditVars, readinessVars>>

(* The types of all. *)
TypesOK ==
    /\ TypeOK /\ ContextTypeOK /\ TimeoutTypeOK
    /\ EvaluationTypeOK /\ AuditTypeOK /\ ReadinessTypeOK

(* However audits of the assembled contexts, readiness commands and runs were*)
(* killed and replaced each other's files: the audit's report is of one audit*)
(* and its counts agree; the status accounts for every query, and what is  *)
(* recorded as ready can be had, as it is recorded (audit_dev,             *)
(* generation_status, stage_c_readiness, stage_d_readiness).               *)
PreparedAsReported == [][AuditIsSound /\ ReadinessIsSound]_generationVars

GenerationSpec == GenerationInit /\ [][GenerationNext]_generationVars
=============================================================================
