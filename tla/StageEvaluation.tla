---------------------------- MODULE StageEvaluation ----------------------------
(***************************************************************************)
(* The evaluations of the persisted DEV generations of Stage A             *)
(* (generation/evaluation.py) and of Stage D                               *)
(* (generation/stage_d_evaluation.py).                                     *)
(*                                                                         *)
(* An evaluation trusts a query's checkpoint and result only when both are *)
(* of the configuration it computes, classifies what each generation came  *)
(* to, and writes its documents one after the other, the report last.      *)
(* Nothing is written when one query of the split cannot be trusted.       *)
(*                                                                         *)
(* GenerationRun models the run that writes the files; here it is only     *)
(* seen from them: a result, then its checkpoint, of any configuration.    *)
(***************************************************************************)
EXTENDS Naturals, Sequences, FiniteSets

CONSTANTS
    Configurations,  \* what fingerprints are taken of: model, prompt, schema, policy
    DevQueries,      \* queries of the split
    PopulationOf,    \* population of each: DevQueries -> Populations
    MaxStores,       \* results stored
    MaxEvaluations   \* evaluations that found every query

Populations ==
    {"answerable_gold_in_top8", "answerable_gold_absent_from_top8", "explicitly_unanswerable"}

ASSUME EvaluationAssumption ==
    /\ IsFiniteSet(DevQueries)
    /\ PopulationOf \in [DevQueries -> Populations]
    /\ MaxStores \in Nat /\ MaxEvaluations \in Nat
    /\ "none" \notin Configurations

VARIABLES
    stage,           \* "A" or "D"
    resultFile,      \* of each query
    checkpointFile,  \* of each query
    stores,          \* results stored
    evaluations,     \* evaluations begun
    publishing,      \* documents the evaluation in progress has written; none: idle
    documents        \* what each document describes

evaluationFiles == <<resultFile, checkpointFile>>
evaluationVars ==
    <<stage, evaluationFiles, stores, evaluations, publishing, documents>>

(***************************************************************************)
(* What a query came to, as its result file tells: how it was completed,   *)
(* the failure its telemetry names, the model's raw reply, the decision,   *)
(* and why it abstained.  A reply the parser or the quote registry refuses *)
(* is a completed generation with the failure "other".                     *)
(***************************************************************************)
Ending(completion, failure, raw, decision, reason) ==
    [completion |-> completion, failure |-> failure, raw |-> raw, decision |-> decision,
     reason |-> reason]

Endings ==
    {Ending("none", "timeout", "none", "abstain", "invalid"),
     Ending("policy", "none", "none", "abstain", "policy"),
     Ending("generation", "none", "answer", "answer", "none"),
     Ending("generation", "none", "abstain", "abstain", "none"),
     Ending("generation", "other", "invalid", "abstain", "invalid"),
     Ending("generation", "other", "answer", "abstain", "quote"),
     Ending("generation", "none", "answer", "abstain", "citation")}

(* Stage A alone has interpretations, which nothing supports. *)
Unsupported == Ending("generation", "none", "answer", "abstain", "semantic support")

EndingsOf(s) == IF s = "A" THEN Endings \cup {Unsupported} ELSE Endings

NotStored == [config |-> "none", ending |-> Ending("none", "none", "none", "none", "none")]
StageFiles == [config : Configurations, ending : EndingsOf(stage)]

NoDocument == [q \in DevQueries |-> NotStored]

(* Stage D's documents follow its three private reviews, one file here. *)
Documents(s) ==
    IF s = "A" THEN <<"metrics", "outcomes", "comparison", "report">>
    ELSE <<"reviews", "metrics", "outcomes", "policy", "comparison", "report">>

Names == {"reviews", "metrics", "outcomes", "policy", "comparison", "report"}

EvaluationInit ==
    /\ stage \in {"A", "D"}
    /\ resultFile = [q \in DevQueries |-> NotStored]
    /\ checkpointFile = [q \in DevQueries |-> NotStored]
    /\ stores = 0
    /\ evaluations = 0
    /\ publishing = "none"
    /\ documents = [name \in Names |-> NoDocument]

(***************************************************************************)
(* The run, between evaluations.                                           *)
(***************************************************************************)
StoresResult ==
    /\ publishing = "none"
    /\ stores < MaxStores
    /\ \E q \in DevQueries, file \in StageFiles : resultFile' = [resultFile EXCEPT ![q] = file]
    /\ stores' = stores + 1
    /\ UNCHANGED <<stage, checkpointFile, evaluations, publishing, documents>>

StoresCheckpoint ==
    /\ publishing = "none"
    /\ \E q \in DevQueries :
          /\ resultFile[q] # checkpointFile[q]
          /\ checkpointFile' = [checkpointFile EXCEPT ![q] = resultFile[q]]
    /\ UNCHANGED <<stage, resultFile, stores, evaluations, publishing, documents>>

(***************************************************************************)
(* _load_persisted_records and _load_records                               *)
(***************************************************************************)
(* Fault: the checkpoint's own fingerprint is not compared.                *)
TrustedPair(q, config) ==
    /\ checkpointFile[q] # NotStored
    /\ resultFile[q].config = checkpointFile[q].config

(* Of one fingerprint, and of the one the evaluation computes.  The files do*)
(* not name each other: a result stored again keeps the checkpoint valid.  *)
Matches(q, config) ==
    /\ checkpointFile[q] # NotStored
    /\ resultFile[q].config = checkpointFile[q].config
    /\ checkpointFile[q].config = config

IsComplete(file) == file.ending.completion # "none"

Trusted(q, config) ==
    /\ Matches(q, config)
    /\ stage = "D" => IsComplete(checkpointFile[q]) /\ IsComplete(resultFile[q])

LoadRecords ==
    /\ publishing = "none"
    /\ evaluations < MaxEvaluations
    /\ \E config \in Configurations : \A q \in DevQueries : Trusted(q, config)
    /\ evaluations' = evaluations + 1
    /\ publishing' = Documents(stage)[1]
    /\ UNCHANGED <<stage, evaluationFiles, stores, documents>>

(***************************************************************************)
(* What a document's records amount to.                                    *)
(***************************************************************************)
PolicyOutcomes ==
    {"deterministic_answerability_policy_abstention", "other_pre_generation_policy"}

FailureOutcomes ==
    {"invalid_json_or_schema", "transport_timeout", "other_runtime_failure"}

(* _first_decisive_outcome: an abstention without a reply is a policy's, and*)
(* so is a reason that is not an invalid generation.                       *)
FirstDecisiveOutcome(e) ==
    CASE e.reason \in {"policy", "semantic support"} -> "other_pre_generation_policy"
      [] e.raw = "none" -> "other_pre_generation_policy"
      [] e.decision = "abstain" /\ e.reason = "none" -> "explicit_model_abstention"
      [] e.raw = "invalid" -> "invalid_json_or_schema"
      [] e.reason = "quote" -> "invalid_unknown_quote_reference"
      [] e.reason = "citation" -> "phase9_citation_verification_failure"
      [] OTHER -> "successful_final_verified_answer"

(* _outcome: the telemetry's failure comes before what the reply was. *)
StageDOutcome(e) ==
    CASE e.completion = "policy" -> "deterministic_answerability_policy_abstention"
      [] e.failure = "timeout" -> "transport_timeout"
      [] e.failure # "none" -> "other_runtime_failure"
      [] e.raw = "invalid" -> "invalid_json_or_schema"
      [] e.raw = "abstain" -> "explicit_model_abstention"
      [] e.decision = "answer" -> "successful_final_verified_answer"
      [] e.reason = "quote" -> "invalid_unknown_quote_reference"
      [] e.reason = "citation" -> "phase9_citation_verification_failure"
      [] OTHER -> "other"

OutcomeOf(e) == IF stage = "A" THEN FirstDecisiveOutcome(e) ELSE StageDOutcome(e)

Having(records, outcomes) == {q \in DevQueries : OutcomeOf(records[q].ending) \in outcomes}
Deciding(records, decision) == {q \in DevQueries : records[q].ending.decision = decision}
Replying(records, raw) == {q \in DevQueries : records[q].ending.raw = raw}
InPopulation(population) == {q \in DevQueries : PopulationOf[q] = population}

(* _metrics and _qwen_metrics: the numerators. *)
Metrics(records) ==
    LET answers == Deciding(records, "answer")
        abstentions == Deciding(records, "abstain")
    IN [answers |-> Cardinality(answers),
        falseAnswers |-> Cardinality(answers \cap InPopulation("explicitly_unanswerable")),
        falseAbstentions |-> Cardinality(abstentions \cap InPopulation("answerable_gold_in_top8")),
        invalid |-> Cardinality(Having(records, IF stage = "A" THEN {"invalid_json_or_schema"}
                                                ELSE FailureOutcomes))]

(* _population_matrix: a row per population, a category per kind of outcome. *)
Categories ==
    {PolicyOutcomes, {"explicit_model_abstention"}, {"successful_final_verified_answer"},
     FailureOutcomes \cup {"invalid_unknown_quote_reference",
                           "phase9_citation_verification_failure"}}
Row(records, population) ==
    [category \in Categories |-> Cardinality(Having(records, category) \cap InPopulation(population))]

(* _policy_audit and _write_private_reviews: answerable queries refused. *)
PolicyRejections(records) ==
    {q \in InPopulation("answerable_gold_in_top8") : records[q].ending.completion = "policy"}

(* _raw_final and _raw_final_summary. *)
RawFinal(records) ==
    [rawAnswers |-> Cardinality(Replying(records, "answer")),
     failedClosed |-> Cardinality(Replying(records, "answer") \cap Deciding(records, "abstain")),
     finalAnswers |-> Cardinality(Deciding(records, "answer"))]

(* _decision, with the share of invalid generations under one in twenty. *)
Decision(records) ==
    LET metrics == Metrics(records) IN
    CASE metrics.invalid * 20 >= Cardinality(DevQueries) -> "OUTPUT_RELIABILITY_FAILURE"
      [] metrics.falseAnswers # 0 -> "TOO_PERMISSIVE"
      [] OTHER -> "NEEDS_QUALITATIVE_REVIEW"

(***************************************************************************)
(* The documents, one after the other; a killed evaluation leaves the rest *)
(* as an earlier one wrote them.                                           *)
(***************************************************************************)
Position(name) == CHOOSE i \in 1 .. Len(Documents(stage)) : Documents(stage)[i] = name
Following(name) ==
    IF name = "report" THEN "none" ELSE Documents(stage)[Position(name) + 1]

Publish ==
    /\ publishing # "none"
    /\ documents' = [documents EXCEPT ![publishing] = resultFile]
    /\ publishing' = Following(publishing)
    /\ UNCHANGED <<stage, evaluationFiles, stores, evaluations>>

EvaluationDies ==
    /\ publishing # "none"
    /\ publishing' = "none"
    /\ UNCHANGED <<stage, evaluationFiles, stores, evaluations, documents>>

EvaluationNext ==
    \/ StoresResult \/ StoresCheckpoint
    \/ LoadRecords \/ Publish
    \/ EvaluationDies

EvaluationSpec == EvaluationInit /\ [][EvaluationNext]_evaluationVars

-----------------------------------------------------------------------------
(* Properties. *)

(* The type invariant. *)
EvaluationTypeOK ==
    /\ stage \in {"A", "D"}
    /\ resultFile \in [DevQueries -> StageFiles \cup {NotStored}]
    /\ checkpointFile \in [DevQueries -> StageFiles \cup {NotStored}]
    /\ stores \in 0 .. MaxStores
    /\ evaluations \in 0 .. MaxEvaluations
    /\ publishing \in Names \cup {"none"}
    /\ documents \in [Names -> [DevQueries -> StageFiles \cup {NotStored}]]

(* The counts of one document agree: every query is in exactly one category,*)
(* the answers of the funnel are the answers of the metrics and the only   *)
(* replies not failed closed, and what is not answered is abstained.       *)
Agree(records) ==
    LET metrics == Metrics(records)
        raw == RawFinal(records)
        answered == {"successful_final_verified_answer"}
        top8 == "answerable_gold_in_top8"
        unanswerable == "explicitly_unanswerable"
    IN
    /\ \A q \in DevQueries :
          \E category \in Categories :
              {c \in Categories : OutcomeOf(records[q].ending) \in c} = {category}
    /\ metrics.answers = Cardinality(Having(records, answered))
    /\ raw.finalAnswers = metrics.answers
    /\ raw.failedClosed = raw.rawAnswers - raw.finalAnswers
    /\ metrics.falseAbstentions = Cardinality(InPopulation(top8)) - Row(records, top8)[answered]
    /\ Cardinality(PolicyRejections(records)) <= Row(records, top8)[PolicyOutcomes]
    /\ stage = "D" /\ Decision(records) = "NEEDS_QUALITATIVE_REVIEW" =>
          Row(records, unanswerable)[answered] = 0

(***************************************************************************)
(* Whatever runs and killed evaluations come between, a report is only     *)
(* published when it and all the other documents are of one evaluation, of *)
(* every query of the split under one configuration (for Stage D complete  *)
(* ones only), and no document ever disagrees with itself.                 *)
(***************************************************************************)
ReportIsOfOneEvaluation ==
    [][/\ \A name \in Names : documents'[name] # NoDocument => Agree(documents'[name])
       /\ documents'["report"] # documents["report"] =>
             /\ \A i \in 1 .. Len(Documents(stage)) :
                   documents'[Documents(stage)[i]] = documents'["report"]
             /\ \E config \in Configurations : \A q \in DevQueries :
                   /\ documents'["report"][q].config = config
                   /\ stage = "D" => IsComplete(documents'["report"][q])]_evaluationVars
=============================================================================
