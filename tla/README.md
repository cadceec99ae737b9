# Verification of Kawaneen

Kawaneen answers questions about Arabic legal text. A FastAPI service retrieves
passages, reranks them, answers only from verified citations and abstains
otherwise; offline commands acquire the data, build the corpus, the indexes and
the benchmark, and run the experiments and model evaluations it stands on. This
directory models the parts of it whose behaviour is hard to test: what happens
when requests, timeouts, threads, crashes, restarts and repeated commands
interleave, what an answer may contain whatever the model wrote, and a few
computations whose corner cases are more than a test can list. Paths below are
relative to the repository's `src/kawaneen/` unless they start with `docs/`.

The modules are checked with TLC (`tlc -config X.cfg MCModule`) and the proofs
with TLAPS (`tlapm XProofs.tla`). `PROJECT.json` lists every run, theorem,
hazard and known divergence, and maps every definition to the lines it models.

## 1. Inventory

### Parts that are modelled

Serving an answer:

| Part | State | Operations | Talks to | Hard behaviour | Correct when |
|---|---|---|---|---|---|
| Container (`api/runtime.py`, `composition.py`, `app.py`) | services built, readiness flags, `_initialized`, `_closed` | build from local assets, initialize components in order, health, close | lifespan, every handler | one initializer fails and the others go on; flags and services are set in different places | "healthy" means the required endpoints accept work; answering is never ready without retrieval |
| Request handling (`api/routers.py`, `middleware.py`) | suspended handlers, work items on the thread pool | search, answer, extract, documents, health, timeout | container, limiter, pool | a timeout races a result; timed-out threads go on; work may hang | one response per request, every request answered |
| Demo limiter (`demo/limits.py`) | bounded semaphore, deque of admission times | acquire, release | guarded handlers | permits on every exit; eviction at the window's edge | no permit leaks or multiplies; at most 30 admissions in any window |
| Hybrid search (`retrieval/serving.py`, `hybrid/fusion.py`, `pipeline.py`) | none | rank, fuse, rerank, serve | indexes, reranker, serving corpus | rankings that repeat or lack a chunk, partial scores, ties, two cuts | no cut drops what every ranking and the reranker prefer |
| Context assembly (`grounding/assembly.py`, `rendering.py`, `provenance.py`) | candidate units with ranks, omissions | place each unit of each ranked chunk | retriever, corpus | overlapping chunks, exact budget, headings that cost lines | budget, completeness, full provenance |
| Grounded answering (`generation/serving.py`, `policy.py`, `answerability.py`, `quote_registry.py`, `postprocessing.py`, `grounding/verification.py`, `citations.py`) | the request's stage | assemble, decide, generate, verify | assembly, policy, model | model output is arbitrary; two policies refine each other | answers show only text of this context, cited to where it was retrieved |

Offline generation:

| Part | State | Operations | Hard behaviour | Correct when |
|---|---|---|---|---|
| Generation runs (`generation/orchestration.py`, `checkpoints.py`, `ollama.py`) | checkpoint and result per query | run Stages A to D, resume | stale result behind a valid checkpoint | what is resumed was completed under this configuration; a resumed run finishes |
| Context cache (`generation/stage_c_context.py`, `context.py`) | context pack and quote registry per query | assemble within the input cap, load | two files written one after the other, three requests that share them, a budget that shrinks | what is served is what assembling afresh gives |
| Readiness and status (`generation/orchestration.py`) | packs, checkpoints, readiness records | readiness of each stage, status | readiness and a run replace each other's files; kills | what is recorded ready can be had |
| Timeout diagnostic (`generation/timeout_diagnostic.py`) | envelope, record, corrected record per query | replay, resume, evaluate | a kill between envelope and record; no two replies are the same | the first reply stays the evidence and is counted once |
| Stage evaluations (`generation/evaluation.py`, `stage_d_evaluation.py`) | four or six documents | evaluate | runs between and during evaluations | a report is of one evaluation of one configuration; its counts agree |
| Context audit (`grounding/dev.py`, `evaluation.py`) | packs, audit files, report | audit under a budget | kills; audits under different budgets | a report is over documents of its own audit; what budget lost is counted once |

Extraction:

| Part | State | Operations | Hard behaviour | Correct when |
|---|---|---|---|---|
| Hybrid extraction run (`extraction/hybrid_runtime.py`, `checkpoints.py`, `orchestration.py`) | checkpoint, result and preserved first attempt per record, two published configurations | run, resume, retry timeouts | death between any two of the files; several configurations | a settled record has its own result; nothing is published before every record is settled |
| Annotation pack (`extraction/annotation.py`, `interactive.py`, `orchestration.py`) | record and adjudication status per record, release | prepare, export, annotate, import, adjudicate, freeze | an interactive session beside batch commands; a half-published import | human gold is a person's; a release never changes |
| Extraction evaluations (`extraction/stage_b1_evaluation.py`, `stage_b2_holdout_evaluation.py`) | result files of several runs, configuration, lock, four documents | run, evaluate, reserve the holdout | runs resumed or replaced between evaluations | a report is of one run; the holdout ran under the locked configuration |
| Proposal assembly (`extraction/hybrid.py`, `span_validation.py`, `interactive.py`) | none | resolve quotations and references | repeated and overlapping quotations; four resolvers of the same thing | what is kept is what was meant; what is dropped has a diagnostic |

Retrieval experiments and data:

| Part | State | Operations | Hard behaviour | Correct when |
|---|---|---|---|---|
| Embedding cache (`retrieval/cache.py`, `encode_corpus`) | block files, manifest with digests, progress, combined files | encode, resume, load | interruption, damage, changed settings | what loads is one whole encoding |
| Phase 7 baselines (`retrieval/orchestrator.py`) | DEV metrics, frozen selection, holdout artifacts, hash manifest, report | evaluate, compare, freeze, holdout, recover, refresh, report | commands in any order; timings differ whenever something is measured again | the holdout is evaluated once, after the freeze; its record stays true |
| Hybrid experiment (`retrieval/hybrid/`) | rerank rows and manifest, frozen selection, holdout results, final artifacts | fuse, rerank, freeze, holdout, report | commands repeated in any order on any device, death anywhere | the selection is frozen once; the holdout is ranked after it, once; artifacts agree |
| Acquisition (`acquisition/`) | raw files, partial files, five manifests | authorize, acquire, verify, screen, build manifests, rebuild | kills, files imported by hand, three atomic and two truncated manifests | raw files never change; every manifest tells of every source |
| Canonical corpus (`corpus/`) with the experiments on it (`normalization/`, `chunking/orchestrator.py`) | tables, inventories, manifests over all sources, private views, results | build, normalize, chunk | a build beside an experiment; builds of some sources only | an inventory is of what was built; an experiment's result names the corpus it read |
| Chunking (`chunking/strategies.py`, `structure.py`, `validation.py`) | none | fixed, structural, neighbour, parent-child chunks | boundaries, overlaps, packing | no token is lost, no chunk fails its gates |
| Splits (`evaluation/splits.py`) | none | group, assign, mark smoke | chains of shared documents | no document or group on both sides |
| Evaluation release (`evaluation/orchestrator.py`, `review.py`, `freeze.py`) | drafts, packets, two releases with manifests | build drafts, export, import, freeze, copy | kills, packets imported after a rebuild | a release is what its manifest says and stays |
| Phase 15 review (`phase15/review.py`, `automated_adjudication.py`, `final_artifacts.py`, `orchestrator.py`) | candidates, packet, manifests, decisions, report | collect, prepare, review, adjudicate, report, finalize | clones without the private half; repeated draws | decisions are about the packet the manifests name, and stay |
| Phase 15 experiments (`phase15/real_experiments.py`, `content_audit.py`, `evidence.py`, `orchestrator.py`) | plan, lock, registry, variants, vectors, matrix, status | plan, lock, register, run each, audit, finalize | commands repeated after others made their inputs new | what is published is never ahead of its private evidence |

### Parts that are not modelled

*API contracts, prompts, model backends, tracing, settings, deployment, command
line, Streamlit client, the source registry*: data, calls of external libraries
or a single validation, with no state that outlives a call. Where their outcome
matters (what a model may reply or raise, which bounds reject a request) the
modules above choose it nondeterministically.

*Deterministic extraction, normalization's text transforms, the retrieval
indexes and metrics, lexical retrieval of the demo, semantic diagnostics*: pure
functions of strings or numbers. A transcription character by character would be
as long as the code; the bookkeeping over their results is modelled.

*Parsing and OCR*: routing is a pure decision and the rest calls Docling and
RapidOCR. Its one-shot holdout is a shorter form of the protocol in
`RetrievalBaselines` and `HybridExperiment`.

*Dataset drafting and literal adjudications* (`evaluation/adjudication_*.py` and
the drafting modules): text generation and patches for named records, each run
once; `EvaluationRelease` takes each draft as made from the one before it and
its adjudication file.

*Metadata filters*: no command of the repository calls them.

Of the modelled parts, `PROJECT.json` names what is left out of each: reports of
statistics, lengths and latencies, the loading of corpora and registries, status
commands that only read.

## 2. Plan and layout

Most important behaviour first:

1. `Container`, `Serving` over it, and `Admission`, the abstract contract of the
   limiter, which `Serving` is shown to implement. `ServingProofs`.
2. `ExtractionRun`, `GenerationRun`: the two resumable pipelines.
   `ExtractionProofs`, `ContextProofs`.
3. `ContextAssembly` priced by `Rendering`, and `Answering` on top of it.
   `AnsweringProofs`.
4. `DenseCache` and `HybridExperiment`, whose `cached` flag is `DenseCache`'s
   loadable state. `OfflineProofs`, `PipelineProofs`.
5. What surrounds the generation runs: `ContextCache`, `Readiness`,
   `TimeoutDiagnostic`, `StageEvaluation`, `ContextAudit`. `ContextProofs`.
6. What surrounds the extraction run: `AnnotationPack`, `ExtractionEvaluation`.
   `ExtractionProofs`.
7. The other protocols that decide once: `RetrievalBaselines`,
   `EvaluationRelease` with `Splits`, `DiagnosticReview`, `DiagnosticExperiments`.
   `OfflineProofs`.
8. The data: `Acquisition`, `CanonicalCorpus`. `PipelineProofs`.
9. What is computed at once: `Splits`, `SpanAssembly`, `Chunking`,
   `HybridSearch`. `ComputationProofs`, `ChunkingProofs`; `OfflineProofs` puts
   them together as their run does.

`Answering` extends `ContextAssembly`, and `Serving` extends `Container`: there
one component's steps are the other's. The remaining components meet only
through files that one of them writes and the other finds in some state; each
module then lets what it reads be any state the writer can leave. Components
that share no changing file share a run: `MCAnnotation`, `MCContext`,
`MCOffline` and `MCPipeline` have a variable `active` that names the component a
behaviour is of, so that the whole project is checked in minutes and a run asks
one kind of question.

A proof module is about the components of one run, and proves what each
component promises before it puts them together as the run does.

What is left for later: an abstract "resumable job" that `ExtractionRun` and
`GenerationRun` both implement, the statutory
reconstruction of `corpus/statutory.py`.

## 3. The modules

Every operator whose comment begins with "Fault" is a plausible bug of the
definition that follows it. No specification uses it; it shows that a property
fails when the code goes wrong that way (section 7).

### Container and Serving

`Container` is `ServiceContainer`. `stage` is the lifespan; `services`, `ready`,
`initialized` and `closed` are the fields of the same name. `BuildContainer`
composes services from any subset of the local assets, in the nesting of
`build_default_container`; `ComponentInitialized`, `ComponentUnavailable` and
`InitializerRaises` are the three exits of the loop in `initialize`.

`Serving` extends it. A handler runs without interruption up to the `await` in
`_run_with_timeout` and from there to its end, so an arrival is one action
(`RejectedBy...`, `HealthProbed`, `Admitted...`) and the resumption another
(`Deliver`, `Timeout`). Between them `StartJob` and `FinishJob` are the pool's
threads. `asyncio.to_thread` cannot be interrupted: `Timeout` cancels a queued
item, but a running one goes on with its result ignored. `permits` and
`timestamps` are the limiter's semaphore and deque; `admissions` is a history of
every time ever appended, which the code does not keep.

`Admission` says what the demo promises without queue, deque or pool:
`Enter`, `Leave`, `Elapse` over the set of requests inside and the log of
admissions. `ImplementsAdmission` maps `inside` to the handlers that hold a
permit and `log` to `admissions`.

### ExtractionRun, AnnotationPack, ExtractionEvaluation

In `ExtractionRun` the files are the variables `checkpoint`, `result`,
`preserved`, `tracked`, `private`; the process is `pc`, `run`, `at`, `attempt`,
`failure`. There is one action per atomic file write, in the code's order:
`WritePrepared`, `WriteAttempted`, the provider's call, `StoreResult`,
`CompleteCheckpoint` and the rejection and failure paths. `AttemptRaises` is the
`except` clause, reached from every step of the `try` block. `Crash` leaves only
files.

`AnnotationPack` replaces one record at a time; the interactive session reads a
record and saves it later, whatever commands came between. A text is taken as
whose proposal it is (a model's, a reviewer's, a person's). `GoldIsHuman` says
that what counts as human gold is a person's work, `FreezeIsFinal` that a release
holds the adjudicated texts whatever imports came before it, and that a freeze
which died between its two files can never be completed. An import cut between
two records leaves a pack that nothing marks as half imported: the model reaches
it, and what a release makes of it is all that the two properties say.

`ExtractionEvaluation` has the DEV and the protected HOLDOUT experiment, with
the lock on the DEV configuration. A rule is its key; a view counts true and
false positives of completed and of all records. `ReportIsOfOneRun` says a
report is published after its private documents, over a result for every record,
with counts that agree.

### GenerationRun and what surrounds it

`GenerationRun` takes one query at a time: prepare the context, ask the policy,
look for a resumable checkpoint, generate, store the result, store the
checkpoint. The fingerprint is the pair of configuration and context. `Strict`
distinguishes Stages C and D, which read the result before they trust a
checkpoint, from Stages A and B, which do not. The checked instances and the
theorems are about `Strict`; what `Strict = FALSE` allows is listed as a hazard.

`ContextCache` is the context of one query: the budget is reduced by what the
prompt is over its cap, attempt after attempt, and the pack and its registry are
two files; `ServedAsAssembled` compares what is served with assembling afresh.
`Readiness` has readiness commands and runs over the same files, and the status.
`TimeoutDiagnostic` writes an envelope once and a record after it;
`FirstReplyIsEvidence` speaks of the envelope, the record and both evaluations.
`StageEvaluation` classifies what a generation came to (a chain of conditions
whose order decides) and writes the documents one by one. `ContextAudit`
assembles under a budget and without, and counts what was lost.
`PreparedAsReported` joins the last one's and readiness's promises.

### ContextAssembly, Rendering, Answering

`ContextAssembly` walks the ranked chunks, one action per unit: `KeepUnit`,
`OmitUnit`, `RepeatUnit`. The price of a context is the parameter `Tokens`, a
function on sets of units; the model checker prices them with `Rendering`, which
counts the lines of the rendered context with its headings and separators.

`Answering` continues with a finished context. `PolicyRefuses` and
`PolicyPermits` carry the gates of the base policy and of the Stage-D policy on
top of it. The generator may raise, abstain, fail or write any set of claims
with any citations, right or wrong; `VerifyDraft` is `verify_draft` with the
structural checks before it and the answerability rule after it. A query names
its pipeline: the serving one (quote registry, whole-unit quotations) or the
offline one (`postprocessing.py`, free quotations).

### DenseCache, RetrievalBaselines, HybridExperiment

`DenseCache`: `blocks`, `named`, `manifest` and `progress` are the block files,
ID files, manifest and progress file of one cache directory; `vectors`, `ids`
and `metadata` the combined files. A vectors file is told apart by the settings
and batch size it was encoded with, and may be damaged while nobody runs. A
failed batch is retried with half the batch size, as in `encode_checkpointed`.

`RetrievalBaselines`: a file is what it says that a command tells apart, and a
measurement is the timings of one evaluation, which differ when it is repeated:
that is what makes a recovery, a refresh and a report agree or not.
`HoldoutIsFinal` says the holdout is measured once, and joins three more facts:
manifest and selection stay those of the holdout (`HoldoutOnRecord`), a replay is
of the metrics on disk with every method's rankings (`ReplayWhole`), and no
report outlives the holdout it describes (`ReportOfOneHoldout`). It also states
what cannot be made good: a holdout that died before its manifest.

`HybridExperiment`: each command of the CLI is a `Start...` action with its
guard (the readiness checks at the head of the function) and one action per file
it writes; `step` says which command runs and `Stop` ends it anywhere. `world`
is what the experiment does not control: whether the embedding cache loads and
whether the DEV metrics pass the selection rule.

### Splits, EvaluationRelease

`Splits` joins items that share an intent with its documents, or a document, by
the code's union-find, assigns groups by the subset sum nearest to a third, and
marks smoke items. It is checked against a definition by chains of links, and by
what `split_diagnostics` counts: no document is on both sides (`NoLeakage`), and
an intent only when two of its items share no document (`FamiliesTogether`). A
group is named by a digest, so any order of the names is possible: `keyOrder` is
chosen with the items, among numberings that tell all names apart.
`EvaluationRelease` makes each draft from the one before it and an adjudication,
exports and imports packets, freezes `v1` and copies the AI-reviewed release.

### DiagnosticReview, DiagnosticExperiments

Phase 15 is two modules. In the first a draw is what one collection of
candidates gives; `OneReview` says that what
finalize lets pass, packet, manifests and adjudications, is of one review,
`ReviewIsFinal` that no decision is lost and no packet or audit replaced. In the second a
tracked file is `Committed` or numbered by the variants it was made from;
`EvidenceBehind` says that nothing published is ahead of the private evidence it
was computed from, wherever a command ended; `EvidenceHeld` adds that the
registry is never replaced and that only other evidence or another audit closes
finalize's gate again. The model adjudicates a packet of any size, where the code
insists on thirty cases.

### Acquisition, CanonicalCorpus

`Acquisition` installs raw files through partial ones, and rebuilds five
manifests row by row, of the sources still to do (`todo`) the first in the
registry's order. The parts of `AcquisitionIsSound`: an installed file never
changes (`RawStays`); no row is lost, except from a CSV manifest while it is
being written (`RowsStay`); what a manifest says of a source is installed, whole
(`RowsAreTrue`); where a build or a rebuild ends the five agree (`BuildsAgree`).

`CanonicalCorpus` builds tables, inventories and manifests over all sources and
runs the normalization and the chunking experiment beside them, each hashing the
tables before and after in its own order. `ManifestsFollow`, `BuildIsInventoried`
and `ExperimentsNameTheirCorpus` are the parts of `CorpusIsSound`.

### SpanAssembly, Chunking, HybridSearch

Pure functions, each with the inputs chosen in the initial state and one or two
steps. `SpanAssembly` holds the resolver of the assembly, the exact-span
resolver, the terminal's and the annotations' validation; it checks that what is
kept is meant and that the four agree. `Chunking` holds all strategies over
texts of spaces, newlines, commas and full stops, and the integrity gates; what
the code collects in the order in which it occurs in a text is here a set of
spans put in order (`InOrder`), and the packing of short pieces and the stream of
the fixed windows are recursive functions, step by step as in the code.
`HybridSearch` compares fused scores as fractions, exactly, and checks the two
cuts against what the rankings and the reranker prefer. Both put a set in order by
how many elements are ahead of each (`Arranged`, in the module `Arrangement`),
which is what sorting by a key that tells all elements apart comes to.

## 4. The runs

| Run | Instance | Distinct states | What it shows |
|---|---|---|---|
| `serving_demo` | demo profile, 3 requests, 3 endpoints, 1 thread, 1 permit, 2 admissions per 2 time units, 4 instants | 124 364 | `SlotAccounting`, `ImplementsAdmission`; `EveryRequestAnswered`, and `ShutdownCompletes` unless work hangs |
| `serving_local` | full profile, 2 requests, 5 endpoints, every subset of assets | 37 060 | `ReadinessIsHonest`, `ResponseIsFinal` |
| `serving_concurrent_work` | demo profile, 2 requests, 2 threads | counterexample | divergence 1 |
| `extraction_run` | run: 2 records, 2 configurations, 3 runs; pack: 2 records in each split; evaluations: 2 records, 3 experiments | 1 738 370 | `SettledIsDocumented`, `PublishedMeansSettled`, `ResumeKeepsSettled`; `GoldIsHuman`, `FreezeIsFinal`; `ReportIsOfOneRun` |
| `extraction_retry` | 1 record, 1 configuration, 4 runs | counterexample | divergence 2 |
| `generation_strict` | run: 2 queries, 2 configurations, any number of runs; context: 5 caps, 3 attempts; timeouts: 2 queries, 2 replays; evaluation: 2 queries, 3 stores; audit: 2 chunks, 2 budgets; readiness: 2 queries | 1 064 588 | `CompleteWasObtained`, `ResumedIsCurrent`, `CompletedIsKept`; `ServedAsAssembled`; `FirstReplyIsEvidence`; `ReportIsOfOneEvaluation`; `PreparedAsReported` |
| `generation_resume` | 2 queries, 1 configuration | 6 714 | `EveryQueryCompleted` |
| `answering` | 5 chunks over 4 units of 2 documents, rankings of up to 3, 22 kinds of query, drafts of up to 2 claims | 289 789 | `ContextIsSound`, `AnswersAreGrounded`, `GeneratedWhenEligible`, `KnownReferencesAnswered` |
| `answering_empty` | 1 plain query | counterexample | divergence 3 |
| `offline_commands` | cache, baselines, splits, release, review, experiments, spans, chunks, search (below) | 664 832 | `CacheStaysSound`, `HoldoutIsFinal`, `ReleasedAndReviewedStay`, `EvidenceHeld`, `ComputedAsPromised` |
| `experiments_and_data` | hybrid: 2 + 2 queries, 2 devices, 2 results; acquisition: 2 sources, 2 local files, 2 versions; corpus: 2 sources, 2 builds | 1 631 472 | `SelectionIsSound`, `ArtifactsAreSound`, `HoldoutIsOneShot`; `AcquisitionIsSound`; `CorpusIsSound` |
| `hybrid_manifest` | the hybrid experiment with 1 device | counterexample | divergence 4 |

Every run also has the type invariant of its modules, `TypeOK` or `TypesOK`.

**Bounds.** A bound is a constant whose name begins with `Max`, except that
`MaxConcurrent` and `MaxClaims` are values of the code (1 and 3 there), `MaxEvidence`
is how many contents the registered evidence may have, and `Maximum` is a chunk's. Every other instance is finite by itself.
They are enough for the cases the properties are about: three requests are one
more than the admissions of a window and two more than the permits, four
instants are two windows, so an admission expires exactly at the edge; two
records let a run be past one and at the other, three runs let a configuration
be left and returned to (four for the retry, which needs two deaths); two
configurations, settings, devices, measurements, adjudications and results are
what "mine" and "another's" distinguish; three blocks let a valid, a damaged and
a missing one coexist; in the context instance the heading changes and returns,
chunks overlap, one chunk cannot be resolved, and the budget holds most but not
all units. The theorems of section 6 remove the bounds from many of these
properties.

Of the newer modules: `ContextCache` has a cap that leaves no budget and four at
which different numbers of units fit and of attempts are needed, with the
jurisdiction's text and without.
`ExtractionEvaluation` is checked with one rule key (with two of them and two
experiments, 5.2 million states, nothing else appears). `CanonicalCorpus` begins
with nothing, with a fresh checkout or with a finished build, has one case
source and the statutes, one of which is revised once, one experiment in each
behaviour and two builds; without the bound on builds it has 2.05 million states
and the same results. `SpanAssembly` has texts of up to three characters in
which a quotation occurs once, twice, overlapping itself or not at all, with any
occurrence number from -1 to 2, one field at a time beside the rule's action.
`Chunking` has windows of three tokens, a target of two and an overlap of one,
over every text of up to six characters in one unit and of up to two in each of
two units, so that every boundary falls everywhere. `HybridSearch` uses the real
constant 60 of the fusion over four chunks, keeps three of the fusion and serves
two, with rankings that repeat a chunk, missing scores and a serving corpus that
lacks a chunk. `Splits` has five items, so that a third is two, of two
intents, over two documents and their absence; an intent's items have any
documents, so that families are divided too. `DiagnosticReview` draws two populations, one of
them three times; `DiagnosticExperiments` five commands over two generations of
variants.

**Symmetry** is declared over requests, fingerprints, configurations, settings,
adjudications and results, and only in runs without liveness properties.

**Deadlock** is not checked: every modelled system really stops (the process
ends, the request is answered, the clock's bound is reached).

## 5. Fairness

*Serving* (`LoopFairness`): the event loop runs its due callbacks and timers
(`Deliver`, `Timeout`), the pool's threads take queued work (`StartJob`), the
server runs its shutdown (`CloseContainer`). `FinishJob` has no fairness: a model
call may hang for ever, which is why `EveryRequestAnswered` rests on the timers
and why `ShutdownCompletes` is conditional on the orphaned work ending. No
fairness is asked of clients or of the clock. `Timeout` is weakly fair although
the model does not measure a request's own deadline: it may come early or late,
but it does come, which is what `wait_for` guarantees.

*GenerationRun* (`ResumingSpec`): the operator starts the resume command again
whenever it ended, and no step fails for ever at the same place (strong fairness
of each step's success for each query). The code cannot promise the second part;
without it nothing could be completed. The property still says something about
the code, since a store that skips failed queries violates it.

The remaining commands promise nothing eventually: an operator may never give
them again, so their modules state no fairness.

## 6. What is proved

All theorems hold for every value of the constants under the assumptions named
in the modules. `tlapm` checks every leaf; no proof is left out.

| Module | Theorems | Along which argument |
|---|---|---|
| `ServingProofs` | type; `SlotAccounting`; `RateBudget`; `ResponseIsFinal`; `ReadinessIsHonest`; Serving implements `Admission` | `SlotAccounting` is inductive with the type. `RateBudget` is not: `LimiterInv` says the deque is the recent end of the admission history and that what was forgotten has expired. The refinement's `Enter` needs the same fact: a deque shorter than the limit means the limit-th last admission has left the window. `ReadinessIsHonest` needs that a component that is ready, or whose initializer is still to run, has its service (`ServiceBehindFlag`), that retrieval's initializer never runs after answering's (`AnswerAfterRetrieval`), and that a thread still running after close belongs to a handler that timed out |
| `ExtractionProofs`, run | type; `SettledIsDocumented` with its parts; `PublishedMeansSettled`; `ResumeKeepsSettled` | the properties mention only files, so the invariant adds what each step of an attempt may rely on having been written before it (`AttemptOnDisk`, `ResultOnDisk`, `HistoryKept`) and that the records behind the loop are settled (`PassedSettled`) |
| `ExtractionProofs`, pack and evaluations | `GoldIsHuman`; `FreezeIsFinal`; `ReportIsOfOneRun`; the types of the run `extraction_run` | the pack needs only that a HOLDOUT record says of its text what is true of it (`HoldoutTextAsNamed`). For the experiments the results on disk are ordered by the run that wrote them: a complete configuration is of the run that completed it (`RunsInOrder`), the HOLDOUT runs under the locked configuration (`HoldoutAuthorized`), and an evaluation writes what it read (`EvaluatesOneRun`). That the counts agree rests on two lemmas about pairs of a record and one of its rules: families whose sets have the same sizes have as many pairs (`PairsSame`), and the pairs of a difference are the whole's less the common part's (`PairsWithout`) |
| `ContextProofs`, generation | type; `CompleteWasObtained`; `ResumedIsCurrent`; `CompletedIsKept` (for `Strict`) | adds what an attempt knows of its query; `CompletedIsKept` needs that a query being generated in a resumed run was not resumable, and that one context is final for each query |
| `ContextProofs`, context cache | `ServedAsAssembled` | a file says of what request it is, and holds what the recursion over the attempts ends with for that request (`PackAsTried`, `SingleAsBudgeted`); a request in hand stands at the budget the recursion gives its attempt (`RequestInHand`), and no attempt's budget is below zero |
| `ContextProofs`, other commands | `FirstReplyIsEvidence`; `ReportIsOfOneEvaluation`; `AuditIsSound`; `ReadinessIsSound`; `PreparedAsReported` and the types of the run `generation_strict` | a correction was made from an envelope; the documents before the next are of what the evaluation trusts (`PublishingInOrder`), those of an audit of its limit (`AuditInOrder`); a pack exists only if it could be assembled and a registry only after its pack (`FilesPossible`), so what was prepared, completed or declared ready is there (`PreparedHad`, `CompletedHad`, `ReadyHad`) |
| `AnsweringProofs` | type; `ContextIsSound` with its parts; `AnswersAreGrounded`; `GeneratedWhenEligible`; `KnownReferencesAnswered` | the assembly relates the ranks collected so far to the units met so far (`MetAt`), and keeps that an omitted unit never fits again because token counts grow. On top of it a citation's chunk is the least rank of its unit, which exists by well-foundedness of the naturals. For the last one the draft of a serving reply is kept as whole units of the finished context (`DraftKnown`), each of which some ranked chunk carried, so that verification finds it |
| `OfflineProofs`, cache | type; the cache's soundness and `CacheStaysSound` with their parts | the properties mention only files; the invariant adds that a block is whole when its digest is taken (`BlockWritten`), that the combined vectors are one encoding from the moment they are written although the other two files may be older (`CombinedWhole`), and the order of the files |
| `OfflineProofs`, protocols | `HoldoutIsFinal`; `ReleasesStay`; `ReviewIsFinal`; `EvidenceHeld`; `ReleasedAndReviewedStay` and the types of the run `offline_commands` | each step finds what the steps before it left (`StepsInOrder`, `PreparedOnce`, `ExperimentsInOrder`). An adjudication is of the packet, population and audit there are, and an aggregate of that adjudication (`AdjudicatedOnce`, `AggregatesAdjudicated`). A result of the dialect matrix and a status record exclude one another |
| `PipelineProofs`, hybrid | type; `SelectionIsSound`, `HoldoutIsOneShot`, `ArtifactsAreSound` with their parts | a frame lemma says which action each file is owed to; artifacts agree because they are written in order (`InOrder`), so the first one written vouches for the results and nothing can be ranked again after it |
| `PipelineProofs`, corpus | `CorpusIsSound` | a source a build is past says what its adapter says (`BuildInOrder`), the manifests written are of what was collected (`ManifestsWritten`), nothing is of a value the adapter has not had. An experiment's units lie between the tables hashed before and those there are, and the second look closes the gap (`UnitsBetween`). That is inductive only with the hashes themselves never above the tables, which no property says |
| `PipelineProofs`, acquisition | `AcquisitionIsSound` and the types of the run `experiments_and_data` | a row is true of installed bytes (`BooksTrue`). While a CSV manifest is rewritten it holds only part of its rows, so the invariant speaks of the manifest as it was before it was opened (`Held`), and of what the steps before this one wrote (`BuildsInOrder`) |
| `ComputationProofs` | `AssemblyIsExact`; `SplitIsSound`; `SearchIsSound` | by induction, below |
| `ChunkingProofs` | `ChunksAreSound` | by induction, below; the state needs only that the chunks are what the strategy makes of the document (`ChunkInvariant`) |
| `OfflineProofs`, computations | `ComputedAsPromised` | each computation's own invariant, for its turn (`ComputedInvariant`) |

**Induction in `ComputationProofs` and `ChunkingProofs`.** The library's induction theorems cannot be
used, but a statement about all numbers that fails has a least number where it
fails (`LeastOfNat`, from the well-foundedness of the naturals), and this one
contradicts its step. In this way a recursive function is shown to exist
(`NatIsLeast`), a union-find to join exactly what chains of documents link
(`JoinedFacts`, `AllReached`), and the table of subset sums to hold every total
that whole groups can reach, so that its closest is the closest there is. An
assembly's occurrences are found by the least one not yet passed
(`OffsetsFacts`). For the search, an element's place in a set in order is the
number of those ahead of it (`ArrangedFacts`), and the first n of it are kept
with all that are ahead of them (`FirstFacts`); fused scores are ordered and added as
fractions (`FractionOrder`, `FractionSum`), by cancelling products of naturals.

For the chunks the argument goes from the inside out. Windows of one span are in
order, begin and end at tokens, overlap by what their step leaves and together
hold every token (`WindowsFacts`); sentences divide the tokens of their block and
blocks those of the text, so the segments of a text hold each of its tokens, none
twice but in two windows of one sentence. Packing keeps all of that, by induction
over the segments, and adds that a piece which is not joined to the one before it
would not have fitted (`ExactIsSound`). Neighbours and parents change only the
context (`StructuralIsSound`). The stream of the fixed windows is followed section
by section (`StreamFacts`): each character of it is a section's, at the offset the
code's cursor says, or one of the newlines between two, so cutting a window at the
sections' bounds loses no token and counts none twice (`FixedIsSound`).

**Composed specifications.** In `MCAnnotation`, `MCContext`, `MCOffline` and
`MCPipeline` a behaviour is of one component. A lemma shows that the composed
specification implies what each component's steps need, or that each step is one
of a component and leaves the others alone; the composed theorems follow from
the components' own.

With `ComputedAsPromised` every invariant that a passing run checks is also a
theorem.

Where a run checks a conjunction of properties under one name, the theorem about
that name and those about its parts are separate.

**Assumptions.** Token counts are monotone: more rendered text never costs fewer
tokens and nothing costs nothing (`AssemblyAssumption`); the repository's
tokenizers count pieces of the text, and the assertion at the end of `assemble`
guards the case where this fails. In `Answering` the jurisdiction list and the
eligible roles are constants, as the policy registry is loaded once. Offline
commands are run by one operator, one at a time. The holdout has at least one
query.

For the search: rankings are finite sequences of chunks, weights are
numbers not below zero, `rrf_k` and the cuts are positive; that a baseline
begins with its ranking is said of configurations with one weight positive, since
with both zero (which the configuration's validation admits) ranks alone
decide. For the split: digests of different
groups differ. For the assembly: texts and quotations are sequences, a rule has
one action and at most one actor, and a quotation is not empty. For the chunks: the token limits are positive and the target is at most the
maximum, as `split_exact_segments` and the policies require; documents have
finitely many units, each a finite text of characters.

**Only model-checked.** Liveness (TLAPS has no rules for `ENABLED`):
`EveryRequestAnswered`, `ShutdownCompletes`, `EveryQueryCompleted`. That
`Rendering`'s count is monotone is an assumption TLC evaluates for the instance:
it is a fold over units, whose value for every input needs induction over data.

## 7. Properties and the code they constrain

Each property of a passing run is paired in `PROJECT.json` with a change of a
modelled definition under which the run fails, for example: a timeout handler
without `finally` (`SlotAccounting`), a deque popped before its front is tested
(`ImplementsAdmission`), a checkpoint store that compares the two files with one
another but not with the run (`ResumedIsCurrent`), a context served by its pack
alone (`ServedAsAssembled`), a report that keeps an artifact without comparing it
(`ArtifactsAreSound`).

Several properties are conjunctions, one part for each thing that could go wrong
separately; the parts are named definitions with a comment each.
`ComputedAsPromised` joins four modules and has three such changes: groups joined
by key only (`Splits`), a quotation resolved to its first occurrence
(`SpanAssembly`), short pieces packed together beyond a chunk's maximum
(`Chunking`).

## 8. Where code and text disagree

1. **Timed-out work is not counted** (`serving_concurrent_work`).
   `docs/deployment/public-demo.md:37-38` limits "concurrent AI/retrieval work to
   one request". On a timeout the handler returns its permit while the thread
   goes on (`api/routers.py:294`), so a second request's work runs beside it.
2. **A timeout can be retried twice** (`extraction_retry`). `cli.py:579` says
   `--retry-timeouts` retries "only first-attempt MODEL_TIMEOUT failures". A
   second attempt that dies after its first checkpoint is resumed as a first
   attempt with an empty history (`extraction/hybrid_runtime.py:214`).
3. **A failed generation is answered** (`answering_empty`).
   `docs/safety-and-limitations.md:35-37` says malformed generation is rejected or
   abstained. An `INVALID_GENERATION` becomes a draft without claims, which
   verifies, and the response is answerable with no text and no citation
   (`generation/serving.py:99`).
4. **An interrupted holdout is never complete** (`hybrid_manifest`). A query
   whose result was written but not listed is reused on resume without being
   listed (`retrieval/hybrid/orchestration.py:1163`); the manifest becomes
   `phase8_holdout_complete` without it and the final report refuses, however
   often the holdout is resumed. Only a holdout ranked again without `--resume`
   can be reported on.

The following were met while reading and modelling; no run is spent on them, and
the models behave as the code does.

*Serving and answering.* The demo's budget slides with each admission although
the documents call it "fixed-window" (`demo/limits.py:34`,
`docs/deployment/public-demo.md:39`); the sliding window is the stronger promise.
An Ollama outage during answering yields 200 with an abstention or an empty
answer, not 503 (`docs/api.md:37`). `acquire` reads the clock before it takes its
lock, which is harmless while all callers are on one event loop. An omission
record names the worst rank of its unit (`grounding/assembly.py:97`), which
nothing reads.

*Evaluation dataset.* `docs/phases/phase-06-retrieval-evaluation-dataset.md:78-80`
says "connected source-document groups and intent families are assigned
together". A group's key is the intent with its documents
(`evaluation/splits.py:25-28`), so a family is joined through its documents only:
two items of one intent that share none, directly or through others, may be put
on different sides, and `split_diagnostics` then counts the intent. The instance
reaches such splits, and `FamiliesTogether` says that no other family is divided.
The repository's drafts do not contain one: an intent's identifier is a hash that
includes its documents and each variant is a copy of its base
(`evaluation/models.py:262`, `evaluation/candidates.py:960`), and a freeze is
refused while the count is not zero (`evaluation/orchestrator.py:1224`). Smoke items are looked for by an item's own key among the
groups' names (`evaluation/splits.py:76`), so items joined through a document
under another key can be marked smoke in the holdout, although
`docs/phases/phase-06-retrieval-evaluation-dataset.md:80-81` takes them from DEV.
Each draft root has a frozen `v1` of its own.

*Baselines.* A smoke evaluation overwrites DEV rankings while the comparison
still says "dev_comparisons_complete" (`retrieval/orchestrator.py:733`).

*Annotation.* Preparing again overwrites reviewed records; an import after the
freeze is not refused; a DEV import drops human verification; `import_reviews`
without validation leaves items that cannot be read and drops omitted ones.

*Extraction evaluation.* The holdout evaluation scores the current annotation
records, not the release's copies, though its report names the release. The
configuration's lifecycle is never looked at, and with nothing completed the
evaluation divides by zero. Any later DEV run with another number of calls
changes the locked hash and blocks the holdout for good. Bucket labels and the
safety zeros are literals.

*Proposal assembly.* A rule's `effective_date_refs` are dropped without a
diagnostic, valid or not, as `NormativeRule` has no such field, although
`docs/phase11-extraction.md:9` says invalid or ambiguous fields are dropped with
diagnostics.

*Generation.* Readiness' packs are replaced by a request with the jurisdiction's
text. Context reduction gives up after 64 attempts. Stage D readiness does not
promise that the prompt with the text fits, and is recorded even with errors; an
`AssertionError` of the assembler ends readiness while a run records it; an older
complete Stage C record stays after a failing readiness. The status of Stages A
and B counts every readable checkpoint as completed.

*Timeout diagnostic.* After a kill between envelope and record, or a rerun
without resume, a later reply is refused and the record says
`malformed_response` over a good envelope. When all replays succeed the diagnosis
is still `NETWORK_OR_CONNECTION_FAILURE` although the runtime pattern says
`successful_replay`.

*Stage evaluation.* Stage D's telemetry failure "other" precedes the parse
errors, so some outcomes can never be reported; the two invalid-generation rates
differ by unknown quote references; Stage A counts a timeout and a removal for
semantic support as "other"; `_safety` returns literals.

*Context audit.* Two of the loss reasons are never given; the budget-only record
counts the lost queries of all losses; one of two retention rates counts items
without evidence groups as complete and the other leaves them out.

*Phase 15.* Finalize compares neither the contents of summary and error analysis
with the private adjudication nor the dialect metrics with the content audit's
variants; vectors cut short are never repaired; a half-prepared packet can never
be finalized.

*Data.* Acquisition's verify compares no hash with an expected one; the CSV
manifests are truncated before they are written, so that a kill loses the other
sources' rows and a later build does not notice; a wrong local file of the right
name is installed and then blocks the right one for good; two acquisitions at
once share a partial file's name. A corpus build killed after the statutory
inventory leaves a quality report that mixes two builds once a case-only build
follows; the aggregate inventory may name old hashes of rebuilt tables; validate
looks only for some Parquet file. Neither experiment compares its hashes with
those of the inventory; the chunking experiment compares before and after only
when its files are written, and its validation accepts what a failed run left.
A fixed chunk over several units shows them in the order of their identifiers
rather than the document's (`chunking/strategies.py:32-40`).

## 9. Hazards without a property

One: Stages A and B compare only a checkpoint's fingerprint
(`generation/checkpoints.py:120`), so that a run of another configuration that
dies between its two files leaves a result that is resumed as if it were current.
A plan in the repository promises "fingerprint invalidation when any lock/input
changes" (`docs/superpowers/plans/2026-08-21-phase10-stage-a1-readiness.md:116`).
`GenerationRun` with `Strict = FALSE` reaches it, which is why `ResumedIsCurrent`
is stated and proved for the strict store only.
