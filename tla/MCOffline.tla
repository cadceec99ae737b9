------------------------------ MODULE MCOffline ------------------------------
(* Instances of the offline commands that share no file, checked in one run:*)
(* a behaviour is one of one component, the others stay as they began.     *)
EXTENDS DenseCache, RetrievalBaselines, Splits, EvaluationRelease,
        DiagnosticReview, DiagnosticExperiments, SpanAssembly, Chunking, HybridSearch, FiniteSetsExt, TLC

CONSTANTS s, t, a1, a2, m1, m2

TwoSettings == {s, t}
TwoAdjudications == {a1, a2}
TwoMeasurements == {m1, m2}
TwoIntents == {1, 2}
TwoDocuments == {1, 2}
IntentsThenDocuments ==
    [key \in Item |-> key.intent * 1000 + MapThenSumSet(LAMBDA d : 2 ^ d, key.documents)]
BothOrders ==
    {IntentsThenDocuments, [key \in Item |-> 3000 - IntentsThenDocuments[key]]}
ReviewedFinal == {3}

(* Two populations; of the first, two draws pick the same cases and one does*)
(* not.  The first two generations of variants have the same valid ones.   *)
FourDraws == {"a", "a again", "a other", "b"}
IdsOf == [e \in FourDraws |-> IF e = "b" THEN "b" ELSE "a"]
PicksOf == [e \in FourDraws |-> IF e = "a again" THEN "a" ELSE e]
TwoCases == {"k", "l"}
ValidOf == [n \in 0 .. 2 |-> IF n = 2 THEN "all but one" ELSE "all"]

(* Quotations that occur once, twice, overlapping themselves, or not at     *)
(* all, with any number for the occurrence; references to both types and to*)
(* none.  Each field, alone and beside the rule's action and actor.        *)
FourTexts == {<<"a">>, <<"a", "a">>, <<"a", "b", "a">>, <<"a", "a", "a">>}
Quotations == [text : {<<"a">>, <<"a", "a">>, <<"b">>}, occurrence : -1 .. 2]
TwoReferences == [id \in {"T001", "M001"} |-> IF id = "T001" THEN "temporal" ELSE "monetary"]
UpToTwo(values) == {<<>>} \cup {<<v>> : v \in values} \cup {<<v, w>> : v \in values, w \in values}
Nothing == [field \in Fields |-> <<>>]
SomeProposals ==
    {[Nothing EXCEPT !["action"] = <<q>>, !["conditions"] = v] :
        q \in Quotations, v \in UpToTwo(Quotations)}
    \cup {[Nothing EXCEPT !["action"] = <<q>>, !["regulated_entities"] = <<r>>] :
        q \in Quotations, r \in Quotations}
    \cup {[Nothing EXCEPT !["action"] = <<q>>, !["actor"] = <<r>>] : q \in Quotations, r \in Quotations}
    \cup {[Nothing EXCEPT !["action"] = <<q>>, ![field] = v] :
        q \in {r \in Quotations : r.occurrence = 0}, field \in RefFields,
        v \in UpToTwo({"T001", "M001", "T009"})}

(* Every text of six characters in one unit, and of two in each of two.    *)
TextsOf(n) == UNION {[1 .. k -> {",", ".", " ", "\n"}] : k \in 0 .. n}
OneUnit == [source : {"other"}, units : {<<u>> : u \in [kind : {"part"}, text : TextsOf(6)]}]
TwoUnits ==
    [source : {"arabiccr", "other"},
     units : {<<u, v>> : u \in [kind : {"case_text"}, text : TextsOf(2)],
                         v \in [kind : {"case_text", "part"}, text : TextsOf(2)]}]
SomeDocuments == OneUnit \cup TwoUnits
EmptyDocument == [source |-> "other", units |-> <<[kind |-> "part", text |-> <<>>]>>]

(* Four chunks; both rankings and all three ways to weigh them.            *)
FourChunks == 1 .. 4
SomeRankings ==
    {r \in UNION {[1 .. n -> FourChunks] : n \in 0 .. 2} : ~Repeats(r)}
    \cup {<<1, 2, 3>>, <<2, 4, 1>>, <<1, 1>>}
ThreeWeights ==
    {[sparse |-> 4, dense |-> 1], [sparse |-> 4, dense |-> 0], [sparse |-> 0, dense |-> 4]}
TwoCorpora == {FourChunks, FourChunks \ {2}}

Symmetry == Permutations(TwoSettings) \cup Permutations(TwoAdjudications)

VARIABLE active   \* the component of this behaviour

OfflineInit ==
    /\ active \in {"cache", "baselines", "splits", "release", "review", "experiments",
                  "spans", "chunks", "search"}
    /\ Init /\ (active # "cache" => ~metadata)
    /\ BaselinesInit
    /\ IF active = "splits" THEN SplitsInit
       ELSE /\ dataset = [i \in Items |-> [intent |-> 1, documents |-> {}]]
            /\ keyOrder = IntentsThenDocuments
            /\ assigned = Unassigned
    /\ ReleaseInit
    /\ ReviewInit /\ (active # "review" => reviewed = NoDraw)
    /\ ExperimentsInit /\ (active # "experiments" => writtenOnce = {})
    /\ IF active = "spans" THEN SpanInit
       ELSE /\ canonicalText = <<>> /\ hasRegistry = FALSE
            /\ proposal = Nothing /\ assembly = NotAssembled
    /\ IF active = "chunks" THEN ChunkingInit
       ELSE chunkDocument = EmptyDocument /\ strategy = "none" /\ chunks = <<>>
    /\ IF active = "search" THEN SearchInit
       ELSE /\ sparse = <<>> /\ dense = <<>> /\ weights = "none"
            /\ corpus = {} /\ limit = 1 /\ searched = "asked"
            /\ fused = <<>> /\ scores = <<>> /\ servedEvidence = <<>>

offlineVars ==
    <<active, vars, baselineVars, splitVars, releaseVars, reviewVars, experimentVars,
      spanVars, chunkVars, searchVars>>

OfflineNext ==
    /\ UNCHANGED active
    /\ \/ active = "cache" /\ Next
       \/ active # "cache" /\ UNCHANGED vars
    /\ \/ active = "baselines" /\ BaselinesNext
       \/ active # "baselines" /\ UNCHANGED baselineVars
    /\ \/ active = "splits" /\ SplitsNext
       \/ active # "splits" /\ UNCHANGED splitVars
    /\ \/ active = "release" /\ ReleaseNext
       \/ active # "release" /\ UNCHANGED releaseVars
    /\ \/ active = "review" /\ ReviewNext
       \/ active # "review" /\ UNCHANGED reviewVars
    /\ \/ active = "experiments" /\ ExperimentsNext
       \/ active # "experiments" /\ UNCHANGED experimentVars
    /\ \/ active = "spans" /\ SpanNext
       \/ active # "spans" /\ UNCHANGED spanVars
    /\ \/ active = "chunks" /\ ChunkingNext
       \/ active # "chunks" /\ UNCHANGED chunkVars
    /\ \/ active = "search" /\ SearchNext
       \/ active # "search" /\ UNCHANGED searchVars

(* The types of all. *)
TypesOK ==
    TypeOK /\ BaselinesTypeOK /\ ReleaseTypeOK /\ ReviewTypeOK /\ ExperimentsTypeOK

(* What is computed at once: a split of the items, an assembly of a        *)
(* proposal, the chunks of a document and the evidence of a query are each *)
(* what their module promises.                                             *)
ComputedAsPromised == SplitIsSound /\ AssemblyIsExact /\ ChunksAreSound /\ SearchIsSound

(* What was released or reviewed stays, whatever is killed, imported or    *)
(* prepared again: both releases of the evaluation dataset, and the        *)
(* diagnostic review's packet, its audit and its decisions.                *)
ReleasedAndReviewedStay == [][ReleasesStay /\ ReviewIsFinal]_offlineVars

OfflineSpec == OfflineInit /\ [][OfflineNext]_offlineVars
=============================================================================
