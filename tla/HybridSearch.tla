----------------------------- MODULE HybridSearch -----------------------------
(***************************************************************************)
(* One query through the hybrid pipeline (retrieval/serving.py,            *)
(* HybridServingRetriever.search): two rankings, their reciprocal-rank     *)
(* fusion (hybrid/fusion.py), the reranker's scores (hybrid/pipeline.py),  *)
(* and the evidence taken from the serving corpus.                         *)
(*                                                                         *)
(* Chunk identifiers are numbers, which order as the strings do.  Weights  *)
(* are whole numbers, the code's times four.  Fused scores are compared as *)
(* fractions: two sums that are equal as such, as 1/70 + 1/105 and         *)
(* 1/84 + 1/84, may be ordered by their rounding in the code, but then     *)
(* neither chunk is ahead in both rankings.                                *)
(***************************************************************************)
EXTENDS Integers, Sequences, FiniteSets, Arrangement

CONSTANTS
    ChunkIds,       \* chunk identifiers
    Rankings,       \* what either first-stage search may rank
    Weights,        \* of the configurations: [sparse, dense]
    RrfK,           \* rrf_k: 60
    TopK,           \* sparse_top_k, dense_top_k: 50
    CandidateK,     \* candidate_k: 20
    Depth,          \* most that is served: 8
    Scores,         \* reranker scores
    ServingCorpora  \* chunks the serving corpus may hold

ASSUME SearchAssumption ==
    /\ ChunkIds \subseteq Nat /\ Scores \subseteq Int
    /\ {RrfK, TopK, CandidateK, Depth} \subseteq Nat \ {0}
    /\ \A w \in Weights : w.sparse \in Nat /\ w.dense \in Nat
    /\ Rankings \subseteq Seq(ChunkIds)

VARIABLES
    sparse, dense,  \* the rankings of the two indexes
    weights,        \* the configuration
    corpus,         \* chunks of the serving corpus
    limit,          \* evidence asked for
    searched,       \* "asked", "fused", "served" or "failed"
    fused,          \* fused candidates, best first
    scores,         \* what the reranker returned
    servedEvidence  \* chunks served, best first

searchVars == <<sparse, dense, weights, corpus, limit, searched, fused, scores, servedEvidence>>

Cut(ranking, n) == SubSeq(ranking, 1, IF Len(ranking) < n THEN Len(ranking) ELSE n)
In(ranking) == {ranking[i] : i \in DOMAIN ranking}
Repeats(ranking) == \E i, j \in DOMAIN ranking : i # j /\ ranking[i] = ranking[j]
RankIn(ranking, c) == CHOOSE i \in DOMAIN ranking : ranking[i] = c

(***************************************************************************)
(* fuse_ranked_hits                                                        *)
(***************************************************************************)
SparseHits == Cut(sparse, TopK)
DenseHits == Cut(dense, TopK)
Retrieved == In(SparseHits) \cup In(DenseHits)

(* The fused score of a chunk, as a fraction. *)
Share(ranking, weight, c) ==
    IF c \in In(ranking) THEN [over |-> weight, under |-> RrfK + RankIn(ranking, c)]
    ELSE [over |-> 0, under |-> 1]
FusedScore(c) ==
    LET one == Share(SparseHits, weights.sparse, c)
        other == Share(DenseHits, weights.dense, c)
    IN [over |-> one.over * other.under + other.over * one.under,
        under |-> one.under * other.under]
Above(p, q) == p.over * q.under > q.over * p.under

BestRank(c) ==
    LET ranks == {RankIn(r, c) : r \in {l \in {SparseHits, DenseHits} : c \in In(l)}}
    IN CHOOSE n \in ranks : \A m \in ranks : n <= m

FusedBefore(a, b) ==
    \/ Above(FusedScore(a), FusedScore(b))
    \/ /\ ~Above(FusedScore(b), FusedScore(a))
       /\ \/ BestRank(a) < BestRank(b)
          \/ BestRank(a) = BestRank(b) /\ a < b

Fused ==
    Cut(Arranged(Retrieved, [c \in Retrieved |-> {b \in Retrieved : FusedBefore(b, c)}]),
        CandidateK)

SearchInit ==
    /\ sparse \in Rankings /\ dense \in Rankings
    /\ weights \in Weights
    /\ corpus \in ServingCorpora
    /\ limit \in 1 .. Depth
    /\ searched = "asked"
    /\ fused = <<>> /\ scores = <<>> /\ servedEvidence = <<>>

FirstStage ==
    /\ searched = "asked"
    /\ IF Repeats(SparseHits) \/ Repeats(DenseHits)
       THEN searched' = "failed" /\ UNCHANGED fused
       ELSE searched' = "fused" /\ fused' = Fused
    /\ UNCHANGED <<sparse, dense, weights, corpus, limit, scores, servedEvidence>>

(***************************************************************************)
(* rerank_for_serving, and the evidence of what it ranks.                  *)
(***************************************************************************)
ScoredBefore(scored, a, b) ==
    \/ scored[a] > scored[b]
    \/ scored[a] = scored[b] /\ RankIn(fused, a) < RankIn(fused, b)

Reranked(scored) ==
    Cut(Arranged(In(fused), [c \in In(fused) |-> {b \in In(fused) : ScoredBefore(scored, b, c)}]),
        Depth)

Serve ==
    /\ searched = "fused"
    /\ \E scored \in UNION {[answered -> Scores] : answered \in SUBSET In(fused)} :
        LET ranked == Cut(Reranked(scored), limit) IN
        /\ scores' = scored
        /\ IF DOMAIN scored # In(fused) \/ ~(In(ranked) \subseteq corpus)
           THEN searched' = "failed" /\ UNCHANGED servedEvidence
           ELSE searched' = "served" /\ servedEvidence' = ranked
    /\ UNCHANGED <<sparse, dense, weights, corpus, limit, fused>>

SearchNext == FirstStage \/ Serve

SearchSpec == SearchInit /\ [][SearchNext]_searchVars

-----------------------------------------------------------------------------
(* Properties. *)

(* A chunk that is ahead of another in every ranking the other is in, is   *)
(* ahead of it in the fusion, whatever the weights, and is never cut while *)
(* the other is kept.                                                      *)
AheadIn(ranking, a, b) ==
    b \in In(ranking) => a \in In(ranking) /\ RankIn(ranking, a) < RankIn(ranking, b)

FusionRespectsBoth ==
    searched # "asked" => \A a \in Retrieved, b \in In(fused) :
        a # b /\ AheadIn(SparseHits, a, b) /\ AheadIn(DenseHits, a, b) =>
            a \in In(fused) /\ RankIn(fused, a) < RankIn(fused, b)

(* The baselines are configurations with one weight zero: what they fuse   *)
(* begins with the other ranking as it stands.                             *)
BeginsWith(ranking, first) ==
    \A i \in DOMAIN first : i \in DOMAIN ranking /\ ranking[i] = first[i]

BaselineIsItsRanking ==
    searched \in {"fused", "served"} =>
        /\ weights.dense = 0 /\ weights.sparse # 0 =>
               BeginsWith(fused, Cut(SparseHits, CandidateK))
        /\ weights.sparse = 0 /\ weights.dense # 0 =>
               BeginsWith(fused, Cut(DenseHits, CandidateK))

(* What is served is as much as was asked for and found, each chunk once,  *)
(* of the serving corpus; no candidate left out was scored higher than one *)
(* served, nor as high and fused before it.                                *)
BestIsServed ==
    searched = "served" =>
        /\ Len(servedEvidence) = (IF limit < Len(fused) THEN limit ELSE Len(fused))
        /\ ~Repeats(servedEvidence) /\ In(servedEvidence) \subseteq corpus \cap Retrieved
        /\ \A c \in In(fused) \ In(servedEvidence), e \in In(servedEvidence) :
              \/ scores[c] < scores[e]
              \/ scores[c] = scores[e] /\ RankIn(fused, e) < RankIn(fused, c)

(* What a search promises. *)
SearchIsSound == FusionRespectsBoth /\ BaselineIsItsRanking /\ BestIsServed
=============================================================================
