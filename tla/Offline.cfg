\* One component at a time: DenseCache with three blocks, two settings, two batch sizes and two
\* damaged files; RetrievalBaselines with two measurements; Splits with five items, two
\* intents and two documents; EvaluationRelease with three drafts and two adjudications;
\* DiagnosticReview with four draws and two cases; DiagnosticExperiments with five commands and
\* two generations of variants; SpanAssembly with texts of three characters;
\* Chunking with texts of six and windows of three tokens; HybridSearch with four chunks, two
\* kept of each ranking, three fused and two served.
SPECIFICATION OfflineSpec
CONSTANTS
    s = s
    t = t
    a1 = a1
    a2 = a2
    m1 = m1
    m2 = m2
    Settings <- TwoSettings
    BlockCount = 3
    BatchSize = 2
    MaxDamages = 2
    Measurements <- TwoMeasurements
    Pinned = m1
    ItemCount = 5
    Intents <- TwoIntents
    Documents <- TwoDocuments
    KeyOrders <- BothOrders
    SmokeCount = 2
    FinalDraft = 3
    Adjudications <- TwoAdjudications
    ReviewedDrafts <- ReviewedFinal
    Draws <- FourDraws
    Ids <- IdsOf
    Picks <- PicksOf
    CommittedDraw = "a"
    NoDraw = "none"
    Cases <- TwoCases
    ValidIds <- ValidOf
    MaxVariants = 2
    MaxCommands = 5
    MaxEvidence = 2
    Subset = 2
    Texts <- FourTexts
    Proposals <- SomeProposals
    Registry <- TwoReferences
    ChunkDocuments <- SomeDocuments
    Maximum = 3
    TargetTokens = 2
    Overlap = 1
    ChunkIds <- FourChunks
    Rankings <- SomeRankings
    Weights <- ThreeWeights
    RrfK = 60
    TopK = 2
    CandidateK = 3
    Depth = 2
    Scores = {0, 1}
    ServingCorpora <- TwoCorpora
SYMMETRY Symmetry
INVARIANTS
    TypesOK
    ComputedAsPromised
PROPERTIES
    CacheStaysSound
    HoldoutIsFinal
    ReleasedAndReviewedStay
    EvidenceHeld
CHECK_DEADLOCK FALSE
