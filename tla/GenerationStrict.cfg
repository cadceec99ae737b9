\* Stages C and D, two configurations, any number of runs and crashes; or a context
\* cache asked under five caps, a pack assembled at most three times; or two timed out queries
\* replayed twice; or two queries' results stored three times and evaluated twice; or two audits
\* of two retrieved chunks of two units; or readiness and runs over two queries.
SPECIFICATION GenerationSpec
CONSTANTS
    c = c
    d = d
    Configs <- TwoConfigurations
    QueryCount = 2
    Strict = TRUE
    Denied <- FirstQuery
    Reshaped <- SecondQuery
    Caps <- FiveCaps
    Template = 2
    Text = 1
    Margin = 1
    Offered = 4
    Unit = 3
    Markup = 1
    Attempts = 3
    CohortSize = 2
    Bodies <- FiveBodies
    MaxReplays = 2
    Configurations <- TwoConfigurations
    DevQueries <- TwoQueries
    PopulationOf <- OneOfEach
    MaxStores = 3
    MaxEvaluations = 2
    ChunkCount = 2
    UnitSizes <- TwoUnits
    Limits <- TwoLimits
    MaxAudits = 2
    ReadyCount = 2
    PromptTokens <- TwoLengths
SYMMETRY Symmetry
INVARIANTS
    TypesOK
    CompleteWasObtained
    ResumedIsCurrent
    ServedAsAssembled
PROPERTIES
    CompletedIsKept
    FirstReplyIsEvidence
    ReportIsOfOneEvaluation
    PreparedAsReported
CHECK_DEADLOCK FALSE
