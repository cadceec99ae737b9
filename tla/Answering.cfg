\* Every kind of query through both pipelines; the budget holds most of the units.
SPECIFICATION Spec
CONSTANTS
    Chunks <- AllChunks
    Units <- AllUnits
    UnitsOf <- ChunkUnits
    Tokens <- LineCount
    Depth = 3
    Budget = 8
    Queries <- AllQueries
    Jurisdictions <- TwoJurisdictions
    Active = "SA"
    Primary <- PrimaryUnits
    Operative <- OperativeUnits
    Quotes <- AllQuotes
    Occurs <- QuoteOccurs
    Whole <- WholeText
    Written <- WrittenCitations
    MaxClaims = 2
    MaxCitations = 2
INVARIANTS
    TypeOK
    ContextIsSound
    AnswersAreGrounded
    GeneratedWhenEligible
    KnownReferencesAnswered
CHECK_DEADLOCK FALSE
