\* The serving pipeline, one plain query.
SPECIFICATION Spec
CONSTANTS
    Chunks <- AllChunks
    Units <- AllUnits
    UnitsOf <- ChunkUnits
    Tokens <- LineCount
    Depth = 1
    Budget = 8
    Queries <- PlainQuery
    Jurisdictions <- TwoJurisdictions
    Active = "SA"
    Primary <- PrimaryUnits
    Operative <- OperativeUnits
    Quotes <- AllQuotes
    Occurs <- QuoteOccurs
    Whole <- WholeText
    Written <- WrittenCitations
    MaxClaims = 1
    MaxCitations = 1
INVARIANTS
    AnswersAreCited
CHECK_DEADLOCK FALSE
