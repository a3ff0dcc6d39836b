SPECIFICATION MCSpec
CONSTANTS
    Places = {"exchange", "condition", "clauses", "expression", "party", "coverage", "facets", "trace", "blocks"}
    MaxExchange  = 5
    MaxCondition = 4
    MaxClauses   = 3
    MaxRules     = 3
    RowTexts = {"(a:1)", "(b:1)", "(c:1)", "(a:2)", "(a:{1,2})", "(a:1,2)", "(a:1.0)", "(in:1)", "(constructor:1)", "(userId:1)", "(userId:2)"}
    RowKey <- MCRowKey
    RowsTyped = {"(a:1)", "(a:2)", "(b:1)", "(userId:1)"}
    NewRows = {"(a:1)", "(b:1)", "(userId:1)"}
    NewRowsOfTerm = {"(a:1)", "(userId:1)"}
    PickedUser = "(userId:2)"
    Opened <- MCOpened
    Picked <- MCPicked
    TypedConditions <- MCTypedConditions
    MaxRows      = 2
    MaxTerms     = 2
    MaxEdits     = 3
    Number <- MCNumber
    Fractions  = {"7.5"}
    Decimals   = {"7.0"}
    Unwritable = {"2^53", "1e21"}
    Unquotable = {"quote"}
    BadNames   = {"1k"}
    Inherited  = {"constructor"}
    Parties   <- MCParties
    Coverages <- MCCoverages
    Listings  <- MCListings
    Expressions <- MCExpressions
INVARIANTS
    TypedMeaningKept
    SaveGated
    TypedRefusedRight
    ConditionDecided
    MatchedAsTheEngine
    FacetsTrue
    DiagramTold
CHECK_DEADLOCK FALSE
