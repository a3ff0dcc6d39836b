SPECIFICATION MCSpec
CONSTANTS
    p1 = p1
    p2 = p2
    Users <- MCUsers
    Index <- MCUsers
    Seed <- MCSeed
    Patterns = {p1, p2}
    Matching <- MCMatching
    MaxWrites = 1
    Providers = {connections, groups}
    Nobody = Nobody
    None = None
    MaxPolicies = 2
INVARIANTS
    NeverExtra
    NeverMissing
    PartiesAsRead
    BlameTrue
    EvaluatorTold
PROPERTIES
    DecidesAsPromised
    AllAnswered
CHECK_DEADLOCK FALSE
