SPECIFICATION MCFairSpec
CONSTANTS
    Requests = {1, 2, 3}
    Before = Before
INVARIANTS
    WholeAndReportedOnce
PROPERTIES
    SeedOnEmptyUnlessRaced
    Answers
CHECK_DEADLOCK FALSE
