SPECIFICATION MCSpec
CONSTANTS
    Requests = {1, 2, 3}
    Before = Before
INVARIANTS
    ResetNeverFails
CHECK_DEADLOCK FALSE
