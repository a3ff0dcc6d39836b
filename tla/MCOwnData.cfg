SPECIFICATION Spec
CONSTANTS
    Users = {1, 2, 3}
    None = None
    PageSize = 3
    WalkSize = 1
    MaxWalked = 2
    \* no other tab and no write of the database: the switches of one tab suffice
    MaxWrites = 0
    MaxWalks = 1
INVARIANTS
    OwnDataOnly
CHECK_DEADLOCK FALSE
