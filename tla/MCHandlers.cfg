SPECIFICATION HandlersSpec
CONSTANTS
    a = a
    b = b
    c = c
    r1 = r1
    r2 = r2
    r3 = r3
    Users = {a, b, c}
    Requests = {r1, r2, r3}
    Kinds = {"connect", "disconnect", "deleteMe"}
    MaxFailures = 1
    u1 = u1
    g1 = g1
    g2 = g2
    c1 = c1
    c2 = c2
    People = {u1, u2}
    GroupIds = {g1, g2}
    Calls = {c1, c2}
    Fields <- MCFields
    Texts = {1, 2}
    Bodies <- MCBodies
    Gone = Gone
    o1 = o1
    o2 = o2
    Resources = {1, 2, 3, 4}
    Owners = {o1, o2}
    OwnerOf <- MCOwnerOf
    MaxCandidates = 3
    Concurrency = 2
    MaxChanges = 1
INVARIANTS
    ConnectionsKept
    OneWorkerEach
    PageExact
    AssembledOnce
PROPERTIES
    AnswersHeld
    OnlyEnteredUnreported
    ConnectionsAnswered
    Settles
CHECK_DEADLOCK FALSE
