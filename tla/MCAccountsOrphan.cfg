SPECIFICATION Spec
CONSTANTS
    Nobody = Nobody
    Requests = {r1, r2}
    Kinds = {"delete", "resource"}
    Existing = {u1}
    Names = {n1}
    Rules = {q1}
INVARIANTS
    NoneOrphaned
CHECK_DEADLOCK FALSE
