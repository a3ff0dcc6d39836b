SPECIFICATION RowsSpec
CONSTANTS
    Nobody = Nobody
    Requests = {r1, r2}
    Kinds = {"create", "patch", "delete", "resource"}
    Existing = {u1, u2}
    Names = {n1, n2, n3}
    Rules = {q1, q2}
    None = None
    Owner = owner
    Reader = reader
    Attrs = {a1, a2}
    Metadata = {m1, m2}
    Uploads <- MCUploads
    MaxGrants = 1
    pdf = pdf
    text = text
    name = name
SYMMETRY Symmetric
INVARIANTS
    UniqueUnlessRaced
    ValidatedUnlessCrossed
    NoneOrphanedUnlessLate
    WholeUnlessRaced
    ServedOnPermit
PROPERTIES
    NothingWrittenBack
CHECK_DEADLOCK FALSE
