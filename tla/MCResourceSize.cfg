SPECIFICATION RowsSpec
CONSTANTS
    Nobody = Nobody
    Requests = {r1, r2}
    Kinds = {}
    Existing = {u1}
    Names = {n1}
    Rules = {q1}
    None = None
    Owner = owner
    Reader = reader
    Attrs = {a1}
    Metadata = {m1}
    Uploads <- MCUploads
    MaxGrants = 0
    pdf = pdf
    text = text
    name = name
SYMMETRY Symmetric
INVARIANTS
    SizeTellsContent
CHECK_DEADLOCK FALSE
