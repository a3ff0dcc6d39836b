-------------------------------- MODULE Rows --------------------------------
(***************************************************************************)
(* Requests at once on the rows of users and resources: the life of an     *)
(* account, or the content of one resource.  A behaviour is about one of   *)
(* them and the other stands still.                                        *)
(***************************************************************************)
EXTENDS Accounts

CONSTANTS None, Owner, Reader, Attrs, Metadata, Uploads, MaxGrants

VARIABLES part, exists, row, grants, changes, sent, granted, raced

Content == INSTANCE ResourceContent

\* What is uploaded has the four content columns, and no other.
ASSUME UploadsAssumption == \A u \in Uploads : u = [c \in Content!ContentColumns |-> u[c]]

accountVars == <<users, resources, swept, dying, validated, taken, crossed, late>>
contentVars == <<exists, row, grants, changes, sent, granted, raced>>
rowsVars    == <<part, vars, contentVars>>

NoAccounts ==
    /\ users = <<>> /\ resources = <<>> /\ swept = <<>> /\ dying = <<>>
    /\ validated = {} /\ taken = FALSE /\ crossed = FALSE /\ late = FALSE

NoContent ==
    /\ exists = FALSE /\ row = [c \in Content!Columns |-> None]
    /\ grants = {} /\ changes = 0
    /\ sent = [r \in Requests |-> <<>>] /\ granted = <<>> /\ raced = FALSE

RowsInit ==
    \/ part = "accounts" /\ Init /\ NoContent
    \/ part = "content" /\ Content!Init /\ NoAccounts

RowsNext ==
    \/ part = "accounts" /\ Next /\ UNCHANGED <<part, contentVars>>
    \/ part = "content" /\ Content!Next /\ UNCHANGED <<part, accountVars>>

RowsSpec == RowsInit /\ [][RowsNext]_rowsVars

-----------------------------------------------------------------------------
(* Properties *)

\* Content: the four columns are one upload's, unless two of their writers overlapped.
WholeUnlessRaced == Content!WholeUnlessRaced

\* Content: bytes reach another user only by a permit of the owner's policy.
ServedOnPermit == Content!ServedOnPermit

\* Content: whether there are bytes is read off contentSize.
SizeTellsContent == Content!SizeTellsContent

\* No save writes a stale column back, of a user or of the resource.
NothingWrittenBack == OmittedUntouched /\ Content!NoWriteBack
=============================================================================
