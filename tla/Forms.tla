------------------------------- MODULE Forms -------------------------------
(***************************************************************************)
(* The dialogs that store something: a resource (the row, then its bytes), *)
(* a group, a user, and the deletion of an account or of everything.  What *)
(* a dialog has sent goes on when it is closed, and may end in the next    *)
(* opening.  The resource's dialog stays mounted between openings, so all  *)
(* its state is the next opening's too; the others are mounted anew, and   *)
(* share only the flag that says they are open, which is their page's.     *)
(***************************************************************************)
EXTENDS Naturals, Sequences

CONSTANTS
    None, Gone,     \* nothing shown; a row that was deleted
    Names,          \* what can be written in a field
    MaxOpenings,    \* bound: how often the dialog is opened
    MaxRows         \* bound: rows stored

VARIABLES
    kind,       \* the dialog
    open, opening, fields, createdId, errors, busy,    \* errors: the fields they judge
    rowBusy,    \* GroupsPage: the card's busyId
    table,      \* the rows stored
    saves,      \* per opening, its save under way
    wrote,      \* history: the rows and the openings that wrote them
    unread,     \* history: openings whose row was stored and the answer or the list lost
    crossed     \* history: edited, or opened again, while a save was under way

formVars == <<kind, open, opening, fields, createdId, errors, busy, rowBusy, table, saves, wrote, unread, crossed>>

Dialogs    == {"new resource", "resource", "new group", "group", "new user", "delete"}
Keeps    == kind \in {"new resource", "resource"}
Editing  == kind \in {"resource", "group", "delete"}
Openings == 1 .. MaxOpenings

Files  == CASE kind = "resource" -> {"keep", "new", "remove"} [] kind = "new resource" -> {"keep", "new"}
            [] OTHER -> {"keep"}
Fields == IF kind = "delete" THEN {} ELSE [name : Names, file : Files]
Filled == [name |-> IF Editing THEN table[1].name ELSE 0, file |-> "keep"]

Idle   == [step |-> "none", row |-> 0, made |-> FALSE, of |-> [name |-> 0, file |-> "keep"]]
Saving == \E o \in Openings : saves[o].step # "none"

InitForm ==
    /\ kind \in Dialogs
    /\ open = FALSE /\ opening = 0 /\ createdId = 0 /\ errors = None
    /\ busy = FALSE /\ rowBusy = FALSE
    /\ fields = Idle.of
    /\ table = IF Editing THEN <<[name |-> 0, file |-> "old"]>> ELSE <<>>
    /\ saves = [o \in Openings |-> Idle]
    /\ wrote = {} /\ unread = {} /\ crossed = FALSE

\* A fresh mount, or the same fields filled anew; a group's card is disabled
\* while something of it is under way.
HandleOpen ==
    /\ ~open /\ opening < MaxOpenings /\ ~rowBusy
    /\ Editing => table[1] # Gone
    /\ open' = TRUE /\ opening' = opening + 1
    /\ fields' = Filled /\ createdId' = 0 /\ errors' = None
    /\ busy' = (Keeps /\ busy)
    /\ crossed' = (crossed \/ Saving)
    /\ UNCHANGED <<kind, rowBusy, table, saves, wrote, unread>>

\* Cancel, Escape, a click beside it; not while something is being deleted.
HandleClose ==
    /\ open /\ (kind = "delete" => ~busy)
    /\ open' = FALSE
    /\ UNCHANGED <<kind, opening, fields, createdId, errors, busy, rowBusy, table, saves, wrote, unread, crossed>>

\* "Any edit makes that verdict stale."
Edited ==
    /\ open
    /\ \E v \in Fields : v # fields /\ fields' = v
    /\ errors' = None
    /\ crossed' = (crossed \/ Saving)
    /\ UNCHANGED <<kind, open, opening, createdId, busy, rowBusy, table, saves, wrote, unread>>

Save ==
    /\ open /\ ~busy
    /\ busy' = TRUE /\ errors' = None /\ rowBusy' = (kind = "group")
    /\ saves' = [saves EXCEPT ![opening] =
           [step |-> "row", row |-> IF Editing THEN 1 ELSE createdId, made |-> FALSE, of |-> fields]]
    /\ UNCHANGED <<kind, open, opening, fields, createdId, table, wrote, unread, crossed>>

\* An opening's state is reached by its own save, and by any save if it is kept.
Reaches(o) == Keeps \/ o = opening

Ends(o) ==
    /\ saves' = [saves EXCEPT ![o] = Idle]
    /\ busy' = (busy /\ ~Reaches(o)) /\ rowBusy' = FALSE

\* Closes the dialog, whichever opening it is.
Done(o) == Ends(o) /\ open' = FALSE /\ UNCHANGED errors

Fail(o) == Ends(o) /\ errors' = (IF Reaches(o) THEN saves[o].of ELSE errors) /\ UNCHANGED open

Step(o, to) == saves' = [saves EXCEPT ![o].step = to] /\ UNCHANGED <<open, errors, busy, rowBusy>>

\* (mutant) A retry does not send the fields again.
Patched_Once(row, v) == IF kind = "delete" THEN Gone ELSE IF Editing THEN [row EXCEPT !.name = v.name] ELSE row

Patched(row, v) == IF kind = "delete" THEN Gone ELSE [row EXCEPT !.name = v.name]

\* POST, PATCH or DELETE at the server.
WriteRow(o) ==
    /\ saves[o].step = "row"
    /\ LET row == saves[o].row IN
       \/ /\ row = 0 /\ Len(table) < MaxRows
          /\ table' = Append(table, [name |-> saves[o].of.name, file |-> "none"])
          /\ wrote' = wrote \cup {<<Len(table'), o>>}
          /\ saves' = [saves EXCEPT ![o] = [step |-> "list", row |-> Len(table'), made |-> TRUE, of |-> @.of]]
       \/ /\ row # 0 /\ table[row] # Gone
          /\ table' = [table EXCEPT ![row] = Patched(@, saves[o].of)]
          /\ wrote' = wrote \cup {<<row, o>>}
          /\ saves' = [saves EXCEPT ![o].step = "list"]
    /\ UNCHANGED <<kind, open, opening, fields, createdId, errors, busy, rowBusy, unread, crossed>>

\* (mutant) The row that was created is not remembered.
Remembered_Never(o) == createdId

Remembered(o) == IF kind = "new resource" /\ saves[o].made THEN saves[o].row ELSE createdId

\* The answer and the list arrive; a group's page does without the list, and a
\* deletion reloads the page instead.
ListRead(o) ==
    /\ saves[o].step = "list"
    /\ createdId' = Remembered(o)
    /\ IF saves[o].of.file # "keep" THEN Step(o, "content") ELSE Done(o)
    /\ UNCHANGED <<kind, opening, fields, table, wrote, unread, crossed>>

\* PUT or DELETE .../content, after the row.
WriteContent(o) ==
    /\ saves[o].step = "content" /\ table[saves[o].row] # Gone
    /\ table' = [table EXCEPT ![saves[o].row].file = IF saves[o].of.file = "new" THEN "new" ELSE "none"]
    /\ Step(o, "content list")
    /\ UNCHANGED <<kind, opening, fields, createdId, wrote, unread, crossed>>

ContentListRead(o) ==
    /\ saves[o].step = "content list"
    /\ Done(o)
    /\ UNCHANGED <<kind, opening, fields, createdId, table, wrote, unread, crossed>>

\* The list cannot be read and nobody catches it (resources, users), or the
\* answer to the write itself is lost: the write is taken to have failed.
Unread(o) ==
    /\ saves[o].step \in {"list", "content list"}
    /\ Fail(o)
    /\ unread' = unread \cup {o}
    /\ UNCHANGED <<kind, opening, fields, createdId, table, wrote, crossed>>

\* Refused, or nothing was reached.  A group that is gone or was left in another
\* tab is not the form's to correct: the page says so and closes it.
Refused(o) ==
    /\ saves[o].step \in {"row", "content"}
    /\ Fail(o) \/ (kind = "group" /\ Done(o))
    /\ UNCHANGED <<kind, opening, fields, createdId, table, wrote, unread, crossed>>

\* Deleted in another tab or, a group, by another member.
DeletedElsewhere ==
    /\ kind \in {"resource", "group"} /\ table[1] # Gone
    /\ table' = [table EXCEPT ![1] = Gone]
    /\ UNCHANGED <<kind, open, opening, fields, createdId, errors, busy, rowBusy, saves, wrote, unread, crossed>>

NextForm ==
    \/ HandleOpen \/ HandleClose \/ Edited \/ Save \/ DeletedElsewhere
    \/ \E o \in Openings : \/ WriteRow(o) \/ ListRead(o) \/ WriteContent(o) \/ ContentListRead(o)
                           \/ Unread(o) \/ Refused(o)

FormSpec == InitForm /\ [][NextForm]_formVars

-----------------------------------------------------------------------------
(* Properties *)

\* However often its save fails and is tried again, an opening stores one row and
\* no other opening writes to it, unless an answer was lost or saves crossed ("a
\* retry after a failed upload targets that row, not a new one").
SavedOnce ==
    ~crossed => \A x, y \in wrote : ~Editing /\ x[2] \notin unread =>
        /\ x[2] = y[2] => x[1] = y[1]
        /\ x[1] = y[1] => x[2] = y[2]

\* The errors a dialog shows judge the fields it shows.
ErrorsOfFields == errors # None /\ open => errors = fields \/ crossed

\* A dialog that its save closes has stored all that it shows, the row and the
\* bytes, unless it was edited meanwhile or its group was no longer its member's.
ClosedStored ==
    [][ \A o \in Openings : open /\ ~open' /\ saves[o].step \notin {"none", saves'[o].step} =>
        \/ crossed
        \/ saves[o].step = "row" /\ kind = "group"
        \/ LET row == table[saves[o].row] IN row # Gone =>
               /\ row.name = fields.name
               /\ fields.file = "new" => row.file = "new"
               /\ fields.file = "remove" => row.file = "none" ]_formVars
=============================================================================
