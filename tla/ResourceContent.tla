-------------------------- MODULE ResourceContent --------------------------
(***************************************************************************)
(* One resource under the handlers of controllers/resources.controller.ts  *)
(* that load it and then change or serve it: PUT, GET and DELETE of        *)
(* /resources/:id/content, PATCH and DELETE of /resources/:id.             *)
(*                                                                         *)
(* Every handler reads the row with findByPk (all columns but `content`),  *)
(* and a later save() is one UPDATE of the columns that differ from the    *)
(* values it loaded, `content` always among them since it never was        *)
(* loaded.  No transaction or version spans the two, so the handlers       *)
(* interleave between them.  A download loads the row, asks the evaluator, *)
(* and only then loads the bytes.                                          *)
(***************************************************************************)
EXTENDS Naturals, SequencesExt

CONSTANTS
    Requests,   \* the requests in flight
    Owner,      \* the user who owns the resource
    Reader,     \* another user
    Attrs,      \* values of the attrs column
    Metadata,   \* values of the metadata column
    Uploads,    \* what may be uploaded: records of the four content columns
    None,       \* NULL
    MaxGrants   \* bound: changes of the owner's policy

ContentColumns == {"content", "contentType", "contentSize", "contentFilename"}
Columns == {"attrs", "metadata"} \cup ContentColumns

VARIABLES
    exists,     \* the row is there
    row,        \* its columns
    grants,     \* the attrs the owner's policy now lets Reader read
    changes,    \* changes of that policy so far
    kind,       \* the handler each request runs
    caller,     \* its request.user.id
    body,       \* the columns its body sets
    pc,         \* the statement it runs next
    loaded,     \* the instance it loaded
    reply,      \* the status it answered, 0 before
    sent,       \* the content columns a download answered with
    granted,    \* history: the attrs granted since it loaded the row
    raced       \* history: two writers of the content columns overlapped

rowVars == <<exists, row>>
policyVars == <<grants, changes>>
inputs == <<kind, caller, body>>
vars == <<exists, row, grants, changes, kind, caller, body, pc, loaded, reply,
          sent, granted, raced>>

Operations == {"upload", "clear", "patch", "delete", "download"}
Only(cols, f) == [c \in cols |-> f[c]]

\* (mutant) The filename is forgotten.
Cleared_KeepsName == [c \in ContentColumns \ {"contentFilename"} |-> None]

\* What delete_content sets.
Cleared == [c \in ContentColumns |-> None]

\* A body the handler refuses is the empty one: no attrs and no metadata, no
\* bytes, an illegal filename, attributes that do not validate.
Refused == <<>>
Bodies(k) ==
    CASE k = "upload" -> Uploads \cup {Refused}
      [] k = "clear"  -> {Cleared}
      [] k = "patch"  -> UNION {[{"attrs"} -> Attrs], [{"metadata"} -> Metadata], {Refused},
                                [attrs : Attrs, metadata : Metadata]}
      [] OTHER        -> {<<>>}

WritesContent(r) == kind[r] \in {"upload", "clear"}
InFlight(r) == pc[r] \notin {"load", "done"}

\* The ownership guard.
MayWrite(r) == caller[r] = Owner

-----------------------------------------------------------------------------
Init ==
    /\ exists = TRUE
    /\ \E a \in Attrs, m \in Metadata, u \in Uploads \cup {[c \in ContentColumns |-> None]} :
          row = [c \in Columns |-> CASE c = "attrs" -> a [] c = "metadata" -> m [] OTHER -> u[c]]
    /\ grants \in SUBSET Attrs
    /\ changes = 0
    /\ caller \in [Requests -> {Owner, Reader}]
    /\ \E call \in [Requests -> UNION {{k} \X Bodies(k) : k \in Operations}] :
         /\ kind = [r \in Requests |-> call[r][1]]
         /\ body = [r \in Requests |-> call[r][2]]
    /\ pc = [r \in Requests |-> "load"]
    /\ loaded = [r \in Requests |-> <<>>]
    /\ reply = [r \in Requests |-> 0]
    /\ sent = [r \in Requests |-> <<>>]
    /\ granted = [r \in Requests |-> {}]
    /\ raced = FALSE

GoTo(r, label) == pc' = [pc EXCEPT ![r] = label]
Answer(r, status) ==
    /\ GoTo(r, "done")
    /\ reply' = [reply EXCEPT ![r] = status]

\* findByPk, and the guards that need no second statement.
Load(r) ==
    /\ pc[r] = "load"
    /\ loaded' = [loaded EXCEPT ![r] = Only(Columns \ {"content"}, row)]
    /\ granted' = [granted EXCEPT ![r] = grants]
    /\ raced' = (raced \/ \E s \in Requests : /\ InFlight(s)
                                              /\ WritesContent(r) /\ WritesContent(s))
    /\ IF ~exists THEN Answer(r, 404)
       ELSE IF kind[r] = "download"
       THEN IF row.contentSize = None THEN Answer(r, 404)
            ELSE /\ GoTo(r, IF caller[r] = Owner THEN "bytes" ELSE "decide")
                 /\ UNCHANGED reply
       ELSE IF ~MayWrite(r) THEN Answer(r, 403)
       ELSE IF kind[r] \in {"upload", "patch"} /\ body[r] = Refused THEN Answer(r, 400)
       ELSE GoTo(r, IF kind[r] = "delete" THEN "destroy" ELSE "save") /\ UNCHANGED reply
    /\ UNCHANGED <<rowVars, policyVars, inputs, sent>>

\* (mutant) The whole instance is saved.
Update_Instance(r) == body[r] @@ loaded[r]

\* The columns Sequelize finds changed: `content` was not loaded, so it differs.
Changed(r) == {c \in DOMAIN body[r] : c = "content" \/ body[r][c] # loaded[r][c]}

\* The SET clause of save().
Update(r) == Only(Changed(r), body[r])

\* The row after the UPDATE.
Updated(r) == [c \in Columns |-> IF c \in DOMAIN Update(r) THEN Update(r)[c] ELSE row[c]]

\* save() of PUT content, DELETE content and PATCH.  An UPDATE of no row is not
\* an error; one of no column is not sent.
Save(r) ==
    /\ pc[r] = "save"
    /\ row' = IF exists THEN Updated(r) ELSE row
    /\ Answer(r, 200)
    /\ UNCHANGED <<exists, policyVars, inputs, loaded, sent, granted, raced>>

\* destroy() of DELETE.
Destroy(r) ==
    /\ pc[r] = "destroy"
    /\ exists' = FALSE
    /\ Answer(r, 200)
    /\ UNCHANGED <<row, policyVars, inputs, loaded, sent, granted, raced>>

\* (mutant) The decision is logged, and ignored.
Permitted_Ignored(r) == TRUE

\* decideAccess: the owner's policy, as it now is, on the attrs that were loaded.
Permitted(r) == loaded[r].attrs \in grants

\* The answer to a download of somebody else's resource: 403 on a deny, 500 or
\* 503 when there is no decision.
Decide(r) ==
    /\ pc[r] = "decide"
    /\ \/ IF Permitted(r) THEN GoTo(r, "bytes") /\ UNCHANGED reply
          ELSE Answer(r, 403)
       \/ Answer(r, 500)
    /\ UNCHANGED <<rowVars, policyVars, inputs, loaded, sent, granted, raced>>

\* The length of the bytes just read.
Length(r) == (CHOOSE u \in Uploads : u.content = row.content).contentSize

\* The second findByPk of a download, and its answer: the bytes and their
\* length from it, the headers from the first.
Bytes(r) ==
    /\ pc[r] = "bytes"
    /\ IF ~exists \/ row.content = None
       THEN Answer(r, 404) /\ UNCHANGED sent
       ELSE /\ Answer(r, 200)
            /\ sent' = [sent EXCEPT ![r] =
                  [content |-> row.content, contentSize |-> Length(r),
                   contentType |-> loaded[r].contentType,
                   contentFilename |-> loaded[r].contentFilename]]
    /\ UNCHANGED <<rowVars, policyVars, inputs, loaded, granted, raced>>

\* A statement fails: nothing is written and the error handler answers 400.
Fails(r) ==
    /\ pc[r] # "done"
    /\ Answer(r, 400)
    /\ UNCHANGED <<rowVars, policyVars, inputs, loaded, sent, granted, raced>>

\* PATCH /me stores another policy.
ChangePolicy ==
    /\ changes < MaxGrants
    /\ changes' = changes + 1
    /\ grants' \in SUBSET Attrs
    /\ granted' = [r \in Requests |->
                      IF InFlight(r) THEN granted[r] \cup grants' ELSE granted[r]]
    /\ UNCHANGED <<rowVars, inputs, pc, loaded, reply, sent, raced>>

Handle(r) == Load(r) \/ Save(r) \/ Destroy(r) \/ Decide(r) \/ Bytes(r) \/ Fails(r)

Next == ChangePolicy \/ \E r \in Requests : Handle(r)

Spec == Init /\ [][Next]_vars
-----------------------------------------------------------------------------
(* Properties *)

ContentOf(f) == Only(ContentColumns, f)

\* The four content columns describe one upload, or none, unless two requests
\* that write them overlapped: dirty tracking alone does not tear them.
WholeUnlessRaced == raced \/ ContentOf(row) \in Uploads \cup {[c \in ContentColumns |-> None]}

\* "Whether a row has bytes, decided from contentSize rather than content"
\* (utils/resources.utils.ts), once no write is under way.
SizeTellsContent ==
    (\A r \in Requests : ~InFlight(r)) => (row.contentSize = None <=> row.content = None)

\* Nobody writes a column back: a column changes only to the value that a
\* request asked to store in it, so a slow upload does not undo a rename, nor a
\* rename an upload.
NoWriteBack ==
    [][\A c \in Columns : row'[c] # row[c] =>
          \E r \in Requests : /\ pc[r] = "save" /\ pc'[r] = "done"
                              /\ c \in DOMAIN body[r] /\ row'[c] = body[r][c]]_vars

\* Bytes reach another user only when the owner's policy, at some moment of the
\* request, permitted the attributes the request had loaded.
ServedOnPermit ==
    \A r \in Requests :
        (caller[r] # Owner /\ sent[r] # <<>>) => loaded[r].attrs \in granted[r]
=============================================================================
