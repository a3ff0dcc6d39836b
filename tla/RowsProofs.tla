----------------------------- MODULE RowsProofs -----------------------------
(***************************************************************************)
(* Theorems about accounts and the content of resources: for any number    *)
(* of requests of every kind, any users, resources, uploads and values of  *)
(* their columns, and any number of policy changes.                        *)
(***************************************************************************)
EXTENDS Rows, TLAPS

UserRow == [name : Names, rules : Rules]

Labels == {"start", "name", "validate", "save", "insertUser", "insertResource",
           "sweep", "destroy", "commit", "done"}

\* Which handler has which statement.
Whose(label) ==
    CASE label \in {"name", "validate"} -> {"create", "patch"}
      [] label = "save" -> {"patch"}
      [] label = "insertUser" -> {"create"}
      [] label = "insertResource" -> {"resource"}
      [] label \in {"sweep", "destroy", "commit"} -> {"delete"}
      [] OTHER -> {"create", "patch", "delete", "resource"}

\* What the requests ask for.
Asked ==
    /\ caller \in [Requests -> Existing]
    /\ kind \in [Requests -> {"create", "patch", "delete", "resource"}]
    /\ body \in [Requests -> [name : Names \cup {Nobody}, rules : Rules \cup {Nobody}]]
    /\ \A r \in Requests : kind[r] = "create" => body[r] \in UserRow

\* Where they are, with what they hold.
Underway ==
    /\ pc \in [Requests -> Labels]
    /\ \A r \in Requests : kind[r] \in Whose(pc[r])
    /\ loaded \in [Requests -> UserRow \cup {Nobody}]
    /\ \A r \in Requests : InFlight(r) /\ kind[r] = "patch" => loaded[r] \in UserRow
    /\ swept \in [Requests -> SUBSET (Existing \cup Requests)]
    /\ dying \in [Requests -> SUBSET Existing]
    /\ \A r \in Requests : dying[r] \subseteq {caller[r]}

\* What is stored; a request's user is there only when the request is over.
Stored ==
    /\ Alive \subseteq Ids
    /\ \A u \in Alive : users[u] \in UserRow
    /\ \A r \in Requests : r \in Alive => pc[r] = "done"
    /\ DOMAIN resources \subseteq Ids
    /\ \A x \in DOMAIN resources : resources[x] \in Existing \cup {Nobody}

TypeInv == Asked /\ Underway /\ Stored

\* As long as no two requests that set a name overlapped, at most one is in flight, and
\* the name it found free is still free.
NamesFree ==
    ~taken =>
        /\ \A r, s \in Requests :
              InFlight(r) /\ InFlight(s) /\ SetsName(r) /\ SetsName(s) => r = s
        /\ \A r \in Requests :
              SetsName(r) /\ pc[r] \in {"validate", "save", "insertUser"} => Holders(r) = {}

\* As long as no two patches of one user overlapped, what a patch loaded is stored, and
\* what it will store is validated.
PatchesFresh ==
    /\ \A r \in Requests : pc[r] = "insertUser" => body[r] \in validated
    /\ ~crossed =>
        /\ \A r, s \in Requests :
              InFlight(r) /\ InFlight(s) /\ kind[r] = "patch" /\ kind[s] = "patch"
                 /\ caller[r] = caller[s] => r = s
        /\ \A r \in Requests : InFlight(r) /\ kind[r] = "patch" =>
              /\ caller[r] \in Alive => users[caller[r]] = loaded[r]
              /\ pc[r] = "save" => Range(body[r]) = {Nobody} \/ Next_(r) \in validated

\* As long as no resource was created late, a deletion has swept all of its user's.
SweptClean ==
    ~late =>
        \A r \in Requests : pc[r] \in {"destroy", "commit"} =>
            \A x \in DOMAIN resources : resources[x] = caller[r] => x \in swept[r]

AccountsInv ==
    /\ TypeInv
    /\ NamesFree /\ UniqueUnlessRaced
    /\ PatchesFresh /\ ValidatedUnlessCrossed
    /\ SweptClean /\ NoneOrphanedUnlessLate

LEMMA AccountsInit == Init => AccountsInv
<1> SUFFICES ASSUME Init PROVE AccountsInv
  OBVIOUS
<1>1. PICK call \in [Requests -> UNION {{k} \X Bodies(k) : k \in Kinds}] :
         /\ kind = [r \in Requests |-> call[r][1]]
         /\ body = [r \in Requests |-> call[r][2]]
  BY DEF Init
<1>2. ASSUME NEW r \in Requests
      PROVE  /\ kind[r] \in {"create", "patch", "delete", "resource"}
             /\ body[r] \in [name : Names \cup {Nobody}, rules : Rules \cup {Nobody}]
             /\ kind[r] = "create" => body[r] \in UserRow
  <2>1. PICK k \in Kinds : call[r] \in {k} \X Bodies(k)
    BY <1>1
  <2>2. kind[r] = k /\ body[r] \in Bodies(k)
    BY <1>1, <2>1
  <2>3. k \in {"create", "patch", "delete", "resource"}
    BY AccountsAssumption
  <2>4. CASE k = "create"
    BY <2>2, <2>4 DEF Bodies, UserRow
  <2>5. CASE k = "patch"
    BY <2>2, <2>5 DEF Bodies
  <2>6. CASE k \notin {"create", "patch"}
    BY <2>2, <2>3, <2>6 DEF Bodies
  <2>7. QED
    BY <2>4, <2>5, <2>6
<1>3. Asked
  BY <1>1, <1>2 DEF Init, Asked
<1>4. Underway
  BY <1>3 DEF Init, Underway, Asked, Labels, Whose, InFlight
<1>5. Alive = Existing /\ \A u \in Alive : users[u] \in UserRow
  BY DEF Init, Alive, UserRow
<1>6. \A x \in DOMAIN resources : x \in Existing /\ resources[x] = x
  BY DEF Init
<1>7. Stored
  BY <1>5, <1>6, AccountsAssumption DEF Stored, Ids
<1>8. NamesFree /\ PatchesFresh /\ SweptClean
  BY DEF Init, NamesFree, PatchesFresh, SweptClean, InFlight
<1>9. UniqueUnlessRaced /\ ValidatedUnlessCrossed
  BY <1>5 DEF Init, UniqueUnlessRaced, ValidatedUnlessCrossed
<1>10. NoneOrphanedUnlessLate
  BY <1>6, AccountsAssumption DEF NoneOrphanedUnlessLate, NoneOrphaned, Range
<1>11. QED
  BY <1>3, <1>4, <1>7, <1>8, <1>9, <1>10 DEF AccountsInv, TypeInv

-----------------------------------------------------------------------------
(* Types. *)

\* A request goes to a statement of its own handler.
LEMMA Going ==
  ASSUME TypeInv, NEW r \in Requests, NEW label \in Labels, GoTo(r, label)
  PROVE  /\ pc' \in [Requests -> Labels] /\ pc'[r] = label
         /\ \A s \in Requests \ {r} : pc'[s] = pc[s]
BY DEF GoTo, TypeInv, Underway

LEMMA Answering ==
  ASSUME TypeInv, NEW r \in Requests, NEW status, Answer(r, status)
  PROVE  /\ pc' \in [Requests -> Labels] /\ pc'[r] = "done"
         /\ \A s \in Requests \ {r} : pc'[s] = pc[s]
BY Going DEF Answer, Labels

\* What the row will hold is a row.
LEMMA NextRow ==
  ASSUME TypeInv, NEW r \in Requests, kind[r] = "patch", InFlight(r)
  PROVE  Next_(r) \in UserRow /\ \A f \in {"name", "rules"} :
             Next_(r)[f] = IF body[r][f] = Nobody THEN loaded[r][f] ELSE body[r][f]
<1>1. /\ loaded[r] \in UserRow
      /\ body[r] \in [name : Names \cup {Nobody}, rules : Rules \cup {Nobody}]
  BY DEF TypeInv, Asked, Underway
<1>2. QED
  BY <1>1 DEF Next_, UserRow

\* A step that stays within the handler and stores nothing keeps the types.
LEMMA MovedTypes ==
  ASSUME TypeInv, NEW r \in Requests, UNCHANGED <<dbVars, inputs>>,
         pc' \in [Requests -> Labels], \A s \in Requests \ {r} : pc'[s] = pc[s],
         kind[r] \in Whose(pc'[r]), pc[r] # "done",
         loaded' \in [Requests -> UserRow \cup {Nobody}],
         \A s \in Requests \ {r} : loaded'[s] = loaded[s],
         pc'[r] \notin {"start", "done"} /\ kind[r] = "patch" => loaded'[r] \in UserRow,
         swept' \in [Requests -> SUBSET (Existing \cup Requests)],
         dying' \in [Requests -> SUBSET Existing],
         \A s \in Requests : dying'[s] \subseteq {caller[s]}
  PROVE  TypeInv'
<1>1. Asked'
  BY DEF TypeInv, Asked, inputs
<1>2. Underway'
  BY DEF TypeInv, Underway, InFlight, inputs
<1>3. Stored'
  BY DEF TypeInv, Stored, dbVars, Alive, Ids
<1>4. QED
  BY <1>1, <1>2, <1>3 DEF TypeInv

LEMMA StepTypes == TypeInv /\ [Next]_vars => TypeInv'
<1> SUFFICES ASSUME TypeInv, [Next]_vars PROVE TypeInv'
  OBVIOUS
<1>0. Asked /\ Underway /\ Stored
  BY DEF TypeInv
<1>1. ASSUME NEW r \in Requests, Start(r) PROVE TypeInv'
  <2>0. pc[r] = "start" /\ UNCHANGED <<dbVars, inputs, txVars>>
    BY <1>1 DEF Start
  <2>1. CASE kind[r] = "create"
    <3>1. GoTo(r, "name") /\ loaded' = loaded
      BY <1>1, <2>1 DEF Start
    <3>2. /\ pc' \in [Requests -> Labels] /\ pc'[r] = "name"
          /\ \A s \in Requests \ {r} : pc'[s] = pc[s]
      BY <3>1, Going DEF Labels
    <3>3. QED
      BY <1>0, <2>0, <2>1, <3>1, <3>2, MovedTypes DEF Underway, txVars, Whose
  <2>2. CASE kind[r] # "create" /\ caller[r] \notin Alive
    <3>1. loaded' = loaded /\ \E status \in {401, 404} : Answer(r, status)
      BY <1>1, <2>2 DEF Start
    <3>2. /\ pc' \in [Requests -> Labels] /\ pc'[r] = "done"
          /\ \A s \in Requests \ {r} : pc'[s] = pc[s]
      BY <3>1, Answering
    <3>3. QED
      BY <1>0, <2>0, <3>1, <3>2, MovedTypes DEF Asked, Underway, txVars, Whose
  <2>3. CASE kind[r] # "create" /\ caller[r] \in Alive
    <3>1. /\ loaded' = [loaded EXCEPT ![r] = users[caller[r]]]
          /\ GoTo(r, CASE kind[r] = "patch" -> "name"
                       [] kind[r] = "delete" -> "sweep"
                       [] kind[r] = "resource" -> "insertResource")
      BY <1>1, <2>3 DEF Start
    <3>2. kind[r] \in {"patch", "delete", "resource"} /\ users[caller[r]] \in UserRow
      BY <1>0, <2>3 DEF Asked, Stored
    <3>3. PICK label \in Labels : GoTo(r, label) /\ kind[r] \in Whose(label)
      <4>1. CASE kind[r] = "patch"
        BY <3>1, <4>1 DEF Labels, Whose
      <4>2. CASE kind[r] = "delete"
        BY <3>1, <4>2 DEF Labels, Whose
      <4>3. CASE kind[r] = "resource"
        BY <3>1, <4>3 DEF Labels, Whose
      <4>4. QED
        BY <3>2, <4>1, <4>2, <4>3
    <3>4. /\ pc' \in [Requests -> Labels] /\ pc'[r] = label
          /\ \A s \in Requests \ {r} : pc'[s] = pc[s]
      BY <3>3, Going
    <3>5. /\ loaded' \in [Requests -> UserRow \cup {Nobody}]
          /\ \A s \in Requests \ {r} : loaded'[s] = loaded[s]
          /\ loaded'[r] \in UserRow
      BY <1>0, <3>1, <3>2 DEF Underway
    <3>6. QED
      BY <1>0, <2>0, <3>3, <3>4, <3>5, MovedTypes DEF Underway, txVars
  <2>4. QED
    BY <2>1, <2>2, <2>3
<1>2. ASSUME NEW r \in Requests, CheckName(r) \/ Validate(r) PROVE TypeInv'
  <2>1. /\ pc[r] \in {"name", "validate"} /\ UNCHANGED <<dbVars, inputs, loaded, txVars>>
        /\ \/ GoTo(r, "save") /\ kind[r] # "create"
           \/ GoTo(r, "validate")
           \/ GoTo(r, "insertUser") /\ kind[r] = "create"
           \/ \E status \in {400, 503} : Answer(r, status)
    <3>1. CASE Validate(r)
      BY <3>1 DEF Validate
    <3>2. CASE CheckName(r)
      <4>1. kind[r] = "create" => Range(body[r]) # {Nobody}
        BY <1>0, AccountsAssumption DEF Asked, UserRow, Range
      <4>2. QED
        BY <3>2, <4>1 DEF CheckName
    <3>3. QED
      BY <1>2, <3>1, <3>2
  <2>2. kind[r] \in {"create", "patch"}
    BY <1>0, <2>1 DEF Underway, Whose
  <2>3. /\ pc' \in [Requests -> Labels] /\ \A s \in Requests \ {r} : pc'[s] = pc[s]
        /\ kind[r] \in Whose(pc'[r])
    <3>1. CASE GoTo(r, "save") /\ kind[r] # "create"
      BY <2>2, <3>1, Going DEF Labels, Whose
    <3>2. CASE GoTo(r, "validate")
      BY <2>2, <3>2, Going DEF Labels, Whose
    <3>3. CASE GoTo(r, "insertUser") /\ kind[r] = "create"
      BY <3>3, Going DEF Labels, Whose
    <3>4. CASE \E status \in {400, 503} : Answer(r, status)
      BY <2>2, <3>4, Answering DEF Whose
    <3>5. QED
      BY <2>1, <3>1, <3>2, <3>3, <3>4
  <2>4. QED
    BY <1>0, <2>1, <2>3, MovedTypes DEF Underway, InFlight, txVars
<1>3. ASSUME NEW r \in Requests, InsertUser(r) PROVE TypeInv'
  <2>1. /\ kind[r] = "create" /\ pc[r] = "insertUser" /\ body[r] \in UserRow
        /\ users' = Inserted(users, r, body[r]) /\ Answer(r, 201)
        /\ UNCHANGED <<resources, inputs, loaded, txVars, history>>
    BY <1>0, <1>3 DEF InsertUser, Underway, Whose, Asked
  <2>2. /\ pc' \in [Requests -> Labels] /\ pc'[r] = "done"
        /\ \A s \in Requests \ {r} : pc'[s] = pc[s]
    BY <2>1, Answering
  <2>3. Underway'
    BY <1>0, <2>1, <2>2 DEF Underway, InFlight, Whose, inputs, txVars, Asked
  <2>4. Alive' = Alive \cup {r} /\ \A u \in Alive' : users'[u] = IF u = r THEN body[r] ELSE users[u]
    BY <2>1 DEF Alive, Inserted
  <2>5. Stored'
    BY <1>0, <2>1, <2>2, <2>4 DEF Stored, Ids
  <2>6. QED
    BY <1>0, <2>1, <2>3, <2>5 DEF TypeInv, Asked, inputs
<1>4. ASSUME NEW r \in Requests, Save(r) PROVE TypeInv'
  <2>1. /\ kind[r] = "patch" /\ pc[r] = "save" /\ Answer(r, 200)
        /\ users' = IF caller[r] \in Alive THEN [users EXCEPT ![caller[r]] = Update(r)] ELSE users
        /\ UNCHANGED <<resources, inputs, loaded, txVars, history>>
    BY <1>0, <1>4 DEF Save, Underway, Whose
  <2>2. /\ pc' \in [Requests -> Labels] /\ pc'[r] = "done"
        /\ \A s \in Requests \ {r} : pc'[s] = pc[s]
    BY <2>1, Answering
  <2>3. Underway'
    BY <1>0, <2>1, <2>2 DEF Underway, InFlight, Whose, inputs, txVars, Asked
  <2>4. caller[r] \in Alive => Update(r) \in UserRow
    <3>1. Next_(r) \in UserRow
      BY <2>1, NextRow DEF InFlight
    <3>2. QED
      BY <1>0, <3>1 DEF Update, UserRow, Stored
  <2>5. Alive' = Alive /\ \A u \in Alive' : users'[u] \in UserRow
    BY <1>0, <2>1, <2>4 DEF Alive, Stored
  <2>6. Stored'
    BY <1>0, <2>1, <2>2, <2>5 DEF Stored, Ids
  <2>7. QED
    BY <1>0, <2>1, <2>3, <2>6 DEF TypeInv, Asked, inputs
<1>5. ASSUME NEW r \in Requests, InsertResource(r) PROVE TypeInv'
  <2>1. /\ kind[r] = "resource" /\ pc[r] = "insertResource"
        /\ UNCHANGED <<users, inputs, loaded, txVars, validated, taken, crossed>>
        /\ \/ resources' = Inserted(resources, r, caller[r]) /\ Answer(r, 201)
           \/ resources' = resources /\ Answer(r, 400)
    BY <1>0, <1>5 DEF InsertResource, Underway, Whose
  <2>2. /\ pc' \in [Requests -> Labels] /\ pc'[r] = "done"
        /\ \A s \in Requests \ {r} : pc'[s] = pc[s]
    BY <2>1, Answering
  <2>3. Underway'
    BY <1>0, <2>1, <2>2 DEF Underway, InFlight, Whose, inputs, txVars, Asked
  <2>4. /\ DOMAIN resources' \subseteq DOMAIN resources \cup {r}
        /\ \A x \in DOMAIN resources' : resources'[x] \in {caller[r], resources[x]}
        /\ \A x \in DOMAIN resources' : x \in DOMAIN resources \/ resources'[x] = caller[r]
    BY <2>1 DEF Inserted
  <2>5. caller[r] \in Existing
    BY <1>0 DEF Asked
  <2>6. Stored'
    BY <1>0, <2>1, <2>2, <2>4, <2>5 DEF Stored, Ids, Alive
  <2>7. QED
    BY <1>0, <2>1, <2>3, <2>6 DEF TypeInv, Asked, inputs
<1>6. ASSUME NEW r \in Requests, Sweep(r) PROVE TypeInv'
  <2>1. /\ kind[r] = "delete" /\ pc[r] = "sweep" /\ GoTo(r, "destroy")
        /\ swept' = [swept EXCEPT ![r] = Sweepable(r)]
        /\ UNCHANGED <<dbVars, inputs, loaded, dying>>
    BY <1>0, <1>6 DEF Sweep, Underway, Whose
  <2>2. /\ pc' \in [Requests -> Labels] /\ pc'[r] = "destroy"
        /\ \A s \in Requests \ {r} : pc'[s] = pc[s]
    BY <2>1, Going DEF Labels
  <2>3. Sweepable(r) \subseteq Existing \cup Requests
    BY <1>0 DEF Sweepable, Stored, Ids
  <2>4. QED
    BY <1>0, <2>1, <2>2, <2>3, MovedTypes DEF Underway, Whose
<1>7. ASSUME NEW r \in Requests, Destroy(r) PROVE TypeInv'
  <2>1. /\ kind[r] = "delete" /\ pc[r] = "destroy" /\ GoTo(r, "commit")
        /\ dying' = [dying EXCEPT ![r] = {caller[r]} \cap Alive]
        /\ UNCHANGED <<dbVars, inputs, loaded, swept>>
    BY <1>0, <1>7 DEF Destroy, Underway, Whose
  <2>2. /\ pc' \in [Requests -> Labels] /\ pc'[r] = "commit"
        /\ \A s \in Requests \ {r} : pc'[s] = pc[s]
    BY <2>1, Going DEF Labels
  <2>3. caller[r] \in Existing
    BY <1>0 DEF Asked
  <2>4. QED
    BY <1>0, <2>1, <2>2, <2>3, MovedTypes DEF Underway, Whose
<1>8. ASSUME NEW r \in Requests, Commit(r) PROVE TypeInv'
  <2>1. /\ kind[r] = "delete" /\ pc[r] = "commit" /\ Answer(r, 200)
        /\ users' = [u \in Alive \ dying[r] |-> users[u]] /\ resources' = Left(r)
        /\ EndTransaction(r) /\ UNCHANGED <<inputs, loaded>>
    BY <1>0, <1>8 DEF Commit, Underway, Whose
  <2>2. /\ pc' \in [Requests -> Labels] /\ pc'[r] = "done"
        /\ \A s \in Requests \ {r} : pc'[s] = pc[s]
    BY <2>1, Answering
  <2>3. Underway'
    BY <1>0, <2>1, <2>2 DEF Underway, InFlight, Whose, inputs, EndTransaction, Asked
  <2>4. /\ DOMAIN resources' \subseteq DOMAIN resources
        /\ \A x \in DOMAIN resources' : resources'[x] \in {Nobody, resources[x]}
    BY <2>1 DEF Left
  <2>5. Alive' \subseteq Alive /\ \A u \in Alive' : users'[u] = users[u]
    BY <2>1 DEF Alive
  <2>6. Stored'
    BY <1>0, <2>2, <2>4, <2>5 DEF Stored, Ids
  <2>7. QED
    BY <1>0, <2>1, <2>3, <2>6 DEF TypeInv, Asked, inputs
<1>9. ASSUME NEW r \in Requests, Fails(r) PROVE TypeInv'
  <2>1. /\ InFlight(r) /\ Answer(r, 400) /\ EndTransaction(r)
        /\ UNCHANGED <<dbVars, inputs, loaded>>
    BY <1>9 DEF Fails
  <2>2. /\ pc' \in [Requests -> Labels] /\ pc'[r] = "done"
        /\ \A s \in Requests \ {r} : pc'[s] = pc[s]
    BY <2>1, Answering
  <2>3. QED
    BY <1>0, <2>1, <2>2, MovedTypes DEF Underway, InFlight, EndTransaction, Whose, Asked
<1>10. CASE UNCHANGED vars
  BY <1>0, <1>10 DEF vars, TypeInv, Asked, Underway, Stored, InFlight, Alive
<1>11. QED
  BY <1>1, <1>2, <1>3, <1>4, <1>5, <1>6, <1>7, <1>8, <1>9, <1>10 DEF Next, Handle

-----------------------------------------------------------------------------
(* Names. *)

\* One request moves at a time, and only its start is the start of an overlap.
LEMMA OneMoves ==
  ASSUME TypeInv, NEW r \in Requests, Handle(r)
  PROVE  /\ UNCHANGED inputs
         /\ \A s \in Requests \ {r} : pc'[s] = pc[s]
         /\ ~Start(r) => InFlight(r) /\ UNCHANGED <<taken, crossed>>
         /\ Start(r) => UNCHANGED users
         /\ taken => taken'
         /\ crossed => crossed'
<1>0. pc \in [Requests -> Labels]
  BY DEF TypeInv, Underway
<1>1. CASE Start(r)
  <2>1. /\ UNCHANGED inputs /\ UNCHANGED users /\ (taken => taken') /\ (crossed => crossed')
    BY <1>1 DEF Start, dbVars
  <2>2. \E label : GoTo(r, label)
    BY <1>1 DEF Start, Answer
  <2>3. \A s \in Requests \ {r} : pc'[s] = pc[s]
    BY <1>0, <2>2 DEF GoTo
  <2>4. QED
    BY <1>1, <2>1, <2>3
<1>2. CASE ~Start(r)
  <2>1. InFlight(r)
    BY <1>2 DEF Handle, CheckName, Validate, InsertUser, Save, InsertResource, Sweep, Destroy,
                Commit, Fails, InFlight
  <2>2. UNCHANGED <<taken, crossed>>
    BY <1>2 DEF Handle, CheckName, Validate, InsertUser, Save, InsertResource, Sweep, Destroy,
                Commit, Fails, history
  <2>3. UNCHANGED inputs
    BY <1>2 DEF Handle, CheckName, Validate, InsertUser, Save, InsertResource, Sweep, Destroy,
                Commit, Fails
  <2>4. \E label : GoTo(r, label)
    BY <1>2 DEF Handle, CheckName, Validate, InsertUser, Save, InsertResource, Sweep, Destroy,
                Commit, Fails, Answer
  <2>5. \A s \in Requests \ {r} : pc'[s] = pc[s]
    BY <1>0, <2>4 DEF GoTo
  <2>6. QED
    BY <1>2, <2>1, <2>2, <2>3, <2>5
<1>3. QED
  BY <1>1, <1>2

\* The users change by an INSERT, an UPDATE or a DELETE.
LEMMA UsersChange ==
  ASSUME NEW r \in Requests, Handle(r), ~InsertUser(r), ~Save(r)
  PROVE  Alive' \subseteq Alive /\ \A u \in Alive' : users'[u] = users[u]
<1>1. CASE Commit(r)
  BY <1>1 DEF Commit, Alive
<1>2. CASE ~Commit(r)
  <2>1. users' = users
    BY <1>2 DEF Handle, Start, CheckName, Validate, InsertResource, Sweep, Destroy, Fails, dbVars
  <2>2. QED
    BY <2>1 DEF Alive
<1>3. QED
  BY <1>1, <1>2

\* The row a save leaves: what it was sent, or what it was.
LEMMA SavedRow ==
  ASSUME TypeInv, NEW r \in Requests, Save(r)
  PROVE  /\ Alive' = Alive /\ kind[r] = "patch" /\ caller[r] \in Existing
         /\ \A u \in Alive \ {caller[r]} : users'[u] = users[u]
         /\ caller[r] \in Alive =>
               /\ users'[caller[r]] = Update(r)
               /\ \A f \in {"name", "rules"} :
                     \/ users'[caller[r]][f] = users[caller[r]][f]
                     \/ body[r][f] # Nobody /\ users'[caller[r]][f] = body[r][f]
<1>1. /\ kind[r] = "patch" /\ pc[r] = "save"
      /\ users' = IF caller[r] \in Alive THEN [users EXCEPT ![caller[r]] = Update(r)] ELSE users
      /\ caller[r] \in Existing
  BY DEF Save, TypeInv, Underway, Whose, Asked
<1>2. /\ Alive' = Alive /\ \A u \in Alive \ {caller[r]} : users'[u] = users[u]
      /\ caller[r] \in Alive => users'[caller[r]] = Update(r)
  BY <1>1 DEF Alive
<1>3. ASSUME NEW f \in {"name", "rules"}
      PROVE  \/ Update(r)[f] = users[caller[r]][f]
             \/ body[r][f] # Nobody /\ Update(r)[f] = body[r][f]
  <2>1. Update(r)[f] = IF Next_(r)[f] = loaded[r][f] THEN users[caller[r]][f] ELSE Next_(r)[f]
    BY DEF Update
  <2>2. Next_(r)[f] = IF body[r][f] = Nobody THEN loaded[r][f] ELSE body[r][f]
    BY <1>1, NextRow DEF InFlight
  <2>3. QED
    BY <2>1, <2>2
<1>4. QED
  BY <1>1, <1>2, <1>3

\* A step of a request that sets no name changes none.
LEMMA NamesKept ==
  ASSUME TypeInv, NEW r \in Requests, Handle(r), ~SetsName(r)
  PROVE  Alive' \subseteq Alive /\ \A u \in Alive' : users'[u].name = users[u].name
<1>1. CASE InsertUser(r)
  <2>1. body[r] \in UserRow
    BY <1>1 DEF InsertUser, TypeInv, Asked, Underway, Whose
  <2>2. body[r].name \in Names
    BY <2>1 DEF UserRow
  <2>3. QED
    BY <2>2, AccountsAssumption DEF SetsName
<1>2. CASE Save(r)
  BY <1>2, SavedRow DEF SetsName
<1>3. CASE ~InsertUser(r) /\ ~Save(r)
  BY <1>3, UsersChange
<1>4. QED
  BY <1>1, <1>2, <1>3

LEMMA StepNames ==
  ASSUME TypeInv, NamesFree, UniqueUnlessRaced, NEW r \in Requests, Handle(r)
  PROVE  NamesFree' /\ UniqueUnlessRaced'
<1> SUFFICES ASSUME ~taken' PROVE NamesFree' /\ UniqueUnlessRaced'
  BY DEF NamesFree, UniqueUnlessRaced
<1>0. ~taken /\ UNCHANGED inputs /\ \A s \in Requests \ {r} : pc'[s] = pc[s]
  BY OneMoves
<1>1. \A s \in Requests : InFlight(s) /\ SetsName(s) /\ SetsName(r) => s = r
  <2>1. CASE Start(r)
    BY <2>1 DEF Start, Overlaps
  <2>2. CASE ~Start(r)
    BY <1>0, <2>2, OneMoves DEF NamesFree
  <2>3. QED
    BY <2>1, <2>2
<1>2. ASSUME NEW s \in Requests, NEW q \in Requests, InFlight(s)', InFlight(q)', SetsName(s)', SetsName(q)'
      PROVE  s = q
  <2>1. SetsName(s) /\ SetsName(q)
    BY <1>0, <1>2 DEF SetsName, inputs
  <2>2. (s # r => InFlight(s)) /\ (q # r => InFlight(q))
    BY <1>0, <1>2 DEF InFlight
  <2>3. QED
    BY <1>0, <1>1, <2>1, <2>2 DEF NamesFree
<1>3. ASSUME NEW s \in Requests, SetsName(s)', pc'[s] \in {"validate", "save", "insertUser"}
      PROVE  Holders(s)' = {}
  <2>0. SetsName(s) /\ kind'[s] = kind[s] /\ body'[s] = body[s] /\ caller'[s] = caller[s]
    BY <1>0, <1>3 DEF SetsName, inputs
  <2>1. CASE s # r
    <3>1. pc'[s] = pc[s] /\ InFlight(s)
      BY <1>0, <1>3, <2>1 DEF InFlight
    <3>2. Holders(s) = {} /\ ~SetsName(r)
      BY <1>0, <1>1, <1>3, <2>0, <2>1, <3>1 DEF NamesFree
    <3>3. QED
      BY <2>0, <3>2, NamesKept DEF Holders
  <2>2. CASE s = r
    <3>0. pc[r] \in Labels
      BY DEF TypeInv, Underway
    <3>1. CASE CheckName(r)
      BY <1>3, <2>0, <2>2, <3>1 DEF CheckName, Holders, dbVars, Alive, Answer, GoTo, TypeInv,
                                    Underway
    <3>2. CASE Validate(r)
      <4>1. Holders(r) = {} /\ users' = users
        BY <1>0, <2>0, <2>2, <3>2 DEF Validate, NamesFree, dbVars
      <4>2. QED
        BY <2>0, <2>2, <4>1 DEF Holders, Alive
    <3>3. CASE ~CheckName(r) /\ ~Validate(r)
      <4>1. pc'[r] \notin {"validate", "save", "insertUser"}
        <5>1. CASE Start(r)
          <6>0. kind[r] \in {"create", "patch", "delete", "resource"}
            BY DEF TypeInv, Asked
          <6>1. \/ GoTo(r, "name") \/ GoTo(r, "done")
                \/ kind[r] = "patch" /\ GoTo(r, "name")
                \/ kind[r] = "delete" /\ GoTo(r, "sweep")
                \/ kind[r] = "resource" /\ GoTo(r, "insertResource")
            BY <5>1, <6>0 DEF Start, Answer
          <6>2. QED
            BY <6>1 DEF GoTo, TypeInv, Underway
        <5>2. CASE ~Start(r)
          BY <3>3, <5>2 DEF Handle, InsertUser, Save, InsertResource, Sweep, Destroy, Commit,
                            Fails, Answer, GoTo, TypeInv, Underway
        <5>3. QED
          BY <5>1, <5>2
      <4>2. QED
        BY <1>3, <2>2, <4>1
    <3>4. QED
      BY <3>1, <3>2, <3>3
  <2>3. QED
    BY <2>1, <2>2
<1>4. NamesFree'
  BY <1>2, <1>3 DEF NamesFree
<1>5. \A u, v \in Alive : u # v => users[u].name # users[v].name
  BY <1>0 DEF UniqueUnlessRaced
<1>6. \A u, v \in Alive' : u # v => users'[u].name # users'[v].name
  <2>1. CASE ~SetsName(r) \/ (~InsertUser(r) /\ ~Save(r))
    BY <1>5, <2>1, NamesKept, UsersChange
  <2>2. CASE SetsName(r) /\ InsertUser(r)
    <3>1. Holders(r) = {} /\ kind[r] = "create"
      BY <1>0, <2>2 DEF NamesFree, InsertUser, TypeInv, Underway, Whose
    <3>2. \A u \in Alive : users[u].name # body[r].name
      BY <3>1 DEF Holders
    <3>3. Alive' = Alive \cup {r} /\ \A u \in Alive' : users'[u] = IF u = r THEN body[r] ELSE users[u]
      BY <2>2 DEF InsertUser, Inserted, Alive
    <3>4. QED
      BY <1>5, <3>2, <3>3
  <2>3. CASE SetsName(r) /\ Save(r)
    <3>1. Holders(r) = {} /\ kind[r] = "patch"
      BY <1>0, <2>3, SavedRow DEF NamesFree, Save
    <3>2. \A u \in Alive \ {caller[r]} : users[u].name # body[r].name
      BY <3>1 DEF Holders
    <3>3. /\ Alive' = Alive /\ \A u \in Alive \ {caller[r]} : users'[u] = users[u]
          /\ caller[r] \in Alive => users'[caller[r]].name \in {users[caller[r]].name, body[r].name}
      BY <2>3, SavedRow
    <3>4. QED
      BY <1>5, <3>2, <3>3
  <2>4. QED
    BY <2>1, <2>2, <2>3
<1>7. QED
  BY <1>4, <1>6 DEF UniqueUnlessRaced

-----------------------------------------------------------------------------
(* Patches. *)

\* What is found valid stays so, and only a validation adds to it.
LEMMA ValidatedGrows ==
  ASSUME NEW r \in Requests, Handle(r)
  PROVE  validated \subseteq validated'
<1>1. CASE Validate(r)
  BY <1>1 DEF Validate
<1>2. CASE ~Validate(r)
  BY <1>2 DEF Handle, Start, CheckName, InsertUser, Save, InsertResource, Sweep, Destroy,
              Commit, Fails, history
<1>3. QED
  BY <1>1, <1>2

\* Only its own start changes the row a request loaded.
LEMMA LoadedKept ==
  ASSUME TypeInv, NEW r \in Requests, Handle(r)
  PROVE  /\ \A s \in Requests \ {r} : loaded'[s] = loaded[s]
         /\ ~Start(r) => loaded' = loaded
<1>1. CASE Start(r)
  <2>1. loaded' = loaded \/ loaded' = [loaded EXCEPT ![r] = users[caller[r]]]
    BY <1>1 DEF Start
  <2>2. QED
    BY <1>1, <2>1 DEF TypeInv, Underway
<1>2. CASE ~Start(r)
  BY <1>2 DEF Handle, CheckName, Validate, InsertUser, Save, InsertResource, Sweep, Destroy,
              Commit, Fails
<1>3. QED
  BY <1>1, <1>2

\* A patch that saves a row it loaded as it still is stores what it computed.
LEMMA SavesWhatItComputed ==
  ASSUME TypeInv, NEW r \in Requests, kind[r] = "patch", InFlight(r),
         users[caller[r]] = loaded[r]
  PROVE  /\ Update(r) = Next_(r)
         /\ Range(body[r]) = {Nobody} => Next_(r) = loaded[r]
<1>1. loaded[r] \in UserRow /\ Next_(r) \in UserRow
  BY NextRow DEF TypeInv, Underway
<1>2. \A f \in {"name", "rules"} : Update(r)[f] = Next_(r)[f]
  BY DEF Update
<1>3. Update(r) = Next_(r)
  BY <1>2 DEF Update, Next_
<1>4. ASSUME Range(body[r]) = {Nobody} PROVE Next_(r) = loaded[r]
  <2>1. body[r] \in [name : Names \cup {Nobody}, rules : Rules \cup {Nobody}]
    BY DEF TypeInv, Asked
  <2>2. body[r].name = Nobody /\ body[r].rules = Nobody
    BY <1>4, <2>1 DEF Range
  <2>3. Next_(r).name = loaded[r].name /\ Next_(r).rules = loaded[r].rules
    BY <2>2, NextRow
  <2>4. QED
    BY <1>1, <2>3 DEF UserRow
<1>5. QED
  BY <1>3, <1>4

LEMMA StepInserts ==
  ASSUME TypeInv, PatchesFresh, NEW r \in Requests, Handle(r)
  PROVE  \A s \in Requests : pc'[s] = "insertUser" => body'[s] \in validated'
<1> SUFFICES ASSUME NEW s \in Requests, pc'[s] = "insertUser" PROVE body'[s] \in validated'
  OBVIOUS
<1>0. body'[s] = body[s] /\ \A q \in Requests \ {r} : pc'[q] = pc[q]
  BY OneMoves DEF inputs
<1>1. CASE s # r
  BY <1>0, <1>1, ValidatedGrows DEF PatchesFresh
<1>2. CASE s = r /\ Validate(r)
  <2>1. kind[r] \in {"create", "patch"}
    BY <1>2 DEF Validate, TypeInv, Underway, Whose
  <2>2. kind[r] = "create" /\ validated' = validated \cup {Validating(r)}
    BY <1>2, <2>1 DEF Validate, GoTo, Answer, TypeInv, Underway
  <2>3. QED
    BY <1>0, <1>2, <2>2 DEF Validating
<1>3. CASE s = r /\ ~Validate(r)
  <2>1. \E label \in Labels \ {"insertUser"} : GoTo(r, label)
    <3>1. CASE Start(r)
      <4>1. kind[r] \in {"create", "patch", "delete", "resource"}
        BY DEF TypeInv, Asked
      <4>2. \/ GoTo(r, "name") \/ GoTo(r, "done")
            \/ kind[r] = "patch" /\ GoTo(r, "name")
            \/ kind[r] = "delete" /\ GoTo(r, "sweep")
            \/ kind[r] = "resource" /\ GoTo(r, "insertResource")
        BY <3>1, <4>1 DEF Start, Answer
      <4>3. QED
        BY <4>2 DEF Labels
    <3>2. CASE CheckName(r)
      BY <3>2 DEF CheckName, Answer, Labels
    <3>3. CASE ~Start(r) /\ ~CheckName(r)
      BY <1>3, <3>3 DEF Handle, InsertUser, Save, InsertResource, Sweep, Destroy, Commit,
                        Fails, Answer, Labels
    <3>4. QED
      BY <3>1, <3>2, <3>3
  <2>2. QED
    BY <1>3, <2>1 DEF GoTo, TypeInv, Underway
<1>4. QED
  BY <1>1, <1>2, <1>3

LEMMA StepPatches ==
  ASSUME TypeInv, TypeInv', PatchesFresh, ValidatedUnlessCrossed, NEW r \in Requests, Handle(r)
  PROVE  PatchesFresh' /\ ValidatedUnlessCrossed'
<1> SUFFICES ASSUME ~crossed' PROVE PatchesFresh' /\ ValidatedUnlessCrossed'
  BY StepInserts DEF PatchesFresh, ValidatedUnlessCrossed
<1>0. ~crossed /\ UNCHANGED inputs /\ \A s \in Requests \ {r} : pc'[s] = pc[s]
  BY OneMoves
<1> DEFINE Patching(s) == InFlight(s) /\ kind[s] = "patch"
<1>1. \A s \in Requests : Patching(s) /\ kind[r] = "patch" /\ caller[s] = caller[r] => s = r
  <2>1. CASE Start(r)
    BY <2>1 DEF Start, Crosses
  <2>2. CASE ~Start(r)
    BY <1>0, <2>2, OneMoves DEF PatchesFresh
  <2>3. QED
    BY <2>1, <2>2
<1>2. ASSUME NEW s \in Requests, NEW q \in Requests, InFlight(s)', InFlight(q)',
             kind'[s] = "patch", kind'[q] = "patch", caller'[s] = caller'[q]
      PROVE  s = q
  <2>1. kind[s] = "patch" /\ kind[q] = "patch" /\ caller[s] = caller[q]
    BY <1>0, <1>2 DEF inputs
  <2>2. (s # r => InFlight(s)) /\ (q # r => InFlight(q))
    BY <1>0, <1>2 DEF InFlight
  <2>3. QED
    BY <1>0, <1>1, <2>1, <2>2 DEF PatchesFresh
<1>3. ASSUME NEW s \in Requests, InFlight(s)', kind'[s] = "patch"
      PROVE  /\ caller'[s] \in Alive' => users'[caller'[s]] = loaded'[s]
             /\ pc'[s] = "save" => Range(body'[s]) = {Nobody} \/ Next_(s)' \in validated'
  <2>0. /\ kind[s] = "patch" /\ kind'[s] = kind[s] /\ body'[s] = body[s]
        /\ caller'[s] = caller[s] /\ caller[s] \in Existing
    BY <1>0, <1>3 DEF inputs, TypeInv, Asked
  <2>1. CASE s # r
    <3>1. pc'[s] = pc[s] /\ InFlight(s) /\ loaded'[s] = loaded[s]
      BY <1>0, <1>3, <2>1, LoadedKept DEF InFlight
    <3>2. /\ caller[s] \in Alive => users[caller[s]] = loaded[s]
          /\ pc[s] = "save" => Range(body[s]) = {Nobody} \/ Next_(s) \in validated
      BY <1>0, <2>0, <3>1 DEF PatchesFresh
    <3>3. caller[s] \in Alive' => caller[s] \in Alive /\ users'[caller[s]] = users[caller[s]]
      <4>1. CASE InsertUser(r)
        <5>1. /\ Alive' = Alive \cup {r}
              /\ \A u \in Alive' : users'[u] = IF u = r THEN body[r] ELSE users[u]
          BY <4>1 DEF InsertUser, Inserted, Alive
        <5>2. QED
          BY <2>0, <5>1, AccountsAssumption
      <4>2. CASE Save(r)
        <5>1. caller[s] # caller[r]
          BY <1>1, <2>0, <2>1, <3>1, <4>2, SavedRow
        <5>2. QED
          BY <4>2, <5>1, SavedRow
      <4>3. CASE ~InsertUser(r) /\ ~Save(r)
        BY <4>3, UsersChange
      <4>4. QED
        BY <4>1, <4>2, <4>3
    <3>4. Next_(s)' = Next_(s)
      BY <2>0, <3>1 DEF Next_
    <3>5. QED
      BY <2>0, <3>1, <3>2, <3>3, <3>4, ValidatedGrows
  <2>2. CASE s = r /\ Start(r)
    <3>1. GoTo(r, "name") /\ users' = users /\ loaded' = [loaded EXCEPT ![r] = users[caller[r]]]
      <4>1. CASE caller[r] \in Alive
        BY <2>0, <2>2, <4>1 DEF Start, dbVars
      <4>2. CASE caller[r] \notin Alive
        BY <1>3, <2>0, <2>2, <4>2, Answering DEF Start, InFlight
      <4>3. QED
        BY <4>1, <4>2
    <3>2. pc'[r] = "name" /\ loaded'[r] = users[caller[r]]
      BY <3>1 DEF GoTo, TypeInv, Underway
    <3>3. QED
      BY <2>0, <2>2, <3>1, <3>2
  <2>3. CASE s = r /\ ~Start(r)
    <3>1. InFlight(r) /\ loaded' = loaded
      BY <2>3, OneMoves, LoadedKept
    <3>2. ~InsertUser(r) /\ ~Save(r)
      BY <1>3, <2>3, Answering DEF InsertUser, Save, InFlight
    <3>3. caller[r] \in Alive' => users'[caller[r]] = loaded[r]
      BY <1>0, <2>0, <2>3, <3>1, <3>2, UsersChange DEF PatchesFresh
    <3>4. Next_(r)' = Next_(r)
      BY <2>0, <2>3, <3>1 DEF Next_
    <3>5. pc'[r] = "save" => Range(body[r]) = {Nobody} \/ Next_(r) \in validated'
      <4>1. CASE CheckName(r)
        BY <4>1 DEF CheckName, Answer, GoTo, TypeInv, Underway
      <4>2. CASE Validate(r)
        BY <2>0, <2>3, <4>2 DEF Validate, Validating, Answer, GoTo, TypeInv, Underway
      <4>3. CASE ~CheckName(r) /\ ~Validate(r)
        <5>1. pc'[r] # "save"
          BY <2>3, <3>2, <4>3 DEF Handle, InsertResource, Sweep, Destroy, Commit, Fails,
                                  Answer, GoTo, TypeInv, Underway
        <5>2. QED
          BY <5>1
      <4>4. QED
        BY <4>1, <4>2, <4>3
    <3>6. QED
      BY <2>0, <2>3, <3>1, <3>3, <3>4, <3>5
  <2>4. QED
    BY <2>1, <2>2, <2>3
<1>4. PatchesFresh'
  BY <1>2, <1>3, StepInserts DEF PatchesFresh
<1>5. \A u \in Alive : users[u] \in validated
  BY <1>0 DEF ValidatedUnlessCrossed, Range, Alive
<1>6. \A u \in Alive' : users'[u] \in validated'
  <2>1. CASE InsertUser(r)
    <3>1. /\ Alive' = Alive \cup {r} /\ body[r] \in validated
          /\ \A u \in Alive' : users'[u] = IF u = r THEN body[r] ELSE users[u]
      BY <2>1 DEF InsertUser, Inserted, Alive, PatchesFresh
    <3>2. QED
      BY <1>5, <3>1, ValidatedGrows
  <2>2. CASE Save(r)
    <3>1. kind[r] = "patch" /\ InFlight(r) /\ pc[r] = "save"
      BY <2>2, SavedRow DEF Save, InFlight
    <3>2. caller[r] \in Alive => Update(r) \in validated
      <4>1. CASE caller[r] \notin Alive
        BY <4>1
      <4>2. CASE caller[r] \in Alive
        <5>1. /\ users[caller[r]] = loaded[r]
              /\ Range(body[r]) = {Nobody} \/ Next_(r) \in validated
          BY <1>0, <3>1, <4>2 DEF PatchesFresh
        <5>2. QED
          BY <1>5, <3>1, <4>2, <5>1, SavesWhatItComputed
      <4>3. QED
        BY <4>1, <4>2
    <3>3. QED
      BY <1>5, <2>2, <3>2, SavedRow, ValidatedGrows
  <2>3. CASE ~InsertUser(r) /\ ~Save(r)
    BY <1>5, <2>3, UsersChange, ValidatedGrows
  <2>4. QED
    BY <2>1, <2>2, <2>3
<1>7. ValidatedUnlessCrossed'
  BY <1>6 DEF ValidatedUnlessCrossed, Range, Alive
<1>8. QED
  BY <1>4, <1>7

-----------------------------------------------------------------------------
(* Resources. *)

\* A request sweeps for itself, and only the statements of a deletion do.
LEMMA SweptKept ==
  ASSUME TypeInv, NEW r \in Requests, Handle(r)
  PROVE  /\ \A s \in Requests \ {r} : swept'[s] = swept[s]
         /\ ~Sweep(r) /\ pc'[r] \in {"destroy", "commit"} =>
               pc[r] = "destroy" /\ Destroy(r) /\ swept' = swept
<1>0. swept \in [Requests -> SUBSET (Existing \cup Requests)] /\ pc \in [Requests -> Labels]
  BY DEF TypeInv, Underway
<1>1. CASE Sweep(r)
  BY <1>0, <1>1 DEF Sweep
<1>2. CASE Destroy(r)
  BY <1>0, <1>2 DEF Destroy
<1>3. CASE Commit(r) \/ Fails(r)
  <2>1. EndTransaction(r) /\ pc'[r] = "done"
    BY <1>3, Answering DEF Commit, Fails
  <2>2. QED
    BY <1>0, <2>1 DEF EndTransaction
<1>4. CASE Start(r)
  <2>0. kind[r] \in {"create", "patch", "delete", "resource"} /\ swept' = swept
    BY <1>4 DEF TypeInv, Asked, Start, txVars
  <2>1. \/ GoTo(r, "name") \/ GoTo(r, "done")
        \/ kind[r] = "patch" /\ GoTo(r, "name")
        \/ kind[r] = "delete" /\ GoTo(r, "sweep")
        \/ kind[r] = "resource" /\ GoTo(r, "insertResource")
    BY <1>4, <2>0 DEF Start, Answer
  <2>2. pc'[r] \notin {"destroy", "commit"}
    BY <1>0, <2>1 DEF GoTo
  <2>3. QED
    BY <2>0, <2>2
<1>5. CASE CheckName(r) \/ Validate(r) \/ InsertUser(r) \/ Save(r) \/ InsertResource(r)
  <2>1. swept' = swept
    BY <1>5 DEF CheckName, Validate, InsertUser, Save, InsertResource, txVars
  <2>2. \/ GoTo(r, "validate") \/ GoTo(r, "save") \/ GoTo(r, "insertUser") \/ GoTo(r, "done")
    BY <1>5 DEF CheckName, Validate, InsertUser, Save, InsertResource, Answer
  <2>3. pc'[r] \notin {"destroy", "commit"}
    BY <1>0, <2>2 DEF GoTo
  <2>4. QED
    BY <2>1, <2>3
<1>6. QED
  BY <1>1, <1>2, <1>3, <1>4, <1>5 DEF Handle

\* Resources change by an INSERT or with a deletion that commits.
LEMMA ResourcesChange ==
  ASSUME NEW r \in Requests, Handle(r), ~InsertResource(r), ~Commit(r)
  PROVE  resources' = resources /\ late' = late
BY DEF Handle, Start, CheckName, Validate, InsertUser, Save, Sweep, Destroy, Fails, dbVars, history

LEMMA StepSwept ==
  ASSUME TypeInv, SweptClean, NoneOrphanedUnlessLate, NEW r \in Requests, Handle(r)
  PROVE  SweptClean' /\ NoneOrphanedUnlessLate'
<1> SUFFICES ASSUME ~late' PROVE SweptClean' /\ NoneOrphanedUnlessLate'
  BY DEF SweptClean, NoneOrphanedUnlessLate
<1>0. UNCHANGED inputs /\ \A s \in Requests \ {r} : pc'[s] = pc[s]
  BY OneMoves
<1>1. /\ ~late
      /\ \A x \in DOMAIN resources : resources[x] # Nobody
  <2>1. ~late
    BY ResourcesChange DEF InsertResource, Commit, history
  <2>2. QED
    BY <2>1 DEF NoneOrphanedUnlessLate, NoneOrphaned, Range
<1>2. ASSUME NEW s \in Requests, pc[s] \in {"destroy", "commit"}
      PROVE  /\ kind[s] = "delete" /\ InFlight(s)
             /\ \A x \in DOMAIN resources : resources[x] = caller[s] => x \in swept[s]
  BY <1>1, <1>2 DEF SweptClean, TypeInv, Underway, Whose, InFlight
<1>3. ASSUME NEW s \in Requests, pc'[s] \in {"destroy", "commit"}
      PROVE  \A x \in DOMAIN resources' : resources'[x] = caller'[s] => x \in swept'[s]
  <2>0. caller'[s] = caller[s] /\ caller[s] \in Existing /\ caller[s] # Nobody
    BY <1>0, AccountsAssumption DEF inputs, TypeInv, Asked
  <2>1. CASE Sweep(r) /\ s = r
    <3>1. resources' = resources /\ swept'[r] = Sweepable(r)
      BY <2>1 DEF Sweep, dbVars, TypeInv, Underway
    <3>2. QED
      BY <2>0, <2>1, <3>1 DEF Sweepable
  <2>2. CASE ~(Sweep(r) /\ s = r)
    <3>1. /\ pc[s] \in {"destroy", "commit"} /\ swept'[s] = swept[s]
          /\ s = r => Destroy(r)
      BY <1>0, <1>3, <2>2, SweptKept
    <3>2. /\ kind[s] = "delete" /\ InFlight(s)
          /\ \A x \in DOMAIN resources : resources[x] = caller[s] => x \in swept[s]
      BY <1>2, <3>1
    <3>3. \A x \in DOMAIN resources' : resources'[x] = caller[s] =>
             x \in DOMAIN resources /\ resources[x] = caller[s]
      <4>1. CASE InsertResource(r)
        <5>1. CASE caller[r] \notin Alive
          BY <4>1, <5>1 DEF InsertResource
        <5>2. CASE caller[r] \in Alive
          <6>1. /\ resources' = Inserted(resources, r, caller[r])
                /\ caller[r] # caller[s]
            BY <3>2, <4>1, <5>2 DEF InsertResource
          <6>2. QED
            BY <6>1 DEF Inserted
        <5>3. QED
          BY <5>1, <5>2
      <4>2. CASE Commit(r)
        <5>1. resources' = Left(r)
          BY <4>2 DEF Commit
        <5>2. QED
          BY <2>0, <5>1 DEF Left
      <4>3. CASE ~InsertResource(r) /\ ~Commit(r)
        BY <4>3, ResourcesChange
      <4>4. QED
        BY <4>1, <4>2, <4>3
    <3>4. QED
      BY <2>0, <3>1, <3>2, <3>3
  <2>3. QED
    BY <2>1, <2>2
<1>4. SweptClean'
  BY <1>3 DEF SweptClean
<1>5. \A x \in DOMAIN resources' : resources'[x] # Nobody
  <2>1. CASE InsertResource(r)
    <3>1. caller[r] # Nobody
      BY AccountsAssumption DEF TypeInv, Asked
    <3>2. resources' = resources \/ resources' = Inserted(resources, r, caller[r])
      BY <2>1 DEF InsertResource
    <3>3. QED
      BY <1>1, <3>1, <3>2 DEF Inserted
  <2>2. CASE Commit(r)
    <3>1. resources' = Left(r) /\ pc[r] = "commit"
      BY <2>2 DEF Commit
    <3>2. \A x \in DOMAIN resources : resources[x] = caller[r] => x \in swept[r]
      BY <1>2, <3>1
    <3>3. dying[r] \subseteq {caller[r]}
      BY DEF TypeInv, Underway
    <3>4. QED
      BY <1>1, <3>1, <3>2, <3>3 DEF Left
  <2>3. CASE ~InsertResource(r) /\ ~Commit(r)
    BY <1>1, <2>3, ResourcesChange
  <2>4. QED
    BY <2>1, <2>2, <2>3
<1>6. NoneOrphanedUnlessLate'
  BY <1>5 DEF NoneOrphanedUnlessLate, NoneOrphaned, Range
<1>7. QED
  BY <1>4, <1>6

-----------------------------------------------------------------------------
(* The theorems. *)

LEMMA AccountsStep == AccountsInv /\ [Next]_vars => AccountsInv'
<1> SUFFICES ASSUME AccountsInv, [Next]_vars PROVE AccountsInv'
  OBVIOUS
<1>1. TypeInv'
  BY StepTypes DEF AccountsInv
<1>2. CASE UNCHANGED vars
  BY <1>1, <1>2 DEF AccountsInv, vars, NamesFree, UniqueUnlessRaced, PatchesFresh, SetsName,
                    ValidatedUnlessCrossed, SweptClean, NoneOrphanedUnlessLate, NoneOrphaned,
                    InFlight, Holders, Next_, Alive
<1>3. CASE Next
  <2>1. PICK r \in Requests : Handle(r)
    BY <1>3 DEF Next
  <2>2. QED
    BY <1>1, <2>1, StepNames, StepPatches, StepSwept DEF AccountsInv
<1>4. QED
  BY <1>2, <1>3

LEMMA AccountsHolds == Spec => []AccountsInv
BY AccountsInit, AccountsStep, PTL DEF Spec

\* No two users hold one name (isUsernameTaken, users.utils.ts), unless two requests that
\* set a name overlapped.
THEOREM AccountsUnique == Spec => []UniqueUnlessRaced
<1>1. AccountsInv => UniqueUnlessRaced
  BY DEF AccountsInv
<1>2. QED
  BY <1>1, AccountsHolds, PTL

\* Every stored policy was validated as a whole (validateUserRules in create_user and
\* patch_me), unless two patches of one user overlapped.
THEOREM AccountsValidated == Spec => []ValidatedUnlessCrossed
<1>1. AccountsInv => ValidatedUnlessCrossed
  BY DEF AccountsInv
<1>2. QED
  BY <1>1, AccountsHolds, PTL

\* No resource outlives its owner (delete_me), unless it was created while its owner was
\* being deleted.
THEOREM AccountsNoneOrphaned == Spec => []NoneOrphanedUnlessLate
<1>1. AccountsInv => NoneOrphanedUnlessLate
  BY DEF AccountsInv
<1>2. QED
  BY <1>1, AccountsHolds, PTL

\* What a step may do to a stored column of a user.
UsersKept ==
    \A u \in Alive \cap DOMAIN users' : \A f \in {"name", "rules"} :
        users'[u][f] # users[u][f] =>
            \E r \in Requests : /\ pc[r] = "save" /\ pc'[r] = "done"
                                /\ caller[r] = u /\ body[r][f] = users'[u][f]

LEMMA AccountsKept == AccountsInv /\ [Next]_vars => UsersKept
<1> SUFFICES ASSUME AccountsInv, [Next]_vars, NEW u \in Alive \cap DOMAIN users',
                    NEW f \in {"name", "rules"}, users'[u][f] # users[u][f]
             PROVE  \E r \in Requests : /\ pc[r] = "save" /\ pc'[r] = "done"
                                        /\ caller[r] = u /\ body[r][f] = users'[u][f]
  BY DEF UsersKept
<1>1. TypeInv /\ ~(UNCHANGED vars)
  BY DEF AccountsInv, vars
<1>2. PICK r \in Requests : Handle(r)
  BY <1>1 DEF Next
<1>3. CASE InsertUser(r)
  <2>1. r \notin Alive
    BY <1>1, <1>3 DEF InsertUser, TypeInv, Stored
  <2>2. users'[u] = users[u]
    BY <1>3, <2>1 DEF InsertUser, Inserted, Alive
  <2>3. QED
    BY <2>2
<1>4. CASE Save(r)
  <2>1. u = caller[r]
    BY <1>1, <1>4, SavedRow
  <2>2. body[r][f] = users'[u][f]
    BY <1>1, <1>4, <2>1, SavedRow
  <2>3. pc[r] = "save" /\ pc'[r] = "done"
    BY <1>1, <1>4, Answering DEF Save
  <2>4. QED
    BY <2>1, <2>2, <2>3
<1>5. CASE ~InsertUser(r) /\ ~Save(r)
  BY <1>2, <1>5, UsersChange DEF Alive
<1>6. QED
  BY <1>3, <1>4, <1>5

\* A patch changes a column only to the value it was sent (patch_me: a field that the body
\* omits keeps its value, whatever the others write meanwhile).
THEOREM AccountsOmittedUntouched == Spec => OmittedUntouched
<1>1. AccountsInv /\ [Next]_vars => UsersKept
  BY AccountsKept
<1>2. QED
  BY <1>1, AccountsHolds, PTL DEF Spec, OmittedUntouched, UsersKept

-----------------------------------------------------------------------------
(* The content of a resource.                                              *)

ContentLabels == {"load", "decide", "bytes", "save", "destroy", "done"}

ContentAsked ==
    /\ kind \in [Requests -> Content!Operations]
    /\ caller \in [Requests -> {Owner, Reader}]
    /\ \A r \in Requests :
          /\ kind[r] = "upload" => body[r] \in Uploads \cup {Content!Refused}
          /\ kind[r] = "clear" => body[r] = Content!Cleared
          /\ kind[r] = "patch" => body[r] = Content!Refused \/ DOMAIN body[r] \subseteq {"attrs", "metadata"}

ContentUnderway ==
    /\ pc \in [Requests -> ContentLabels]
    /\ \A r \in Requests : pc[r] = "save" =>
          /\ kind[r] \in {"upload", "clear", "patch"}
          /\ kind[r] \in {"upload", "patch"} => body[r] # Content!Refused
    /\ DOMAIN loaded = Requests /\ DOMAIN sent = Requests /\ DOMAIN granted = Requests

ContentTypes == ContentAsked /\ ContentUnderway /\ DOMAIN row = Content!Columns

\* A request knows of every policy since it loaded the row, and goes on to the bytes of
\* another user's resource only when one of them permits what it loaded.
Permits ==
    \A r \in Requests :
        /\ pc[r] = "load" => sent[r] = <<>>
        /\ Content!InFlight(r) => grants \subseteq granted[r]
        /\ pc[r] = "bytes" /\ caller[r] # Owner => loaded[r].attrs \in granted[r]

\* As long as no two writers of the content overlapped, the one in flight loaded what is
\* still stored.
LoadedFresh ==
    ~raced =>
        /\ \A r, s \in Requests : Content!InFlight(r) /\ Content!InFlight(s) /\ Content!WritesContent(r) /\ Content!WritesContent(s)
                                     => r = s
        /\ \A r \in Requests : Content!InFlight(r) /\ Content!WritesContent(r) =>
              \A c \in Content!ContentColumns \ {"content"} : loaded[r][c] = row[c]

ContentInv == ContentTypes /\ Permits /\ Content!ServedOnPermit /\ LoadedFresh /\ Content!WholeUnlessRaced

LEMMA ContentInit == ASSUME Content!Init PROVE ContentInv
<1>1. PICK call \in [Requests -> UNION {{k} \X Content!Bodies(k) : k \in Content!Operations}] :
         /\ kind = [r \in Requests |-> call[r][1]]
         /\ body = [r \in Requests |-> call[r][2]]
  BY DEF Content!Init
<1>2. ASSUME NEW r \in Requests PROVE kind[r] \in Content!Operations /\ body[r] \in Content!Bodies(kind[r])
  <2>1. PICK k \in Content!Operations : call[r] \in {k} \X Content!Bodies(k)
    BY <1>1
  <2>2. QED
    BY <1>1, <2>1
<1>3. ASSUME NEW r \in Requests
      PROVE  /\ kind[r] = "upload" => body[r] \in Uploads \cup {Content!Refused}
             /\ kind[r] = "clear" => body[r] = Content!Cleared
             /\ kind[r] = "patch" => body[r] = Content!Refused \/ DOMAIN body[r] \subseteq {"attrs", "metadata"}
  <2>1. CASE kind[r] = "upload"
    BY <1>2, <2>1 DEF Content!Bodies
  <2>2. CASE kind[r] = "clear"
    BY <1>2, <2>2 DEF Content!Bodies
  <2>3. CASE kind[r] = "patch"
    <3>1. \/ body[r] \in [{"attrs"} -> Attrs] \/ body[r] \in [{"metadata"} -> Metadata]
          \/ body[r] = Content!Refused \/ body[r] \in [attrs : Attrs, metadata : Metadata]
      BY <1>2, <2>3 DEF Content!Bodies
    <3>2. QED
      BY <2>3, <3>1
  <2>4. QED
    BY <2>1, <2>2, <2>3
<1>4. ContentAsked
  BY <1>1, <1>2, <1>3 DEF Content!Init, ContentAsked
<1>5. ContentUnderway /\ DOMAIN row = Content!Columns
  BY DEF Content!Init, ContentUnderway, ContentLabels
<1>6. Permits /\ Content!ServedOnPermit /\ LoadedFresh
  BY DEF Content!Init, Permits, Content!ServedOnPermit, LoadedFresh, Content!InFlight
<1>7. Content!WholeUnlessRaced
  <2>1. PICK a \in Attrs, m \in Metadata, u \in Uploads \cup {[c \in Content!ContentColumns |-> None]} :
           row = [c \in Content!Columns |-> CASE c = "attrs" -> a [] c = "metadata" -> m [] OTHER -> u[c]]
    BY DEF Content!Init
  <2>2. \A c \in Content!ContentColumns : c \in Content!Columns /\ row[c] = u[c]
    BY <2>1 DEF Content!Columns, Content!ContentColumns
  <2>3. u = [c \in Content!ContentColumns |-> u[c]]
    BY UploadsAssumption
  <2>4. Content!ContentOf(row) = u
    BY <2>2, <2>3 DEF Content!ContentOf, Content!Only
  <2>5. QED
    BY <2>4 DEF Content!WholeUnlessRaced
<1>8. QED
  BY <1>4, <1>5, <1>6, <1>7 DEF ContentInv, ContentTypes

-----------------------------------------------------------------------------
\* A step of a handler ends it or takes it to its next statement.
LEMMA ContentGoing ==
  ASSUME ContentTypes, NEW r \in Requests, Content!Handle(r)
  PROVE  /\ pc' \in [Requests -> ContentLabels] /\ \A s \in Requests \ {r} : pc'[s] = pc[s]
         /\ UNCHANGED Content!inputs /\ pc[r] # "done" /\ pc'[r] # "load" /\ grants' = grants
         /\ ~Content!Load(r) => UNCHANGED <<loaded, granted, raced>>
         /\ ~Content!Bytes(r) => UNCHANGED sent
         /\ ~Content!Save(r) => UNCHANGED row
         /\ pc'[r] = "save" => /\ Content!Load(r) /\ kind[r] \in {"upload", "clear", "patch"}
                               /\ kind[r] \in {"upload", "patch"} => body[r] # Content!Refused
         /\ pc'[r] = "bytes" => \/ Content!Load(r) /\ caller[r] = Owner
                                \/ Content!Decide(r) /\ Content!Permitted(r)
<1>0. pc \in [Requests -> ContentLabels] /\ kind[r] \in Content!Operations
  BY DEF ContentTypes, ContentUnderway, ContentAsked
<1>1. /\ UNCHANGED Content!inputs /\ pc[r] # "done" /\ grants' = grants
      /\ ~Content!Load(r) => UNCHANGED <<loaded, granted, raced>>
      /\ ~Content!Bytes(r) => UNCHANGED sent
      /\ ~Content!Save(r) => UNCHANGED row
  BY DEF Content!Handle, Content!Load, Content!Save, Content!Destroy, Content!Decide,
         Content!Bytes, Content!Fails, Content!policyVars, Content!rowVars
<1>2. \/ Content!GoTo(r, "done")
      \/ Content!Load(r) /\ Content!GoTo(r, "bytes") /\ caller[r] = Owner
      \/ Content!Load(r) /\ Content!GoTo(r, "decide")
      \/ Content!Load(r) /\ Content!GoTo(r, "destroy")
      \/ /\ Content!Load(r) /\ Content!GoTo(r, "save") /\ kind[r] \notin {"download", "delete"}
         /\ kind[r] \in {"upload", "patch"} => body[r] # Content!Refused
      \/ Content!Decide(r) /\ Content!Permitted(r) /\ Content!GoTo(r, "bytes")
  <2>1. CASE Content!Load(r)
    BY <2>1 DEF Content!Load, Content!Answer
  <2>2. CASE Content!Decide(r)
    BY <2>2 DEF Content!Decide, Content!Answer
  <2>3. CASE Content!Save(r) \/ Content!Destroy(r) \/ Content!Bytes(r) \/ Content!Fails(r)
    BY <2>3 DEF Content!Save, Content!Destroy, Content!Bytes, Content!Fails, Content!Answer
  <2>4. QED
    BY <2>1, <2>2, <2>3 DEF Content!Handle
<1>3. QED
  BY <1>0, <1>1, <1>2 DEF Content!GoTo, ContentLabels, Content!Operations

LEMMA ContentStepTypes == ContentTypes /\ [Content!Next]_(Content!vars) => ContentTypes'
<1> SUFFICES ASSUME ContentTypes, [Content!Next]_(Content!vars) PROVE ContentTypes'
  OBVIOUS
<1>1. ASSUME NEW r \in Requests, Content!Handle(r) PROVE ContentTypes'
  <2>0. UNCHANGED Content!inputs
    BY <1>1, ContentGoing
  <2>1. ContentAsked'
    BY <2>0 DEF ContentTypes, ContentAsked, Content!inputs, Content!Cleared, Content!Refused
  <2>2. DOMAIN loaded' = Requests /\ DOMAIN sent' = Requests /\ DOMAIN granted' = Requests
    BY <1>1, ContentGoing DEF ContentTypes, ContentUnderway, Content!Load, Content!Bytes
  <2>3. DOMAIN row' = Content!Columns
    BY <1>1, ContentGoing DEF ContentTypes, Content!Save, Content!Updated
  <2>4. ContentUnderway'
    BY <1>1, <2>0, <2>2, ContentGoing DEF ContentTypes, ContentUnderway, Content!inputs,
                                        Content!Refused
  <2>5. QED
    BY <2>1, <2>3, <2>4 DEF ContentTypes
<1>2. CASE Content!ChangePolicy
  BY <1>2 DEF Content!ChangePolicy, ContentTypes, ContentAsked, ContentUnderway, Content!rowVars,
              Content!inputs
<1>3. CASE UNCHANGED Content!vars
  BY <1>3 DEF Content!vars, ContentTypes, ContentAsked, ContentUnderway
<1>4. QED
  BY <1>1, <1>2, <1>3 DEF Content!Next

LEMMA StepPermits ==
  ContentTypes /\ Permits /\ Content!ServedOnPermit /\ [Content!Next]_(Content!vars) => Permits' /\ Content!ServedOnPermit'
<1> SUFFICES ASSUME ContentTypes, Permits, Content!ServedOnPermit, [Content!Next]_(Content!vars)
             PROVE  Permits' /\ Content!ServedOnPermit'
  OBVIOUS
<1>0. DOMAIN loaded = Requests /\ DOMAIN sent = Requests /\ DOMAIN granted = Requests
  BY DEF ContentTypes, ContentUnderway
<1>1. ASSUME NEW r \in Requests, Content!Handle(r) PROVE Permits' /\ Content!ServedOnPermit'
  <2>1. /\ \A s \in Requests \ {r} : pc'[s] = pc[s] /\ loaded'[s] = loaded[s]
                                   /\ granted'[s] = granted[s] /\ sent'[s] = sent[s]
        /\ UNCHANGED <<kind, caller, body>> /\ grants' = grants /\ pc'[r] # "load"
    BY <1>0, <1>1, ContentGoing DEF Content!Load, Content!Bytes, Content!inputs
  <2>2. \A s \in Requests \ {r} :
          /\ pc'[s] = "load" => sent'[s] = <<>>
          /\ Content!InFlight(s)' => grants' \subseteq granted'[s]
          /\ pc'[s] = "bytes" /\ caller'[s] # Owner => loaded'[s].attrs \in granted'[s]
          /\ caller'[s] # Owner /\ sent'[s] # <<>> => loaded'[s].attrs \in granted'[s]
    BY <2>1 DEF Permits, Content!ServedOnPermit, Content!InFlight
  <2>3. CASE Content!Load(r)
    <3>1. granted'[r] = grants /\ sent'[r] = <<>> /\ (pc'[r] = "bytes" => caller[r] = Owner)
      BY <1>0, <1>1, <2>3, ContentGoing DEF Content!Load, Permits, Content!Decide
    <3>2. QED
      BY <2>1, <2>2, <3>1 DEF Permits, Content!ServedOnPermit
  <2>4. CASE ~Content!Load(r)
    <3>1. /\ UNCHANGED <<loaded, granted>>
          /\ pc[r] # "load" \/ pc'[r] = "done"
          /\ Content!Bytes(r) => pc[r] = "bytes"
          /\ ~Content!Bytes(r) => sent' = sent
          /\ pc'[r] = "bytes" => Content!Permitted(r) /\ pc[r] = "decide"
      BY <1>1, <2>4, ContentGoing DEF Content!Handle, Content!Save, Content!Destroy,
                                      Content!Decide, Content!Bytes, Content!Fails,
                                      Content!Answer, Content!GoTo, ContentTypes, ContentUnderway
    <3>2. Content!InFlight(r)' => Content!InFlight(r)
      BY <1>1, <2>1, <3>1, ContentGoing DEF Content!InFlight
    <3>3. caller[r] # Owner /\ sent'[r] # <<>> => loaded[r].attrs \in granted[r]
      BY <3>1 DEF Permits, Content!ServedOnPermit
    <3>4. pc'[r] = "bytes" => loaded[r].attrs \in granted[r]
      BY <3>1 DEF Permits, Content!Permitted, Content!InFlight
    <3>5. QED
      BY <2>1, <2>2, <3>1, <3>2, <3>3, <3>4 DEF Permits, Content!ServedOnPermit
  <2>5. QED
    BY <2>3, <2>4
<1>2. CASE Content!ChangePolicy
  <2>1. UNCHANGED <<pc, caller, loaded, sent>>
    BY <1>2 DEF Content!ChangePolicy, Content!inputs
  <2>2. \A r \in Requests : /\ granted[r] \subseteq granted'[r]
                            /\ Content!InFlight(r) => grants' \subseteq granted'[r]
    BY <1>2 DEF Content!ChangePolicy
  <2>3. QED
    BY <2>1, <2>2 DEF Permits, Content!ServedOnPermit, Content!InFlight
<1>3. CASE UNCHANGED Content!vars
  BY <1>3 DEF Content!vars, Permits, Content!ServedOnPermit, Content!InFlight
<1>4. QED
  BY <1>1, <1>2, <1>3 DEF Content!Next

-----------------------------------------------------------------------------
(* The content columns. *)

Blank == [c \in Content!ContentColumns |-> None]

\* What a save leaves in a column: what the body holds, or what was there.
LEMMA SavedColumns ==
  ASSUME ContentTypes, NEW r \in Requests, Content!Save(r)
  PROVE  \/ row' = row
         \/ \A c \in Content!Columns : row'[c] = IF c \in Content!Changed(r) THEN body[r][c] ELSE row[c]
<1>1. DOMAIN Content!Update(r) = Content!Changed(r) /\ \A c \in Content!Changed(r) : Content!Update(r)[c] = body[r][c]
  BY DEF Content!Update, Content!Only
<1>2. CASE exists
  BY <1>1, <1>2 DEF Content!Save, Content!Updated
<1>3. CASE ~exists
  BY <1>3 DEF Content!Save
<1>4. QED
  BY <1>2, <1>3

\* An upload or a clearing that loaded the columns as they are stores all of its own.
LEMMA WritesWhole ==
  ASSUME ContentTypes, NEW r \in Requests, Content!Save(r), Content!WritesContent(r),
         \A c \in Content!ContentColumns \ {"content"} : loaded[r][c] = row[c]
  PROVE  row' = row \/ Content!ContentOf(row') \in Uploads \cup {Blank}
<1>1. body[r] \in Uploads \cup {Blank}
  BY DEF ContentTypes, ContentAsked, ContentUnderway, Content!Save, Content!WritesContent,
         Content!Cleared, Blank
<1>2. body[r] = [c \in Content!ContentColumns |-> body[r][c]]
  BY <1>1, UploadsAssumption DEF Blank
<1>3. DOMAIN body[r] = Content!ContentColumns
  BY <1>2
<1>4. ASSUME row' # row PROVE \A c \in Content!ContentColumns : row'[c] = body[r][c]
  <2>1. SUFFICES ASSUME NEW c \in Content!ContentColumns PROVE row'[c] = body[r][c]
    OBVIOUS
  <2>2. c \in Content!Columns /\ row'[c] = IF c \in Content!Changed(r) THEN body[r][c] ELSE row[c]
    BY <1>4, SavedColumns DEF Content!Columns
  <2>3. c \notin Content!Changed(r) => row[c] = body[r][c]
    BY <1>3 DEF Content!Changed
  <2>4. QED
    BY <2>2, <2>3
<1>5. ASSUME row' # row PROVE Content!ContentOf(row') = body[r]
  BY <1>2, <1>4, <1>5 DEF Content!ContentOf, Content!Only
<1>6. QED
  BY <1>1, <1>5

\* The others leave the content alone.
LEMMA ContentKept ==
  ASSUME ContentTypes, NEW r \in Requests, Content!Handle(r), ~(Content!Save(r) /\ Content!WritesContent(r))
  PROVE  \A c \in Content!ContentColumns : row'[c] = row[c]
<1>1. CASE Content!Save(r)
  <2>1. DOMAIN body[r] \subseteq {"attrs", "metadata"}
    BY <1>1 DEF Content!Save, Content!WritesContent, ContentTypes, ContentAsked, ContentUnderway
  <2>2. \A c \in Content!ContentColumns : c \notin Content!Changed(r) /\ c \in Content!Columns
    BY <2>1 DEF Content!Changed, Content!ContentColumns, Content!Columns
  <2>3. QED
    BY <1>1, <2>2, SavedColumns
<1>2. CASE ~Content!Save(r)
  BY <1>2, ContentGoing
<1>3. QED
  BY <1>1, <1>2

LEMMA StepWhole ==
  ASSUME ContentTypes, LoadedFresh, Content!WholeUnlessRaced, [Content!Next]_(Content!vars)
  PROVE  LoadedFresh' /\ Content!WholeUnlessRaced'
<1>1. ASSUME NEW r \in Requests, Content!Handle(r) PROVE LoadedFresh' /\ Content!WholeUnlessRaced'
  <2> SUFFICES ASSUME ~raced' PROVE LoadedFresh' /\ Content!WholeUnlessRaced'
    BY DEF LoadedFresh, Content!WholeUnlessRaced
  <2>0. DOMAIN loaded = Requests
    BY DEF ContentTypes, ContentUnderway
  <2>1. /\ \A s \in Requests \ {r} : pc'[s] = pc[s] /\ loaded'[s] = loaded[s]
        /\ UNCHANGED <<kind, caller, body>> /\ ~raced
        /\ \A s \in Requests : Content!WritesContent(s)' = Content!WritesContent(s)
        /\ \A s \in Requests \ {r} : Content!InFlight(s)' = Content!InFlight(s)
    BY <1>1, <2>0, ContentGoing DEF Content!Load, Content!inputs, Content!WritesContent,
                                    Content!InFlight
  <2>2. Content!InFlight(r)' => Content!Load(r) \/ Content!InFlight(r)
    BY <1>1, ContentGoing DEF Content!Handle, Content!Save, Content!Destroy, Content!Decide,
                              Content!Bytes, Content!Fails, Content!Answer, Content!GoTo,
                              Content!InFlight,
                       ContentTypes, ContentUnderway
  <2>3. Content!Load(r) \/ Content!InFlight(r) =>
           \A s \in Requests : Content!InFlight(s) /\ Content!WritesContent(s) /\ Content!WritesContent(r) => s = r
    BY <2>1 DEF Content!Load, LoadedFresh
  <2>4. \A s, q \in Requests :
           Content!InFlight(s)' /\ Content!InFlight(q)' /\ Content!WritesContent(s)' /\ Content!WritesContent(q)' => s = q
    BY <2>1, <2>2, <2>3 DEF LoadedFresh
  <2>5. ASSUME NEW s \in Requests, Content!InFlight(s)', Content!WritesContent(s)'
        PROVE  \A c \in Content!ContentColumns \ {"content"} : loaded'[s][c] = row'[c]
    <3>1. CASE Content!Load(r)
      <4>1. row' = row /\ loaded'[r] = Content!Only(Content!Columns \ {"content"}, row)
        BY <2>0, <3>1 DEF Content!Load, Content!rowVars
      <4>2. \A c \in Content!ContentColumns \ {"content"} : loaded'[r][c] = row[c]
        BY <4>1 DEF Content!Only, Content!Columns
      <4>3. CASE s = r
        BY <4>1, <4>2, <4>3
      <4>4. CASE s # r
        BY <2>1, <2>5, <4>1, <4>4 DEF LoadedFresh
      <4>5. QED
        BY <4>3, <4>4
    <3>2. CASE ~Content!Load(r)
      <4>1. loaded' = loaded /\ Content!InFlight(s) /\ Content!WritesContent(s)
        BY <1>1, <2>1, <2>2, <2>5, <3>2, ContentGoing
      <4>2. ~(Content!Save(r) /\ Content!WritesContent(r))
        <5>1. SUFFICES ASSUME Content!Save(r), Content!WritesContent(r) PROVE FALSE
          OBVIOUS
        <5>2. Content!InFlight(r) /\ pc'[r] = "done"
          BY <5>1 DEF Content!Save, Content!Answer, Content!GoTo, Content!InFlight, ContentTypes,
                      ContentUnderway
        <5>3. s = r
          BY <2>3, <4>1, <5>1, <5>2
        <5>4. QED
          BY <2>5, <5>2, <5>3 DEF Content!InFlight
      <4>3. \A c \in Content!ContentColumns : row'[c] = row[c]
        BY <1>1, <4>2, ContentKept
      <4>4. QED
        BY <2>1, <4>1, <4>3 DEF LoadedFresh
    <3>3. QED
      BY <3>1, <3>2
  <2>6. LoadedFresh'
    BY <2>4, <2>5 DEF LoadedFresh
  <2>7. Content!ContentOf(row) \in Uploads \cup {Blank}
    BY <2>1 DEF Content!WholeUnlessRaced, Blank
  <2>8. Content!ContentOf(row') \in Uploads \cup {Blank}
    <3>1. CASE Content!Save(r) /\ Content!WritesContent(r)
      <4>1. \A c \in Content!ContentColumns \ {"content"} : loaded[r][c] = row[c]
        BY <2>1, <3>1 DEF LoadedFresh, Content!Save, Content!InFlight
      <4>2. QED
        BY <2>7, <3>1, <4>1, WritesWhole
    <3>2. CASE ~(Content!Save(r) /\ Content!WritesContent(r))
      <4>1. \A c \in Content!ContentColumns : row'[c] = row[c]
        BY <1>1, <3>2, ContentKept
      <4>2. Content!ContentOf(row') = Content!ContentOf(row)
        BY <4>1 DEF Content!ContentOf, Content!Only
      <4>3. QED
        BY <2>7, <4>2
    <3>3. QED
      BY <3>1, <3>2
  <2>9. Content!WholeUnlessRaced'
    BY <2>8 DEF Content!WholeUnlessRaced, Blank, Content!ContentOf, Content!Only
  <2>10. QED
    BY <2>6, <2>9
<1>2. CASE Content!ChangePolicy
  BY <1>2 DEF Content!ChangePolicy, LoadedFresh, Content!WholeUnlessRaced, Content!ContentOf,
              Content!Only, Content!InFlight, Content!WritesContent,
              Content!rowVars, Content!inputs
<1>3. CASE UNCHANGED Content!vars
  BY <1>3 DEF Content!vars, LoadedFresh, Content!WholeUnlessRaced, Content!ContentOf,
              Content!Only, Content!InFlight, Content!WritesContent
<1>4. QED
  BY <1>1, <1>2, <1>3 DEF Content!Next

\* What a step may do to a column of the resource.
RowKept ==
    \A c \in Content!Columns : row'[c] # row[c] =>
        \E r \in Requests : /\ pc[r] = "save" /\ pc'[r] = "done"
                            /\ c \in DOMAIN body[r] /\ row'[c] = body[r][c]

LEMMA ContentKeeps == ContentTypes /\ [Content!Next]_(Content!vars) => RowKept
<1>0. SUFFICES ASSUME ContentTypes, [Content!Next]_(Content!vars), NEW c \in Content!Columns, row'[c] # row[c]
               PROVE  \E r \in Requests : /\ pc[r] = "save" /\ pc'[r] = "done"
                                          /\ c \in DOMAIN body[r] /\ row'[c] = body[r][c]
  BY DEF RowKept
<1>1. PICK r \in Requests : Content!Handle(r)
  BY <1>0 DEF Content!Next, Content!ChangePolicy, Content!rowVars, Content!vars
<1>2. Content!Save(r)
  BY <1>0, <1>1, ContentGoing
<1>3. c \in Content!Changed(r) /\ row'[c] = body[r][c]
  BY <1>0, <1>2, SavedColumns
<1>4. pc[r] = "save" /\ pc'[r] = "done"
  BY <1>0, <1>2 DEF Content!Save, Content!Answer, Content!GoTo, ContentTypes, ContentUnderway
<1>5. QED
  BY <1>3, <1>4 DEF Content!Changed

-----------------------------------------------------------------------------
(* Both.                                                                   *)

\* A behaviour is about accounts or about content; the other stands still.
RowsInv ==
    \/ part = "accounts" /\ AccountsInv /\ NoContent
    \/ part = "content" /\ ContentInv /\ NoAccounts

LEMMA RowsStep ==
  RowsInv /\ [RowsNext]_rowsVars =>
    /\ RowsInv'
    /\ \/ AccountsInv /\ [Next]_vars /\ UNCHANGED contentVars
       \/ ContentInv /\ [Content!Next]_(Content!vars) /\ UNCHANGED accountVars
<1> SUFFICES ASSUME RowsInv, [RowsNext]_rowsVars
             PROVE  /\ RowsInv'
                    /\ \/ AccountsInv /\ [Next]_vars /\ UNCHANGED contentVars
                       \/ ContentInv /\ [Content!Next]_(Content!vars) /\ UNCHANGED accountVars
  OBVIOUS
<1>1. CASE part = "accounts"
  <2>1. AccountsInv /\ NoContent /\ part' = part /\ [Next]_vars /\ UNCHANGED contentVars
    BY <1>1 DEF RowsInv, RowsNext, rowsVars
  <2>2. AccountsInv'
    BY <2>1, AccountsStep
  <2>3. NoContent'
    BY <2>1 DEF NoContent, contentVars
  <2>4. QED
    BY <1>1, <2>1, <2>2, <2>3 DEF RowsInv
<1>2. CASE part = "content"
  <2>1. ContentInv /\ NoAccounts /\ part' = part /\ UNCHANGED accountVars
    BY <1>2 DEF RowsInv, RowsNext, rowsVars, vars, accountVars
  <2>2. [Content!Next]_(Content!vars)
    BY <1>2 DEF RowsNext, rowsVars, vars, contentVars, Content!vars
  <2>3. ContentInv'
    BY <2>1, <2>2, ContentStepTypes, StepPermits, StepWhole DEF ContentInv
  <2>4. NoAccounts'
    BY <2>1 DEF NoAccounts, accountVars
  <2>5. QED
    BY <1>2, <2>1, <2>2, <2>3, <2>4 DEF RowsInv
<1>3. QED
  BY <1>1, <1>2 DEF RowsInv

LEMMA RowsHolds == RowsSpec => []RowsInv
<1>1. RowsInit => RowsInv
  BY AccountsInit, ContentInit DEF RowsInit, RowsInv
<1>2. QED
  BY <1>1, RowsStep, PTL DEF RowsSpec

\* Bytes reach another user only when the owner's policy, at some moment of the request,
\* permitted what the request had loaded (get_content of resources.controller.ts).
THEOREM RowsServedOnPermit == RowsSpec => []ServedOnPermit
<1>1. RowsInv => ServedOnPermit
  BY DEF RowsInv, ContentInv, NoContent, ServedOnPermit, Content!ServedOnPermit
<1>2. QED
  BY <1>1, RowsHolds, PTL

\* The four content columns are one upload's, or none's, unless two requests that write
\* them overlapped: the save of only what changed does not tear them (put_content and
\* delete_content).
THEOREM RowsWhole == RowsSpec => []WholeUnlessRaced
<1>1. NoContent => Content!ContentOf(row) = Blank
  BY DEF NoContent, Content!ContentOf, Content!Only, Blank, Content!Columns
<1>2. RowsInv => WholeUnlessRaced
  BY <1>1 DEF RowsInv, ContentInv, WholeUnlessRaced, Content!WholeUnlessRaced, Blank
<1>3. QED
  BY <1>2, RowsHolds, PTL

\* No handler writes a stale column back: a column of a user or of the resource changes
\* only to the value that the request that saves asked to store in it (patch_me,
\* put_content, delete_content and patch_one).
THEOREM RowsNothingWrittenBack == RowsSpec => NothingWrittenBack
<1>1. RowsInv /\ [RowsNext]_rowsVars => [UsersKept]_vars /\ [RowKept]_(Content!vars)
  <2> SUFFICES ASSUME RowsInv, [RowsNext]_rowsVars PROVE [UsersKept]_vars /\ [RowKept]_(Content!vars)
    OBVIOUS
  <2>1. CASE AccountsInv /\ [Next]_vars /\ UNCHANGED contentVars
    <3>1. UsersKept
      BY <2>1, AccountsKept
    <3>2. RowKept
      BY <2>1 DEF RowKept, contentVars
    <3>3. QED
      BY <3>1, <3>2
  <2>2. CASE ContentInv /\ [Content!Next]_(Content!vars) /\ UNCHANGED accountVars
    <3>1. RowKept
      BY <2>2, ContentKeeps DEF ContentInv
    <3>2. UsersKept
      BY <2>2 DEF UsersKept, accountVars
    <3>3. QED
      BY <3>1, <3>2
  <2>3. QED
    BY <2>1, <2>2, RowsStep
<1>2. RowsSpec => [][UsersKept]_vars /\ [][RowKept]_(Content!vars)
  BY <1>1, RowsHolds, PTL DEF RowsSpec
<1>3. QED
  BY <1>2 DEF NothingWrittenBack, OmittedUntouched, Content!NoWriteBack, UsersKept, RowKept
=============================================================================
