---------------------------- MODULE Connections ----------------------------
(***************************************************************************)
(* The mutual connections of controllers/me.controller.ts: POST and DELETE *)
(* /me/connections/:userId and DELETE /me, statement by statement, on a    *)
(* PostgreSQL database at its default READ COMMITTED level (db.ts sets no  *)
(* other).  A connection is two mirrored rows of UserConnections.  What    *)
(* delete_me does to resources is in Accounts; memberships are left out.   *)
(*                                                                         *)
(* Node runs the handlers interleaved at every await.  The database is     *)
(* external and modelled from how Sequelize uses it: a statement sees what *)
(* is committed when it starts and its own transaction's changes; deleting *)
(* a row waits for another transaction deleting it; inserting a key waits  *)
(* for another transaction inserting or deleting it, or deleting a user it *)
(* references; deleting a user waits for uncommitted rows that reference   *)
(* it and removes the committed ones; one member of a cycle of waits is    *)
(* aborted.                                                                *)
(***************************************************************************)
EXTENDS Naturals, SequencesExt

CONSTANTS
    Users,      \* user ids
    Requests,   \* the requests in flight
    Kinds,      \* which handlers they may be: "connect", "disconnect", "deleteMe"
    MaxFailures \* bound: statements that fail for a reason of the database's own

ASSUME ConnectionsAssumption ==
    /\ IsFiniteSet(Users)
    /\ IsFiniteSet(Requests)
    /\ Kinds \subseteq {"connect", "disconnect", "deleteMe"}
    /\ MaxFailures \in Nat

VARIABLES
    alive,      \* the committed users
    rows,       \* the committed rows of UserConnections: <<source, target>>
    kind,       \* the handler each request runs
    caller,     \* its request.user.id
    other,      \* its params.userId (unused by deleteMe)
    pc,         \* the statement it runs next
    todo,       \* deleteMe: the connections it read and has yet to remove, in row order
    ins,        \* rows its open transaction has inserted
    del,        \* rows its open transaction has deleted
    dying,      \* the users its open transaction has deleted
    reply,      \* the status it answered, 0 before
    failures,   \* statements failed so far
    met         \* history: a connect and a disconnect of one pair overlapped

txVars == <<ins, del, dying>>
dbVars == <<alive, rows>>
inputs == <<kind, caller, other>>
vars == <<alive, rows, kind, caller, other, pc, todo, ins, del, dying, reply,
          failures, met>>

Row(r) == <<caller[r], other[r]>>
Mirror(r) == <<other[r], caller[r]>>
Touching(u) == {k \in Users \X Users : k[1] = u \/ k[2] = u}

\* What a statement of r's transaction sees.
Visible(r) == (rows \ del[r]) \cup ins[r]

\* The row or rows the statement r is about to run writes.
Writes(r) ==
    CASE pc[r] \in {"insertRow", "deleteRow"} -> {Row(r)}
      [] pc[r] \in {"insertMirror", "deleteMirror"} -> {Mirror(r)}
      [] pc[r] = "dropMirrors" /\ todo[r] # <<>> -> {<<Head(todo[r]), caller[r]>>}
      [] pc[r] = "dropOwn" -> {<<caller[r], o>> : o \in Range(todo[r])}
      [] pc[r] = "destroyUser" -> Touching(caller[r])
      [] OTHER -> {}

Inserting(r) == pc[r] \in {"insertRow", "insertMirror"}

\* The other transactions r's next statement waits for.
WaitsOn(r) ==
    {s \in Requests \ {r} :
        \/ Inserting(r) /\ Writes(r) \cap (ins[s] \cup del[s]) # {}
        \/ Inserting(r) /\ {caller[r], other[r]} \cap dying[s] # {}
        \/ ~Inserting(r) /\ Writes(r) \cap del[s] # {}
        \/ pc[r] = "destroyUser" /\ Touching(caller[r]) \cap ins[s] # {}
        \/ pc[r] = "destroyUser" /\ caller[r] \in dying[s]}

Blocked(r) == WaitsOn(r) # {}

\* Transactions waiting for each other in a cycle.
Cycle(rs) ==
    /\ rs # {}
    /\ \A s \in rs : WaitsOn(s) \cap rs # {}
    /\ \A s \in rs : \E q \in rs : s \in WaitsOn(q)
InCycle(r) == Blocked(r) /\ \E rs \in SUBSET Requests : r \in rs /\ Cycle(rs)

SamePair(r, s) == {caller[r], other[r]} = {caller[s], other[s]}
InFlight(r) == pc[r] \notin {"find", "done"}

-----------------------------------------------------------------------------
Init ==
    /\ alive = Users
    /\ \E pairs \in SUBSET {k \in Users \X Users : k[1] # k[2]} :
          rows = pairs \cup {<<k[2], k[1]>> : k \in pairs}
    /\ kind \in [Requests -> Kinds]
    /\ caller \in [Requests -> Users]
    /\ other \in [Requests -> Users]
    /\ \A r \in Requests : caller[r] # other[r]     \* a self-request is a 400
    /\ pc = [r \in Requests |-> "find"]
    /\ todo = [r \in Requests |-> <<>>]
    /\ ins = [r \in Requests |-> {}]
    /\ del = [r \in Requests |-> {}]
    /\ dying = [r \in Requests |-> {}]
    /\ reply = [r \in Requests |-> 0]
    /\ failures = 0
    /\ met = FALSE

GoTo(r, label) == pc' = [pc EXCEPT ![r] = label]
Answer(r, status) ==
    /\ GoTo(r, "done")
    /\ reply' = [reply EXCEPT ![r] = status]

\* Both findByPk answer.  They are two queries, but a user never comes back, so
\* reading both at the later one's instant loses nothing.
Find(r) ==
    /\ pc[r] = "find"
    /\ LET needed == IF kind[r] = "deleteMe" THEN {caller[r]} ELSE {caller[r], other[r]}
       IN  IF needed \subseteq alive
           THEN /\ GoTo(r, IF kind[r] = "deleteMe" THEN "listMirrors" ELSE "check")
                /\ UNCHANGED reply
           ELSE Answer(r, 404)
    /\ met' = (met \/ \E s \in Requests :
                        /\ InFlight(s)
                        /\ SamePair(r, s)
                        /\ {kind[r], kind[s]} = {"connect", "disconnect"})
    /\ UNCHANGED <<dbVars, inputs, todo, txVars, failures>>

\* user.hasConnection(other), outside the transaction.
Check(r) ==
    /\ pc[r] = "check"
    /\ \/ /\ kind[r] = "connect"
          /\ IF Row(r) \in rows THEN Answer(r, 409)
             ELSE GoTo(r, "selectRow") /\ UNCHANGED reply
       \/ /\ kind[r] = "disconnect"
          /\ IF Row(r) \notin rows THEN Answer(r, 404)
             ELSE GoTo(r, "deleteRow") /\ UNCHANGED reply
    /\ UNCHANGED <<dbVars, inputs, todo, txVars, failures, met>>

\* addConnection looks for the row first and inserts only what it misses.
Select(r) ==
    /\ \/ /\ pc[r] = "selectRow"
          /\ GoTo(r, IF Row(r) \in Visible(r) THEN "selectMirror" ELSE "insertRow")
       \/ /\ pc[r] = "selectMirror"
          /\ GoTo(r, IF Mirror(r) \in Visible(r) THEN "commit" ELSE "insertMirror")
    /\ UNCHANGED <<dbVars, inputs, todo, txVars, reply, failures, met>>

\* (mutants) The statements run outside the transaction, and stay; an error
\* leaves the transaction open, and its locks held.
RolledBack_Kept(r) == Visible(r)
Released_Never(held, r) == held

RolledBack(r) == rows
Released(held, r) == [held EXCEPT ![r] = {}]
AfterInsert(r) == IF pc[r] = "insertRow" THEN "selectMirror" ELSE "commit"
AfterDelete(r) == IF pc[r] = "deleteRow" THEN "deleteMirror" ELSE "commit"

\* A unique or a foreign key violation.
Refused(r) ==
    \/ Writes(r) \cap Visible(r) # {}
    \/ ~({caller[r], other[r]} \subseteq alive)

\* A failed statement rolls the whole transaction back; the error handler
\* answers 400.
RollBack(r) ==
    /\ Answer(r, 400)
    /\ rows' = RolledBack(r)
    /\ ins' = Released(ins, r)
    /\ del' = Released(del, r)
    /\ dying' = Released(dying, r)

Insert(r) ==
    /\ Inserting(r)
    /\ ~Blocked(r)
    /\ IF Refused(r)
       THEN RollBack(r)
       ELSE /\ ins' = [ins EXCEPT ![r] = @ \cup Writes(r)]
            /\ GoTo(r, AfterInsert(r))
            /\ UNCHANGED <<rows, del, dying, reply>>
    /\ UNCHANGED <<alive, inputs, todo, failures, met>>

\* removeConnection: one DELETE per direction.
Delete(r) ==
    /\ pc[r] \in {"deleteRow", "deleteMirror"}
    /\ ~Blocked(r)
    /\ del' = [del EXCEPT ![r] = @ \cup (Writes(r) \cap Visible(r))]
    /\ GoTo(r, AfterDelete(r))
    /\ UNCHANGED <<dbVars, inputs, todo, ins, dying, reply, failures, met>>

\* delete_me: getConnections, then the SELECT of setConnections([]).
List(r) ==
    /\ \/ pc[r] = "listMirrors" /\ GoTo(r, "dropMirrors")
       \/ pc[r] = "listOwn" /\ GoTo(r, "dropOwn")
    /\ \E order \in SetToSeqs({o \in Users : <<caller[r], o>> \in Visible(r)}) :
          todo' = [todo EXCEPT ![r] = order]
    /\ UNCHANGED <<dbVars, inputs, txVars, reply, failures, met>>

\* delete_me removes each mirror with a statement of its own.
DropMirror(r) ==
    /\ pc[r] = "dropMirrors"
    /\ ~Blocked(r)
    /\ \/ /\ todo[r] = <<>>
          /\ GoTo(r, "listOwn")
          /\ UNCHANGED <<todo, del>>
       \/ /\ todo[r] # <<>>
          /\ del' = [del EXCEPT ![r] = @ \cup (Writes(r) \cap Visible(r))]
          /\ todo' = [todo EXCEPT ![r] = Tail(@)]
          /\ UNCHANGED pc
    /\ UNCHANGED <<dbVars, inputs, ins, dying, reply, failures, met>>

\* The DELETE of setConnections([]).
DropOwn(r) ==
    /\ pc[r] = "dropOwn"
    /\ ~Blocked(r)
    /\ del' = [del EXCEPT ![r] = @ \cup (Writes(r) \cap Visible(r))]
    /\ todo' = [todo EXCEPT ![r] = <<>>]
    /\ GoTo(r, "destroyUser")
    /\ UNCHANGED <<dbVars, inputs, ins, dying, reply, failures, met>>

\* user.destroy, and the foreign keys' ON DELETE CASCADE.
DestroyUser(r) ==
    /\ pc[r] = "destroyUser"
    /\ ~Blocked(r)
    /\ IF caller[r] \in alive
       THEN /\ dying' = [dying EXCEPT ![r] = {caller[r]}]
            /\ del' = [del EXCEPT ![r] = @ \cup (Touching(caller[r]) \cap Visible(r))]
       ELSE UNCHANGED <<dying, del>>
    /\ GoTo(r, "commit")
    /\ UNCHANGED <<dbVars, inputs, todo, ins, reply, failures, met>>

Commit(r) ==
    /\ pc[r] = "commit"
    /\ rows' = Visible(r)
    /\ alive' = alive \ dying[r]
    /\ Answer(r, IF kind[r] = "deleteMe" THEN 200 ELSE 204)
    /\ ins' = [ins EXCEPT ![r] = {}]
    /\ del' = [del EXCEPT ![r] = {}]
    /\ dying' = [dying EXCEPT ![r] = {}]
    /\ UNCHANGED <<inputs, todo, failures, met>>

\* The database aborts one member of a cycle of waits.
Deadlock(r) ==
    /\ InCycle(r)
    /\ RollBack(r)
    /\ UNCHANGED <<alive, inputs, todo, failures, met>>

\* Any statement may fail, the COMMIT included: a lost connection, a timeout.
Fails(r) ==
    /\ InFlight(r)
    /\ failures < MaxFailures
    /\ failures' = failures + 1
    /\ RollBack(r)
    /\ UNCHANGED <<alive, inputs, todo, met>>

Statement(r) ==
    \/ Find(r) \/ Check(r) \/ Select(r) \/ Insert(r) \/ Delete(r)
    \/ List(r) \/ DropMirror(r) \/ DropOwn(r) \/ DestroyUser(r) \/ Commit(r)

Next == \E r \in Requests : Statement(r) \/ Deadlock(r) \/ Fails(r)

Spec == Init /\ [][Next]_vars

\* Node runs every statement that is not waiting, and the database looks for a
\* deadlock whenever one has waited deadlock_timeout.
Fairness == \A r \in Requests : WF_vars(Statement(r)) /\ WF_vars(Deadlock(r))
FairSpec == Spec /\ Fairness
-----------------------------------------------------------------------------
(* Properties *)

\* "Connections are mutual: connecting writes both directions, disconnecting
\* removes both" (docs/API.md): the mirrored rows come and go together.
Mutual == \A k \in rows : <<k[2], k[1]>> \in rows

\* The answer a client gets is true when it gets it: after a connect's 204 both
\* rows are there and after a disconnect's neither is, unless the two met or one
\* of the users is gone.
Confirmed ==
    [][\A r \in Requests :
          (reply[r] = 0 /\ reply'[r] = 204 /\ ~met' /\ {caller[r], other[r]} \subseteq alive')
          => {Row(r), Mirror(r)} \cap rows'
                = IF kind[r] = "connect" THEN {Row(r), Mirror(r)} ELSE {}]_vars

\* Connects that race each other, and abort each other in deadlocks, do not lose
\* the connection: when all have been answered, each pair asked for is connected.
NoneLost ==
    (failures = 0 /\ \A r \in Requests : kind[r] = "connect" /\ pc[r] = "done") =>
        \A r \in Requests : {Row(r), Mirror(r)} \subseteq rows

\* A connection is never left to a deleted account, though post_connection read
\* the user before delete_me listed the connections to drop.
NoDangling == rows \subseteq alive \X alive

\* What the transactions do ensure: the rows stay mirrored through concurrent
\* connects in both directions, concurrent disconnects, account deletions,
\* deadlocks and failed statements, unless a connect met a disconnect; racing
\* connects lose none; and none is left to an account that is gone.
ConnectionsKept == (met \/ Mutual) /\ NoneLost /\ NoDangling

\* While a request is unanswered, one of them has a statement that need not wait,
\* or is in a cycle of waits for the database to break: nobody waits for a
\* transaction that is over, whether it was committed, refused or aborted.
CanGo(r) ==
    /\ pc[r] # "done" /\ ~Blocked(r)
    /\ pc[r] = "check" => kind[r] \in {"connect", "disconnect"}
NeverStuck ==
    (\E r \in Requests : pc[r] # "done") => \E r \in Requests : CanGo(r) \/ InCycle(r)

\* Every request is answered: opposite connects, disconnects and deletions do
\* wait for each other in cycles, and each cycle is broken.
Answered == \A r \in Requests : <>(pc[r] = "done")
=============================================================================
