---------------------------- MODULE DevDatabase ----------------------------
(***************************************************************************)
(* POST /dev/seed and POST /dev/reset (controllers/dev.controller.ts,      *)
(* dev/seed.service.ts) beside the two handlers that put the first rows    *)
(* into the tables they look at, POST /users and POST /groups, and the     *)
(* event each of them logs at its end (utils/events.utils.ts).             *)
(*                                                                         *)
(* A handler is its sequence of statements, read off its code.  PostgreSQL *)
(* gives a statement the table lock it needs and keeps it to the end of    *)
(* the transaction: a shared one for a SELECT, an INSERT or the check of a *)
(* foreign key, an exclusive one for a TRUNCATE.  In a cycle of waits one  *)
(* transaction is rolled back.  The pool of database connections is taken  *)
(* to be large enough.                                                     *)
(***************************************************************************)
EXTENDS Naturals, SequencesExt

CONSTANTS
    Requests,   \* the requests in flight
    Before      \* who wrote the rows that are there from the start

ASSUME DevAssumption == IsFiniteSet(Requests) /\ Before \notin Requests

Kinds == {"seed", "seedGroups", "reset", "user", "group"}
Tables == {"Users", "Resources", "UserConnections", "Groups", "UserGroups", "LogEvents"}
Rows == Tables \X (Requests \cup {Before})

VARIABLES
    stored,     \* the committed rows: a table and the request that wrote them
    kind,       \* the handler each request runs
    todo,       \* the statements it has left
    counted,    \* the rows its counts and lookups have found
    shared,     \* the tables its open transaction holds a shared lock on
    exclusive,  \* the tables its open transaction has truncated
    pending,    \* the rows its open transaction has inserted
    reply,      \* the status it answered, 0 before
    joined      \* history: requests that ran beside one that inserts users or groups

txVars == <<counted, shared, exclusive, pending>>
vars == <<stored, kind, todo, txVars, reply, joined>>

Statement(do, on) == [do |-> do, on |-> on]
Seeds(r) == kind[r] \in {"seed", "seedGroups"}

\* logEvent: an INSERT on its own, with the foreign key of the user it names.
LogStatements(k) ==
    <<Statement("insert", {"LogEvents"})>>
    \o (IF k \in {"user", "group"} THEN <<Statement("key", {"Users"})>> ELSE <<>>)
    \o <<Statement("commit", {})>>

\* The groups of a scenario that has them (ex4).
GroupStatements ==
    <<Statement("insert", {"Groups"}), Statement("insert", {"UserGroups"}),
      Statement("key", {"Users", "Groups"})>>

\* What a handler does before it logs.  A statement over several tables takes
\* them in any order: the counts run at once, and in which order CASCADE
\* reaches the referencing tables is PostgreSQL's affair.
HandlerStatements(k) ==
    CASE k \in {"seed", "seedGroups"} ->
            <<Statement("peek", {"Users", "Groups"}), Statement("decide", {}),
              Statement("insert", {"Users"}), Statement("insert", {"Resources"}),
              Statement("insert", {"UserConnections"}), Statement("key", {"Users"})>>
            \o (IF k = "seedGroups" THEN GroupStatements ELSE <<>>)
      [] k = "reset" ->
            <<Statement("read", {"Users", "Resources", "Groups", "LogEvents"}),
              Statement("truncate", {"Users"}),
              Statement("truncate", {"Resources", "UserConnections", "UserGroups", "LogEvents"}),
              Statement("truncate", {"Groups"})>>
      [] k = "user" ->
            <<Statement("peek", {"Users"}), Statement("decide", {}),
              Statement("insert", {"Users"})>>
      [] k = "group" ->
            <<Statement("peek", {"Users"}), Statement("decide", {})>> \o GroupStatements

\* (mutant) isDatabaseEmpty counts the users only.
Program_UsersOnly(k) ==
    LET own == HandlerStatements(k)
        asked == IF k \in {"seed", "seedGroups"}
                 THEN ReplaceAt(own, 1, Statement("peek", {"Users"}))
                 ELSE own
    IN  <<Statement("start", {})>> \o asked \o <<Statement("commit", {})>> \o LogStatements(k)

\* (mutant) The counts of a reset are not given its transaction.
Program_CountsOutside(k) ==
    LET own == HandlerStatements(k)
        asked == IF k = "reset"
                 THEN ReplaceAt(own, 1, Statement("peek", own[1].on))
                 ELSE own
    IN  <<Statement("start", {})>> \o asked \o <<Statement("commit", {})>> \o LogStatements(k)

Program(k) ==
    <<Statement("start", {})>> \o HandlerStatements(k) \o <<Statement("commit", {})>>
    \o LogStatements(k)

Init ==
    /\ stored \in SUBSET {<<"Users", Before>>, <<"Groups", Before>>}
    /\ kind \in [Requests -> Kinds]
    /\ todo = [r \in Requests |-> Program(kind[r])]
    /\ counted = [r \in Requests |-> {}]
    /\ shared = [r \in Requests |-> {}]
    /\ exclusive = [r \in Requests |-> {}]
    /\ pending = [r \in Requests |-> {}]
    /\ reply = [r \in Requests |-> 0]
    /\ joined = {}

-----------------------------------------------------------------------------
Answered(r) == todo[r] = <<>>
Doing(r, what) == ~Answered(r) /\ todo[r][1].do = what
InFlight(r) == ~Answered(r) /\ ~Doing(r, "start")

\* Its own transaction is over and only the event is left.
Logging(r) == Len(todo[r]) <= Len(LogStatements(kind[r]))

StatementDone(r) == todo' = [todo EXCEPT ![r] = Tail(@)]
TableDone(r, t) ==
    todo' = [todo EXCEPT ![r] = IF @[1].on = {t} THEN Tail(@)
                                ELSE ReplaceAt(@, 1, Statement(@[1].do, @[1].on \ {t}))]
EndsWith(r, status) ==
    /\ todo' = [todo EXCEPT ![r] = <<>>]
    /\ reply' = [reply EXCEPT ![r] = status]

\* (mutant) A transaction that fails is left open.
Released_Leaked(r) == UNCHANGED <<shared, exclusive, pending>>
\* The end of a transaction: its locks are free, its rows are no longer its own.
Released(r) ==
    /\ shared' = [shared EXCEPT ![r] = {}]
    /\ exclusive' = [exclusive EXCEPT ![r] = {}]
    /\ pending' = [pending EXCEPT ![r] = {}]

\* A failed statement rolls back.  What fails in logEvent is swallowed; anything
\* else reaches mainErrorHandler, which answers a database error with 400.
Fails(r) ==
    /\ Released(r)
    /\ EndsWith(r, IF Logging(r) THEN 200 ELSE 400)
    /\ UNCHANGED <<stored, counted>>

-----------------------------------------------------------------------------
\* The handler begins.
Start(r) ==
    /\ Doing(r, "start")
    /\ StatementDone(r)
    /\ joined' = joined \cup UNION {
           (IF kind[s] # "reset" THEN {r} ELSE {}) \cup (IF kind[r] # "reset" THEN {s} ELSE {}) :
           s \in {s \in Requests \ {r} : InFlight(s)}}
    /\ UNCHANGED <<stored, kind, txVars, reply>>

\* The early answers: a seed on a database that is not empty; attributes, rules
\* or a fixture that are not valid; no evaluator to ask; a caller who is gone.
EarlyAnswers(r) ==
    CASE Seeds(r)          -> IF counted[r] # {} THEN {409} ELSE {500, 503}
      [] kind[r] = "user"  -> {400, 500, 503}
      [] kind[r] = "group" -> IF counted[r] = {} THEN {401, 403} ELSE {}
GoesOn(r) ==
    CASE Seeds(r)          -> counted[r] = {}
      [] kind[r] = "user"  -> TRUE
      [] kind[r] = "group" -> counted[r] # {}

Decide(r) ==
    /\ Doing(r, "decide")
    /\ \/ GoesOn(r) /\ StatementDone(r) /\ UNCHANGED reply
       \/ \E status \in EarlyAnswers(r) : EndsWith(r, status)
    /\ UNCHANGED <<stored, kind, txVars, joined>>

\* A group of a scenario has the id its fixture gives it: a second one, once
\* committed, is a duplicate key, and until then the insert waits to know.
FixtureGroupsOf(r) ==
    {s \in Requests \ {r} : kind[r] = "seedGroups" /\ kind[s] = "seedGroups"}
Inserting(r, t) == Doing(r, "insert") /\ t = "Groups"

\* The transactions that r waits for before it can work on table t.
HoldersOf(r, t) ==
    {s \in Requests \ {r} :
        \/ t \in exclusive[s]
        \/ Doing(r, "truncate") /\ t \in shared[s]
        \/ Inserting(r, t) /\ s \in FixtureGroupsOf(r) /\ <<t, s>> \in pending[s]}
Gets(r, t) == t \in todo[r][1].on /\ HoldersOf(r, t) = {}

\* A count or a lookup, and whether its lock is kept by a transaction.
Read(r) ==
    /\ Doing(r, "peek") \/ Doing(r, "read")
    /\ \E t \in todo[r][1].on :
        /\ Gets(r, t)
        /\ counted' = [counted EXCEPT ![r] = @ \cup {row \in stored : row[1] = t}]
        /\ shared' = [shared EXCEPT ![r] = IF Doing(r, "read") THEN @ \cup {t} ELSE @]
        /\ TableDone(r, t)
    /\ UNCHANGED <<stored, kind, exclusive, pending, reply, joined>>

Written(r, row) ==
    /\ pending' = [pending EXCEPT ![r] = @ \cup {row}]
    /\ UNCHANGED stored

Insert(r) ==
    /\ Doing(r, "insert")
    /\ \E t \in todo[r][1].on :
        /\ Gets(r, t)
        /\ IF Inserting(r, t) /\ \E s \in FixtureGroupsOf(r) : <<t, s>> \in stored
           THEN Fails(r)
           ELSE /\ Written(r, <<t, r>>)
                /\ shared' = [shared EXCEPT ![r] = @ \cup {t}]
                /\ TableDone(r, t)
                /\ UNCHANGED <<counted, exclusive, reply>>
    /\ UNCHANGED <<kind, joined>>

\* The row that a foreign key of r's rows into t names.
Referenced(r, t) == <<t, IF kind[r] = "group" /\ t = "Users" THEN Before ELSE r>>

CheckKey(r) ==
    /\ Doing(r, "key")
    /\ \E t \in todo[r][1].on :
        /\ Gets(r, t)
        /\ IF Referenced(r, t) \in stored \cup pending[r]
           THEN /\ shared' = [shared EXCEPT ![r] = @ \cup {t}]
                /\ TableDone(r, t)
                /\ UNCHANGED <<stored, counted, exclusive, pending, reply>>
           ELSE Fails(r)
    /\ UNCHANGED <<kind, joined>>

Truncate(r) ==
    /\ Doing(r, "truncate")
    /\ \E t \in todo[r][1].on :
        /\ Gets(r, t)
        /\ exclusive' = [exclusive EXCEPT ![r] = @ \cup {t}]
        /\ TableDone(r, t)
    /\ UNCHANGED <<stored, kind, counted, shared, pending, reply, joined>>

\* The handler answers after the event (POST /users and /groups with 201).
Commit(r) ==
    /\ Doing(r, "commit")
    /\ stored' = {row \in stored : row[1] \notin exclusive[r]} \cup pending[r]
    /\ Released(r)
    /\ StatementDone(r)
    /\ reply' = [reply EXCEPT ![r] = IF Len(todo[r]) = 1 THEN 200 ELSE 0]
    /\ UNCHANGED <<kind, counted, joined>>

\* Whom r waits for: nothing it has left in its statement is to be had.
WaitsFor(r) ==
    IF ~Answered(r) /\ \A t \in todo[r][1].on : HoldersOf(r, t) # {}
    THEN UNION {HoldersOf(r, t) : t \in todo[r][1].on}
    ELSE {}
\* r is among those it waits for, those these wait for, and so on.
WaitsForItself(r) ==
    LET waits == [s \in Requests |-> WaitsFor(s)]
    IN  \A behind \in SUBSET Requests :
            waits[r] \subseteq behind /\ (\A s \in behind : waits[s] \subseteq behind)
            => r \in behind

\* PostgreSQL finds a cycle of waits and rolls one of them back.
Deadlock(r) ==
    /\ WaitsFor(r) # {}
    /\ WaitsForItself(r)
    /\ Fails(r)
    /\ UNCHANGED <<kind, joined>>

Step(r) ==
    \/ Start(r)
    \/ Decide(r)
    \/ Read(r)
    \/ Insert(r)
    \/ CheckKey(r)
    \/ Truncate(r)
    \/ Commit(r)

Next == \E r \in Requests : Step(r) \/ Deadlock(r)
Spec == Init /\ [][Next]_vars

\* The event loop and PostgreSQL go on while anything can, and PostgreSQL looks
\* for deadlocks.  No request runs for ever, so none can starve another.
Fairness == WF_vars(Next)
FairSpec == Spec /\ Fairness

-----------------------------------------------------------------------------
\* A scenario is only ever loaded into an empty database: when a seed commits
\* its users, no user and no group of anyone else is there -- unless someone
\* who inserts users or groups was in flight beside it, since isDatabaseEmpty
\* is asked before the fixture is validated and written.  Resets in flight do
\* not matter.
SeedOnEmptyUnlessRaced ==
    [][\A r \in Requests \ joined :
          Seeds(r) /\ <<"Users", r>> \in stored' \ stored =>
              \A row \in stored' : row[1] \in {"Users", "Groups"} => row[2] = r]_vars

\* Everything a request wrote is there or nothing of it is, whatever wiped it
\* or made it fail half way: a seed leaves no half a scenario behind, a group
\* never appears without the member who made it.  (The event aside.)
Writes ==
    [k \in Kinds |->
        (UNION {st.on : st \in {st \in Range(Program(k)) : st.do = "insert"}}) \ {"LogEvents"}]
AllOrNothing ==
    \A r \in Requests :
        {row[1] : row \in {row \in stored : row[2] = r}} \ {"LogEvents"} \in {{}, Writes[kind[r]]}

\* The counts two resets report never count the same row: what one reports
\* deleted it has deleted, since the locks of its counts keep any other reset
\* from the tables until it is done.
ReportedOnce ==
    \A r, s \in Requests :
        r # s /\ kind[r] = "reset" /\ kind[s] = "reset" /\ reply[r] = 200 /\ reply[s] = 200
        => counted[r] \cap counted[s] = {}

\* What a request wrote is whole, and what was deleted is reported once.
WholeAndReportedOnce == AllOrNothing /\ ReportedOnce

\* While a request is unanswered, one of them can go on or waits for itself, for
\* PostgreSQL to roll it back: nobody waits for a transaction that is over, nor
\* for a handler that answered early.
CanGo(r) ==
    /\ ~Answered(r)
    /\ todo[r][1].do \in {"start", "decide", "commit"} \/ \E t \in todo[r][1].on : Gets(r, t)
NeverStuck ==
    (\E r \in Requests : ~Answered(r)) => \E r \in Requests : CanGo(r) \/ WaitsForItself(r)

\* Every request is answered: a cycle of waits is always broken.
Answers == <>(\A r \in Requests : Answered(r))

\* docs/API.md of POST /dev/reset: "Idempotent, and never an error: 200 every
\* time".
ResetNeverFails == \A r \in Requests : kind[r] = "reset" => reply[r] \in {0, 200}
=============================================================================
