------------------------------ MODULE Accounts ------------------------------
(***************************************************************************)
(* The life of an account: POST /users (controllers/users.controller.ts),  *)
(* PATCH and DELETE /me (controllers/me.controller.ts), POST /resources    *)
(* (controllers/resources.controller.ts), interleaved at every await, on   *)
(* PostgreSQL at READ COMMITTED.                                           *)
(*                                                                         *)
(* Whether a name is taken is a query of its own before the write; a       *)
(* policy is validated by the evaluator between the load and the save;     *)
(* save() writes only what differs from the loaded row; delete_me deletes  *)
(* the resources first and the user last in one transaction, and what is   *)
(* then left of them has its UserId set to NULL by the foreign key.  The   *)
(* connections and groups that delete_me drops are in Connections and left *)
(* out here.                                                               *)
(***************************************************************************)
EXTENDS Naturals, SequencesExt

CONSTANTS
    Requests,   \* the requests in flight
    Kinds,      \* which handlers they may be
    Existing,   \* the users there from the start
    Names,      \* values of attrs (of attrs.username: what else they hold is left out)
    Rules,      \* values of rules
    Nobody      \* NULL

ASSUME AccountsAssumption ==
    /\ Kinds \subseteq {"create", "patch", "delete", "resource"}
    /\ Existing \cap Requests = {}
    /\ Nobody \notin Existing \cup Requests \cup Names \cup Rules

\* A request that creates a user or a resource gives it its own id.
Ids == Existing \cup Requests

VARIABLES
    users,      \* the committed users: id -> [name, rules]
    resources,  \* the committed resources: id -> owner
    kind,       \* the handler each request runs
    caller,     \* its request.user.id
    body,       \* the name and rules it sets, or Nobody for one it omits
    pc,         \* the statement it runs next
    loaded,     \* the user row it loaded
    swept,      \* the resources its open transaction has deleted
    dying,      \* the users its open transaction has deleted
    reply,      \* the status it answered, 0 before
    validated,  \* history: the [name, rules] the evaluator found valid
    taken,      \* history: two requests that set a name overlapped
    crossed,    \* history: two patches of one user overlapped
    late        \* history: a resource was created while its owner was being deleted

dbVars == <<users, resources>>
inputs == <<kind, caller, body>>
txVars == <<swept, dying>>
history == <<validated, taken, crossed, late>>
vars == <<users, resources, kind, caller, body, pc, loaded, swept, dying, reply,
          validated, taken, crossed, late>>

Bodies(k) ==
    CASE k = "create" -> [name : Names, rules : Rules]
      [] k = "patch"  -> [name : Names \cup {Nobody}, rules : Rules \cup {Nobody}]
      [] OTHER        -> {[name |-> Nobody, rules |-> Nobody]}

Alive == DOMAIN users
InFlight(r) == pc[r] \notin {"start", "done"}
SetsName(r) == body[r].name # Nobody

\* What the row of r's user will be: the body over the loaded row.
Next_(r) == [f \in {"name", "rules"} |-> IF body[r][f] = Nobody THEN loaded[r][f] ELSE body[r][f]]

-----------------------------------------------------------------------------
Init ==
    /\ users \in [Existing -> [name : Names, rules : Rules]]
    /\ \A u, v \in Existing : u # v => users[u].name # users[v].name
    /\ \E owned \in SUBSET Existing : resources = [x \in owned |-> x]
    /\ caller \in [Requests -> Existing]
    /\ \E call \in [Requests -> UNION {{k} \X Bodies(k) : k \in Kinds}] :
         /\ kind = [r \in Requests |-> call[r][1]]
         /\ body = [r \in Requests |-> call[r][2]]
    /\ pc = [r \in Requests |-> "start"]
    /\ loaded = [r \in Requests |-> Nobody]
    /\ swept = [r \in Requests |-> {}]
    /\ dying = [r \in Requests |-> {}]
    /\ reply = [r \in Requests |-> 0]
    /\ validated = Range(users)
    /\ taken = FALSE
    /\ crossed = FALSE
    /\ late = FALSE

GoTo(r, label) == pc' = [pc EXCEPT ![r] = label]
Answer(r, status) ==
    /\ GoTo(r, "done")
    /\ reply' = [reply EXCEPT ![r] = status]

Overlaps(r, s) == InFlight(s) /\ SetsName(r) /\ SetsName(s)
Crosses(r, s) == InFlight(s) /\ kind[r] = "patch" /\ kind[s] = "patch" /\ caller[r] = caller[s]

\* The cookie hook, then the handler's own findByPk.  POST /users has neither.
Start(r) ==
    /\ pc[r] = "start"
    /\ taken' = (taken \/ \E s \in Requests : Overlaps(r, s))
    /\ crossed' = (crossed \/ \E s \in Requests : Crosses(r, s))
    /\ \/ /\ kind[r] = "create"
          /\ GoTo(r, "name")
          /\ UNCHANGED <<loaded, reply>>
       \/ /\ kind[r] # "create"
          /\ IF caller[r] \notin Alive
             THEN (\E status \in {401, 404} : Answer(r, status)) /\ UNCHANGED loaded
             ELSE /\ GoTo(r, CASE kind[r] = "patch" -> "name"
                               [] kind[r] = "delete" -> "sweep"
                               [] kind[r] = "resource" -> "insertResource")
                  /\ loaded' = [loaded EXCEPT ![r] = users[caller[r]]]
                  /\ UNCHANGED reply
    /\ UNCHANGED <<dbVars, inputs, txVars, validated, late>>

\* (mutant) Only other users that exist from the start are asked.
Holders_Existing(r) == {u \in Alive \cap Existing : users[u].name = body[r].name /\ u # caller[r]}

\* isUsernameTaken: the other users who hold the name.
Holders(r) == {u \in Alive : /\ users[u].name = body[r].name
                             /\ kind[r] = "patch" => u # caller[r]}

\* The uniqueness check; a body without attrs is not checked, and an empty one
\* not validated either.
CheckName(r) ==
    /\ pc[r] = "name"
    /\ IF SetsName(r) /\ Holders(r) # {} THEN Answer(r, 400)
       ELSE GoTo(r, IF Range(body[r]) = {Nobody} THEN "save" ELSE "validate") /\ UNCHANGED reply
    /\ UNCHANGED <<dbVars, inputs, loaded, txVars, history>>

\* (mutant) Only the part that the body sets is validated.
Validating_Body(r) == body[r]

\* The policy that is validated: the one that the row will hold.
Validating(r) == IF kind[r] = "create" THEN body[r] ELSE Next_(r)

\* validateUserRules: valid, invalid (400) or no answer (503).  What else attrs
\* hold is left out, so the verdict on a pair is open until it has been found valid.
Validate(r) ==
    /\ pc[r] = "validate"
    /\ \/ /\ validated' = validated \cup {Validating(r)}
          /\ GoTo(r, IF kind[r] = "create" THEN "insertUser" ELSE "save")
          /\ UNCHANGED reply
       \/ /\ Validating(r) \notin validated
          /\ Answer(r, 400)
          /\ UNCHANGED validated
       \/ Answer(r, 503) /\ UNCHANGED validated
    /\ UNCHANGED <<dbVars, inputs, loaded, txVars, taken, crossed, late>>

\* A table after an INSERT.
Inserted(table, id, new) == [x \in DOMAIN table \cup {id} |-> IF x = id THEN new ELSE table[x]]

InsertUser(r) ==
    /\ pc[r] = "insertUser"
    /\ users' = Inserted(users, r, body[r])
    /\ Answer(r, 201)
    /\ UNCHANGED <<resources, inputs, loaded, txVars, history>>

\* A statement on a user's row, or one that references it, waits while another
\* transaction has the row deleted.
Blocked(r, u) == \E s \in Requests \ {r} : u \in dying[s]

\* The columns that differ from the loaded row; the others keep their value.
Update(r) ==
    [f \in {"name", "rules"} |-> IF Next_(r)[f] = loaded[r][f] THEN users[caller[r]][f]
                                 ELSE Next_(r)[f]]

\* user.save(): an UPDATE of no row is no error.
Save(r) ==
    /\ pc[r] = "save"
    /\ ~Blocked(r, caller[r])
    /\ users' = IF caller[r] \in Alive THEN [users EXCEPT ![caller[r]] = Update(r)] ELSE users
    /\ Answer(r, 200)
    /\ UNCHANGED <<resources, inputs, loaded, txVars, history>>

\* Resource.create: waits for a DELETE of the owner, and fails if it commits.
InsertResource(r) ==
    /\ pc[r] = "insertResource"
    /\ ~Blocked(r, caller[r])
    /\ IF caller[r] \in Alive
       THEN /\ resources' = Inserted(resources, r, caller[r])
            /\ late' = (late \/ \E s \in Requests : InFlight(s) /\ kind[s] = "delete"
                                                    /\ caller[s] = caller[r])
            /\ Answer(r, 201)
       ELSE Answer(r, 400) /\ UNCHANGED <<resources, late>>
    /\ UNCHANGED <<users, inputs, loaded, txVars, validated, taken, crossed>>

\* (mutant) The resources are left to the foreign key.
Sweepable_None(r) == {}

\* WHERE UserId = user.id
Sweepable(r) == {x \in DOMAIN resources : resources[x] = caller[r]}

\* delete_me: Resource.destroy, the first statement of the transaction.  Rows
\* that another delete_me has deleted are waited for.
Sweep(r) ==
    /\ pc[r] = "sweep"
    /\ \A s \in Requests \ {r} : swept[s] \cap Sweepable(r) = {}
    /\ swept' = [swept EXCEPT ![r] = Sweepable(r)]
    /\ GoTo(r, "destroy")
    /\ UNCHANGED <<dbVars, inputs, loaded, dying, reply, history>>

\* user.destroy, the last one.
Destroy(r) ==
    /\ pc[r] = "destroy"
    /\ ~Blocked(r, caller[r])
    /\ dying' = [dying EXCEPT ![r] = {caller[r]} \cap Alive]
    /\ GoTo(r, "commit")
    /\ UNCHANGED <<dbVars, inputs, loaded, swept, reply, history>>

\* ON DELETE SET NULL, for every resource that still refers to a deleted user.
Left(r) == [x \in DOMAIN resources \ swept[r] |->
               IF resources[x] \in dying[r] THEN Nobody ELSE resources[x]]

EndTransaction(r) ==
    /\ swept' = [swept EXCEPT ![r] = {}]
    /\ dying' = [dying EXCEPT ![r] = {}]

Commit(r) ==
    /\ pc[r] = "commit"
    /\ users' = [u \in Alive \ dying[r] |-> users[u]]
    /\ resources' = Left(r)
    /\ EndTransaction(r)
    /\ Answer(r, 200)
    /\ UNCHANGED <<inputs, loaded, history>>

\* A statement fails: the transaction, if one is open, is rolled back.
Fails(r) ==
    /\ InFlight(r)
    /\ EndTransaction(r)
    /\ Answer(r, 400)
    /\ UNCHANGED <<dbVars, inputs, loaded, history>>

Handle(r) ==
    \/ Start(r) \/ CheckName(r) \/ Validate(r) \/ InsertUser(r) \/ Save(r)
    \/ InsertResource(r) \/ Sweep(r) \/ Destroy(r) \/ Commit(r) \/ Fails(r)

Next == \E r \in Requests : Handle(r)

Spec == Init /\ [][Next]_vars
-----------------------------------------------------------------------------
(* Properties *)

\* No two users hold one name, except through requests that overlapped ("two
\* concurrent creates can therefore both pass", users.utils.ts): patches that
\* keep their own name and users that were deleted do not confuse the check.
UniqueUnlessRaced ==
    taken \/ \A u, v \in Alive : u # v => users[u].name # users[v].name

\* Every stored policy, attributes and rules together, was validated as a whole
\* ("Validated against the post-patch state, not the stored one"), unless two
\* patches of one user overlapped.
ValidatedUnlessCrossed == crossed \/ Range(users) \subseteq validated

\* "Omitting a field leaves it untouched" (docs/API.md): a patch changes a
\* column only to the value it was sent, and not back to the one it had loaded.
OmittedUntouched ==
    [][\A u \in Alive \cap DOMAIN users' : \A f \in {"name", "rules"} :
          users'[u][f] # users[u][f] =>
              \E r \in Requests : /\ pc[r] = "save" /\ pc'[r] = "done"
                                  /\ caller[r] = u /\ body[r][f] = users'[u][f]]_vars

\* "Delete the user, its resources, connections and memberships" (docs/API.md):
\* no resource outlives its owner.
NoneOrphaned == Nobody \notin Range(resources)

\* It holds unless the resource was created while its owner was being deleted,
\* and it holds through deletions that fail, repeat or overlap.
NoneOrphanedUnlessLate == late \/ NoneOrphaned
=============================================================================
