------------------------------ MODULE Groups ------------------------------
(***************************************************************************)
(* Groups and memberships: controllers/groups.controller.ts and the group  *)
(* handlers of controllers/me.controller.ts, statement by statement.  Only *)
(* create_new opens a transaction; every other statement commits by        *)
(* itself, so what resolveMembership or hasGroup found may be over before  *)
(* the statement it allows runs: the caller may have left, the group or    *)
(* the account may be gone, the same join may be in flight twice.          *)
(*                                                                         *)
(* Accounts are deleted by delete_me, seen here as its commit (Connections *)
(* and Accounts have its statements).  A group or an account that is gone  *)
(* never comes back, so two finds sent together are one action.            *)
(***************************************************************************)
EXTENDS Naturals, FiniteSets

CONSTANTS
    People,     \* user ids
    GroupIds,   \* group ids, those of groups yet to be created included
    Calls,      \* the requests in flight
    Fields,     \* the columns a member may write: name and description
    Texts,      \* their values
    Bodies,     \* what PATCH bodies set: functions from some of Fields to Texts
    Gone        \* no group

VARIABLES
    people,     \* the accounts
    group,      \* group[g]: the columns of g, or Gone
    members,    \* the rows of UserGroups: <<user, group>>
    op,         \* the handler each call runs
    who,        \* its request.user.id
    whose,      \* its params.groupId; for create, the id of the new row
    body,       \* its body, for a patch
    at,         \* the statement it runs next
    loaded,     \* the group as resolveMembership loaded it
    total,      \* list: the number of rows counted, and the number of rows returned
    status,     \* the status it answered, 0 before
    wasIn,      \* history: the caller was a member at some moment of the call
    wasOut,     \* history: the caller was not a member at some moment of it
    wasThere,   \* history: the group was there at some moment of it
    counted,    \* history: the numbers of the caller's groups during it
    left        \* history: groups a member has left, or whose member has gone

groupDb == <<people, group, members, left>>
callInputs == <<op, who, whose, body>>
history == <<wasIn, wasOut, wasThere, counted>>
groupVars == <<people, group, members, op, who, whose, body, at, loaded, total,
               status, wasIn, wasOut, wasThere, counted, left>>

Ops == {"create", "patch", "delete", "join", "leave", "list"}

Row(r) == <<who[r], whose[r]>>
IsMember(r) == Row(r) \in members
MineNow(r) == Cardinality({g \in GroupIds : <<who[r], g>> \in members})
Idle(r) == at[r] \in {"start", "done"}

-----------------------------------------------------------------------------
Init ==
    /\ people = People
    /\ \E there \in SUBSET GroupIds : \E text \in Texts :
          /\ group = [g \in GroupIds |-> IF g \in there THEN [f \in Fields |-> text] ELSE Gone]
          /\ members \in SUBSET (People \X there)
    /\ op \in [Calls -> Ops]
    /\ who \in [Calls -> People]
    /\ whose \in [Calls -> GroupIds]
    /\ \A r, s \in Calls : op[r] = "create" =>
          group[whose[r]] = Gone /\ (op[s] = "create" /\ s # r => whose[s] # whose[r])
    /\ body \in [Calls -> Bodies]
    /\ at = [r \in Calls |-> "start"]
    /\ loaded = [r \in Calls |-> Gone]
    /\ total = [r \in Calls |-> [count |-> 0, rows |-> 0]]
    /\ status = [r \in Calls |-> 0]
    /\ wasIn = [r \in Calls |-> FALSE]
    /\ wasOut = [r \in Calls |-> FALSE]
    /\ wasThere = [r \in Calls |-> FALSE]
    /\ counted = [r \in Calls |-> {}]
    /\ left = {}

GoTo(r, label) ==
    /\ at' = [at EXCEPT ![r] = label]
    /\ UNCHANGED status

\* Answered, or handed to the error handler (400).
Answer(r, code) ==
    /\ at' = [at EXCEPT ![r] = "done"]
    /\ status' = [status EXCEPT ![r] = code]

\* resolveMembership: Group.findByPk.
FindGroup(r) ==
    /\ at[r] = "start"
    /\ op[r] \in {"patch", "delete"}
    /\ loaded' = [loaded EXCEPT ![r] = group[whose[r]]]
    /\ IF group[whose[r]] = Gone THEN Answer(r, 404) ELSE GoTo(r, "user")
    /\ UNCHANGED <<groupDb, callInputs, total>>

\* resolveMembership: User.findByPk.
FindUser(r) ==
    /\ at[r] = "user"
    /\ IF who[r] \in people THEN GoTo(r, "check") ELSE Answer(r, 403)
    /\ UNCHANGED <<groupDb, callInputs, loaded, total>>

\* post_group, delete_group: both finds; create_new, get_groups: the user's.
Find(r) ==
    /\ at[r] = "start"
    /\ \/ /\ op[r] \in {"join", "leave"}
          /\ IF who[r] \in people /\ group[whose[r]] # Gone THEN GoTo(r, "check") ELSE Answer(r, 404)
       \/ /\ op[r] = "create"
          /\ IF who[r] \in people THEN GoTo(r, "insertGroup") ELSE Answer(r, 403)
       \/ /\ op[r] = "list"
          /\ IF who[r] \in people THEN GoTo(r, "count") ELSE Answer(r, 404)
    /\ UNCHANGED <<groupDb, callInputs, loaded, total>>

\* (mutant) Any signed-in user may write.
Refusal_None(r) == 0

\* What hasGroup's answer makes of the call: a status, or 0 to go on.
Refusal(r) ==
    CASE op[r] \in {"patch", "delete"} /\ ~IsMember(r) -> 403
      [] op[r] = "join" /\ IsMember(r) -> 409
      [] op[r] = "leave" /\ ~IsMember(r) -> 404
      [] OTHER -> 0

\* user.hasGroup.
Check(r) ==
    /\ at[r] = "check"
    /\ IF Refusal(r) # 0 THEN Answer(r, Refusal(r))
       ELSE GoTo(r, CASE op[r] = "join" -> "select"
                      [] op[r] = "leave" -> "remove"
                      [] op[r] = "patch" -> "save"
                      [] OTHER -> "destroy")
    /\ UNCHANGED <<groupDb, callInputs, loaded, total>>

\* Group.create, to be seen when its transaction commits.
InsertGroup(r) ==
    /\ at[r] = "insertGroup"
    /\ GoTo(r, "insertFirst")
    /\ UNCHANGED <<groupDb, callInputs, loaded, total>>

\* user.addGroup in the transaction; the account may be gone since it was found,
\* and the foreign key then rolls the transaction back.
InsertFirst(r) ==
    /\ at[r] = "insertFirst"
    /\ IF who[r] \in people THEN GoTo(r, "commit") ELSE Answer(r, 400)
    /\ UNCHANGED <<groupDb, callInputs, loaded, total>>

Commit(r) ==
    /\ at[r] = "commit"
    /\ group' = [group EXCEPT ![whose[r]] = [f \in Fields |-> CHOOSE t \in Texts : TRUE]]
    /\ members' = members \cup {Row(r)}
    /\ Answer(r, 201)
    /\ UNCHANGED <<people, left, callInputs, loaded, total>>

\* post_group, addGroup: the SELECT that spares the INSERT of a row already there.
Select(r) ==
    /\ at[r] = "select"
    /\ IF IsMember(r) THEN Answer(r, 204) ELSE GoTo(r, "insert")
    /\ UNCHANGED <<groupDb, callInputs, loaded, total>>

\* Its INSERT: the primary key or a foreign key may refuse it.
Insert(r) ==
    /\ at[r] = "insert"
    /\ IF IsMember(r) \/ who[r] \notin people \/ group[whose[r]] = Gone
       THEN Answer(r, 400) /\ UNCHANGED members
       ELSE Answer(r, 204) /\ members' = members \cup {Row(r)}
    /\ UNCHANGED <<people, group, left, callInputs, loaded, total>>

\* delete_group: removeGroup, a DELETE that may find nothing left to delete.
Remove(r) ==
    /\ at[r] = "remove"
    /\ members' = members \ {Row(r)}
    /\ left' = left \cup {whose[r]}
    /\ Answer(r, 204)
    /\ UNCHANGED <<people, group, callInputs, loaded, total>>

\* What save() writes: the columns the body sets to something else than loaded.
Saved(r) ==
    LET changed == {f \in DOMAIN body[r] : body[r][f] # loaded[r][f]}
    IN  [f \in changed |-> body[r][f]]

\* patch_one's save(): an UPDATE of no row when the group is gone.
Save(r) ==
    /\ at[r] = "save"
    /\ group' = IF group[whose[r]] = Gone THEN group
                ELSE [group EXCEPT ![whose[r]] =
                        [f \in Fields |-> IF f \in DOMAIN Saved(r) THEN Saved(r)[f] ELSE @[f]]]
    /\ Answer(r, 200)
    /\ UNCHANGED <<people, members, left, callInputs, loaded, total>>

\* delete_one's destroy: the row, and its memberships by cascade.
Destroy(r) ==
    /\ at[r] = "destroy"
    /\ group' = [group EXCEPT ![whose[r]] = Gone]
    /\ members' = {m \in members : m[2] # whose[r]}
    /\ Answer(r, 200)
    /\ UNCHANGED <<people, left, callInputs, loaded, total>>

\* The caller's memberships, as countGroups counts them.
Counted(r) == MineNow(r)

\* get_groups: countGroups.
Count(r) ==
    /\ at[r] = "count"
    /\ total' = [total EXCEPT ![r].count = Counted(r)]
    /\ GoTo(r, "rows")
    /\ UNCHANGED <<groupDb, callInputs, loaded>>

\* get_groups: the rows of a page that holds them all, of which only their number
\* is kept.
Rows(r) ==
    /\ at[r] = "rows"
    /\ total' = [total EXCEPT ![r].rows = Counted(r)]
    /\ Answer(r, 200)
    /\ UNCHANGED <<groupDb, callInputs, loaded>>

\* delete_me of another client commits, its memberships gone by cascade; it waits
\* for a transaction that has inserted a row of the account.
DeleteMe(u) ==
    /\ u \in people
    /\ ~\E r \in Calls : at[r] = "commit" /\ who[r] = u
    /\ people' = people \ {u}
    /\ left' = left \cup {g \in GroupIds : <<u, g>> \in members}
    /\ members' = {m \in members : m[1] # u}
    /\ UNCHANGED <<group, callInputs, at, loaded, total, status>>

Statement(r) ==
    \/ FindGroup(r) \/ FindUser(r) \/ Find(r) \/ Check(r)
    \/ InsertGroup(r) \/ InsertFirst(r) \/ Commit(r)
    \/ Select(r) \/ Insert(r) \/ Remove(r) \/ Save(r) \/ Destroy(r)
    \/ Count(r) \/ Rows(r)

\* What the calls in flight could have seen, before this step and after it.
Watch ==
    LET live == {r \in Calls : at[r] # "done" /\ at'[r] # "start"}
    IN  /\ wasIn' = [r \in Calls |-> wasIn[r] \/ (r \in live /\ (IsMember(r) \/ IsMember(r)'))]
        /\ wasOut' = [r \in Calls |-> wasOut[r] \/ (r \in live /\ (~IsMember(r) \/ ~IsMember(r)'))]
        /\ wasThere' = [r \in Calls |-> wasThere[r]
                            \/ (r \in live /\ Gone \notin {group[whose[r]], group'[whose[r]]})]
        /\ counted' = [r \in Calls |-> IF r \in live
                            THEN counted[r] \cup {MineNow(r), MineNow(r)'} ELSE counted[r]]

Next ==
    /\ (\E r \in Calls : Statement(r)) \/ (\E u \in People : DeleteMe(u))
    /\ Watch

Spec == Init /\ [][Next]_groupVars
-----------------------------------------------------------------------------
(* Properties *)

Done(r, codes) == at[r] = "done" /\ status[r] \in codes

\* Every answer was true at some moment of its call, although the check it rests
\* on is over by the time of the write: who renames or deletes a group was a
\* member meanwhile and who is refused was not, a 409 met a membership, a join's
\* 204 saw the caller in the group and a leave's 204 saw them out of it.  A list
\* and its total, two queries, each tell a number of groups the caller had then,
\* and the same when that did not change.
AnswersHeld ==
    \A r \in Calls :
        /\ op[r] \in {"patch", "delete"} =>
              /\ Done(r, {200}) => wasIn[r] /\ wasThere[r]
              /\ Done(r, {403}) => wasOut[r]
        /\ op[r] = "join" => (Done(r, {204, 409}) => wasIn[r]) /\ (Done(r, {204}) => wasOut[r])
        /\ op[r] = "leave" => (Done(r, {204}) => wasIn[r]) /\ (Done(r, {204, 404}) => wasOut[r])
        /\ op[r] = "delete" => (Done(r, {200}) => group[whose[r]] = Gone)
        /\ op[r] = "list" =>
              /\ Done(r, {200}) => {total[r].count, total[r].rows} \subseteq counted[r]
              /\ Done(r, {200}) /\ (\A m, n \in counted[r] : m = n) => total[r].count = total[r].rows

\* A group nobody ever left has a member: since only members may rename or delete
\* a group, one that was created without its creator, because the account went in
\* between, could never be removed.
BornWithMember ==
    \A r \in Calls :
        (op[r] = "create" /\ group[whose[r]] # Gone /\ whose[r] \notin left) =>
            \E u \in people : <<u, whose[r]>> \in members

\* A rename changes only what it names: of two members who each write one column,
\* in any interleaving, neither puts the other's old text back.
OthersTextKept ==
    [][\A g \in GroupIds, f \in Fields :
          (group[g] # Gone /\ group'[g] # Gone /\ group'[g][f] # group[g][f]) =>
              \E r \in Calls : at[r] = "save" /\ at'[r] = "done" /\ whose[r] = g
                               /\ f \in DOMAIN body[r] /\ group'[g][f] = body[r][f]]_groupVars
=============================================================================
