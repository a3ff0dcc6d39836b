----------------------------- MODULE MCHandlers -----------------------------
(***************************************************************************)
(* Handlers that others interleave with: connections, groups, or the       *)
(* shared scan.  Of the parts that stand still there is one state.  Users  *)
(* and requests are interchangeable, and one initial state stands for all  *)
(* that a permutation makes of it.                                         *)
(*                                                                         *)
(* Connections: three requests by and about two users are the fewest that  *)
(* leave one mirror; c makes none and is there to be connected, so that an *)
(* account is deleted with two connections.  The requests come in the      *)
(* order of their kinds, the first is a's.                                 *)
(*                                                                         *)
(* Groups: two calls on one group, and on one being created, with accounts *)
(* going at any moment, in the order of their handlers; the first is u1's. *)
(*                                                                         *)
(* The scan: up to four resources of two owners, three candidates and two  *)
(* workers, so that an owner is met by both workers at once and a          *)
(* candidate is left for a second turn.  Others change the store between   *)
(* the count and the find: a change before is another initial store, and   *)
(* after them nobody reads it.                                             *)
(***************************************************************************)
EXTENDS Network, SharedScan

CONSTANTS a, b, c, r1, r2, r3, u1, g1, g2, c1, c2, o1, o2

Order == <<"connect", "deleteMe", "disconnect">>
Rank(k) == CHOOSE i \in DOMAIN Order : Order[i] = k

MCInit ==
    /\ Init
    /\ \A r \in Requests : {caller[r], other[r]} = {a, b}
    /\ caller[r1] = a
    /\ Rank(kind[r1]) <= Rank(kind[r2])
    /\ Rank(kind[r2]) <= Rank(kind[r3])

MCFields == {"name", "description"}
MCBodies == {[name |-> 2], [description |-> 2], [name |-> 2, description |-> 1]}

Handlers == <<"create", "patch", "delete", "join", "leave", "list">>
Place(k) == CHOOSE i \in DOMAIN Handlers : Handlers[i] = k

MCGroupsInit ==
    /\ G!Init
    /\ group[g1] \in {Gone, [f \in Fields |-> 1]}
    /\ group[g2] = Gone
    /\ \A r \in Calls : /\ op[r] # "patch" => body[r] = [name |-> 2]
                        /\ op[r] # "create" => whose[r] = g1
    /\ who[c1] = u1
    /\ Place(op[c1]) <= Place(op[c2])

NoGroupCalls ==
    /\ members = {}
    /\ group = [g \in GroupIds |-> Gone]
    /\ op = [r \in Calls |-> "list"]
    /\ who = [r \in Calls |-> u1]
    /\ whose = [r \in Calls |-> g1]
    /\ MCGroupsInit

NoConnectionCalls ==
    /\ rows = {}
    /\ kind = [r \in Requests |-> "connect"]
    /\ caller = [r \in Requests |-> a]
    /\ other = [r \in Requests |-> b]
    /\ MCInit

MCOwnerOf == <<o1, o2, o1, o1>>

NoScan ==
    /\ store = {} /\ changes = 0 /\ totalCount = 0 /\ candidates = <<>> /\ entered = {}
    /\ phase = "done" /\ answer = "page" /\ results = <<>> /\ outcome = <<>>
    /\ systems = [o \in Owners |-> "none"] /\ assemblies = [o \in Owners |-> 0]
    /\ cursor = 1 /\ job = [w \in Workers |-> Idle]

handlersVars == <<networkVars, scanVars>>

HandlersInit ==
    \/ part = "connections" /\ NoGroupCalls /\ MCInit /\ NoScan
    \/ part = "groups" /\ NoConnectionCalls /\ MCGroupsInit /\ NoScan
    \/ part = "scan" /\ NoConnectionCalls /\ NoGroupCalls /\ ScanInit

NetworkStep(A) == part # "scan" /\ A /\ UNCHANGED scanVars
ScanStep(A)    == part = "scan" /\ A /\ UNCHANGED networkVars

BetweenQueries == changes' # changes => phase = "find"

HandlersSpec ==
    /\ HandlersInit
    /\ [][NetworkStep(NetworkNext) \/ ScanStep(ScanNext /\ BetweenQueries)]_handlersVars
    /\ WF_handlersVars(NetworkStep(Progress) \/ ScanStep(Scan))
=============================================================================
