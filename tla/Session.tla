------------------------------ MODULE Session ------------------------------
(***************************************************************************)
(* Who a browser tab acts as, and what it has fetched for them.  The       *)
(* backend knows the caller by a cookie that every tab shares; the tab     *)
(* keeps the acting user it shows, the first page of users it chose from,  *)
(* and, under each user it acted as, their list of connections, walked     *)
(* page by page.                                                           *)
(***************************************************************************)
EXTENDS Naturals, SequencesExt

CONSTANTS
    Users, None,
    PageSize,           \* of GET /users
    WalkSize, MaxWalked,    \* page size of GET /me/connections, and the cap of the walk
    MaxWrites, MaxWalks \* bounds: writes of the cookie or the database made elsewhere
                        \* or by this tab, and walks begun

VARIABLES
    users,      \* who exists, newest first
    mine,       \* the connections of each; who does not exist has none
    cookie,     \* whom a request is taken to be from
    data,       \* the first page of users last loaded, or None
    acting,     \* the acting user's id in this tab, or None
    asked,      \* the answer to GET /users on its way, or <<>>
    task,       \* the write whose refresh is under way
    walks,      \* the walk of each user's list under way, or None
    cache,      \* whose connections SWR holds under each user's key
    writes, started,
    crossed     \* history: another tab wrote the cookie since this one did

identity == <<cookie, acting, crossed>>
lists    == <<walks, cache, started>>
vars     == <<users, mine, identity, data, asked, task, lists, writes>>

NoTask    == [do |-> "none", id |-> None]
FirstPage == SubSeq(users, 1, Min({PageSize, Len(users)}))

\* The user of the cookie, or else the first of the list.
ChooseActingUser(items, fromCookie) ==
    IF fromCookie \in Range(items) THEN fromCookie
    ELSE IF items = <<>> THEN None ELSE items[1]

ActingUser == IF data # None /\ acting \in Range(data) THEN acting ELSE None

Init ==
    /\ users \in {s \in UNION {[1 .. n -> Users] : n \in 0 .. Cardinality(Users)} : IsInjective(s)}
    /\ mine = [u \in Users |-> IF u \in Range(users) THEN Range(users) \ {u} ELSE {}]
    /\ cookie \in Users \cup {None}
    /\ data = None /\ acting = None /\ asked = <<>> /\ task = NoTask
    /\ walks = [u \in Users |-> None] /\ cache = [u \in Users |-> {}]
    /\ writes = 0 /\ started = 0 /\ crossed = FALSE

-----------------------------------------------------------------------------
(* The session.                                                            *)

SetIdentity(c, a) == cookie' = c /\ acting' = a /\ crossed' = (crossed /\ c # a)

Ask ==
    /\ asked = <<>> /\ asked' = <<FirstPage>>
    /\ UNCHANGED <<users, mine, identity, data, task, lists, writes>>

\* (mutant) A cookie that names nobody is left alone.
Load_KeepsCookie ==
    /\ asked # <<>> /\ task = NoTask
    /\ data' = asked[1] /\ asked' = <<>>
    /\ IF data' = data THEN UNCHANGED identity
       ELSE SetIdentity(IF cookie = None THEN ChooseActingUser(data', cookie) ELSE cookie,
                        ChooseActingUser(data', cookie))
    /\ UNCHANGED <<users, mine, task, lists, writes>>

\* The effect runs only when the page differs from the one it ran for.
Load ==
    /\ asked # <<>> /\ task = NoTask
    /\ data' = asked[1] /\ asked' = <<>>
    /\ LET chosen == ChooseActingUser(data', cookie)
       IN  IF data' = data THEN UNCHANGED identity ELSE SetIdentity(chosen, chosen)
    /\ UNCHANGED <<users, mine, task, lists, writes>>

SwitchTo ==
    /\ data # None /\ task = NoTask
    /\ \E id \in Range(data) : SetIdentity(id, id)
    /\ UNCHANGED <<users, mine, data, asked, task, lists, writes>>

\* A write of the users, of whose refresh the answer replaces any on its way.
Begin(do, id) ==
    /\ writes < MaxWrites /\ writes' = writes + 1
    /\ task' = [do |-> do, id |-> id] /\ asked' = <<>>

Create ==
    /\ data # None /\ task = NoTask
    /\ \E u \in Users \ Range(users) : users' = <<u>> \o users /\ Begin("create", u)
    /\ UNCHANGED <<mine, identity, data, lists>>

Without(u) ==
    /\ \E i \in DOMAIN users : users[i] = u /\ users' = RemoveAt(users, i)
    /\ mine' = [v \in Users |-> IF v = u THEN {} ELSE mine[v] \ {u}]

\* The walks under way when connections come or go.
Shifted(w) == [k \in Users |-> IF w[k] = None THEN None ELSE [w[k] EXCEPT !.shifted = TRUE]]

DeleteMe ==
    /\ ActingUser # None /\ task = NoTask /\ cookie \in Range(users)
    /\ Without(cookie) /\ Begin("delete", cookie)
    /\ walks' = Shifted(walks)
    /\ UNCHANGED <<identity, data, cache, started>>

\* What the database held is dropped from the cache.
Reset ==
    /\ data # None /\ task = NoTask
    /\ users' = <<>> /\ mine' = [u \in Users |-> {}] /\ Begin("reset", None)
    /\ walks' = [u \in Users |-> None] /\ cache' = [u \in Users |-> {}]
    /\ UNCHANGED <<identity, data, started>>

\* The refresh writes the cookie, the effect of the page it brought chooses from
\* it; a user just created is switched to before or after that.
Refreshed ==
    /\ task # NoTask /\ asked # <<>>
    /\ data' = asked[1] /\ asked' = <<>> /\ task' = NoTask
    /\ LET chosen  == ChooseActingUser(data', cookie)
           written == IF chosen = None THEN cookie ELSE chosen
           late    == ChooseActingUser(data', task.id)
       IN  \/ task.do = "create" /\ SetIdentity(task.id, task.id)
           \/ task.do = "create" /\ data' # data /\ SetIdentity(late, late)
           \/ task.do # "create" /\ IF data' = data THEN SetIdentity(written, acting)
                                    ELSE SetIdentity(chosen, chosen)
    /\ UNCHANGED <<users, mine, lists, writes>>

\* The dialog of a new user says so; after a delete or a reset the tab is loaded
\* afresh.
RefreshFails ==
    /\ task # NoTask
    /\ asked' = <<>> /\ task' = NoTask
    /\ \/ task.do = "create" /\ UNCHANGED <<identity, data, lists>>
       \/ /\ task.do # "create"
          /\ data' = None /\ acting' = None /\ UNCHANGED <<cookie, crossed>>
          /\ walks' = [u \in Users |-> None] /\ cache' = [u \in Users |-> {}] /\ UNCHANGED started
    /\ UNCHANGED <<users, mine, writes>>

-----------------------------------------------------------------------------
(* The list of connections, walked for the acting user's key and answered  *)
(* for the cookie's user.                                                  *)

Sorted(u)  == CHOOSE s \in [1 .. Cardinality(mine[u]) -> mine[u]] :
                 \A i, j \in 1 .. Cardinality(mine[u]) : i < j => s[i] < s[j]
Pages(u)   == (Cardinality(mine[u]) + WalkSize - 1) \div WalkSize
Page(u, n) == SubSeq(Sorted(u), (n - 1) * WalkSize + 1, Min({n * WalkSize, Cardinality(mine[u])}))

StartWalk ==
    /\ ActingUser # None /\ walks[acting] = None /\ cookie \in Range(users)
    /\ started < MaxWalks /\ started' = started + 1
    /\ walks' = [walks EXCEPT ![acting] =
                   [items |-> Page(cookie, 1), pages |-> Min({Pages(cookie), MaxWalked}), next |-> 2,
                    complete |-> Pages(cookie) <= MaxWalked, from |-> {cookie}, shifted |-> FALSE]]
    /\ UNCHANGED <<users, mine, identity, data, asked, task, cache, writes>>

\* (mutant) The last page is not asked for.
More_Less(walk) == walk.next < walk.pages

More(walk) == walk.next <= walk.pages

Continued(walk) == [walk EXCEPT !.items = @ \o Page(cookie, walk.next), !.next = @ + 1, !.from = @ \cup {cookie}]

WalkPage ==
    /\ \E key \in Users :
         /\ walks[key] # None /\ More(walks[key])
         /\ walks' = [walks EXCEPT ![key] =
                        IF cookie \in Range(users) THEN Continued(walks[key]) ELSE None]
    /\ UNCHANGED <<users, mine, identity, data, asked, task, cache, started, writes>>

WalkEnds ==
    /\ \E key \in Users :
         /\ walks[key] # None /\ ~More(walks[key])
         /\ cache' = [cache EXCEPT ![key] = walks[key].from]
         /\ walks' = [walks EXCEPT ![key] = None]
    /\ UNCHANGED <<users, mine, identity, data, asked, task, started, writes>>

Flip(S, x) == IF x \in S THEN S \ {x} ELSE S \cup {x}
Link(u, v) == mine' = [w \in Users |-> IF w = u THEN Flip(mine[w], v)
                                       ELSE IF w = v THEN Flip(mine[w], u) ELSE mine[w]]

\* connectTo and disconnectFrom: the walk begins anew.
Toggle ==
    /\ ActingUser # None /\ cookie \in Range(users) /\ writes < MaxWrites /\ writes' = writes + 1
    /\ \E v \in Range(users) \ {cookie} : Link(cookie, v)
    /\ walks' = [Shifted(walks) EXCEPT ![acting] = None]
    /\ UNCHANGED <<users, identity, data, asked, task, cache, started>>

-----------------------------------------------------------------------------
(* Other tabs and other browsers.                                          *)

Others ==
    /\ writes < MaxWrites /\ writes' = writes + 1
    /\ \/ /\ \E u \in Range(users) \ {cookie} : cookie' = u
          /\ crossed' = TRUE
          /\ UNCHANGED <<users, mine, acting, walks>>
       \/ /\ \/ \E u \in Range(users) : Without(u)
             \/ \E u \in Users \ Range(users) : users' = <<u>> \o users /\ UNCHANGED mine
             \/ \E u, v \in Range(users) : u # v /\ Link(u, v) /\ UNCHANGED users
          /\ walks' = Shifted(walks)
          /\ UNCHANGED identity
    /\ UNCHANGED <<data, asked, task, cache, started>>

Next ==
    \/ Ask \/ Load \/ SwitchTo \/ Create \/ DeleteMe \/ Reset \/ Refreshed \/ RefreshFails
    \/ StartWalk \/ WalkPage \/ WalkEnds \/ Toggle
    \/ Others

Spec == Init /\ [][Next]_vars

-----------------------------------------------------------------------------
(* Properties *)

\* The user a tab shows itself to act as is the one its requests are from, unless
\* another tab wrote the cookie.
ActingIsCookie == ActingUser # None /\ ~crossed => acting = cookie

\* A walk that nothing shifted ends with the whole list, or with what its cap
\* leaves and the news that it is not complete.
WalkExactUnlessShifted ==
    \A key \in Users :
        walks[key] # None /\ ~More(walks[key]) /\ ~walks[key].shifted /\ walks[key].from = {key} =>
            /\ walks[key].items = SubSeq(Sorted(key), 1, Min({Cardinality(mine[key]), MaxWalked * WalkSize}))
            /\ walks[key].complete <=> Range(walks[key].items) = mine[key]

\* "no screen can render one user's data under another's identity" (lib/api/keys.ts):
\* what is cached under the key of the user the tab acts as was answered for that user.
OwnDataOnly == ActingUser # None => cache[acting] \subseteq {acting}
=============================================================================
