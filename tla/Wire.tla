-------------------------------- MODULE Wire --------------------------------
(***************************************************************************)
(* One call of the client's, from the function that makes it to what that  *)
(* function hands back: the route it reaches, the hook that names the      *)
(* user, the schema that reads it, the handler, the schema that writes the *)
(* answer, and the client's reading of it.  Client and routes are written  *)
(* apart, each from its own files; nothing in the code ties one to the     *)
(* other but the text on the wire.                                         *)
(***************************************************************************)
EXTENDS WireHandlers

VARIABLES
    at,         \* how far the call has come
    call,       \* the name of the client's function
    sent,       \* the request
    known,      \* whether the cookie names a user who exists
    route,      \* the route it reached, or None
    got,        \* what the handler reads of it, or None
    answered,   \* what the handler, or the error handler, sends
    reply,      \* the same as it is written on the wire
    result      \* what the client's function hands back

wireVars == <<at, call, sent, known, route, got, answered, reply, result>>

(***************************************************************************)
(* What the client takes an answer to be.                                  *)
(***************************************************************************)
PageInfo     == Fields([size |-> Numeric, totalElements |-> Numeric, totalPages |-> Numeric, number |-> Numeric])
Paginated(t) == Fields([data |-> Array(t), page |-> PageInfo])
ApiUser      == Fields([id |-> String, attrs |-> JsonObject, rules |-> Array(String)])
ApiGroup     == Fields([id |-> String, name |-> String, description |-> String])

ResourceContent == Fields([type |-> String, size |-> Numeric, filename |-> Nullable(String)])
ApiResource ==
    Fields([id |-> String, attrs |-> JsonObject, metadata |-> JsonObject,
            content |-> Nullable(ResourceContent), user |-> Fields([id |-> String])])

AccessEvaluation ==
    Fields([parties |-> Array(String), trace |-> String, scenario |-> String,
            requests |-> Array(Fields([requester |-> String, from |-> String, resource |-> JsonObject]))])
AccessResponse ==
    Fields([resourceId |-> String, permitted |-> Boolean, evaluation |-> Nullable(AccessEvaluation)])

ScanInfo == Fields([considered |-> Numeric, total |-> Numeric, truncated |-> Boolean])
Facet    == Fields([key |-> String, values |-> Array(String)])

RuleCoverageResponse ==
    LET Gap   == Fields([name |-> String, missing |-> Array(String), conflicting |-> Array(String)])
        Entry == Fields([count |-> Numeric, sample |-> Array(String), nearest |-> Nullable(Gap)])
    IN  Fields([total |-> Numeric, coverage |-> Array(Entry)])

ApiContext ==
    LET User == Fields([id |-> String, username |-> String])
        Name == Fields([id |-> String, name |-> String])
        Key  == Fields([key |-> String, providedBy |-> String, description |-> String, example |-> String])
    IN  Fields([values |-> JsonObject, names |-> Array(Key),
                display |-> Fields([connections |-> Array(User), groups |-> Array(Name)])])

ScenarioCounts == Fields([users |-> Numeric, resources |-> Numeric, connections |-> Numeric])
ApiScenario == Fields([id |-> String, title |-> String, summary |-> String, counts |-> ScenarioCounts])
SeedResult  == Fields([scenario |-> String, created |-> ScenarioCounts])
ResetCounts == Fields([users |-> Numeric, resources |-> Numeric, groups |-> Numeric, logEvents |-> Numeric])
ApiLogEvent ==
    Fields([id |-> String, type |-> String, data |-> Nullable(JsonObject), occurred_at |-> String,
            userId |-> Nullable(String), username |-> Nullable(String)])
ApiServiceStatus ==
    Fields([name |-> OneOf({"database", "evaluator"}), status |-> OneOf({"up", "down"}),
            latencyMs |-> Nullable(Numeric), detail |-> Nullable(String)])

(***************************************************************************)
(* The client's functions: what each sends, which handler it is for, what  *)
(* it takes the answer to be and which part of that it hands back.         *)
(***************************************************************************)
Call(method, path, queries, bodies, to, type, takes) ==
    [method |-> method, path |-> path, queries |-> queries, bodies |-> bodies,
     to |-> to, type |-> type, takes |-> takes]

Anything  == Of("any")
Plain     == {[f \in {} |-> None]}
Nothing   == {None}

\* listParams and withQuery: a page, and the filters that are not empty.
Params(fields) ==
    {[f \in S \cup {"page"} |-> IF f = "page" THEN Text("1") ELSE IF f = "excludeUserId" THEN Id ELSE Text("x")] :
        S \in SUBSET fields}
WithoutPage(params) == {[f \in DOMAIN p \ {"page"} |-> p[f]] : p \in params}
OnlyPage == Params({})

AccessCalls ==
    [requestAccess |-> Call("GET", <<"resources", "*", "access">>, Plain, Nothing,
                            "ResourcesAccessOne", AccessResponse, "whole"),
     customRequest |-> Call("POST", <<"resources", "access">>, Plain,
                            {Object([resource |-> Attrs, from |-> Object([quantifier |-> Text(q), attrs |-> Attrs])]) :
                               q \in {"any", "all"}},
                            "ResourcesCustomAccess",
                            Fields([permitted |-> Boolean, evaluation |-> AccessEvaluation]), "whole")]

DevCalls ==
    [listScenarios |-> Call("GET", <<"dev", "scenarios">>, Plain, Nothing, "DevGetScenarios",
                            Fields([scenarios |-> Array(ApiScenario)]), "scenarios"),
     seedScenario  |-> Call("POST", <<"dev", "seed">>, Plain, {Object([scenario |-> Text("ex1")])},
                            "DevPostSeed", SeedResult, "whole"),
     resetDatabase |-> Call("POST", <<"dev", "reset">>, Plain, Nothing, "DevPostReset",
                            Fields([deleted |-> ResetCounts]), "deleted"),
     listEvents    |-> Call("GET", <<"dev", "events">>, OnlyPage, Nothing, "DevGetEvents",
                            Paginated(ApiLogEvent), "page"),
     getServiceStatus |-> Call("GET", <<"dev", "status">>, Plain, Nothing, "DevGetStatus",
                               Fields([services |-> Array(ApiServiceStatus)]), "services")]

GroupValues == Object([name |-> Text("n"), description |-> Text("d")])

NetworkCalls ==
    LET One(root) == root \o <<"*">>
        Mine == <<"me", "connections">>
        Joined == <<"me", "groups">>
    IN  [connect     |-> Call("POST", One(Mine), Plain, Nothing, "MePostConnection", Anything, "whole"),
         disconnect  |-> Call("DELETE", One(Mine), Plain, Nothing, "MeDeleteConnection", Anything, "whole"),
         joinGroup   |-> Call("POST", One(Joined), Plain, Nothing, "MePostGroup", Anything, "whole"),
         leaveGroup  |-> Call("DELETE", One(Joined), Plain, Nothing, "MeDeleteGroup", Anything, "whole"),
         listAllGroups |-> Call("GET", <<"groups">>, Params({"name"}), Nothing, "GroupsGetAll",
                                Paginated(ApiGroup), "page"),
         listMyGroupsAll |-> Call("GET", Joined, OnlyPage, Nothing, "MeGetGroups", Paginated(ApiGroup), "whole"),
         getGroup    |-> Call("GET", One(<<"groups">>), Plain, Nothing, "GroupsGetOne", ApiGroup, "whole"),
         createGroup |-> Call("POST", <<"groups">>, Plain, {GroupValues}, "GroupsCreateNew", ApiGroup, "whole"),
         updateGroup |-> Call("PATCH", One(<<"groups">>), Plain, {GroupValues}, "GroupsPatchOne", ApiGroup, "whole"),
         deleteGroup |-> Call("DELETE", One(<<"groups">>), Plain, Nothing, "GroupsDeleteOne", Anything, "whole"),
         listUsers   |-> Call("GET", <<"users">>, Params({"username"}), Nothing, "UsersGetAll",
                              Paginated(ApiUser), "page"),
         listConnectionsAll |-> Call("GET", Mine, OnlyPage, Nothing, "MeGetConnections", Paginated(ApiUser), "whole")]

PolicyCalls ==
    [getMe        |-> Call("GET", <<"me">>, Plain, Nothing, "MeGet", ApiUser, "whole"),
     getMyContext |-> Call("GET", <<"me", "context">>, Plain, Nothing, "MeGetContext", ApiContext, "whole"),
     patchMe      |-> Call("PATCH", <<"me">>, Plain,
                           {Object([attrs |-> Attrs]), Object([rules |-> List(<<Text("a rule")>>)])},
                           "MePatch", ApiUser, "whole")]

AccountCalls ==
    LET Summary(of, to, type) == Call("GET", <<"me", of>>, Plain, Nothing, to, Paginated(type), "page")
    IN  [deleteMe         |-> Call("DELETE", <<"me">>, Plain, Nothing, "MeDelete", ApiUser, "whole"),
         countResources   |-> Summary("resources", "MeGetResources", ApiResource),
         countConnections |-> Summary("connections", "MeGetConnections", ApiUser),
         countGroups      |-> Summary("groups", "MeGetGroups", ApiGroup)]

SessionCalls ==
    [createUser |-> Call("POST", <<"users">>, Plain, {Object([attrs |-> Attrs, rules |-> List(<<>>)])},
                         "UsersCreateNew", ApiUser, "whole")]

ResourceReadCalls ==
    LET FacetsAt(path, params, to) ==
            Call("GET", path, WithoutPage(params), Nothing, to, Fields([facets |-> Array(Facet)]), "facets")
        All == Params(FilterFields \cup {"excludeUserId"})
    IN  [listMine  |-> Call("GET", <<"me", "resources">>, Params(FilterFields), Nothing,
                            "MeGetResources", Paginated(ApiResource), "page"),
         listAll   |-> Call("GET", <<"resources">>, All, Nothing, "ResourcesGetAll", Paginated(ApiResource), "page"),
         listSharedWith |-> Call("GET", <<"me", "shared">>, Params(FilterFields), Nothing, "MeGetShared",
                                 Fields(Paginated(ApiResource).fields @@ [scan |-> ScanInfo]), "page and scan"),
         listResourceFacets   |-> FacetsAt(<<"resources", "facets">>, All, "ResourcesGetFacets"),
         listMyResourceFacets |-> FacetsAt(<<"me", "resources", "facets">>, Params(FilterFields), "MeGetResourceFacets"),
         listUserFacets       |-> FacetsAt(<<"users", "facets">>, OnlyPage, "UsersGetFacets"),
         fetchRuleCoverage |-> Call("POST", <<"me", "rules", "coverage">>, Plain,
                                    {Object([patterns |-> List([i \in 1 .. n |-> Attrs])]) : n \in 0 .. MaxPatterns + 1},
                                    "MePostRuleCoverage", RuleCoverageResponse, "whole")]

ResourceWriteCalls ==
    LET One == <<"resources", "*">>
        Content == One \o <<"content">>
        Values == Object([attrs |-> Attrs, metadata |-> Attrs])
        File == [filename |-> Text("a file")]
    IN  [createResource |-> Call("POST", <<"resources">>, Plain, {Values}, "ResourcesCreateNew", ApiResource, "whole"),
         updateResource |-> Call("PATCH", One, Plain, {Values}, "ResourcesPatchOne", ApiResource, "whole"),
         deleteResource |-> Call("DELETE", One, Plain, Nothing, "ResourcesDeleteOne", ApiResource, "whole"),
         uploadContent  |-> Call("PUT", Content, {File, File @@ [contentType |-> Text("a/type")]},
                                 {[bytes |-> "a file"]}, "ResourcesPutContent", ApiResource, "whole"),
         clearContent   |-> Call("DELETE", Content, Plain, Nothing, "ResourcesDeleteContent", ApiResource, "whole"),
         downloadContent |-> Call("GET", Content, Plain, Nothing, "ResourcesGetContent", Anything, "whole")]

Calls == AccessCalls @@ DevCalls @@ NetworkCalls @@ PolicyCalls @@ AccountCalls @@ SessionCalls
         @@ ResourceReadCalls @@ ResourceWriteCalls

\* The ids of rows come from the backend; a group's may also stand in a rule's text.
IdsFor(name) == IF name = "getGroup" THEN {Id, Text("a word")} ELSE {Id}
WithId(path, id) == [i \in DOMAIN path |-> IF path[i] = "*" THEN id.str ELSE path[i]]

\* The size of a body: within the default limit, within that of an upload, or beyond both.
SizesOf(body) == IF body = None THEN {0} ELSE 0 .. 2

(***************************************************************************)
(* The steps of a call.                                                    *)
(***************************************************************************)
Errors == {[kind |-> "validation", messages |-> <<Text("a field"), Text("another")>>],
           [kind |-> "database", messages |-> <<Text("internals")>>],
           [kind |-> "other", messages |-> <<Text("a message")>>]}

Telling(code, messages) == [status |-> code, body |-> Object([errors |-> List(messages)])]

\* The error handler, when DEBUG is off.
ErrorAnswer(e) ==
    CASE e.kind = "database" -> Telling(400, <<Text("Invalid operation requested")>>)
      [] OTHER -> Telling(400, e.messages)

RefusedWith(code) == Telling(code, <<Text("refused")>>)

InitWire ==
    /\ at = "idle" /\ known \in BOOLEAN
    /\ call = None /\ sent = None /\ route = None /\ got = None
    /\ answered = None /\ reply = None /\ result = None

Ask(name) ==
    /\ at = "idle"
    /\ LET c == Calls[name] IN
       \E id \in IdsFor(name), query \in c.queries, body \in c.bodies :
         \E size \in SizesOf(body) :
           sent' = [method |-> c.method, path |-> WithId(c.path, id), query |-> query, body |-> body, size |-> size]
    /\ call' = name /\ at' = "sent"
    /\ UNCHANGED <<known, route, got, answered, reply, result>>

Reach ==
    /\ at = "sent"
    /\ route' = Reached(sent.method, sent.path)
    /\ IF route' = None
       THEN at' = "answered" /\ answered' = [status |-> 404, body |-> None]
       ELSE at' = "reached" /\ UNCHANGED answered
    /\ UNCHANGED <<call, sent, known, got, reply, result>>

\* A step that lets the call through, or has the error handler answer it.
Passes(refused, next) ==
    IF refused = None THEN at' = next /\ UNCHANGED answered
                      ELSE at' = "answered" /\ answered' = RefusedWith(refused)

Admit ==
    /\ at = "reached"
    /\ Passes(IF route.guarded /\ ~known THEN 401 ELSE None, "admitted")
    /\ UNCHANGED <<call, sent, known, route, got, reply, result>>

IsBytes(body) == body # None /\ "bytes" \in DOMAIN body
TakesBytes(r) == r \in ResourcesRoutes /\ r.guarded
LimitOf(r)    == IF r.schema = "ResourcesPutContent" THEN 1 ELSE 0

Parse ==
    /\ at = "admitted"
    /\ Passes(CASE sent.size > LimitOf(route) -> 413
                [] IsBytes(sent.body) /\ ~TakesBytes(route) -> 415
                [] OTHER -> None, "parsed")
    /\ UNCHANGED <<call, sent, known, route, got, reply, result>>

QueryRead(schema) ==
    [f \in DOMAIN sent.query |-> IF f \in DOMAIN schema.query.fields
                                 THEN Coerced(schema.query.fields[f], sent.query[f]) ELSE sent.query[f]]

Valid(schema) ==
    /\ \A i \in DOMAIN route.path : route.path[i] = "*" => Text(sent.path[i]) = Id
    /\ Fits(schema.query, Object(QueryRead(schema)))
    /\ schema.body # None => sent.body # None /\ Fits(schema.body, sent.body)

BodyFields(body) ==
    IF body = None THEN <<>> ELSE IF IsBytes(body) THEN [body |-> body] ELSE body.obj

Validate ==
    /\ at = "parsed"
    /\ LET schema == Schemas[route.schema]
           fields == QueryRead(schema) @@ BodyFields(sent.body)
       IN  IF Valid(schema)
           THEN got' = [f \in DOMAIN fields \cap Handlers[route.schema].reads |-> fields[f]]
                /\ Passes(None, "valid")
           ELSE UNCHANGED got /\ Passes(400, "valid")
    /\ UNCHANGED <<call, sent, known, route, reply, result>>

Handle ==
    /\ at = "valid"
    /\ answered' \in Handlers[route.schema].answers /\ at' = "answered"
    /\ UNCHANGED <<call, sent, known, route, got, reply, result>>

Fail ==
    /\ at = "valid" /\ route.schema \notin {"DevGetScenarios", "DevGetStatus"}
    /\ \E e \in Errors : answered' = ErrorAnswer(e)
    /\ at' = "answered"
    /\ UNCHANGED <<call, sent, known, route, got, reply, result>>

\* A status that the schema does not declare, and bytes, are sent as they are.
Serialise ==
    LET declared == route # None /\ answered.status \in DOMAIN Schemas[route.schema].response
        schema   == Schemas[route.schema].response[answered.status]
    IN  /\ at = "answered" /\ at' = "replied"
        /\ reply' = IF answered.body = None \/ ~declared THEN answered
                    ELSE IF Writable(schema, answered.body)
                         THEN [answered EXCEPT !.body = Written(schema, @)]
                         ELSE RefusedWith(400)
        /\ UNCHANGED <<call, sent, known, route, got, answered, result>>

(***************************************************************************)
(* The client's reading of the answer.                                     *)
(***************************************************************************)
Undefined == [undefined |-> TRUE]
Field(v, f) == IF v # None /\ "obj" \in DOMAIN v /\ f \in DOMAIN v.obj THEN v.obj[f] ELSE Undefined

\* A list reports one page even when it is empty.
PageOf(v) ==
    LET page == Field(v, "page")
        pages == Field(page, "totalPages")
    IN  [items |-> Field(v, "data"), total |-> Field(page, "totalElements"), page |-> Field(page, "number"),
         totalPages |-> IF pages = Number(0) THEN Number(1) ELSE pages]

Taken(takes, v) ==
    CASE takes = "whole" -> v
      [] takes = "page" -> PageOf(v)
      [] takes = "page and scan" -> PageOf(v) @@ [scan |-> Field(v, "scan")]
      [] OTHER -> Field(v, takes)

ReadErrors(r) ==
    IF r.body # None /\ "obj" \in DOMAIN r.body /\ Field(r.body, "errors") # Undefined
       /\ Field(r.body, "errors").arr # <<>>
    THEN r.body.obj.errors.arr
    ELSE <<Text("what the status stands for")>>

Receive ==
    /\ at = "replied" /\ at' = "received"
    /\ result' = IF reply.status >= 400 THEN [status |-> reply.status, messages |-> ReadErrors(reply)]
                 ELSE [value |-> IF reply.status = 204 THEN None ELSE Taken(Calls[call].takes, reply.body)]
    /\ UNCHANGED <<call, sent, known, route, got, answered, reply>>

NextWire ==
    \/ \E name \in DOMAIN Calls : Ask(name)
    \/ Reach
    \/ Admit
    \/ Parse
    \/ Validate
    \/ Handle
    \/ Fail
    \/ Serialise
    \/ Receive

(***************************************************************************)
(* Properties.                                                             *)
(***************************************************************************)
\* A call reaches the handler that it is for, and one that acts for a user runs for a
\* user who exists.
ReachesItsHandler ==
    /\ route.schema = Calls[call].to
    /\ got # None /\ Handlers[route.schema].caller => known

\* The handler reads all that was sent, and reads it as it was sent, but for a page,
\* which is a number to it.
SentIsRead ==
    LET meant == [f \in DOMAIN sent.query |-> IF f = "page" THEN Number(1) ELSE sent.query[f]]
    IN  got # None => got = meant @@ BodyFields(sent.body)

\* What a handler answers is what the client's function hands back, whole, and is of
\* the type the function says; what it tells of a failure is told in its own words.
AnsweredIsReceived ==
    IF answered.status < 400
    THEN /\ result = [value |-> IF answered.body = None THEN None ELSE Taken(Calls[call].takes, answered.body)]
         /\ Calls[call].type.is # "any" => Fits(Calls[call].type, reply.body)
    ELSE /\ "messages" \in DOMAIN result /\ result.status = answered.status
         /\ IF answered.body = None THEN Len(result.messages) = 1
            ELSE result.messages = answered.body.obj.errors.arr

\* A call is carried: it reaches its handler with all that was sent, and all that was
\* answered comes back, under schemas that leave out whatever they do not name.
CallsCarried ==
    at = "received" => route # None /\ ReachesItsHandler /\ SentIsRead /\ AnsweredIsReceived
=============================================================================
