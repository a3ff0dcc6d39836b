---------------------------- MODULE WireHandlers ----------------------------
(***************************************************************************)
(* The routes of the backend, and what the handler of each may answer.     *)
(***************************************************************************)
EXTENDS WireSchemas

(***************************************************************************)
(* The routes: the schema and the handler of each path, and whether the    *)
(* cookie is asked for.  "*" stands for an id.                             *)
(***************************************************************************)
Route(method, path, schema, guarded) == [method |-> method, path |-> path, schema |-> schema, guarded |-> guarded]

MeRoutes ==
    LET Me(method, path, schema) == Route(method, <<"me">> \o path, schema, TRUE)
    IN  {Me("GET", <<>>, "MeGet"), Me("PATCH", <<>>, "MePatch"), Me("DELETE", <<>>, "MeDelete"),
         Me("GET", <<"context">>, "MeGetContext"), Me("GET", <<"resources">>, "MeGetResources"),
         Me("GET", <<"resources", "facets">>, "MeGetResourceFacets"), Me("GET", <<"shared">>, "MeGetShared"),
         Me("POST", <<"rules", "coverage">>, "MePostRuleCoverage"),
         Me("GET", <<"connections">>, "MeGetConnections"),
         Me("POST", <<"connections", "*">>, "MePostConnection"),
         Me("DELETE", <<"connections", "*">>, "MeDeleteConnection"),
         Me("GET", <<"groups">>, "MeGetGroups"), Me("POST", <<"groups", "*">>, "MePostGroup"),
         Me("DELETE", <<"groups", "*">>, "MeDeleteGroup")}

UsersRoutes ==
    {Route("GET", <<"users">>, "UsersGetAll", FALSE), Route("GET", <<"users", "facets">>, "UsersGetFacets", FALSE),
     Route("GET", <<"users", "*">>, "UsersGetOne", FALSE), Route("POST", <<"users">>, "UsersCreateNew", FALSE)}

ResourcesRoutes ==
    LET One == <<"resources", "*">>
    IN  {Route("GET", <<"resources">>, "ResourcesGetAll", FALSE),
         Route("GET", <<"resources", "facets">>, "ResourcesGetFacets", FALSE),
         Route("GET", One, "ResourcesGetOne", FALSE),
         Route("POST", <<"resources">>, "ResourcesCreateNew", TRUE),
         Route("POST", <<"resources", "access">>, "ResourcesCustomAccess", TRUE),
         Route("PATCH", One, "ResourcesPatchOne", TRUE), Route("DELETE", One, "ResourcesDeleteOne", TRUE),
         Route("GET", One \o <<"access">>, "ResourcesAccessOne", TRUE),
         Route("PUT", One \o <<"content">>, "ResourcesPutContent", TRUE),
         Route("GET", One \o <<"content">>, "ResourcesGetContent", TRUE),
         Route("DELETE", One \o <<"content">>, "ResourcesDeleteContent", TRUE)}

GroupsRoutes ==
    {Route("GET", <<"groups">>, "GroupsGetAll", FALSE), Route("GET", <<"groups", "*">>, "GroupsGetOne", FALSE),
     Route("POST", <<"groups">>, "GroupsCreateNew", TRUE), Route("PATCH", <<"groups", "*">>, "GroupsPatchOne", TRUE),
     Route("DELETE", <<"groups", "*">>, "GroupsDeleteOne", TRUE)}

DevRoutes ==
    {Route("GET", <<"dev", "events">>, "DevGetEvents", FALSE), Route("GET", <<"dev", "status">>, "DevGetStatus", FALSE),
     Route("GET", <<"dev", "scenarios">>, "DevGetScenarios", FALSE),
     Route("POST", <<"dev", "seed">>, "DevPostSeed", FALSE), Route("POST", <<"dev", "reset">>, "DevPostReset", FALSE)}

Routes == MeRoutes \cup UsersRoutes \cup ResourcesRoutes \cup GroupsRoutes \cup DevRoutes

\* The router prefers a path that is written out to one with an id in its place.
Matches(r, method, path) ==
    /\ r.method = method /\ Len(r.path) = Len(path)
    /\ \A i \in DOMAIN path : r.path[i] \in {path[i], "*"}
Reached(method, path) ==
    LET found == {r \in Routes : Matches(r, method, path)}
        exact == {r \in found : r.path = path}
    IN  IF exact # {} THEN CHOOSE r \in exact : TRUE
        ELSE IF found # {} THEN CHOOSE r \in found : TRUE ELSE None

(***************************************************************************)
(* The handlers: which fields of the request each reads, whether it acts   *)
(* for the user whom the hook named, and what it may answer.               *)
(***************************************************************************)
Handler(reads, caller, answers) == [reads |-> reads, caller |-> caller, answers |-> answers]
Ok(v)        == {[status |-> 200, body |-> v]}
Created(v)   == {[status |-> 201, body |-> v]}
Empty(codes) == {[status |-> code, body |-> None] : code \in codes}
Told(codes)  == {[status |-> code, body |-> Object([errors |-> List(<<Text("why"), Text("why else")>>)])] : code \in codes}

Attrs     == Object([key |-> Text("x"), list |-> List(<<Number(7), Text("7")>>)])
UserView  == Object([id |-> Id, attrs |-> Attrs, rules |-> List(<<Text("a rule")>>)])
GroupView == Object([id |-> Id, name |-> Text("n"), description |-> Text("d")])
Contents  == {Null} \cup {Object([type |-> Text("a/type"), size |-> Number(3), filename |-> name]) :
                            name \in {Null, Text("a file")}}
ResourceView(content) == Object([id |-> Id, attrs |-> Attrs, metadata |-> Attrs, content |-> content])
ResourceViewWithUser(content) == Object(ResourceView(content).obj @@ [user |-> Object([id |-> Id])])
Resources == {ResourceViewWithUser(content) : content \in Contents}

ReturnPaginatedResults(item) ==
    Object([data |-> List(<<item>>),
            page |-> Object([size |-> Number(50), totalElements |-> Number(1),
                             totalPages |-> Number(1), number |-> Number(1)])])
Facets == Object([facets |-> List(<<Object([key |-> Text("key"), values |-> List(<<Text("x")>>)])>>)])
FilterFields == {"name", "attr"}

UsersHandlers ==
    [UsersGetAll    |-> Handler({"page", "username"}, FALSE, Ok(ReturnPaginatedResults(UserView))),
     UsersGetFacets |-> Handler({"username"}, FALSE, Ok(Facets)),
     UsersGetOne    |-> Handler({}, FALSE, Ok(UserView) \cup Empty({404})),
     UsersCreateNew |-> Handler({"attrs", "rules"}, FALSE, Created(UserView) \cup Told({400, 500, 503}))]

GroupsHandlers ==
    [GroupsGetAll    |-> Handler({"page", "name"}, FALSE, Ok(ReturnPaginatedResults(GroupView))),
     GroupsGetOne    |-> Handler({}, FALSE, Ok(GroupView) \cup Empty({404})),
     GroupsCreateNew |-> Handler({"name", "description"}, TRUE, Created(GroupView) \cup Told({403})),
     GroupsPatchOne  |-> Handler({"name", "description"}, TRUE, Ok(GroupView) \cup Told({403}) \cup Empty({404})),
     GroupsDeleteOne |-> Handler({}, TRUE, Ok(GroupView) \cup Told({403}) \cup Empty({404}))]

ResourcesReadHandlers ==
    [ResourcesGetAll    |-> Handler(FilterFields \cup {"page", "excludeUserId"}, FALSE,
                                    UNION {Ok(ReturnPaginatedResults(r)) : r \in Resources}),
     ResourcesGetFacets |-> Handler(FilterFields \cup {"excludeUserId"}, FALSE, Ok(Facets)),
     ResourcesGetOne    |-> Handler({}, FALSE, UNION {Ok(r) : r \in Resources} \cup Empty({404}))]

ResourcesWriteHandlers ==
    LET Kept == UNION {Ok(r) : r \in Resources} \cup Empty({404}) \cup Told({403})
    IN  [ResourcesCreateNew |-> Handler({"attrs", "metadata"}, TRUE,
                                        Created(ResourceViewWithUser(Null)) \cup Told({400})),
         ResourcesPatchOne  |-> Handler({"attrs", "metadata"}, TRUE, Kept \cup Told({400})),
         ResourcesDeleteOne |-> Handler({}, TRUE, Kept)]

ContentHandlers ==
    LET Refused == Empty({404}) \cup Told({403})
    IN  [ResourcesPutContent    |-> Handler({"filename", "contentType", "body"}, TRUE,
                                            UNION {Ok(r) : r \in Resources} \cup Refused \cup Told({400})),
         ResourcesGetContent    |-> Handler({}, TRUE, Ok([bytes |-> "a file"]) \cup Refused \cup Told({500, 503})),
         ResourcesDeleteContent |-> Handler({}, TRUE, Ok(ResourceViewWithUser(Null)) \cup Refused)]

Evaluation ==
    Object([parties |-> List(<<Id, Id>>), trace |-> Text("a trace"), scenario |-> Text("a scenario"),
            requests |-> List(<<Object([requester |-> Id, from |-> Id, resource |-> Attrs])>>)])

AccessHandlers ==
    LET Failed == Told({500, 503})
        Judged(permitted, evaluation) == [permitted |-> Flag(permitted), evaluation |-> evaluation]
    IN  [ResourcesAccessOne |->
            Handler({}, TRUE,
                UNION {Ok(Object(j @@ [resourceId |-> Id])) :
                         j \in {Judged(TRUE, Null), Judged(TRUE, Evaluation), Judged(FALSE, Evaluation)}}
                \cup Empty({404}) \cup Failed),
         ResourcesCustomAccess |->
            Handler({"resource", "from"}, TRUE,
                UNION {Ok(Object(Judged(p, Evaluation))) : p \in BOOLEAN} \cup Told({400}) \cup Failed)]

MeSelfHandlers ==
    [MeGet    |-> Handler({}, TRUE, Ok(UserView) \cup Empty({404})),
     MePatch  |-> Handler({"attrs", "rules"}, TRUE, Ok(UserView) \cup Empty({404}) \cup Told({400, 500, 503})),
     MeDelete |-> Handler({}, TRUE, Ok(UserView) \cup Empty({404}))]

MeReadHandlers ==
    LET Listed == {ReturnPaginatedResults(r) : r \in Resources}
        Scan(cut) == [scan |-> Object([considered |-> Number(2), total |-> Number(3), truncated |-> Flag(cut)])]
    IN  [MeGetResources |-> Handler(FilterFields \cup {"page"}, TRUE, UNION {Ok(l) : l \in Listed}),
         MeGetResourceFacets |-> Handler(FilterFields, TRUE, Ok(Facets)),
         MeGetShared |-> Handler(FilterFields \cup {"page"}, TRUE,
             UNION {Ok(Object(l.obj @@ Scan(cut))) : l \in Listed, cut \in BOOLEAN} \cup Told({500, 503}))]

MeConnectionsHandlers ==
    [MeGetConnections   |-> Handler({"page", "username"}, TRUE,
                                    Ok(ReturnPaginatedResults(UserView)) \cup Empty({404})),
     MePostConnection   |-> Handler({}, TRUE, Empty({204, 404, 409}) \cup Told({400})),
     MeDeleteConnection |-> Handler({}, TRUE, Empty({204, 404}))]

MeGroupsHandlers ==
    [MeGetGroups   |-> Handler({"page", "name"}, TRUE, Ok(ReturnPaginatedResults(GroupView)) \cup Empty({404})),
     MePostGroup   |-> Handler({}, TRUE, Empty({204, 404, 409})),
     MeDeleteGroup |-> Handler({}, TRUE, Empty({204, 404}))]

MeContextHandler ==
    LET Display == Object([connections |-> List(<<Object([id |-> Id, username |-> Text("n")])>>),
                           groups |-> List(<<Object([id |-> Id, name |-> Text("n")])>>)])
        Key == Object([key |-> Text("groups"), providedBy |-> Text("p"),
                       description |-> Text("d"), example |-> Text("e")])
    IN  [MeGetContext |-> Handler({}, TRUE,
            Ok(Object([values |-> Attrs, display |-> Display, names |-> List(<<Key>>)])))]

MeCoverageHandler ==
    LET Gap == Object([name |-> Text("r"), missing |-> List(<<Text("key")>>), conflicting |-> List(<<>>)])
        Entry(n, gap) == Object([count |-> Number(n), sample |-> List([i \in 1 .. n |-> Text("r")]), nearest |-> gap])
    IN  [MePostRuleCoverage |-> Handler({"patterns"}, TRUE,
            UNION {Ok(Object([total |-> Number(1), coverage |-> List(<<e>>)])) :
                     e \in {Entry(1, Null), Entry(0, Null), Entry(0, Gap)}})]

Counts(names) == Object([n \in names |-> Number(1)])

DevScenarioHandlers ==
    LET Created4 == Counts({"users", "resources", "connections", "groups"})
    IN  [DevPostSeed  |-> Handler({"scenario"}, FALSE,
             Ok(Object([scenario |-> Text("ex1"), created |-> Created4])) \cup Empty({404}) \cup Told({409, 500, 503})),
         DevPostReset |-> Handler({}, FALSE,
             Ok(Object([deleted |-> Counts({"users", "resources", "groups", "logEvents"})])))]

DevListHandlers ==
    LET Scenario == Object([id |-> Text("ex1"), title |-> Text("t"), summary |-> Text("s"),
                            counts |-> Counts({"users", "resources", "connections", "groups"})])
        Event(data, user, name) ==
            Object([id |-> Id, type |-> Text("t"), data |-> data, occurred_at |-> Text("when"),
                    userId |-> user, username |-> name])
    IN  [DevGetScenarios |-> Handler({}, FALSE, Ok(Object([scenarios |-> List(<<Scenario>>)]))),
         DevGetEvents |-> Handler({"page"}, FALSE,
             UNION {Ok(ReturnPaginatedResults(e)) : e \in {Event(Null, Null, Null), Event(Attrs, Id, Null),
                                                           Event(Attrs, Id, Text("n"))}})]

DevStatusHandler ==
    LET Service(status, latency, detail) ==
            Object([name |-> Text("database"), status |-> Text(status), latencyMs |-> latency, detail |-> detail])
    IN  [DevGetStatus |-> Handler({}, FALSE,
             UNION {Ok(Object([services |-> List(<<s>>)])) :
                      s \in {Service("up", Number(2), Null), Service("down", Null, Text("unreachable"))}})]

Handlers ==
    UsersHandlers @@ GroupsHandlers @@ ResourcesReadHandlers @@ ResourcesWriteHandlers @@ ContentHandlers
    @@ AccessHandlers @@ MeSelfHandlers @@ MeReadHandlers @@ MeConnectionsHandlers @@ MeGroupsHandlers
    @@ MeContextHandler @@ MeCoverageHandler @@ DevScenarioHandlers @@ DevListHandlers @@ DevStatusHandler
=============================================================================
