---------------------------- MODULE WireSchemas ----------------------------
(***************************************************************************)
(* The schemas of the routes: what each takes from a request, and how each *)
(* status it declares is written.  JSON values and schemas are tagged, so  *)
(* that a text, a number and an object can be told apart.  What Fastify    *)
(* does with a schema (ajv reads a request, fast-json-stringify writes an  *)
(* answer, and leaves out of an object whatever its schema does not name)  *)
(* is outside the repository.                                              *)
(***************************************************************************)
EXTENDS Naturals, Sequences, FiniteSets, TLC

CONSTANTS
    None,
    MaxPatterns     \* patterns one question of coverage may hold

Text(t)    == [str |-> t]
Number(n)  == [num |-> n]
Flag(b)    == [bool |-> b]
Object(f)  == [obj |-> f]
List(s)    == [arr |-> s]
Null       == [null |-> TRUE]
JsonKinds  == {"str", "num", "bool", "obj", "arr", "null"}

Id == Text("a uuid")        \* an id that has the form of one

Of(kind)   == [is |-> kind]
String     == Of("str")
Numeric    == Of("num")
Boolean    == Of("bool")
NullType   == Of("null")
Uuid       == Of("uuid")
Page       == Of("page")
OneOf(set) == [is |-> "literal", of |-> set]
Array(items)       == [is |-> "array", items |-> items, most |-> None]
Fields(fields)     == [is |-> "object", fields |-> fields, required |-> DOMAIN fields, open |-> FALSE]
Partial(fields)    == [Fields(fields) EXCEPT !.required = {}]
Union(one, other)  == [is |-> "union", of |-> {one, other}]
Nullable(schema)   == Union(schema, NullType)

\* (mutant) An object without additionalProperties.
JsonObject_Closed == [is |-> "object", fields |-> <<>>, required |-> {}, open |-> FALSE]

JsonObject == [is |-> "object", fields |-> <<>>, required |-> {}, open |-> TRUE]

\* Whether ajv accepts a value.
RECURSIVE Fits(_, _)
Fits(schema, v) ==
    CASE schema.is = "object" ->
             /\ "obj" \in DOMAIN v
             /\ schema.required \subseteq DOMAIN v.obj
             /\ \A f \in DOMAIN v.obj \cap DOMAIN schema.fields : Fits(schema.fields[f], v.obj[f])
      [] schema.is = "array" ->
             /\ "arr" \in DOMAIN v
             /\ schema.most = None \/ Len(v.arr) <= schema.most
             /\ \A i \in DOMAIN v.arr : Fits(schema.items, v.arr[i])
      [] schema.is = "union" -> \E s \in schema.of : Fits(s, v)
      [] schema.is = "literal" -> v \in {Text(t) : t \in schema.of}
      [] schema.is = "uuid" -> v = Id
      [] schema.is = "page" -> "num" \in DOMAIN v /\ v.num >= 1
      [] OTHER -> schema.is \in DOMAIN v

\* A query value is text: ajv turns it into the integer that the schema asks for.
Coerced(schema, v) ==
    IF schema.is = "page" /\ \E n \in 0 .. 9 : v = Text(ToString(n))
    THEN Number(CHOOSE n \in 0 .. 9 : v = Text(ToString(n))) ELSE v

\* What fast-json-stringify makes of an answer, and when it throws instead.
RECURSIVE Writable(_, _), Written(_, _)
Writable(schema, v) ==
    CASE schema.is = "object" ->
             /\ "obj" \in DOMAIN v /\ schema.required \subseteq DOMAIN v.obj
             /\ \A f \in DOMAIN v.obj \cap DOMAIN schema.fields : Writable(schema.fields[f], v.obj[f])
      [] schema.is = "array" -> "arr" \in DOMAIN v /\ \A i \in DOMAIN v.arr : Writable(schema.items, v.arr[i])
      [] schema.is = "union" -> \E s \in schema.of : Fits(s, v)
      [] OTHER -> TRUE
Written(schema, v) ==
    CASE schema.is = "object" ->
             Object([f \in {g \in DOMAIN v.obj : schema.open \/ g \in DOMAIN schema.fields} |->
                 IF f \in DOMAIN schema.fields THEN Written(schema.fields[f], v.obj[f]) ELSE v.obj[f]])
      [] schema.is = "array" -> List([i \in DOMAIN v.arr |-> Written(schema.items, v.arr[i])])
      [] schema.is = "union" -> Written(CHOOSE s \in schema.of : Fits(s, v), v)
      [] schema.is = "str" /\ v = Null -> Text("")
      [] schema.is = "null" -> Null
      [] OTHER -> v

(***************************************************************************)
(* What every route shares.                                                *)
(***************************************************************************)
Messages == Fields([errors |-> Array(String)])

PaginatedResults(items) ==
    Fields([data |-> Array(items),
            page |-> Fields([size |-> Numeric, totalElements |-> Numeric,
                             totalPages |-> Numeric, number |-> Numeric])])

NoParams == Partial(<<>>)

Schema(query, body, ok, errors, empty) ==
    [query |-> query, body |-> body,
     response |-> ok @@ [status \in errors |-> Messages] @@ [status \in empty |-> NullType]]

(***************************************************************************)
(* users.schema.ts, groups.schema.ts                                       *)
(***************************************************************************)
UserType  == Fields([id |-> String, attrs |-> JsonObject, rules |-> Array(String)])
GroupType == Fields([id |-> String, name |-> String, description |-> String])

FacetsResponse == Fields([facets |-> Array(Fields([key |-> String, values |-> Array(String)]))])

UsersSchemas ==
    [UsersGetAll    |-> Schema(Partial([page |-> Page, username |-> String]), None,
                               200 :> PaginatedResults(UserType), {400}, {}),
     UsersGetFacets |-> Schema(Partial([username |-> String]), None, 200 :> FacetsResponse, {400}, {}),
     UsersGetOne    |-> Schema(NoParams, None, 200 :> UserType, {400}, {404}),
     UsersCreateNew |-> Schema(NoParams,
                               [Fields([attrs |-> JsonObject, rules |-> Array(String)])
                                   EXCEPT !.required = {"attrs"}],
                               201 :> UserType, {400, 500, 503}, {})]

GroupText == [name |-> String, description |-> String]

GroupsSchemas ==
    [GroupsGetAll    |-> Schema(Partial([page |-> Page, name |-> String]), None,
                                200 :> PaginatedResults(GroupType), {400}, {}),
     GroupsGetOne    |-> Schema(NoParams, None, 200 :> GroupType, {400}, {404}),
     GroupsCreateNew |-> Schema(NoParams, Fields(GroupText), 201 :> GroupType, {400, 401, 403}, {}),
     GroupsPatchOne  |-> Schema(NoParams, Partial(GroupText), 200 :> GroupType, {400, 401, 403}, {404}),
     GroupsDeleteOne |-> Schema(NoParams, None, 200 :> GroupType, {400, 401, 403}, {404})]

(***************************************************************************)
(* resources.schema.ts                                                     *)
(***************************************************************************)
ResourceContentType == Nullable(Fields([type |-> String, size |-> Numeric, filename |-> Nullable(String)]))

ResourceWithUserType ==
    Fields([id |-> String, attrs |-> JsonObject, metadata |-> JsonObject,
            content |-> ResourceContentType, user |-> Fields([id |-> String])])

AccessEvaluationType ==
    Fields([parties |-> Array(String),
            requests |-> Array(Fields([requester |-> String, from |-> String, resource |-> JsonObject])),
            trace |-> String, scenario |-> String])

Filters == [name |-> String, attr |-> String]

ResourcesReadSchemas ==
    [ResourcesGetAll    |-> Schema(Partial([page |-> Page, excludeUserId |-> Uuid] @@ Filters), None,
                                   200 :> PaginatedResults(ResourceWithUserType), {400}, {}),
     ResourcesGetFacets |-> Schema(Partial([excludeUserId |-> Uuid] @@ Filters), None,
                                   200 :> FacetsResponse, {400}, {}),
     ResourcesGetOne    |-> Schema(NoParams, None, 200 :> ResourceWithUserType, {400}, {404})]

ResourcesWriteSchemas ==
    LET Data == [attrs |-> JsonObject, metadata |-> JsonObject]
    IN  [ResourcesCreateNew |-> Schema(NoParams, Fields(Data), 201 :> ResourceWithUserType, {400, 401, 403}, {}),
         ResourcesPatchOne  |-> Schema(NoParams, Partial(Data), 200 :> ResourceWithUserType, {400, 401, 403}, {404}),
         ResourcesDeleteOne |-> Schema(NoParams, None, 200 :> ResourceWithUserType, {400, 401, 403}, {404})]

ContentSchemas ==
    [ResourcesPutContent    |-> Schema(Partial([filename |-> String, contentType |-> OneOf({"a/type"})]), None,
                                       200 :> ResourceWithUserType, {400, 401, 403, 413}, {404}),
     ResourcesGetContent    |-> Schema(NoParams, None, <<>>, {400, 401, 403, 500, 503}, {404}),
     ResourcesDeleteContent |-> Schema(NoParams, None, 200 :> ResourceWithUserType, {400, 401, 403}, {404})]

AccessSchemas ==
    [ResourcesCustomAccess |->
        Schema(NoParams,
               Fields([resource |-> JsonObject,
                       from |-> Fields([quantifier |-> OneOf({"any", "all"}), attrs |-> JsonObject])]),
               200 :> Fields([permitted |-> Boolean, evaluation |-> AccessEvaluationType]),
               {400, 401, 500, 503}, {}),
     ResourcesAccessOne |->
        Schema(NoParams, None,
               200 :> Fields([resourceId |-> String, permitted |-> Boolean,
                              evaluation |-> Nullable(AccessEvaluationType)]),
               {400, 401, 500, 503}, {404})]

(***************************************************************************)
(* me.schema.ts                                                            *)
(***************************************************************************)
MeSelfSchemas ==
    [MeGet    |-> Schema(NoParams, None, 200 :> UserType, {401, 403}, {404}),
     MePatch  |-> Schema(NoParams, Partial([attrs |-> JsonObject, rules |-> Array(String)]),
                         200 :> UserType, {400, 401, 403, 500, 503}, {404}),
     MeDelete |-> Schema(NoParams, None, 200 :> UserType, {401, 403}, {404})]

MeResourcesSchemas ==
    [MeGetResources      |-> Schema(Partial([page |-> Page] @@ Filters), None,
                                    200 :> PaginatedResults(ResourceWithUserType), {400, 401, 403}, {}),
     MeGetResourceFacets |-> Schema(Partial(Filters), None, 200 :> FacetsResponse, {400, 401}, {})]

MeConnectionsSchemas ==
    [MeGetConnections   |-> Schema(Partial([page |-> Page, username |-> String]), None,
                                   200 :> PaginatedResults(UserType), {400, 401, 403}, {404}),
     MePostConnection   |-> Schema(NoParams, None, 204 :> NullType, {400, 401, 403}, {404, 409}),
     MeDeleteConnection |-> Schema(NoParams, None, 204 :> NullType, {400, 401, 403}, {404})]

MeSharedSchema ==
    LET Listed == PaginatedResults(ResourceWithUserType).fields
        Scan   == Fields([considered |-> Numeric, total |-> Numeric, truncated |-> Boolean])
    IN  [MeGetShared |-> Schema(Partial([page |-> Page] @@ Filters), None,
                                200 :> Fields(Listed @@ [scan |-> Scan]), {400, 401, 500, 503}, {})]

MeContextSchema ==
    LET Named == Fields([id |-> String, name |-> String])
        User  == Fields([id |-> String, username |-> String])
        Key   == Fields([key |-> String, providedBy |-> String, description |-> String, example |-> String])
    IN  [MeGetContext |->
            Schema(NoParams, None,
                   200 :> Fields([values |-> JsonObject, names |-> Array(Key),
                                  display |-> Fields([connections |-> Array(User), groups |-> Array(Named)])]),
                   {400, 401}, {})]

MeCoverageSchema ==
    LET Gap   == Fields([name |-> String, missing |-> Array(String), conflicting |-> Array(String)])
        Entry == Fields([count |-> Numeric, sample |-> Array(String), nearest |-> Nullable(Gap)])
    IN  [MePostRuleCoverage |->
            Schema(NoParams, Fields([patterns |-> [Array(JsonObject) EXCEPT !.most = MaxPatterns]]),
                   200 :> Fields([total |-> Numeric, coverage |-> Array(Entry)]), {400, 401}, {})]

MeGroupsSchemas ==
    [MeGetGroups   |-> Schema(Partial([page |-> Page, name |-> String]), None,
                              200 :> PaginatedResults(GroupType), {400, 401, 403}, {404}),
     MePostGroup   |-> Schema(NoParams, None, 204 :> NullType, {400, 401, 403}, {404, 409}),
     MeDeleteGroup |-> Schema(NoParams, None, 204 :> NullType, {400, 401, 403}, {404})]

(***************************************************************************)
(* dev.schema.ts                                                           *)
(***************************************************************************)
ScenarioCountsType ==
    Fields([users |-> Numeric, resources |-> Numeric, connections |-> Numeric, groups |-> Numeric])

DevScenarioSchemas ==
    LET Scenario == Fields([id |-> String, title |-> String, summary |-> String, counts |-> ScenarioCountsType])
    IN  [DevGetScenarios |-> Schema(NoParams, None, 200 :> Fields([scenarios |-> Array(Scenario)]), {}, {}),
         DevPostSeed     |-> Schema(NoParams, Fields([scenario |-> String]),
                                    200 :> Fields([scenario |-> String, created |-> ScenarioCountsType]),
                                    {400, 409, 500, 503}, {404}),
         DevPostReset    |-> Schema(NoParams, None,
                                    200 :> Fields([deleted |-> Fields([users |-> Numeric, resources |-> Numeric,
                                                                       groups |-> Numeric, logEvents |-> Numeric])]),
                                    {500}, {})]

LogEventType ==
    Fields([id |-> String, type |-> String, data |-> Nullable(JsonObject), occurred_at |-> String,
            userId |-> Nullable(String), username |-> Nullable(String)])

DevReportSchemas ==
    LET Status == Fields([name |-> OneOf({"database", "evaluator"}), status |-> OneOf({"up", "down"}),
                          latencyMs |-> Nullable(Numeric), detail |-> Nullable(String)])
    IN  [DevGetEvents |-> Schema(Partial([page |-> Page]), None, 200 :> PaginatedResults(LogEventType), {}, {}),
         DevGetStatus |-> Schema(NoParams, None, 200 :> Fields([services |-> Array(Status)]), {}, {})]

Schemas ==
    UsersSchemas @@ GroupsSchemas @@ ResourcesReadSchemas @@ ResourcesWriteSchemas @@ ContentSchemas
    @@ AccessSchemas @@ MeSelfSchemas @@ MeResourcesSchemas @@ MeConnectionsSchemas @@ MeSharedSchema
    @@ MeContextSchema @@ MeCoverageSchema @@ MeGroupsSchemas @@ DevScenarioSchemas @@ DevReportSchemas
=============================================================================
