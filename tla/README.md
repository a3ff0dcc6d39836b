# A formal model of BartShare

BartShare is a data-sharing application: users store resources, write *exchange
policies* in the BART language, and may read another user's resource when the
policies of all parties concerned permit it. This directory holds TLA+ models of
its backend (`src/app/backend`), of the parts of its frontend that keep state or
read and write rules (`src/app/frontend`), and of what both rely on in the
evaluator (`src/evaluator`); the TLC configurations that check them on small
instances; and proofs, for every instance, about the modules of the backend, the
screens of the frontend and what both read of attributes and conditions.

The `map` of `PROJECT.json` names the code each definition stands for. Paths
below are relative to `src/app/backend/src` (`bart/`, `controllers/`, ...) or to
`src/app/frontend/src` (`features/`, `lib/`, `components/`).

## 1. The system

```
browser tabs (Next.js, SWR) --cookie "user"--> Fastify backend --HTTP--> evaluator (Java, BART engine)
                                                    |
                                                PostgreSQL (Sequelize, READ COMMITTED)
```

One Node process serves all requests. Its handlers run without interruption
between two `await`s and interleave at each of them; a statement outside a
transaction is a transaction of its own. There is no lock, version or queue in
the application, so what is read before an `await` may be stale after it. The
frontend has the same problem once more: an answer arrives when the screen it was
asked for has moved on. And a rule is read by three parsers (blocks in the
browser, a port of the matcher in the backend, the engine), which must agree.

| Component | State | Operations | What makes it correct | Model |
|---|---|---|---|---|
| Party closure (`bart/closure.ts`) | members, analysed, discovered of one run | one round: read policies, analyse, expand | exactly the parties the policies force, numbered reproducibly; it ends | `PartyClosure`, `LeastClosure` |
| Assembly and decision (`bart/assembly.ts`, `bart/access.service.ts`, `bart/context/`) | the system sent to the evaluator | assemble, evaluate, map the answer back to ids | policy, context slot and number of a party agree; the right user is blamed; without a write in between, a decision on the policies as they are | `PolicyAssembly`, `OneDecision`, `Decision` |
| Evaluator client and status probe (`bart/evaluator.client.ts`, `dev.controller.ts`) | one call, two probes | call, abort, tell apart, `withDeadline` | a refusal is never reported as an outage or the reverse; settles | `EvaluatorCall` |
| Shared scan (`bart/shared.service.ts`, `utils/general.utils.ts`) | candidates, memo of systems, pool cursor, results | count, find, a pool of workers | each candidate decided once; the page is exact; truncation reported; settles | `SharedScan` |
| Connections (`me.controller.ts`) | UserConnections | connect, disconnect, delete account | mirrored rows; none to a deleted user; a true answer; no request hangs | `Connections` |
| Groups (`groups.controller.ts`, `me.controller.ts`) | Groups, UserGroups | create, rename, delete, join, leave, list | an answer that was true at some moment of the call; no text written back | `Groups` |
| Accounts (`users.controller.ts`, `me.controller.ts`) | Users, and the owner of each resource | create, patch, delete; create a resource | unique names, policies validated as a whole, no orphan | `Accounts` |
| Resource content (`resources.controller.ts`) | the columns of a resource | upload, clear, patch, delete, download | columns of one upload; bytes only after a permit | `ResourceContent` |
| Seed and reset (`dev/seed.service.ts`, `dev.controller.ts`), event log | all tables | seed, reset, logEvent | whole scenarios, empty database, no double report, an answer | `DevDatabase` |
| Matching, coverage, facets (`bart/matcher.ts`, `coverage.ts`, `emitter.ts`, `utils/facets.utils.ts`) | none | pure functions and one query | agree with what the engine reads; a chip finds what it counts | `Matching`, `Language` |
| Routes, schemas, hook, error handler (`routes/`, `schemas/`, `api.ts`, `error.ts`) and the client's functions (`lib/api/`, `features/*/api.ts`) | none | one call from the function to its result | what the client sends arrives, what is answered is what its types say | `WireSchemas`, `WireHandlers`, `Wire` |
| Session (`lib/session/`, `lib/api/query.ts`) | cookie, first page of users, caches | switch, create, delete, reset, walk pages | acts as the user it shows; a walk is a list that existed | `Session` |
| Lists on screen (`lib/api/query.ts`, `hooks/`) | filters typed and applied, rows kept | type, debounce, page, fetch | settles on what is typed | `ListQuery` |
| Rule language (`lib/bart/parse.ts`, `rule.ts`; `Bart.g4` with its visitors) | none | text to tree to blocks to text | the same rule all the way; the guards refuse the right texts | `RuleText`, `RuleGrammar` |
| Conditions (`bart-parser`, `ast/`) | none | evaluate an expression | a type error denies, however it is nested | `Conditions`, `Language` |
| Policy editor (`features/policy/`, `components/bart/`) | drafts of text, blocks and rows over the profile | edit, switch tabs, save, discard | what is saved is what is shown; edits are not lost | `Editor`, `BlockEditor`, `AttributeCard` |
| Dialogs and verdicts (`features/resources`, `network`, `access`, `components/shell`) | a form and the calls it has under way | open, edit, save, dismiss; ask for a decision | one row per save; a verdict of what is on screen | `Forms`, `Verdicts` |
| Traces and diagram (`lib/bart/trace.ts`, `diagram.ts`, `causes.ts`) | none | read the engine's lines | an arrow shows what the engine came to | `Trace` |

`PROJECT.json` lists these with what is left out of each, and the hazards at the
line where they bite.

## 2. How the models read

* **Steps.** One action is the code between two awaits, one SQL statement, or one
  event of the browser with the synchronous code behind it. `pc`, `phase`,
  `stage` or `at` is the await a handler is at. `DevDatabase` writes a
  handler as the list of its statements instead.
* **Requests.** In the modules of handlers a constant is a finite set of
  requests; which handler each one runs, who sends it and what its body holds is
  chosen in `Init`, and a request answered once is over.
* **The database.** A row becomes visible when its transaction commits (READ
  COMMITTED, PostgreSQL's default: the code sets no level). Row locks in
  `Connections`, table locks in `DevDatabase` and foreign keys are PostgreSQL's
  and marked external in the map. A cycle of waits is broken by rolling back one of its members.
* **Failure.** Every statement or evaluator call that can throw may do so, in
  place of its effect, and the request ends with the status of the error handler
  (`error.ts`: 400 for a database error) or of `mapEvaluatorError` (500, 503).
  In `Connections` the number of failures is bounded, in `DevDatabase` the only
  failing statements are those that PostgreSQL refuses or rolls back. In the
  frontend a write may be done and its answer lost.
* **Libraries** (React, SWR, ajv, fast-json-stringify, the engine, PostgreSQL) are
  modelled from how the code uses them, and marked external.
* **Pure functions** (`Matching`, `Conditions`, `RuleText`, `RuleGrammar`, `Trace`)
  are operators. `MCLanguage` builds texts, blocks and policies step by step, as a
  user types them; parties, rows, filters and conditions are enumerated. Each
  property compares two independent readings of one input.
* **History variables** (`met`, `taken`, `crossed`, `moments`, `late`, `raced`, `validated`,
  `granted`, `culprit`, `wasIn`, `wrote`, `stray`, `entered`, ...) record
  what a property needs to know of the past and guard no action.
* **Abstraction of data.** A policy is the set of patterns in it; a pattern is
  the users it matches; contents, names and rules are model values; a text of the
  rule language is a sequence of marks, each standing for a class of tokens the
  code tells apart. `Array.sort` is defined by what it returns.
* **Types.** A type invariant is stated where a proof rests on it
  (in the modules of proofs, and in `PartyClosure` and `SharedScan`); elsewhere the properties compare values closely
  enough that one of the wrong type breaks them.

Lines beginning with `(mutant)` belong to deliberately wrong variants of the
definition they precede. They are used by nothing: replacing a definition by its
variant must break the property that guards it.

## 3. Modules

### Backend

**`PartyClosure`** models one call of `partyClosure` while other users change or
lose their policies (at most `MaxWrites` times). `StartRound` sends the queries
of a frontier, `ReadPolicy(u)` is the answer of one, in any order;
`ExpandRound` is everything from the analysis' answer to the loop head.
**`LeastClosure`** is what it promises and knows no rounds: each needed policy is
sampled once, at a moment of its own; the answer is the seed followed by exactly
the other needed users in the order of their ids.
`PartyClosure!ImplementsPromise` is the refinement, with the set of users whose
policies have been read as the sampled ones.

**`PolicyAssembly`** extends `PartyClosure` to the end of an access decision. The
rows of the parties and each context provider are read by queries of their own
after the closure, so a party may vanish before each of them. `Rejects`
is the evaluator refusing one of the texts it was sent, by position; the user to
blame is found by the text, as in `callBlaming`. **`OneDecision`** is what it promises
and knows no queries: a decision is taken at once, on parties that policies force, each
policy as it was at some moment of the request, and on texts of a single moment; only such a
party is blamed, and only a party permits. If nobody writes there is one moment, and this is the decision on
the policies as they are.

**`EvaluatorCall`** looks inside one such call: the body and the service's own
checks of it, a response that may come from something between the two, headers
before the body, the abort after `EVALUATOR_TIMEOUT_MS`; for `GET /dev/status`
the probe of the database beside it, each with its deadline. **`Decision`** puts the
two side by side, and remembers the policies stored at each moment (`moments`):
`DecidesAsPromised` is the refinement of `LeastClosure` and of `OneDecision` together.

**`SharedScan`** models `decideSharedWith` on `mapWithConcurrency`. `Take` is the
loop head of a worker with `systemFor`; `systems[o]` is the memoised promise,
and the workers that wait for it are resumed one by one. A thrown error settles
the scan but does not stop the other workers, as with `Promise.all`. `Enter` and `Leave`
are the transactions of others: a resource is created or deleted, or a `PATCH` of its
attributes or its name makes it match the filters, or no longer; it comes to its own place
in the order, however old. `entered` remembers those that came between the count and the find.

**`Connections`** models `post_connection`, `delete_connection` and `delete_me`
statement by statement: `addConnection` is a SELECT and an INSERT of what it
misses; an INSERT waits for a transaction that wrote its key or is deleting one of
its users; a DELETE waits for one that is deleting its rows. **`Groups`** does the
same for the handlers of groups. Only creation opens a transaction there, so
membership, the group and the account may be gone between any two statements.
**`Network`** puts the two side by side: `AnswersHeld` is about every answer of either.

**`Accounts`** models `POST /users`, `PATCH /me`, `DELETE /me` and
`POST /resources`. The name check, the validation by the evaluator and the write are
separate steps; `save()` writes the columns that differ from the loaded row.
**`ResourceContent`** models the five handlers that load one resource and then
change or serve it. `Update(r)` is the SET clause Sequelize computes: `content`
is never loaded, so it always counts as changed when it is set. **`Rows`** puts the
two side by side, as two kinds of rows that handlers load and save.

**`DevDatabase`** models seed and reset beside `POST /users` and `POST /groups`, under
table locks: shared for SELECT, INSERT and the check of a foreign key, exclusive for
TRUNCATE, each held until its transaction ends. The groups of scenario `ex4`
have fixed ids, so two of its seeds collide.

**`Matching`** has scalars with a type and a text: the check of attributes at the
door, the port of the matcher, the emitter's test for writable numbers, the
coverage answer with its nearest gap, and facets with their filter; beside them
`EngineMatches`, what the evaluator reads in the text it is sent. What JavaScript's
`Number()` and `String()` make of the text of a number, and what cannot be written, are constants
with the laws that `MatchingAssumption` states. **`Language`** asks one question of
it, or of `Conditions` (a party, a coverage, a list with its facets, a condition), or edits
a rule in the `BlockEditor`.

### Between backend and frontend

**`WireSchemas`** holds the schemas of the routes, and reading (ajv with coercion) and
writing (fast-json-stringify) by a schema. **`WireHandlers`** has the routes and what
each handler may answer. **`Wire`** has every function of the client that calls the backend, the
shapes its types declare, and the steps of one call: routed, named by the hook, read,
handled, written, received. Client and routes are written apart, as they are in
the code.

### Frontend

**`RuleText`** reads a rule's text to a tree (`parseSyntax`), the tree to blocks
(`toBlocks`), and prints it again, with the guard after each step; it also has what of the blocks is written as text (the mark of a party, a rule of
blocks, whether the blocks can show a rule and whether it comes back from them);
**`RuleGrammar`** reads the same text as the evaluator does, to the clauses that
hold for each choice of true leaves, so that two texts can be compared by meaning.
**`BlockEditor`** edits such blocks: terms with identities of their own, rows whose
text may not parse, and the reports of invalid rows that hold back Save.
**`Conditions`** evaluates an expression as the Java code does, operator by
operator over typed values. An expression is the list of its parts in the order the
visitor builds them, so that its value is a function on the places of that list.

**`Trace`** has an engine that prints a trace as the captured ones of
`trace.fixture.ts` look, and the reading of it by `trace.ts`, `diagram.ts` and
`causes.ts`.

**`Editor`** is `RulesList` with `RuleEditorSheet` over one copy of `GET /me`.
**`AttributeCard`** is `PartyAttributesCard` with `AttributeEditor`, whose rows keep a
draft of their text. **`Session`** is one tab with the cookie it shares.
**`ListQuery`** is `useListQuery` with SWR's kept rows. **`Forms`** has the dialogs
that store something, **`Verdicts`** the two screens that ask for a decision.
**`Screens`** is one tab with all of these: each step is one of a part, the others
stand still.

### For TLC

`Network`, `Rows`, `Decision`, `Screens` and `Language` compose parts that share no
state, and `MCHandlers`, `MCRows`, `MCPolicyAssembly`, `MCScreens` and `MCLanguage` give
their constants values. A behaviour is about one part, chosen in `Init`, and the others stand
still; `MCHandlers` adds the shared scan to the network as a part of its own, `MCScreens` the calls
of `Wire`, `MCLanguage` the texts of rules and the traces. The other `MC` modules give constants their
values; where requests are interchangeable they keep one initial state of each
permutation. `accounts_orphan` runs `Accounts` itself, `own_data` `Session`, and `resource_size` the content part of `MCRows`.

The modules whose names end in `Proofs` hold the proofs (section 6), with **`ListLemmas`** for what they share:
sorted lists, and that where everyone waits some wait in a circle.

## 4. What the runs show

| Run | Instance | Checks |
|---|---|---|
| `policy_assembly` | four users, two patterns, every assignment of patterns to users (at first the fourth does not name itself), one policy change, two context providers; or one call with up to two policies | the closure's `NeverExtra`, `NeverMissing`; `PartiesAsRead`, `BlameTrue`; the refinements of the closure and of the decision, `DecidesAsPromised`; `EvaluatorTold`; every decision and call is answered |
| `handlers` | three requests on connections, of any kind, by two users, a third to be connected with, one failing statement; or two calls on two groups by two users; or a scan of up to four resources of two owners, with a limit of three, two workers, one transaction of others between the count and the find | `ConnectionsKept` (mirrored unless a repeated connect met a disconnect, none lost, none to a deleted user); `AnswersHeld` (an answer of either module was true at a moment of its call, and what a call did not name keeps its text); every request on connections is answered; `OneWorkerEach`, `PageExact`, `AssembledOnce`, `OnlyEnteredUnreported` of the scan, which settles |
| `rows` | two requests, two users, three names, two values of rules; or two requests of any kind on one resource, three uploads of which two agree in type and two in size, one policy change | `UniqueUnlessRaced`, `ValidatedUnlessCrossed`, `NoneOrphanedUnlessLate`; `WholeUnlessRaced`, `ServedOnPermit`; `NothingWrittenBack` for both |
| `dev_database` | three requests, not all alike, at most one of them not a seed or reset; four initial databases | `WholeAndReportedOnce`, `SeedOnEmptyUnlessRaced`; every request is answered |
| `language` | exchanges of up to five edits to a term, conditions of four marks, three clauses; expressions two operators deep; policies of up to three rules with two operands; two terms and three edits in the blocks; enumerated parties, rules and facets | `TypedMeaningKept`, `SaveGated`, `TypedRefusedRight`; `ConditionDecided`; `MatchedAsTheEngine`, `FacetsTrue`; `DiagramTold` |
| `screens` | two rules; two attributes; three users of which two fit a page, two walks; two filters with two pages; two openings of a dialog and three rows; two patterns; every call of the client | `ShownIsSaved`, `EditsKept`; `ActingIsCookie`, `WalkExactUnlessShifted`; `SettledShowsTyped`; `SavedOnce`, `ClosedStored`; `VerdictShown`; `CallsCarried` |

Why these bounds are enough to be interesting: a closure needs a chain of two
rounds, a member named twice and a user nobody names; the scan needs an owner
two workers ask for at once, an item left for a second turn and more resources
than the limit (others' changes before the count are covered by the initial
stores, those after the find reach nothing that is read again); a half connection needs three requests (a repeated connect, and
a disconnect between its two statements), and so does a reset that deadlocks
with another while a writer is there; stale saves and double checks
need two requests. A text in the rule language needs a nesting within a nesting and
a mark of each class that the parsers treat apart; a trace needs three parties to
have a cycle that is not the requester's; a dialog a second opening
while the first still saves; a walk two pages and a change between them.
Deadlock checking is off throughout: requests, calls and edits end, and
a database lock cycle is a state with a `Deadlock` step, whose resolution the liveness
properties are about.

**Fairness.** `WF(Decide)`, `WF(Call!Settling)`, `WF(Scan)`, and `WF` of a
statement (or of the resolution of a deadlock), of each request or of the whole
step: Node runs every settled callback, database and evaluator calls
settle (the evaluator client aborts after `EVALUATOR_TIMEOUT_MS`, a lost
database connection rejects), and PostgreSQL looks for deadlocks after
`deadlock_timeout`. Nothing is assumed about users, about other writers or about which transaction
a deadlock sacrifices. The frontend has safety properties only: nothing there
promises that an answer comes.

### Where code and documentation disagree

Six runs end in a counterexample to something the repository says, and each has
its passing counterpart that says how far the promise does hold.

| Run | The repository says | What the code does |
|---|---|---|
| `connections_mutual` | "Connections are mutual" (`src/app/backend/docs/API.md:144`) | `hasConnection` is asked before the transaction, and `addConnection` skips a row it finds: a repeated connect that meets a disconnect leaves one direction. `ConnectionsKept`: otherwise they stay mutual, deadlocks, deletions and failures included. |
| `accounts_orphan` | "Delete the user, its resources, ..." (`API.md:131`) | a resource created after the first statement of the deletion keeps a NULL owner. `NoneOrphanedUnlessLate`: nothing else leaves one. |
| `resource_size` | whether a row has bytes is "decided from `contentSize`" (`utils/resources.utils.ts:33`) | clearing empty content writes `content` only; an upload in between keeps its size without bytes. `WholeUnlessRaced`: without overlapping content writers the columns agree. |
| `shared_truncation` | "Truncation is always reported, never silent" (`config.ts:112`) | count and find are two statements, and a resource that is created, or rewritten so that it matches the filters, between them takes a place the count knows nothing of. `OnlyEnteredUnreported`: never more resources are missing in silence than came in between the two, whatever else is created, rewritten and deleted. |
| `own_data` | "no screen can render one user's data under another's identity" (`src/app/frontend/src/lib/api/keys.ts:3`) | the key is fixed when a fetch starts, the user of each of its requests by the cookie when it leaves: a walk over pages that spans a switch (`lib/api/query.ts:57`), in this tab or another, mixes two users' rows and is cached and shown under the first one's key. `WalkExactUnlessShifted`: a walk whose pages were all asked for by its own user is that user's list. |
| `dev_reset_fails` | "Idempotent, and never an error" (`API.md:750`) | two resets hold the locks of their counts and deadlock on the first TRUNCATE; one answers 400. `Answers`, `WholeAndReportedOnce`: the other succeeds, and the counts are never reported twice. |

### What the models leave as the code has it

Writing the models brought up behaviour that no document denies, or that a
property excludes by name (a history variable, or a condition in it that says so).
It is listed for whoever changes the code.

*Rule language and matching*
* `key.text in into` (`lib/bart/parse.ts:162`) and `newKey in attrs` in
  `AttributeEditor` take an inherited name (`constructor`) for a duplicate; a resource with such a key,
  picked into a rule, prints a text the client's own parser refuses, and the coverage gap
  reports it as conflicting.
* `condition:()` is refused by the evaluator and dropped by Format and the blocks;
  an unbalanced condition typed into the blocks prints a text both refuse;
  `Expr.render` drops parentheses.
* A rule's `7.0` matches the attribute 7 in the closure and the coverage
  (`bart/matcher.ts`), not in the engine, where a Double is not a Long.
* A facet chip of an empty list, or of a resource without an owner, finds nothing.
* The diagram draws the arrow of an exchange `from any` that matches only its own party
  green though it was denied (`diagram.ts:252`), closes a single
  exchange's frame as denied when a cycle grants it after a failed request
  (`diagram.ts:483`), and lists a party as loaded but never asked if a cycle ended
  its exchange (`diagram.ts:285`).

*Editors*
* A new rule whose text was deleted saves the blocks of the deleted text
  (`RuleEditorSheet.tsx:108`); block drafts that cannot be printed close without
  the question (`:96`); edits made while saving are lost when the save closes the sheet (`:167`), and a
  sheet discarded while saving saves all the same.
* A save after the list was refreshed replaces another rule or appends (`RulesList.tsx:47`): rules have no ids.
* `PartyAttributesCard` drops what is typed while it saves, while the row goes on
  showing it; rows keep their text after a change made elsewhere.
* The participant picker sets `userId` beneath a mounted `AttributeEditor`, whose
  row keeps its draft (`RequestBuilderPage.tsx:154`); `SimpleRuleEditor` remounts it.

*Session and lists*
* A valid cookie of a user beyond the first page of users loses to the first of the page.
* While the rows of the old query are kept, its pager can step to a page the new one
  does not have, and a list that shrinks leaves the page beyond its end.
* A write refreshes the rows of the query on screen and no other; one returned to within the
  deduplication interval shows its old rows. `/users/facets` stays stale after one's own writes.
  The single `busyId` of `ConnectionsPage` and `GroupsPage` enables a row that is still in flight,
  and only `GroupsPage` fetches anew after a stale refusal.

*Dialogs and verdicts*
* A row stored whose answer or refresh is lost is stored a second time by a retry
  (`ResourceFormDialog.tsx:117`); for a user it is refused as a duplicate.
* A dialog reopened while saving is closed by the earlier save, and a resource's
  next save overwrites the earlier row (`:125`).
* An edit of the request while it is pending lets the old verdict appear beside the new
  pattern (`RequestBuilderPage.tsx:65`).

*Calls*
* With more than 200 rules the coverage question is refused, and no rule shows its coverage.
* The reads of `/me` declare a 403 none answers; 413, 415 and the 400 of `/dev/events` are answered and not declared.
* The hook answers 401 also when the database fails (`utils/auth.utils.ts:33`), and a 4xx of
  something between backend and evaluator counts as the evaluator's refusal.
* The frontend's `ScenarioCounts` lacks `groups`.

## 5. Mutations

Every property of a passing run is paired in `PROJECT.json` (`mutants`) with a
plausible slip in the code (a dropped guard, a missing rollback, a stale write-back, a
count outside its transaction, a field a schema forgets) that breaks it. So no property holds merely
because the model leaves out what could go wrong.

## 6. What is proved

Seven modules end in `Proofs`; each proves theorems of one part of the system with TLAPS, for every
value of its constants: any number of users, requests, resources, policy changes and failures, in any
interleaving.

| Module | Theorem | Statement |
|---|---|---|
| `DecisionProofs` | `ClosureTypes` | `Spec => []TypeOK` |
| | `ClosureNeverExtra` | no party is loaded that the policies read do not force |
| | `ClosureNeverMissing` | when it returns, everyone named is a member |
| | `ClosurePartyNumbers` | the list is the seed, then the discovered, once each, by id |
| | `ClosureReadOnce` | a policy that has been read is not read again |
| | `ClosureImplementsPromise` | the rounds implement `LeastClosure` |
| | `AssemblyPartiesAsRead` | policy, context slot and number are one party's; nobody an unchanged policy names is missing |
| | `AssemblyBlameTrue` | a rejection is blamed on the user whose text was rejected |
| | `DecisionAsPromised` | a decision implements one that is taken at once (`OneDecision`) |
| | `DecisionEvaluatorTold` | a refusal is told only of the evaluator's own refusal, anything else is an outage; a status is what its probes found in time |
| `SharedScanProofs` | `ScanTypes` | types, and never more calls at once than workers |
| | `ScanAssembledOnce` | workers that ask for one owner's system get one assembly |
| | `ScanOneWorkerEach` | no two workers hold one item; none is decided twice |
| | `ScanPageExact` | a page lists exactly the permitted candidates and never answers an outage |
| | `ScanTruncationReported` | no more is left out unreported than came in between the count and the find (`OnlyEnteredUnreported`) |
| | `ScanNeverStuck` | a worker that waits for a system waits for an assembly that runs or has settled; no scan ends unsettled |
| `NetworkProofs` | `ConnectionsHold` | mirrored unless a repeated connect met a disconnect; none lost; none to a deleted user |
| | `ConnectionsConfirmed` | the 204 of a connect or a disconnect is true when it is sent |
| | `ConnectionsNeverStuck` | while a request is unanswered, one of them can go on or is in a cycle for the database to break |
| | `GroupsTyped`, `GroupsBornWithMember` | types; a group nobody has left has a member |
| | `GroupsOthersTextKept` | a rename changes only what its own body names |
| | `GroupsAnswersHeld` | an answer was true at a moment of its call |
| | `NetworkAnswersHeld` | `AnswersHeld` of the run: all of these about every answer of either part |
| `RowsProofs` | `AccountsUnique` | names are unique unless two requests that set a name overlapped |
| | `AccountsValidated` | a stored policy was validated as stored, unless two patches of its user overlapped |
| | `AccountsNoneOrphaned` | every resource has its owner, unless created while the owner was deleted |
| | `AccountsOmittedUntouched` | a patch does not change what its body omits |
| | `RowsServedOnPermit` | bytes reach another user on a permit only |
| | `RowsWhole` | the content columns are one upload's unless two writers overlapped |
| | `RowsNothingWrittenBack` | a save stores only what its own request asked for |
| `DevDatabaseProofs` | `DevWholeAndReportedOnce` | what a seed, a user or a group wrote is there whole or not at all; no row is reported deleted twice |
| | `DevSeedOnEmpty` | a seed commits into a database without anyone else's users and groups, unless one who writes some ran beside it |
| | `DevNeverStuck` | while a request is unanswered, one of them can go on or is in a cycle for the database to break |
| `ScreensProofs` | `ScreensActingIsCookie` | a tab shows itself to act as whom its requests are from, unless another tab wrote the cookie |
| | `ScreensWalkExactUnlessShifted` | a walk that nothing shifted ends with every row once, or says that it was cut |
| | `ScreensSettledShowsTyped` | a list that waits for nothing shows the filter and page on screen |
| | `ScreensSavedOnce`, `ScreensClosedStored` | one opening stores one row, and what it showed when its save closes it |
| | `ScreensVerdictShown` | a verdict on screen is of the request on screen |
| | `ScreensShownIsSaved` | blocks show their text, rows what a save stores |
| | `ScreensEditsKept` | a write to the rules changes the one it is about; the sheet closes clean or on the user's word |
| `LanguageProofs` | `LanguageMatchedAsTheEngine` | the matcher, the coverage answer and accepted patterns agree with what the engine reads |
| | `LanguageFacetsTrue` | a chip counts the rows a click on it finds |
| | `LanguageConditionDecided` | no error of a condition decides it |
| | `LanguageSaveGated` | in the blocks, Save is held exactly while a row does not parse, and a row that parses shows what is saved |

### The arguments

**Closure** (`ClosureInv`). `NeverExtra` alone is not inductive: a round adds
what its *frontier* named, and only `RoundShape` (the frontier is not analysed
yet, and lies in `members`) makes a closed set contain what it adds.
`NeverMissing` needs `AnalysedInside` (whoever an analysed policy names is a
member already) and, for the clause about stored policies, `ReadsFresh`;
`PartyNumbers` needs `Bookkeeping` (`discovered` lists without repetition just
the members the seed does not) and the fact that sorting permutes, which
`ListLemmas!AscendingOrder` derives from scratch for integer lists (`SetToSeq`
and the sort are CHOOSE expressions, so that they have a value must be proved).
The refinement maps a `ReadPolicy` step to a sample, `Finish` to the answer and
all else to a stutter; that the sampled user is *needed* is `NeverExtra` again.

**Assembly** (`AssemblyInv`) adds to it that the closure is over once its parties are
used (`StageShape`), that the rows hold one text for each party in its order, empty for
one that has gone (`RowsShape`), and that the context does the same (`ContextShape`).
That an unchanged policy's parties are all there is `NeverMissing` carried through the two
later queries: as long as nothing was written, what they load is what the closure read.

**A decision at once** (`DecisionInv`). Whoever's policy the closure has read had it at a moment of the request
(`ReadsOfMoments`), and the rows of the parties are of one moment, since one query reads them (`RowsOfMoment`). With the
policies read, and the stored ones of whoever was not, as the sample, the closed sets are those of the
closure, so that the least of them is the members (`DecidesAsForced`); an answer of the evaluator maps to `Decides`
or `Refuses`, a change of a policy to `Write`, a failure to `Fails`, and every other step to a stutter.

**A call** (`CallInv`). Nothing else than the evaluator writes a refusal, so what came back has one
of a few forms (`Told`: fine, a failure, or a refusal that the body deserved, by the first check it
does not pass), and the client tells these apart by form (`OutcomeShape`). For the status, a timer runs exactly as
long as its probe is open, so whatever a probe says without its timer having fired was heard in time (`StatusShape`).

**Scan** (`ScanInv`). `PageExact` at the moment of the reply needs
that every candidate is decided, hence that the cursor is past the end when all
workers are done (`Unsettled`: a worker gives up only there or by settling the
scan) and that whatever is behind the cursor is decided or held by somebody
(`BehindHeld`). That the verdicts land in the right slots (`Recorded`) needs that
no other worker holds the item (`HeldByOne`), which needs that nobody is ahead of
the cursor (`HeldBehind`). Workers go on after an error has settled the
scan, so the pool's part holds as long as one of them runs (`Pooled`). That the
find returns resources at all needs `AscendingOrder` again (`NewestFirstLists`).
For truncation (`CountedEnough`, `StoreCounted`) no more resources are there at the find than were
counted and came in since. A find that keeps fewer than are there has kept as many as its limit
(`FrontSize`: the front of a list of distinct members has as many members as places); if the
count did not exceed these, then those left out are no more than came in.

**Connections** (`ConnectionsInv`). What is stored is mirrored only because of what open
transactions are about to do, so the invariant says of each what it has written by each statement
(`Written`) and that locks keep these writes apart (`Locked`: an inserted row is new, a deleted one
stored, each one transaction's). On this rests `BothWays`: a row without its mirror
would have to come from a transaction that commits one of them, which a connect does only if
a SELECT found the other and a disconnect then took it, and until `met` no connect and disconnect of one pair are in flight together
(`NoneMeets`). That no row is left to a deleted user needs that a deletion about to commit takes
every stored row along and no transaction has inserted one (`LeavingNone`). Among connects only, none
is lost because one the database aborts in a deadlock leaves another transaction that has
inserted a row of the pair (`NoneLostYet`). The 204s add that a disconnect at its commit has deleted
both rows, or found none of a pair into which none has come since.

**Groups** (`GroupsInv`, for the answers with `SeenInv`). Memberships are of accounts in groups that are there
(`Members`). The group of a create that has not committed is not there, is
nobody else's, and no call has found it (`Creating`): so a commit never
overwrites a group, and one that was deleted stays so. Each later statement of a call keeps what an
earlier one found as something that *was* so (`Seen`), which is all an answer can claim (`Told`).
A step of the network is a step of one part, so its theorem follows from those of the parts; `Rows` is put together alike.

**Accounts** (`AccountsInv`). Uniqueness is checked long before it is relied on: as long as no two
requests that set a name overlapped, at most one is in flight and the name it found free is still
free (`NamesFree`). In the same way the row a patch loaded is still stored and what it will store
is validated (`PatchesFresh`), and a deletion past its first statement has swept
everything of its user (`SweptClean`).

**Content** (`ContentInv`). A save writes what differs from the loaded row, so the result is
whole only because, without an overlap, what is loaded is what is stored (`LoadedFresh`). `Permits` keeps
every policy the owner had since the row was loaded among those a permit may come from, and a request
at its bytes permitted by one.

**Seed and reset** (`DevInv`). What a handler has still to do is the rest of its program (`Fits`), so
what its transaction has inserted is what that rest does not insert (`Inserts`), and a commit makes all of it
visible at once (`Whole`). A reset that has not committed keeps every row it counted, under its
shared locks (`Guards`): nobody else can truncate them, since two transactions' locks are compatible (`Compatible`).
Once it commits they are gone (`Gone`), and for good, because a row is committed once (`NotYet`); so no later
reset counts them (`Apart`). A seed beside which only resets run has found all users and groups there are (`Knows`),
so that having found none there are none.

**Never stuck.** Liveness rests on nobody waiting for what will never come, and this half of it is safety. In a scan a worker
waits for a system only after somebody asked for it, and a system asked for is pending until it settles, whoever
of its workers failed (`Asked`). In the database a request that waits does so for another's lock or row,
and that other is unanswered, because an answered request holds nothing (`AnsweredHoldsNothing`; `Free` in `DevInv`). So if none
can go on, each unanswered request waits for an unanswered one; there are finitely many, a least set that waits only
for its own members exists, and whoever is in it waits for itself (`ListLemmas!LeastMember`, `SomeCycle`,
`SomeoneWaitsForItself`): a cycle, which the database breaks.

**Blocks** (`BlocksInv`). The editors of rows report to the sheet under the identity of their term, and what they
report must be what is on screen: no more (a term that was removed, a kind of party that has no rows), or Save is held for ever, and no
less. This needs that identities are never given twice (`Identified`), so that a report of one term is not taken back by
another, and that each row shows the attribute under its own key unless it does not parse (`RowsOf`). Each edit
is one lemma; most of them change one term and leave the editors of the others (`TermSwapped`, `TermUpdated`).

**Screens.** Each part has an invariant of its own and a step of the tab is one of a part (`PartSteps`), so
that each theorem follows from its part's. `ListInv`: the query on screen is on its way or was the one
applied (`AskedOrThere`), and what arrived for another is not shown. `WalkInv`: what an unshifted walk has
collected is the front of the one list that was there since it began (`SoFar`). `FormInv`: as long as openings
do not cross, the save under way is the opening's only one and carries what the form shows (`OneSave`, `StoredSoFar`), and
a row once created is remembered for the retry (`Remembers`, `OneRow`). `VerdictInv`: only the last run's verdict is
shown and an edit changes whose run it is. `CardInv`: unless something drifted, each row parses to the draft's value
(`RowsJudged`, `RowsShown`). `RulesInv`: the blocks follow the text wherever it has some (`BlocksFollow`), and until
its write is accepted the sheet's index is still that rule's (`SheetOfServer`, `WriteMeant`).

**Attributes.** Equality goes up by one level at a time: two scalars have one sort key exactly when the engine
reads them alike, if no number is written with a point it does not need (`KeysAlike`, `EnginePlain`); so have
two bags (`BagsAlike`), two values (`EqualAlike`), a pattern and a party (`MatchAlike`). The nearest gap is a
loop, and its invariant is that the best so far is first by all four criteria among the rows seen (`BestKept`),
which rests on these criteria ordering rows strictly and totally (`BetterOrders`). A chip's text finds the
values rendered as that text and no others (`TextFound`).

**Conditions.** A part is *faithful* if the value it comes to, unless it is an error, is the only answer it can have whatever
the ill-typed parts beneath it answer. Each operator keeps this (a lemma for each), and the
places of an expression are numbers, so that faithfulness of all parts is an induction over a set of naturals
(`ListLemmas!InductiveSet`), which also shows that the recursive functions `Eval` and `Answers` have values.

### Assumptions

They are those the modules state with their constants, and TLC evaluates them in the runs:
`ClosureAssumption` (finitely many users with integer ids, of which only the order is used; a seed that
repeats nobody, as the callers ensure; a matching relation into the index), `ScanAssumption` (finitely many
resources, numbered in the order of creation, each with an owner, and at least one worker),
`ConnectionsAssumption` (finitely many users and requests), `DevAssumption` (finitely many requests),
`SessionAssumption` (finitely many users with numbers for ids; pages that hold something),
`UploadsAssumption` (an upload has exactly the four content columns), `NetworkAssumption` (a body names
fields of a group), `MatchingAssumption` (what JavaScript renders of a number denotes the same number, and has a point
only before a fraction; "true" and "false" are no numbers) and `QuestionsAssumption` (stored attributes are JSON
that was accepted at the door, rows have ids of their own, an expression's parts come before it, and
the right of `in` is a name, as in the grammar). The others say that a value that stands for absence is none of the values
present, or that a new row has a new id. `ScreensShownIsSaved` has the one hypothesis that TLC cannot evaluate:
the model value `None` is not a function.

### Only model-checked

`TypedMeaningKept`, `TypedRefusedRight`, `DiagramTold` and `CallsCarried`: rules, traces
and schemas nest to any depth, so their readings are recursive operators, of which the prover can say
nothing for all inputs. (The calls of `CallsCarried` are finitely many, and TLC goes through all of them.)
And all liveness (the scan settles; every decision, call and request is answered), which like
ENABLED is out of its reach: proved is that nobody gets stuck, model-checked that, given fairness, everyone
therefore arrives.

## 7. Not modelled

* The **BART engine** that the evaluator service wraps: an empty submodule in this repository.
  Its answers are arbitrary where the backend relies on none of them, and in `Trace` and `RuleGrammar`
  what its grammar and the captured traces show.
* **Components from a library** (`components/ui`), layout and theme, the shell around the pages; highlighting and
  suggestions of the Monaco editor; pickers. They render state that other components hold.
* **Wording**: the text of policies and requests as the emitter prints it beyond its
  values, labels of diagrams, messages of errors.
* `/healthz`, `/swagger`, configuration and start-up; the error handler with `DEBUG` on.
* Substring search and ordering of lists in SQL; the two queries of `GET /dev/events`.
* The refresh of kept lists by SWR after a write, beyond the rows the current screen shows.
* The pool of database connections is taken to be large enough. A crash of the process is a failed statement:
  an open transaction rolls back, and nothing else of the backend's state survives.

## 8. Plan

1. An abstract specification of the shared page: one verdict for each candidate, each as at some moment of the
   request, and the refinement proved with `OneDecision` as the verdict.
2. The kept lists after a write: which keys a write refreshes, and what a list returned to within the
   deduplication interval shows.
3. The pickers of parties and resources, with the search they debounce.
