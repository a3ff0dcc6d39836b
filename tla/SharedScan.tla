---------------------------- MODULE SharedScan ----------------------------
(***************************************************************************)
(* GET /me/shared: decideSharedWith of bart/shared.service.ts on the       *)
(* worker pool mapWithConcurrency of utils/general.utils.ts.  It counts    *)
(* the resources of other users, loads the newest of them up to a limit,   *)
(* and has each decided by the evaluator, at most so many at a time; the   *)
(* resources of one owner share one assembled policy system, memoised as   *)
(* a promise.                                                              *)
(*                                                                         *)
(* A worker runs without interruption between two awaits: taking an item   *)
(* and asking for its owner's system; sending the request once the system  *)
(* is there; storing the verdict.  Assembly and evaluation are calls with  *)
(* any outcome here.  A rejection (the evaluator found a stored policy     *)
(* invalid) skips rows; an outage, or a stored row that cannot be written  *)
(* as a policy or a request, is thrown: the first error settles the scan,  *)
(* the other workers run on unheard.                                       *)
(***************************************************************************)
EXTENDS Naturals, SequencesExt

CONSTANTS
    Resources,          \* resources, numbered as ORDER BY lists them, from the last
    Owners,             \* the other users
    OwnerOf,            \* the owner of each resource
    MaxCandidates,      \* maxSharedCandidates
    Concurrency,        \* sharedConcurrency
    MaxChanges          \* bound: transactions of others that change the store

ASSUME ScanAssumption ==
    /\ Resources \subseteq Nat
    /\ IsFiniteSet(Resources)
    /\ OwnerOf \in [Resources -> Owners]
    /\ MaxCandidates \in Nat
    /\ Concurrency \in Nat \ {0}
    /\ MaxChanges \in Nat

VARIABLES
    store,      \* the resources of other users that now match the filters
    changes,    \* changes of the store so far
    phase,      \* the await the scan is at: "count", "find", "index", "scan" or "done"
    totalCount, \* the const total
    candidates, \* the array of that name
    systems,    \* the promise memoised for each owner: "none", "pending" or settled
    cursor,     \* the pool's cursor (from 1)
    job,        \* each worker: its stage and the index of its item
    results,    \* the pool's results
    answer,     \* what the scan's promise settled as, "none" before
    assemblies, \* history: assemblies started for each owner
    outcome,    \* history: how the decision on each candidate ended
    entered     \* history: the resources that came into the store between the count and the find

storeVars == <<store, changes>>
poolVars == <<systems, cursor, job, results, assemblies, outcome>>
queryVars == <<totalCount, candidates, entered>>
scanVars == <<store, changes, phase, totalCount, candidates, systems, cursor, job, results,
             answer, assemblies, outcome, entered>>

Errors == {"rejected", "outage", "unwritable"}
MaxWorkers == Cardinality(Resources)
Workers == 1 .. MaxWorkers
Owner(i) == OwnerOf[candidates[i]]
Idle == [stage |-> "over", item |-> 0]

\* ORDER BY createdAt DESC
NewestFirst(S) ==
    CHOOSE s \in [1 .. Cardinality(S) -> S] :
        \A i, j \in 1 .. Cardinality(S) : i < j => s[i] > s[j]

\* (mutants) The count has the limit of the find; the cursor moves on only after
\* the item.
Counted_Limited == IF Cardinality(store) < MaxCandidates THEN Cardinality(store) ELSE MaxCandidates
Advanced_Late == cursor

\* Array.from({ length: max(1, min(limit, items.length)) }, worker)
Started(n) == {w \in Workers : w <= Concurrency /\ (w <= n \/ w = 1)}

Counted == Cardinality(store)
Advanced == cursor + 1

-----------------------------------------------------------------------------
ScanInit ==
    /\ store \in SUBSET Resources
    /\ changes = 0
    /\ phase = "count"
    /\ totalCount = 0
    /\ candidates = <<>>
    /\ systems = [o \in Owners |-> "none"]
    /\ cursor = 1
    /\ job = [w \in Workers |-> Idle]
    /\ results = <<>>
    /\ answer = "none"
    /\ assemblies = [o \in Owners |-> 0]
    /\ outcome = <<>>
    /\ entered = {}

\* Resource.count
Count ==
    /\ phase = "count"
    /\ totalCount' = Counted
    /\ phase' = "find"
    /\ UNCHANGED <<storeVars, candidates, entered, poolVars, answer>>

\* Resource.findAll, a statement of its own.
FindAll ==
    /\ phase = "find"
    /\ LET found == NewestFirst(store)
       IN  candidates' = SubSeq(found, 1, IF Len(found) < MaxCandidates THEN Len(found)
                                          ELSE MaxCandidates)
    /\ phase' = "index"
    /\ UNCHANGED <<storeVars, totalCount, entered, poolVars, answer>>

\* loadPartyIndex, then the pool starts.
Begin ==
    /\ phase = "index"
    /\ phase' = "scan"
    /\ job' = [w \in Workers |-> IF w \in Started(Len(candidates))
                                THEN [stage |-> "loop", item |-> 0] ELSE Idle]
    /\ results' = [i \in 1 .. Len(candidates) |-> "unset"]
    /\ outcome' = [i \in 1 .. Len(candidates) |-> "none"]
    /\ UNCHANGED <<storeVars, queryVars, systems, cursor, assemblies, answer>>

\* One of the three queries fails.
QueryFails ==
    /\ phase \in {"count", "find", "index"}
    /\ phase' = "done"
    /\ answer' = "failed"
    /\ UNCHANGED <<storeVars, queryVars, poolVars>>

\* (mutant) Only a settled assembly is memoised.
Memoised_Settled(o) == systems[o] \notin {"none", "pending"}

Memoised(o) == systems[o] # "none"

\* The head of a worker's loop: the next item, and systemFor its owner.
Take(w) ==
    /\ job[w].stage = "loop"
    /\ IF cursor > Len(candidates)
       THEN /\ job' = [job EXCEPT ![w] = Idle]
            /\ UNCHANGED <<cursor, systems, assemblies>>
       ELSE /\ job' = [job EXCEPT ![w] = [stage |-> "assembly", item |-> cursor]]
            /\ cursor' = Advanced
            /\ IF Memoised(Owner(cursor))
               THEN UNCHANGED <<systems, assemblies>>
               ELSE /\ systems' = [systems EXCEPT ![Owner(cursor)] = "pending"]
                    /\ assemblies' = [assemblies EXCEPT ![Owner(cursor)] = @ + 1]
    /\ UNCHANGED <<storeVars, phase, queryVars, results, outcome, answer>>

\* assemblePolicySystem of one owner settles.
Assemble(o) ==
    /\ systems[o] = "pending"
    /\ \E end \in {"ready"} \cup Errors : systems' = [systems EXCEPT ![o] = end]
    /\ UNCHANGED <<storeVars, phase, queryVars, cursor, job, results, assemblies,
                   outcome, answer>>

\* (mutant) A verdict goes to the slot of the last item taken.
Slot_Cursor(w) == cursor - 1

\* results[i], and the errors that skip a row.
Slot(w) == job[w].item
Skips(e) == e = "rejected"

\* The item of w ends: a verdict or a skip is stored, any other error thrown.
End(w, e) ==
    /\ outcome' = [outcome EXCEPT ![job[w].item] = e]
    /\ IF e \in Errors /\ ~Skips(e)
       THEN /\ job' = [job EXCEPT ![w] = Idle]
            /\ answer' = IF answer = "none" THEN e ELSE answer
            /\ phase' = "done"
            /\ UNCHANGED results
       ELSE /\ job' = [job EXCEPT ![w] = [stage |-> "loop", item |-> 0]]
            /\ results' = [results EXCEPT ![Slot(w)] = IF e = "permit" THEN e ELSE "deny"]
            /\ UNCHANGED <<phase, answer>>

\* (mutant) Nobody is told of an assembly that failed.
Settled_Ready(o) == systems[o] = "ready"

Settled(o) == systems[o] \notin {"none", "pending"}

\* The owner's system is there: the request is written and sent.
Resume(w) ==
    /\ job[w].stage = "assembly"
    /\ LET end == systems[Owner(job[w].item)]
       IN  /\ Settled(Owner(job[w].item))
           /\ IF end # "ready" THEN End(w, end)
              ELSE \/ /\ job' = [job EXCEPT ![w].stage = "evaluate"]
                      /\ UNCHANGED <<phase, results, outcome, answer>>
                   \/ End(w, "unwritable")
    /\ UNCHANGED <<storeVars, queryVars, systems, cursor, assemblies>>

\* The evaluator answers.
Evaluate(w) ==
    /\ job[w].stage = "evaluate"
    /\ \E e \in {"permit", "deny", "rejected", "outage"} : End(w, e)
    /\ UNCHANGED <<storeVars, queryVars, systems, cursor, assemblies>>

\* Promise.all of the workers settles without an error.
Finish ==
    /\ phase = "scan"
    /\ \A w \in Workers : job[w] = Idle
    /\ phase' = "done"
    /\ answer' = "page"
    /\ UNCHANGED <<storeVars, queryVars, poolVars>>

\* Other requests create resources, one or those of a scenario, or rewrite the
\* attributes and the name of one that the filters ask for: it comes to its own
\* place, newest or not.
Enter(rows) ==
    /\ changes < MaxChanges
    /\ rows # {} /\ rows \cap store = {}
    /\ store' = store \cup rows
    /\ changes' = changes + 1
    /\ entered' = IF phase = "find" THEN entered \cup rows ELSE entered
    /\ UNCHANGED <<phase, totalCount, candidates, poolVars, answer>>

\* They delete resources, one or all of a user, or rewrite what the filters ask for.
Leave(rows) ==
    /\ changes < MaxChanges
    /\ rows # {} /\ rows \subseteq store
    /\ store' = store \ rows
    /\ changes' = changes + 1
    /\ UNCHANGED <<phase, queryVars, poolVars, answer>>

Scan ==
    \/ Count \/ FindAll \/ Begin \/ QueryFails \/ Finish
    \/ \E w \in Workers : Take(w) \/ Resume(w) \/ Evaluate(w)
    \/ \E o \in Owners : Assemble(o)

ScanNext == Scan \/ \E rows \in SUBSET Resources : Enter(rows) \/ Leave(rows)

\* Node resumes every settled await; queries and evaluator calls time out.
ScanFairness == WF_scanVars(Scan)

ScanSpec == ScanInit /\ [][ScanNext]_scanVars
FairScan == ScanSpec /\ ScanFairness
-----------------------------------------------------------------------------
(* Properties *)

\* What the page lists: candidates.filter((_, i) => verdicts[i]).
Listed == {candidates[i] : i \in {j \in DOMAIN results : results[j] = "permit"}}
Truncated == totalCount > Len(candidates)

\* Types; a worker holds an item exactly while it waits for a call, and at most
\* Concurrency of them do.
TypeOK ==
    /\ store \subseteq Resources
    /\ changes \in 0 .. MaxChanges
    /\ phase \in {"count", "find", "index", "scan", "done"}
    /\ totalCount \in 0 .. Cardinality(Resources)
    /\ candidates \in Seq(Resources)
    /\ systems \in [Owners -> {"none", "pending", "ready"} \cup Errors]
    /\ cursor \in 1 .. Len(candidates) + 1
    /\ job \in [Workers -> [stage : {"loop", "assembly", "evaluate", "over"},
                           item : 0 .. Len(candidates)]]
    /\ \A w \in Workers : job[w].item # 0 <=> job[w].stage \in {"assembly", "evaluate"}
    /\ Cardinality({w \in Workers : job[w].item # 0}) <= Concurrency
    /\ \A i \in DOMAIN results : results[i] \in {"unset", "permit", "deny"}
    /\ answer \in {"none", "page", "failed", "outage", "unwritable"}

\* No two workers hold one item, and a decided item is never taken again: the
\* shared cursor gives each candidate to one worker, once.
OneWorkerEach ==
    /\ \A v, w \in Workers : (v # w /\ job[v].item # 0) => job[v].item # job[w].item
    /\ \A w \in Workers : job[w].item # 0 => outcome[job[w].item] = "none"

\* A page lists exactly the candidates whose own decision was a permit, however
\* the calls overlapped and whichever rows were skipped; and an outage is never
\* answered with a page ("An outage propagates instead, for a 503",
\* shared.service.ts), whichever worker met it and however late.
PageExact ==
    answer = "page" =>
        /\ \A i \in DOMAIN candidates : outcome[i] \in {"permit", "deny", "rejected"}
        /\ Listed = {candidates[i] : i \in {j \in DOMAIN outcome : outcome[j] = "permit"}}

\* "concurrent workers on the same owner must await one assembly, not race two".
AssembledOnce == \A o \in Owners : assemblies[o] <= 1

\* "Truncation is always reported, never silent" (config.ts): a matching
\* resource that the find left out, was there when it was counted.
TruncationReported ==
    [][FindAll => (Range(candidates') # store => totalCount > Len(candidates'))]_scanVars

\* No more resources are left out in silence than came into the store between the
\* count and the find, whatever others create, delete and rewrite meanwhile.
OnlyEnteredUnreported ==
    [][FindAll => \/ totalCount > Len(candidates')
               \/ Cardinality(store \ Range(candidates')) <= Cardinality(entered)]_scanVars

\* Nobody waits in vain: a worker that waits for its owner's system waits for an
\* assembly that somebody started and that runs or has settled, also when the one
\* who started it failed; and the scan is not over before it has settled.
NobodyForgotten ==
    /\ answer = "none" => phase # "done"
    /\ \A w \in Workers :
          \/ job[w] = Idle \/ job[w].stage \in {"loop", "evaluate"}
          \/ /\ job[w].stage = "assembly"
             /\ systems[Owner(job[w].item)] = "pending" \/ Settled(Owner(job[w].item))

\* The scan settles, whoever fails while others wait for the same assembly.
Settles == <>(answer # "none")
=============================================================================
