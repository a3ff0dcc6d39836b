------------------------- MODULE SharedScanProofs -------------------------
(***************************************************************************)
(* Theorems about the shared scan, for every set of resources and owners,  *)
(* every limit and every number of workers.                                *)
(***************************************************************************)
EXTENDS SharedScan, ListLemmas

N == Len(candidates)

Phases == {"count", "find", "index", "scan", "done"}
Stages == {"loop", "assembly", "evaluate", "over"}
SystemStates == {"none", "pending", "ready"} \cup Errors
Outcomes == {"none", "permit", "deny"} \cup Errors
Replies == {"none", "page", "failed"} \cup Errors

\* What the proofs need of the types.
Typed ==
    /\ store \subseteq Resources
    /\ phase \in Phases
    /\ answer \in Replies
    /\ N \in Nat
    /\ DOMAIN candidates = 1 .. N
    /\ \A i \in 1 .. N : candidates[i] \in Resources
    /\ N > 0 => 1 \in Workers
    /\ cursor \in 1 .. N + 1
    /\ systems \in [Owners -> SystemStates]
    /\ assemblies \in [Owners -> Nat]
    /\ job \in [Workers -> [stage : Stages, item : 0 .. N]]
    /\ \A w \in Workers : job[w].item # 0 <=> job[w].stage \in {"assembly", "evaluate"}

\* Nothing has been started before the pool has.
NotStarted ==
    phase \in {"count", "find", "index"} =>
        /\ cursor = 1
        /\ answer = "none"
        /\ \A w \in Workers : job[w] = Idle

\* An owner's assembly has been started once it is memoised, and once only.
OnceEach == \A o \in Owners : assemblies[o] = IF systems[o] = "none" THEN 0 ELSE 1

\* From the start of the pool to the end of its last worker.
Pooled == phase = "scan" \/ answer = "page" \/ \E w \in Workers : job[w] # Idle

\* Items behind the cursor are decided or held by one worker; the others are
\* untouched.
Shapes ==
    /\ outcome \in [1 .. N -> Outcomes]
    /\ results \in [1 .. N -> {"unset", "permit", "deny"}]
AheadUntouched == \A i \in 1 .. N : i >= cursor => outcome[i] = "none"
BehindHeld ==
    \A i \in 1 .. N : i < cursor /\ outcome[i] = "none" => \E w \in Workers : job[w].item = i
HeldBehind ==
    \A w \in Workers : job[w].item # 0 => job[w].item < cursor /\ outcome[job[w].item] = "none"
HeldByOne == \A v, w \in Workers : v # w /\ job[v].item # 0 => job[v].item # job[w].item
Recorded == \A i \in 1 .. N : results[i] = "permit" <=> outcome[i] = "permit"
Dealt ==
    Pooled => Shapes /\ AheadUntouched /\ BehindHeld /\ HeldBehind /\ HeldByOne /\ Recorded

\* As long as the scan has not settled no error was thrown, and workers give up
\* only when every item has been taken.
Unsettled ==
    phase = "scan" =>
        /\ answer = "none"
        /\ \A i \in 1 .. N : outcome[i] \in {"none", "permit", "deny", "rejected"}
        /\ (\A w \in Workers : job[w] = Idle) => cursor = N + 1

\* A page is the end of everything.
Paged ==
    answer = "page" =>
        /\ phase = "done"
        /\ \A w \in Workers : job[w] = Idle
        /\ \A i \in 1 .. N : outcome[i] \in {"permit", "deny", "rejected"}

\* The inductive invariant.
ScanInv ==
    /\ Typed
    /\ NotStarted
    /\ OnceEach
    /\ Dealt
    /\ Unsettled
    /\ Paged

\* A finite set of numbers can be listed newest first.
LEMMA NewestFirstLists ==
  ASSUME NEW S \in SUBSET Nat, IsFiniteSet(S)
  PROVE  /\ NewestFirst(S) \in [1 .. Cardinality(S) -> S]
         /\ \A i, j \in 1 .. Cardinality(S) : i < j => NewestFirst(S)[i] > NewestFirst(S)[j]
<1> DEFINE n == Cardinality(S)
           Descends(s) == \A i, j \in 1 .. n : i < j => s[i] > s[j]
<1>1. n \in Nat /\ ExistsBijection(1 .. n, S)
  BY FS_CardinalityType
<1> HIDE DEF n
<1>2. PICK f \in [1 .. n -> S] : \A i, j \in 1 .. n : f[i] = f[j] => i = j
  BY <1>1 DEF ExistsBijection, Bijection, Injection, IsInjective
<1>3. f \in [1 .. n -> Int]
  <2>1. \A x \in S : x \in Int
    OBVIOUS
  <2>2. f \in [1 .. n -> S]
    BY <1>2
  <2>3. \A i \in 1 .. n : f[i] \in Int
    BY <2>1, <2>2
  <2>4. QED
    BY <2>2, <2>3
<1>4. PICK place \in Bijection(1 .. n, 1 .. n) :
         \A i, j \in 1 .. n : i < j => f[place[i]] <= f[place[j]]
  BY <1>1, <1>3, AscendingOrder
<1>5. /\ place \in [1 .. n -> 1 .. n]
      /\ \A i, j \in 1 .. n : place[i] = place[j] => i = j
  BY DEF Bijection, Injection, IsInjective
<1> DEFINE t == [i \in 1 .. n |-> f[place[n + 1 - i]]]
<1>6. \A i \in 1 .. n : n + 1 - i \in 1 .. n
  BY <1>1
<1>7. t \in [1 .. n -> S]
  BY <1>2, <1>5, <1>6
<1>8. ASSUME NEW i \in 1 .. n, NEW j \in 1 .. n, i < j PROVE t[i] > t[j]
  <2> DEFINE a == n + 1 - i
             b == n + 1 - j
  <2>1. a \in 1 .. n /\ b \in 1 .. n /\ b < a
    BY <1>1, <1>8
  <2> HIDE DEF a, b
  <2>2. f[place[b]] <= f[place[a]]
    BY <1>4, <2>1
  <2>3. place[a] # place[b]
    BY <1>5, <2>1
  <2>4. place[a] \in 1 .. n /\ place[b] \in 1 .. n
    BY <1>5, <2>1
  <2>5. f[place[a]] # f[place[b]]
    BY <1>2, <2>3, <2>4
  <2>6. f[place[a]] \in Int /\ f[place[b]] \in Int
    BY <1>3, <2>4
  <2>7. t[i] = f[place[a]] /\ t[j] = f[place[b]]
    BY DEF a, b
  <2>8. QED
    BY <2>2, <2>5, <2>6, <2>7
<1>9. Descends(t)
  BY <1>8
<1>10. NewestFirst(S) = CHOOSE s \in [1 .. n -> S] : Descends(s)
  BY DEF NewestFirst, n
<1> HIDE DEF t, Descends
<1>11. /\ (CHOOSE s \in [1 .. n -> S] : Descends(s)) \in [1 .. n -> S]
       /\ Descends(CHOOSE s \in [1 .. n -> S] : Descends(s))
  BY <1>7, <1>9
<1>12. QED
  BY <1>10, <1>11 DEF n, Descends

\* The candidates are a list of resources, and empty when there are no resources
\* to be listed (and so no workers).
LEMMA FindFacts ==
  ASSUME ScanInv, FindAll
  PROVE  /\ Len(candidates') \in Nat
         /\ DOMAIN candidates' = 1 .. Len(candidates')
         /\ \A i \in 1 .. Len(candidates') : candidates'[i] \in Resources
         /\ Len(candidates') > 0 => 1 \in Workers
         /\ candidates' \in Seq(Resources)
<1> DEFINE found == NewestFirst(store)
           size == Cardinality(store)
           n == IF Len(found) < MaxCandidates THEN Len(found) ELSE MaxCandidates
<1>1. store \subseteq Resources /\ IsFiniteSet(store) /\ store \in SUBSET Nat
  BY ScanAssumption, FS_Subset DEF ScanInv, Typed
<1>2. size \in Nat
  BY <1>1, FS_CardinalityType
<1>3. found \in [1 .. size -> store]
  BY <1>1, NewestFirstLists
<1>4. Len(found) = size
  BY <1>2, <1>3
<1>5. candidates' = SubSeq(found, 1, n) /\ n \in Nat /\ n <= size
  BY <1>2, <1>4, ScanAssumption DEF FindAll
<1>6. candidates' = [i \in 1 .. n |-> found[i]]
  BY <1>5
<1>7. Len(candidates') = n /\ DOMAIN candidates' = 1 .. n
  BY <1>5, <1>6
<1>8. \A i \in 1 .. n : candidates'[i] \in Resources
  <2> HIDE DEF found, n
  <2>1. ASSUME NEW i \in 1 .. n PROVE candidates'[i] \in Resources
    <3>1. i \in 1 .. size
      BY <1>2, <1>5
    <3>2. candidates'[i] = found[i]
      BY <1>6
    <3>3. QED
      BY <1>1, <1>3, <3>1, <3>2
  <2>2. QED
    BY <2>1
<1>9. ASSUME n > 0 PROVE 1 \in Workers
  <2>1. size # 0
    BY <1>2, <1>5, <1>9
  <2>2. Resources # {}
    BY <1>1, <2>1, FS_EmptySet
  <2>3. Cardinality(Resources) \in Nat /\ Cardinality(Resources) # 0
    BY <2>2, ScanAssumption, FS_CardinalityType, FS_EmptySet
  <2>4. QED
    BY <2>3 DEF Workers, MaxWorkers
<1>10. candidates' \in Seq(Resources)
  <2> HIDE DEF found, n
  <2>1. candidates' \in [1 .. n -> Resources]
    BY <1>6, <1>7, <1>8
  <2>2. n \in Nat
    BY <1>5
  <2> HIDE DEF n
  <2>3. \A f : f \in [1 .. n -> Resources] => f \in Seq(Resources)
    BY <2>2
  <2>4. QED
    BY <2>1, <2>3
<1>11. QED
  BY <1>5, <1>7, <1>8, <1>9, <1>10

\* A list that is as long as the set it lists has all of it.
LEMMA WholeListed ==
  ASSUME NEW S \in SUBSET Nat, IsFiniteSet(S)
  PROVE  Range(NewestFirst(S)) = S
<1> DEFINE n == Cardinality(S)
           f == NewestFirst(S)
<1>1. n \in Nat /\ 1 .. n \subseteq Int
  BY FS_CardinalityType
<1>2. /\ f \in [1 .. n -> S]
      /\ \A i, j \in 1 .. n : i < j => f[i] > f[j]
  BY NewestFirstLists
<1> HIDE DEF f, n
<1>3. \A i, j \in 1 .. n : f[i] = f[j] => i = j
  <2>1. ASSUME NEW i \in 1 .. n, NEW j \in 1 .. n, f[i] = f[j] PROVE ~(i < j)
    <3>1. f[i] \in Nat
      BY <1>2
    <3>2. ~(f[i] > f[j])
      BY <2>1, <3>1
    <3>3. QED
      BY <1>2, <3>2
  <2>2. \A i, j \in 1 .. n : i < j \/ j < i \/ i = j
    BY <1>1
  <2>3. QED
    BY <2>1, <2>2
<1>4. f \in Injection(1 .. n, S)
  BY <1>2, <1>3 DEF Injection, IsInjective
<1>5. IsFiniteSet(1 .. n) /\ Cardinality(1 .. n) = n
  BY <1>1, FS_Interval
<1>6. f \in Surjection(1 .. n, S)
  BY <1>4, <1>5, FS_Injection DEF n
<1>7. Range(f) = S
  BY <1>2, <1>6 DEF Surjection, Range
<1>8. QED
  BY <1>7 DEF f

\* Every candidate has an owner.
LEMMA OwnerKnown ==
  ASSUME Typed, NEW i \in 1 .. N
  PROVE  Owner(i) \in Owners
BY ScanAssumption DEF Typed, Owner

LEMMA ScanInitInv == ScanInit => ScanInv
<1> SUFFICES ASSUME ScanInit PROVE ScanInv
  OBVIOUS
<1>1. N = 0 /\ DOMAIN candidates = 1 .. N
  BY DEF ScanInit, N
<1>2. Typed
  BY <1>1 DEF ScanInit, Typed, Phases, Replies, SystemStates, Stages, Idle
<1>3. NotStarted /\ OnceEach /\ Dealt /\ Unsettled /\ Paged
  BY DEF ScanInit, NotStarted, OnceEach, Dealt, Pooled, Unsettled, Paged
<1>4. QED
  BY <1>2, <1>3 DEF ScanInv

\* The end of an item keeps the invariant, with whatever outcome.
LEMMA EndInv ==
  ASSUME ScanInv, NEW w \in Workers, job[w].item # 0,
         NEW e \in {"permit", "deny"} \cup Errors, End(w, e),
         UNCHANGED <<storeVars, queryVars, systems, cursor, assemblies>>
  PROVE  ScanInv'
<1>0. Typed /\ NotStarted /\ OnceEach /\ Dealt /\ Unsettled /\ Paged
  BY DEF ScanInv
<1> DEFINE i == job[w].item
<1>1. /\ job[w] # Idle
      /\ Pooled
      /\ answer # "page"
      /\ phase \notin {"count", "find", "index"}
  BY <1>0 DEF Idle, Pooled, Paged, NotStarted, Typed
<1>9. Shapes /\ AheadUntouched /\ BehindHeld /\ HeldBehind /\ HeldByOne /\ Recorded
  BY <1>0, <1>1 DEF Dealt
<1>2. /\ i \in 1 .. N /\ i < cursor /\ outcome[i] = "none"
      /\ outcome \in [1 .. N -> Outcomes]
      /\ results \in [1 .. N -> {"unset", "permit", "deny"}]
  BY <1>0, <1>9 DEF Shapes, HeldBehind, Typed
<1>3. UNCHANGED <<store, candidates, N, systems, cursor, assemblies>>
  BY DEF storeVars, queryVars, N
<1>4. outcome' = [outcome EXCEPT ![i] = e]
  BY DEF End
<1>5. CASE e \in Errors /\ ~Skips(e)
  <2>1. /\ job' = [job EXCEPT ![w] = Idle]
        /\ answer' = IF answer = "none" THEN e ELSE answer
        /\ phase' = "done"
        /\ results' = results
    BY <1>5 DEF End
  <2>2. answer' \in Replies /\ answer' # "page"
    BY <1>0, <1>1, <1>5, <2>1 DEF Typed, Replies, Errors
  <2>3. Typed'
    BY <1>0, <1>3, <2>1, <2>2 DEF Typed, Idle, Phases, Stages
  <2>4. NotStarted' /\ OnceEach' /\ Unsettled' /\ Paged'
    BY <1>0, <1>3, <2>1, <2>2 DEF NotStarted, OnceEach, Unsettled, Paged
  <2>5. Dealt'
    <3>1. /\ \A v \in Workers : v # w => job'[v] = job[v]
          /\ job'[w].item = 0
      BY <1>0, <2>1 DEF Typed, Idle
    <3>2. \A j \in 1 .. N : outcome'[j] = IF j = i THEN e ELSE outcome[j]
      BY <1>2, <1>4
    <3>3. e # "none" /\ e # "permit" /\ e \in Outcomes
      BY <1>5 DEF Errors, Outcomes
    <3>4. outcome' \in [1 .. N -> Outcomes]
      BY <1>2, <1>4, <3>3
    <3>5. results[i] # "permit"
      BY <1>2, <1>9 DEF Recorded
    <3>6. Shapes'
      BY <1>2, <1>3, <2>1, <3>4 DEF Shapes
    <3>7. AheadUntouched'
      BY <1>0, <1>2, <1>3, <1>9, <3>2 DEF AheadUntouched, Typed
    <3>8. BehindHeld'
      BY <1>2, <1>3, <1>9, <3>1, <3>2, <3>3 DEF BehindHeld, Outcomes, Errors
    <3>9. HeldBehind'
      <4>1. ASSUME NEW v \in Workers, job'[v].item # 0
            PROVE  job'[v].item < cursor /\ outcome'[job'[v].item] = "none"
        <5>1. v # w /\ job'[v] = job[v]
          BY <4>1, <3>1
        <5>2. job[v].item < cursor /\ outcome[job[v].item] = "none" /\ job[v].item # i
          BY <1>9, <4>1, <5>1 DEF HeldBehind, HeldByOne
        <5>3. job[v].item \in 1 .. N
          BY <1>0, <4>1, <5>1 DEF Typed
        <5>4. QED
          BY <5>1, <5>2, <5>3, <3>2
      <4>2. QED
        BY <1>3, <4>1 DEF HeldBehind
    <3>10. HeldByOne'
      BY <1>3, <1>9, <3>1 DEF HeldByOne
    <3>11. Recorded'
      BY <1>2, <1>3, <1>9, <2>1, <3>2, <3>3, <3>5 DEF Recorded
    <3>12. QED
      BY <3>6, <3>7, <3>8, <3>9, <3>10, <3>11 DEF Dealt
  <2>6. QED
    BY <2>3, <2>4, <2>5 DEF ScanInv
<1>6. CASE ~(e \in Errors /\ ~Skips(e))
  <2>1. /\ job' = [job EXCEPT ![w] = [stage |-> "loop", item |-> 0]]
        /\ results' = [results EXCEPT ![i] = IF e = "permit" THEN e ELSE "deny"]
        /\ UNCHANGED <<phase, answer>>
    BY <1>6 DEF End, Slot
  <2>2. e \in {"permit", "deny", "rejected"}
    BY <1>6 DEF Skips
  <2>3. /\ \A v \in Workers : v # w => job'[v] = job[v]
        /\ job'[w] = [stage |-> "loop", item |-> 0]
    BY <1>0, <2>1 DEF Typed
  <2>4. Typed'
    BY <1>0, <1>3, <2>1 DEF Typed, Stages
  <2>5. \A j \in 1 .. N : outcome'[j] = IF j = i THEN e ELSE outcome[j]
    BY <1>2, <1>4
  <2>6. NotStarted' /\ OnceEach' /\ Paged'
    BY <1>0, <1>1, <1>3, <2>1 DEF NotStarted, OnceEach, Paged
  <2>7. Unsettled'
    BY <1>0, <1>3, <2>1, <2>2, <2>3, <2>5 DEF Unsettled, Idle
  <2>8. Dealt'
    <3>1. \A j \in 1 .. N : results'[j] = IF j = i THEN (IF e = "permit" THEN e ELSE "deny") ELSE results[j]
      BY <1>2, <2>1
    <3>2. outcome' \in [1 .. N -> Outcomes]
      BY <1>2, <1>4, <2>2 DEF Outcomes, Errors
    <3>3. results' \in [1 .. N -> {"unset", "permit", "deny"}]
      BY <1>2, <2>1
    <3>4. Shapes'
      BY <1>2, <1>3, <3>2, <3>3 DEF Shapes
    <3>5. AheadUntouched'
      BY <1>0, <1>2, <1>3, <1>9, <2>5 DEF AheadUntouched, Typed
    <3>6. BehindHeld'
      BY <1>2, <1>3, <1>9, <2>2, <2>3, <2>5 DEF BehindHeld, Outcomes, Errors
    <3>7. HeldBehind'
      <4>1. ASSUME NEW v \in Workers, job'[v].item # 0
            PROVE  job'[v].item < cursor /\ outcome'[job'[v].item] = "none"
        <5>1. v # w /\ job'[v] = job[v]
          BY <4>1, <2>3
        <5>2. job[v].item < cursor /\ outcome[job[v].item] = "none" /\ job[v].item # i
          BY <1>9, <4>1, <5>1 DEF HeldBehind, HeldByOne
        <5>3. job[v].item \in 1 .. N
          BY <1>0, <4>1, <5>1 DEF Typed
        <5>4. QED
          BY <5>1, <5>2, <5>3, <2>5
      <4>2. QED
        BY <1>3, <4>1 DEF HeldBehind
    <3>8. HeldByOne'
      BY <1>3, <1>9, <2>3 DEF HeldByOne
    <3>9. Recorded'
      BY <1>2, <1>3, <1>9, <2>2, <2>5, <3>1 DEF Recorded
    <3>10. QED
      BY <3>4, <3>5, <3>6, <3>7, <3>8, <3>9 DEF Dealt
  <2>9. QED
    BY <2>4, <2>6, <2>7, <2>8 DEF ScanInv
<1>7. QED
  BY <1>5, <1>6

\* A worker's loop head keeps the invariant.
LEMMA TakeInv ==
  ASSUME ScanInv, NEW w \in Workers, Take(w)
  PROVE  ScanInv'
<1>0. Typed /\ NotStarted /\ OnceEach /\ Dealt /\ Unsettled /\ Paged
  BY DEF ScanInv
<1>1. /\ job[w].stage = "loop" /\ job[w].item = 0 /\ job[w] # Idle
      /\ Pooled
      /\ answer # "page"
      /\ phase \notin {"count", "find", "index"}
  BY <1>0 DEF Take, Idle, Pooled, Paged, NotStarted, Typed
<1>2. Shapes /\ AheadUntouched /\ BehindHeld /\ HeldBehind /\ HeldByOne /\ Recorded
  BY <1>0, <1>1 DEF Dealt
<1>3. UNCHANGED <<store, phase, candidates, N, results, outcome, answer>>
  BY DEF Take, storeVars, queryVars, N
<1>4. N \in Nat /\ cursor \in 1 .. N + 1 /\ job \in [Workers -> [stage : Stages, item : 0 .. N]]
  BY <1>0 DEF Typed
<1>5. NotStarted' /\ Paged'
  BY <1>1, <1>3 DEF NotStarted, Paged
<1>6. CASE cursor > N
  <2>1. job' = [job EXCEPT ![w] = Idle] /\ UNCHANGED <<cursor, systems, assemblies>>
    BY <1>6 DEF Take, N
  <2>2. (\A v \in Workers : v # w => job'[v] = job[v]) /\ job'[w] = Idle
    BY <1>4, <2>1
  <2>3. Typed'
    BY <1>0, <1>3, <2>1 DEF Typed, Idle, Stages
  <2>4. OnceEach' /\ Unsettled'
    BY <1>0, <1>3, <1>4, <1>6, <2>1 DEF OnceEach, Unsettled
  <2>5. Shapes' /\ AheadUntouched' /\ Recorded'
    BY <1>2, <1>3, <2>1 DEF Shapes, AheadUntouched, Recorded
  <2>6. BehindHeld'
    BY <1>1, <1>2, <1>3, <2>1, <2>2 DEF BehindHeld
  <2>7. HeldBehind' /\ HeldByOne'
    BY <1>1, <1>2, <1>3, <2>1, <2>2 DEF HeldBehind, HeldByOne, Idle
  <2>8. QED
    BY <1>5, <2>3, <2>4, <2>5, <2>6, <2>7 DEF ScanInv, Dealt
<1>7. CASE ~(cursor > N)
  <2>1. /\ job' = [job EXCEPT ![w] = [stage |-> "assembly", item |-> cursor]]
        /\ cursor' = cursor + 1
        /\ \/ UNCHANGED <<systems, assemblies>>
           \/ /\ systems[Owner(cursor)] = "none"
              /\ systems' = [systems EXCEPT ![Owner(cursor)] = "pending"]
              /\ assemblies' = [assemblies EXCEPT ![Owner(cursor)] = @ + 1]
    BY <1>7 DEF Take, N, Advanced, Memoised
  <2>2. /\ \A v \in Workers : v # w => job'[v] = job[v]
        /\ job'[w] = [stage |-> "assembly", item |-> cursor]
    BY <1>4, <2>1
  <2>3. cursor \in 1 .. N
    BY <1>4, <1>7
  <2>4. systems' \in [Owners -> SystemStates] /\ assemblies' \in [Owners -> Nat]
    <3>1. Owner(cursor) \in Owners
      BY <1>0, <2>3, OwnerKnown
    <3>2. systems \in [Owners -> SystemStates] /\ assemblies \in [Owners -> Nat]
      BY <1>0 DEF Typed
    <3>3. "pending" \in SystemStates
      BY DEF SystemStates
    <3>4. QED
      BY <2>1, <3>1, <3>2, <3>3
  <2>5. Typed'
    BY <1>0, <1>3, <2>1, <2>3, <2>4 DEF Typed, Stages
  <2>6. OnceEach'
    BY <1>0, <2>1 DEF OnceEach, Typed, SystemStates
  <2>7. Unsettled'
    BY <1>0, <1>3, <2>2 DEF Unsettled, Idle
  <2>8. Shapes' /\ AheadUntouched' /\ Recorded'
    BY <1>2, <1>3, <1>4, <2>1 DEF Shapes, AheadUntouched, Recorded
  <2>9. BehindHeld'
    <3>1. ASSUME NEW i \in 1 .. N, i < cursor + 1, outcome[i] = "none"
          PROVE  \E v \in Workers : job'[v].item = i
      <4>1. CASE i = cursor
        BY <2>2, <4>1
      <4>2. CASE i # cursor
        <5>1. PICK v \in Workers : job[v].item = i
          BY <1>2, <1>4, <3>1, <4>2 DEF BehindHeld
        <5>2. v # w
          BY <1>1, <5>1
        <5>3. QED
          BY <2>2, <5>1, <5>2
      <4>3. QED
        BY <4>1, <4>2
    <3>2. QED
      BY <1>3, <2>1, <3>1 DEF BehindHeld
  <2>10. HeldBehind'
    BY <1>2, <1>3, <1>4, <2>1, <2>2, <2>3 DEF HeldBehind, AheadUntouched
  <2>11. HeldByOne'
    BY <1>2, <1>4, <2>2, <2>3 DEF HeldByOne, HeldBehind
  <2>12. QED
    BY <1>5, <2>5, <2>6, <2>7, <2>8, <2>9, <2>10, <2>11 DEF ScanInv, Dealt
<1>8. QED
  BY <1>6, <1>7

\* The pool starts with a worker, unless there can be none and nothing to do.
LEMMA BeginInv ==
  ASSUME ScanInv, Begin
  PROVE  ScanInv'
<1>0. Typed /\ NotStarted /\ OnceEach /\ Dealt /\ Unsettled /\ Paged
  BY DEF ScanInv
<1>1. UNCHANGED <<store, candidates, N, cursor, systems, assemblies, answer>>
  BY DEF Begin, storeVars, queryVars, N
<1>2. phase = "index" /\ phase' = "scan" /\ cursor = 1 /\ answer = "none"
  BY <1>0 DEF Begin, NotStarted
<1>3. N \in Nat /\ N > 0 => 1 \in Workers
  BY <1>0 DEF Typed
<1>4. job' = [w \in Workers |-> IF w \in Started(N) THEN [stage |-> "loop", item |-> 0] ELSE Idle]
  BY DEF Begin, N
<1>5. outcome' = [i \in 1 .. N |-> "none"] /\ results' = [i \in 1 .. N |-> "unset"]
  BY DEF Begin, N
<1>6. \A w \in Workers : job'[w].item = 0
  BY <1>4 DEF Idle
<1>7. Typed'
  BY <1>0, <1>1, <1>2, <1>4 DEF Typed, Phases, Stages, Idle
<1>8. NotStarted' /\ OnceEach' /\ Paged'
  BY <1>0, <1>1, <1>2 DEF NotStarted, OnceEach, Paged
<1>9. Unsettled'
  <2>1. 1 \in Workers => 1 \in Started(N)
    BY ScanAssumption DEF Started
  <2>2. 1 \in Workers => job'[1] # Idle
    BY <1>4, <2>1 DEF Idle
  <2>3. (\A w \in Workers : job'[w] = Idle) => N = 0
    BY <1>0, <2>2 DEF Typed
  <2>4. QED
    BY <1>1, <1>2, <1>5, <2>3 DEF Unsettled
<1>10. Dealt'
  BY <1>0, <1>1, <1>2, <1>5, <1>6
  DEF Dealt, Shapes, AheadUntouched, BehindHeld, HeldBehind, HeldByOne, Recorded, Outcomes, Typed
<1>11. QED
  BY <1>7, <1>8, <1>9, <1>10 DEF ScanInv

\* When all workers are done every candidate is decided.
LEMMA FinishInv ==
  ASSUME ScanInv, Finish
  PROVE  ScanInv'
<1>0. Typed /\ NotStarted /\ OnceEach /\ Dealt /\ Unsettled /\ Paged
  BY DEF ScanInv
<1>1. UNCHANGED <<store, candidates, N, cursor, systems, assemblies, job, results, outcome>>
  BY DEF Finish, storeVars, queryVars, poolVars, N
<1>2. /\ phase = "scan" /\ phase' = "done" /\ answer' = "page"
      /\ \A w \in Workers : job[w] = Idle
  BY DEF Finish
<1>3. Shapes /\ AheadUntouched /\ BehindHeld /\ HeldBehind /\ HeldByOne /\ Recorded
  BY <1>0, <1>2 DEF Dealt, Pooled
<1>4. cursor = N + 1 /\ N \in Nat
  BY <1>0, <1>2 DEF Unsettled, Typed
<1>5. \A i \in 1 .. N : outcome[i] # "none"
  BY <1>2, <1>3, <1>4 DEF BehindHeld, Idle
<1>6. \A i \in 1 .. N : outcome[i] \in {"permit", "deny", "rejected"}
  BY <1>0, <1>2, <1>5 DEF Unsettled
<1>7. Paged'
  BY <1>1, <1>2, <1>6 DEF Paged
<1>8. Typed' /\ NotStarted' /\ OnceEach' /\ Unsettled'
  BY <1>0, <1>1, <1>2 DEF Typed, NotStarted, OnceEach, Unsettled, Phases, Replies
<1>9. Dealt'
  BY <1>1, <1>3
  DEF Dealt, Shapes, AheadUntouched, BehindHeld, HeldBehind, HeldByOne, Recorded
<1>10. QED
  BY <1>7, <1>8, <1>9 DEF ScanInv

\* What does not touch the pool keeps what is known of it.
LEMMA UntouchedPool ==
  ASSUME ScanInv, UNCHANGED <<phase, candidates, cursor, systems, job, results, answer,
                              assemblies, outcome>>,
         store' \subseteq Resources
  PROVE  ScanInv'
<1>0. Typed /\ NotStarted /\ OnceEach /\ Dealt /\ Unsettled /\ Paged
  BY DEF ScanInv
<1>1. UNCHANGED N
  BY DEF N
<1>2. Typed' /\ NotStarted' /\ OnceEach' /\ Unsettled' /\ Paged'
  BY <1>0, <1>1 DEF Typed, NotStarted, OnceEach, Unsettled, Paged
<1>3. Pooled' <=> Pooled
  BY DEF Pooled
<1>4. Dealt'
  BY <1>0, <1>1, <1>3
  DEF Dealt, Shapes, AheadUntouched, BehindHeld, HeldBehind, HeldByOne, Recorded
<1>5. QED
  BY <1>2, <1>4 DEF ScanInv

LEMMA ScanStepInv == ScanInv /\ [ScanNext]_scanVars => ScanInv'
<1> SUFFICES ASSUME ScanInv, [ScanNext]_scanVars PROVE ScanInv'
  OBVIOUS
<1>0. Typed /\ NotStarted /\ OnceEach /\ Dealt /\ Unsettled /\ Paged
  BY DEF ScanInv
<1>1. CASE Count
  <2>1. /\ phase = "count" /\ phase' = "find"
        /\ UNCHANGED <<store, candidates, N, cursor, systems, job, results, answer, assemblies, outcome>>
    BY <1>1 DEF Count, storeVars, poolVars, N
  <2>2. /\ \A w \in Workers : job[w] = Idle
        /\ cursor = 1 /\ answer = "none"
    BY <1>0, <2>1 DEF NotStarted
  <2>3. ~Pooled'
    BY <2>1, <2>2 DEF Pooled
  <2>4. Typed' /\ NotStarted' /\ OnceEach' /\ Unsettled' /\ Paged'
    BY <1>0, <2>1, <2>2 DEF Typed, NotStarted, OnceEach, Unsettled, Paged, Phases
  <2>5. QED
    BY <2>3, <2>4 DEF ScanInv, Dealt
<1>2. CASE FindAll
  <2>1. /\ phase = "find" /\ phase' = "index"
        /\ UNCHANGED <<store, cursor, systems, job, results, answer, assemblies, outcome>>
    BY <1>2 DEF FindAll, storeVars, poolVars
  <2>2. /\ \A w \in Workers : job[w] = Idle
        /\ cursor = 1 /\ answer = "none"
    BY <1>0, <2>1 DEF NotStarted
  <2>3. ~Pooled'
    BY <2>1, <2>2 DEF Pooled
  <2>4. /\ N' \in Nat /\ DOMAIN candidates' = 1 .. N'
        /\ \A i \in 1 .. N' : candidates'[i] \in Resources
        /\ N' > 0 => 1 \in Workers
        /\ cursor' \in 1 .. N' + 1
    <3>1. /\ N' \in Nat /\ DOMAIN candidates' = 1 .. N'
          /\ \A i \in 1 .. N' : candidates'[i] \in Resources
          /\ N' > 0 => 1 \in Workers
      BY <1>2, FindFacts DEF N
    <3>2. cursor' \in 1 .. N' + 1
      <4>1. \A k \in Nat : 1 \in 1 .. k + 1
        OBVIOUS
      <4>2. cursor' = 1
        BY <2>1, <2>2
      <4>3. QED
        BY <3>1, <4>1, <4>2
    <3>3. QED
      BY <3>1, <3>2
  <2>5. job' \in [Workers -> [stage : Stages, item : 0 .. N']]
    BY <1>0, <2>1, <2>2, <2>4 DEF Typed, Idle, Stages
  <2>6. Typed'
    <3>1. \A w \in Workers : job'[w].item # 0 <=> job'[w].stage \in {"assembly", "evaluate"}
      BY <2>1, <2>2 DEF Idle
    <3>2. QED
      BY <1>0, <2>1, <2>4, <2>5, <3>1 DEF Typed, Phases
  <2>7. NotStarted' /\ OnceEach' /\ Unsettled' /\ Paged'
    BY <1>0, <2>1, <2>2 DEF NotStarted, OnceEach, Unsettled, Paged
  <2>8. QED
    BY <2>3, <2>6, <2>7 DEF ScanInv, Dealt
<1>3. CASE Begin
  BY <1>3, BeginInv
<1>4. CASE QueryFails
  <2>1. /\ phase \in {"count", "find", "index"} /\ phase' = "done" /\ answer' = "failed"
        /\ UNCHANGED <<store, candidates, N, cursor, systems, job, results, assemblies, outcome>>
    BY <1>4 DEF QueryFails, storeVars, queryVars, poolVars, N
  <2>2. \A w \in Workers : job[w] = Idle
    BY <1>0, <2>1 DEF NotStarted
  <2>3. ~Pooled'
    BY <2>1, <2>2 DEF Pooled
  <2>4. Typed' /\ NotStarted' /\ OnceEach' /\ Unsettled' /\ Paged'
    BY <1>0, <2>1 DEF Typed, NotStarted, OnceEach, Unsettled, Paged, Phases, Replies
  <2>5. QED
    BY <2>3, <2>4 DEF ScanInv, Dealt
<1>5. CASE Finish
  BY <1>5, FinishInv
<1>6. ASSUME NEW w \in Workers, Take(w) PROVE ScanInv'
  BY <1>6, TakeInv
<1>7. ASSUME NEW w \in Workers, Resume(w) PROVE ScanInv'
  <2> DEFINE end == systems[Owner(job[w].item)]
  <2>1. /\ job[w].stage = "assembly" /\ end \notin {"none", "pending"}
        /\ UNCHANGED <<storeVars, queryVars, systems, cursor, assemblies>>
    BY <1>7 DEF Resume, Settled
  <2>2. job[w].item # 0
    BY <1>0, <2>1 DEF Typed
  <2>3. CASE end # "ready" /\ End(w, end)
    <3>1. CASE end \in Errors
      BY <2>1, <2>2, <2>3, <3>1, EndInv
    <3>2. CASE end \notin Errors
      <4>1. Owner(job[w].item) \in Owners
        <5>1. N \in Nat /\ job[w].item \in 0 .. N
          BY <1>0 DEF Typed
        <5>2. job[w].item \in 1 .. N
          BY <2>2, <5>1
        <5>3. QED
          BY <1>0, <5>2, OwnerKnown
      <4>2. QED
        BY <1>0, <2>1, <2>3, <3>2, <4>1 DEF Typed, SystemStates
    <3>3. QED
      BY <3>1, <3>2
  <2>4. CASE End(w, "unwritable")
    BY <2>1, <2>2, <2>4, EndInv DEF Errors
  <2>5. CASE /\ job' = [job EXCEPT ![w].stage = "evaluate"]
             /\ UNCHANGED <<phase, results, outcome, answer>>
    <3>1. /\ \A v \in Workers : job'[v].item = job[v].item
          /\ \A v \in Workers : job'[v] # Idle <=> job[v] # Idle
      BY <1>0, <2>1, <2>2, <2>5 DEF Typed, Idle
    <3>2. UNCHANGED <<store, candidates, N>>
      BY <2>1 DEF storeVars, queryVars, N
    <3>3. Typed'
      BY <1>0, <2>1, <2>5, <3>2 DEF Typed, Stages
    <3>4. NotStarted' /\ OnceEach' /\ Unsettled' /\ Paged'
      BY <1>0, <2>1, <2>5, <3>1, <3>2 DEF NotStarted, OnceEach, Unsettled, Paged
    <3>5. Pooled' <=> Pooled
      BY <2>5, <3>1 DEF Pooled
    <3>6. Dealt'
      BY <1>0, <2>1, <2>5, <3>1, <3>2, <3>5
      DEF Dealt, Shapes, AheadUntouched, BehindHeld, HeldBehind, HeldByOne, Recorded
    <3>7. QED
      BY <3>3, <3>4, <3>6 DEF ScanInv
  <2>6. QED
    BY <1>7, <2>3, <2>4, <2>5 DEF Resume
<1>8. ASSUME NEW w \in Workers, Evaluate(w) PROVE ScanInv'
  <2>1. /\ job[w].stage = "evaluate"
        /\ UNCHANGED <<storeVars, queryVars, systems, cursor, assemblies>>
    BY <1>8 DEF Evaluate
  <2>2. job[w].item # 0
    BY <1>0, <2>1 DEF Typed
  <2>3. PICK e \in {"permit", "deny", "rejected", "outage"} : End(w, e)
    BY <1>8 DEF Evaluate
  <2>4. e \in {"permit", "deny"} \cup Errors
    BY DEF Errors
  <2>5. QED
    BY <2>1, <2>2, <2>3, <2>4, EndInv
<1>9. ASSUME NEW o \in Owners, Assemble(o) PROVE ScanInv'
  <2>1. PICK end \in {"ready"} \cup Errors :
           /\ systems[o] = "pending"
           /\ systems' = [systems EXCEPT ![o] = end]
    BY <1>9 DEF Assemble
  <2>2. UNCHANGED <<store, phase, candidates, N, cursor, job, results, assemblies, outcome, answer>>
    BY <1>9 DEF Assemble, storeVars, queryVars, N
  <2>3. Typed'
    BY <1>0, <2>1, <2>2 DEF Typed, SystemStates
  <2>4. OnceEach'
    BY <1>0, <2>1, <2>2 DEF OnceEach, Typed, Errors
  <2>5. NotStarted' /\ Unsettled' /\ Paged' /\ (Pooled' <=> Pooled)
    BY <1>0, <2>2 DEF NotStarted, Unsettled, Paged, Pooled
  <2>6. Dealt'
    BY <1>0, <2>2, <2>5
    DEF Dealt, Shapes, AheadUntouched, BehindHeld, HeldBehind, HeldByOne, Recorded
  <2>7. QED
    BY <2>3, <2>4, <2>5, <2>6 DEF ScanInv
<1>10. ASSUME NEW rows \in SUBSET Resources, Enter(rows) \/ Leave(rows) PROVE ScanInv'
  <2>1. store' \subseteq Resources
    BY <1>0, <1>10 DEF Enter, Leave, Typed
  <2>2. QED
    BY <1>10, <2>1, UntouchedPool DEF Enter, Leave, poolVars, queryVars
<1>11. CASE UNCHANGED scanVars
  <2>1. store' \subseteq Resources
    BY <1>0, <1>11 DEF scanVars, Typed
  <2>2. QED
    BY <1>11, <2>1, UntouchedPool DEF scanVars
<1>12. QED
  BY <1>1, <1>2, <1>3, <1>4, <1>5, <1>6, <1>7, <1>8, <1>9, <1>10, <1>11 DEF ScanNext, Scan

LEMMA ScanInvHolds == ScanSpec => []ScanInv
<1>1. ScanInit => ScanInv
  BY ScanInitInv
<1>2. ScanInv /\ [ScanNext]_scanVars => ScanInv'
  BY ScanStepInv
<1>3. QED
  BY <1>1, <1>2, PTL DEF ScanSpec

\* Two workers who ask for the system of one owner get one assembly.
THEOREM ScanAssembledOnce == ScanSpec => []AssembledOnce
<1>1. ScanInv => AssembledOnce
  BY DEF ScanInv, OnceEach, AssembledOnce
<1>2. QED
  BY <1>1, ScanInvHolds, PTL

\* No two workers hold one item, and no item is decided twice.
THEOREM ScanOneWorkerEach == ScanSpec => []OneWorkerEach
<1>1. ScanInv => OneWorkerEach
  <2> SUFFICES ASSUME ScanInv PROVE OneWorkerEach
    OBVIOUS
  <2>1. ASSUME NEW w \in Workers, job[w].item # 0 PROVE HeldBehind /\ HeldByOne
    BY <2>1 DEF ScanInv, Dealt, Pooled, Idle
  <2>2. QED
    BY <2>1 DEF OneWorkerEach, HeldBehind, HeldByOne
<1>2. QED
  BY <1>1, ScanInvHolds, PTL

\* A page lists exactly the candidates whose own decision was a permit, and is
\* never the answer to an outage.
THEOREM ScanPageExact == ScanSpec => []PageExact
<1>1. ScanInv => PageExact
  <2> SUFFICES ASSUME ScanInv, answer = "page"
               PROVE  /\ \A i \in DOMAIN candidates : outcome[i] \in {"permit", "deny", "rejected"}
                      /\ Listed = {candidates[i] : i \in {j \in DOMAIN outcome : outcome[j] = "permit"}}
    BY DEF PageExact
  <2>1. DOMAIN candidates = 1 .. N
    BY DEF ScanInv, Typed
  <2>2. Shapes /\ Recorded
    BY DEF ScanInv, Dealt, Pooled
  <2>3. DOMAIN outcome = 1 .. N /\ DOMAIN results = 1 .. N
    BY <2>2 DEF Shapes
  <2>4. {j \in DOMAIN results : results[j] = "permit"} = {j \in DOMAIN outcome : outcome[j] = "permit"}
    BY <2>2, <2>3 DEF Recorded
  <2>5. QED
    BY <2>1, <2>4 DEF ScanInv, Paged, Listed
<1>2. QED
  BY <1>1, ScanInvHolds, PTL

\* What was counted is at least what is there and did not come in since.
CountedEnough ==
    /\ totalCount \in Nat
    /\ entered \subseteq Resources
    /\ phase = "find" => Cardinality(store \ entered) <= totalCount

LEMMA StoreSize ==
  ASSUME Typed
  PROVE  /\ IsFiniteSet(store) /\ store \in SUBSET Nat
         /\ Cardinality(store) \in Nat
<1>1. IsFiniteSet(store) /\ store \in SUBSET Nat
  BY ScanAssumption, FS_Subset DEF Typed
<1>2. QED
  BY <1>1, FS_CardinalityType

LEMMA CountedInit == ScanInit => CountedEnough
BY DEF ScanInit, CountedEnough

\* A part of what is there has a size, and no greater one.
LEMMA PartSize ==
  ASSUME NEW S \in SUBSET Resources, NEW T \in SUBSET S
  PROVE  /\ IsFiniteSet(S) /\ IsFiniteSet(T)
         /\ Cardinality(S) \in Nat /\ Cardinality(T) \in Nat
         /\ Cardinality(T) <= Cardinality(S)
<1>1. IsFiniteSet(S)
  BY ScanAssumption, FS_Subset DEF ScanAssumption
<1>2. IsFiniteSet(T) /\ Cardinality(T) <= Cardinality(S)
  BY <1>1, FS_Subset
<1>3. QED
  BY <1>1, <1>2, FS_CardinalityType

LEMMA CountedStep == ScanInv /\ CountedEnough /\ [ScanNext]_scanVars => CountedEnough'
<1> SUFFICES ASSUME Typed, CountedEnough, [ScanNext]_scanVars PROVE CountedEnough'
  BY DEF ScanInv
<1>0. store \in SUBSET Resources /\ totalCount \in Nat /\ entered \subseteq Resources
  BY DEF Typed, CountedEnough
<1>1. CASE Count
  <2>1. totalCount' = Cardinality(store) /\ store' = store /\ entered' = entered
    BY <1>1 DEF Count, Counted, storeVars
  <2>2. Cardinality(store) \in Nat /\ Cardinality(store \ entered) <= Cardinality(store)
    BY <1>0, PartSize
  <2>3. QED
    BY <1>0, <2>1, <2>2 DEF CountedEnough
<1>2. ASSUME UNCHANGED <<totalCount, entered>>, phase' # "find" PROVE CountedEnough'
  BY <1>0, <1>2 DEF CountedEnough
<1>3. ASSUME UNCHANGED <<totalCount, phase, entered, store>> PROVE CountedEnough'
  BY <1>3 DEF CountedEnough
<1>4. CASE FindAll \/ Begin \/ QueryFails \/ Finish
  BY <1>2, <1>4 DEF FindAll, Begin, QueryFails, Finish, queryVars
<1>5. ASSUME NEW w \in Workers, Take(w) PROVE CountedEnough'
  BY <1>3, <1>5 DEF Take, storeVars, queryVars
<1>6. ASSUME NEW w \in Workers, Resume(w) \/ Evaluate(w) PROVE CountedEnough'
  <2>1. UNCHANGED <<totalCount, entered, store>>
    BY <1>6 DEF Resume, Evaluate, storeVars, queryVars
  <2>2. phase' = phase \/ phase' = "done"
    BY <1>6 DEF Resume, Evaluate, End
  <2>3. QED
    BY <1>2, <1>3, <2>1, <2>2
<1>7. ASSUME NEW o \in Owners, Assemble(o) PROVE CountedEnough'
  BY <1>3, <1>7 DEF Assemble, storeVars, queryVars
<1>8. ASSUME NEW rows \in SUBSET Resources, Enter(rows) \/ Leave(rows) PROVE CountedEnough'
  <2>1. /\ UNCHANGED <<phase, totalCount>>
        /\ entered' \subseteq Resources
        /\ phase = "find" => store' \ entered' \in SUBSET (store \ entered)
    BY <1>0, <1>8 DEF Enter, Leave, queryVars
  <2>2. CASE phase # "find"
    BY <1>0, <2>1, <2>2 DEF CountedEnough
  <2>3. CASE phase = "find"
    <3>1. /\ Cardinality(store \ entered) \in Nat /\ Cardinality(store' \ entered') \in Nat
          /\ Cardinality(store' \ entered') <= Cardinality(store \ entered)
      BY <1>0, <2>1, <2>3, PartSize
    <3>2. QED
      BY <1>0, <2>1, <2>3, <3>1 DEF CountedEnough
  <2>4. QED
    BY <2>2, <2>3
<1>9. CASE UNCHANGED scanVars
  BY <1>3, <1>9 DEF scanVars
<1>10. QED
  BY <1>1, <1>4, <1>5, <1>6, <1>7, <1>8, <1>9 DEF ScanNext, Scan

\* What is there is no more than was counted and came in since.
LEMMA StoreCounted ==
  ASSUME Typed, CountedEnough, phase = "find"
  PROVE  /\ Cardinality(entered) \in Nat /\ Cardinality(store) \in Nat
         /\ Cardinality(store) <= totalCount + Cardinality(entered)
<1> DEFINE old == store \ entered
           new == store \cap entered
<1>1. store \in SUBSET Resources /\ entered \in SUBSET Resources
  BY DEF Typed, CountedEnough
<1>2. /\ IsFiniteSet(old) /\ Cardinality(old) \in Nat
      /\ IsFiniteSet(new) /\ Cardinality(new) \in Nat
      /\ Cardinality(entered) \in Nat /\ Cardinality(new) <= Cardinality(entered)
      /\ Cardinality(store) \in Nat
  BY <1>1, PartSize
<1>3. store = old \cup new /\ old \cap new = {}
  OBVIOUS
<1>4. Cardinality(old) <= totalCount /\ totalCount \in Nat
  BY DEF CountedEnough
<1> HIDE DEF old, new
<1>5. Cardinality(old \cup new) = Cardinality(old) + Cardinality(new) - Cardinality(old \cap new)
  BY <1>2, FS_Union
<1>6. Cardinality(old \cap new) = 0
  BY <1>3, FS_EmptySet
<1>7. QED
  BY <1>2, <1>3, <1>4, <1>5, <1>6

\* The front of a list without repetition has as many members as places.
LEMMA FrontSize ==
  ASSUME NEW S \in SUBSET Nat, IsFiniteSet(S), NEW n \in 0 .. Cardinality(S)
  PROVE  LET front == SubSeq(NewestFirst(S), 1, n)
         IN  /\ Len(front) = n /\ Range(front) \in SUBSET S
             /\ n <= Cardinality(Range(front))
             /\ n = Cardinality(S) => Range(front) = S
<1> DEFINE size == Cardinality(S)
           found == NewestFirst(S)
           front == SubSeq(found, 1, n)
<1>1. size \in Nat /\ n \in Nat /\ n <= size
  BY FS_CardinalityType
<1>2. /\ found \in [1 .. size -> S] /\ Range(found) = S
      /\ \A i, j \in 1 .. size : i < j => found[i] > found[j]
  BY NewestFirstLists, WholeListed
<1> HIDE DEF size, found
<1>3. front = [i \in 1 .. n |-> found[i]] /\ Len(front) = n
  BY <1>1, <1>2
<1>4. 1 .. n \subseteq 1 .. size
  BY <1>1
<1>5. front \in [1 .. n -> S] /\ Range(front) \in SUBSET S
  BY <1>2, <1>3, <1>4 DEF Range
<1>6. \A i, j \in 1 .. n : front[i] = front[j] => i = j
  <2>1. ASSUME NEW i \in 1 .. n, NEW j \in 1 .. n, i < j PROVE front[i] # front[j]
    <3>1. front[i] > front[j] /\ front[i] \in Nat /\ front[j] \in Nat
      BY <1>2, <1>3, <1>4, <1>5, <2>1
    <3>2. QED
      BY <3>1
  <2>2. \A i, j \in 1 .. n : i < j \/ j < i \/ i = j
    BY <1>1
  <2> HIDE DEF front
  <2>3. QED
    BY <2>1, <2>2
<1>7. front \in Injection(1 .. n, Range(front))
  BY <1>3, <1>5, <1>6 DEF Injection, IsInjective, Range
<1>8. n <= Cardinality(Range(front))
  <2>1. IsFiniteSet(Range(front))
    BY <1>5, FS_Subset
  <2>2. Cardinality(1 .. n) <= Cardinality(Range(front))
    BY <1>7, <2>1, FS_Injection
  <2>3. Cardinality(1 .. n) = n
    BY <1>1, FS_Interval
  <2>4. QED
    BY <2>2, <2>3
<1>9. ASSUME n = size PROVE Range(front) = S
  <2>1. front = found
    BY <1>2, <1>3, <1>9
  <2>2. QED
    BY <1>2, <2>1
<1>10. QED
  BY <1>3, <1>5, <1>8, <1>9 DEF size, found

\* A find that leaves out more than came in returned as many rows as its limit, fewer
\* than there were at the count.
LEMMA LeftOutCounted ==
  ASSUME ScanInv, CountedEnough, FindAll
  PROVE  \/ totalCount > Len(candidates')
         \/ Cardinality(store \ Range(candidates')) <= Cardinality(entered)
<1> DEFINE size == Cardinality(store)
           n == IF size < MaxCandidates THEN size ELSE MaxCandidates
           kept == Range(candidates')
<1>1. Typed /\ phase = "find" /\ store \in SUBSET Resources
  BY DEF ScanInv, FindAll, Typed
<1>2. /\ size \in Nat /\ Cardinality(entered) \in Nat /\ totalCount \in Nat
      /\ size <= totalCount + Cardinality(entered)
      /\ MaxCandidates \in Nat
  BY <1>1, StoreCounted, ScanAssumption DEF CountedEnough
<1>3. n \in 0 .. size
  BY <1>2
<1>4. candidates' = SubSeq(NewestFirst(store), 1, n)
  <2>1. Len(NewestFirst(store)) = size
    <3>1. NewestFirst(store) \in [1 .. size -> store]
      BY <1>1, StoreSize, NewestFirstLists
    <3>2. QED
      BY <1>2, <3>1
  <2>2. QED
    BY <2>1 DEF FindAll
<1> HIDE DEF n
<1>5. /\ Len(candidates') = n /\ kept \in SUBSET store
      /\ n <= Cardinality(kept) /\ (n = size => kept = store)
  BY <1>1, <1>3, <1>4, StoreSize, FrontSize
<1>6. /\ IsFiniteSet(kept) /\ Cardinality(kept) \in Nat
      /\ IsFiniteSet(store \ kept) /\ Cardinality(store \ kept) \in Nat
  BY <1>1, <1>5, PartSize
<1> HIDE DEF kept
<1>7. size = Cardinality(store \ kept) + Cardinality(kept)
  <2>1. store = (store \ kept) \cup kept /\ (store \ kept) \cap kept = {}
    BY <1>5
  <2>2. Cardinality((store \ kept) \cup kept)
        = Cardinality(store \ kept) + Cardinality(kept) - Cardinality((store \ kept) \cap kept)
    BY <1>6, FS_Union
  <2>3. Cardinality((store \ kept) \cap kept) = 0
    BY <2>1, FS_EmptySet
  <2>4. QED
    BY <1>6, <2>1, <2>2, <2>3
<1>8. ASSUME Cardinality(store \ kept) > Cardinality(entered) PROVE totalCount > n
  BY <1>2, <1>3, <1>5, <1>6, <1>7, <1>8
<1>9. QED
  BY <1>2, <1>3, <1>5, <1>6, <1>8 DEF kept

\* No more is left out in silence than came in between the count and the find, for any
\* limit and whatever others create, delete and rewrite.
THEOREM ScanTruncationReported == ScanSpec => OnlyEnteredUnreported
<1>1. /\ ScanInv /\ CountedEnough /\ [ScanNext]_scanVars
      => [FindAll => \/ totalCount > Len(candidates')
                     \/ Cardinality(store \ Range(candidates')) <= Cardinality(entered)]_scanVars
  BY LeftOutCounted
<1>2. ScanSpec => []CountedEnough
  BY ScanInvHolds, CountedInit, CountedStep, PTL DEF ScanSpec
<1>3. QED
  BY <1>1, <1>2, ScanInvHolds, PTL DEF ScanSpec, OnlyEnteredUnreported

-----------------------------------------------------------------------------
(* Types, and the number of calls at once. *)

\* A worker that is not one of the pool stays idle.
FewWorkers == \A w \in Workers : job[w] # Idle => w <= Concurrency

LEMMA FewWorkersInit == ScanInit => FewWorkers
BY DEF ScanInit, FewWorkers

LEMMA FewWorkersStep == Typed /\ FewWorkers /\ [ScanNext]_scanVars => FewWorkers'
<1> SUFFICES ASSUME Typed, FewWorkers, [ScanNext]_scanVars PROVE FewWorkers'
  OBVIOUS
<1>0. job \in [Workers -> [stage : Stages, item : 0 .. N]]
  BY DEF Typed
<1>1. ASSUME UNCHANGED job PROVE FewWorkers'
  BY <1>1 DEF FewWorkers
<1>2. CASE Begin
  BY <1>2 DEF Begin, FewWorkers, Started
<1>3. ASSUME NEW w \in Workers, Take(w) \/ Resume(w) \/ Evaluate(w) PROVE FewWorkers'
  <2>1. job[w] # Idle
    BY <1>3 DEF Take, Resume, Evaluate, Idle
  <2>2. \A v \in Workers \ {w} : job'[v] = job[v]
    BY <1>0, <1>3 DEF Take, Resume, Evaluate, End
  <2>3. QED
    BY <2>1, <2>2 DEF FewWorkers
<1>4. CASE Count \/ FindAll \/ QueryFails \/ Finish \/ (\E o \in Owners : Assemble(o))
             \/ (\E rows \in SUBSET Resources : Enter(rows) \/ Leave(rows)) \/ UNCHANGED scanVars
  BY <1>1, <1>4 DEF Count, FindAll, QueryFails, Finish, Assemble, Enter, Leave, poolVars, scanVars
<1>5. QED
  BY <1>2, <1>3, <1>4 DEF ScanNext, Scan

\* So at most Concurrency of them wait for a call.
LEMMA FewCalls ==
  ASSUME Typed, FewWorkers
  PROVE  Cardinality({w \in Workers : job[w].item # 0}) <= Concurrency
<1>1. Concurrency \in Nat /\ Workers \subseteq Nat
  BY ScanAssumption DEF Workers
<1>2. {w \in Workers : job[w].item # 0} \in SUBSET (1 .. Concurrency)
  BY <1>1 DEF FewWorkers, Idle, Workers
<1>3. IsFiniteSet(1 .. Concurrency) /\ Cardinality(1 .. Concurrency) = Concurrency
  BY <1>1, FS_Interval
<1>4. QED
  BY <1>2, <1>3, FS_Subset

\* What TypeOK says beyond Typed.
Rest ==
    /\ changes \in 0 .. MaxChanges
    /\ totalCount \in 0 .. Cardinality(Resources)
    /\ \A i \in DOMAIN results : results[i] \in {"unset", "permit", "deny"}
    /\ candidates \in Seq(Resources)
    /\ answer # "rejected"

LEMMA RestInit == ScanInit => Rest
<1>1. Cardinality(Resources) \in Nat /\ MaxChanges \in Nat
  BY ScanAssumption, FS_CardinalityType
<1>2. QED
  BY <1>1 DEF ScanInit, Rest

LEMMA RestStep == ScanInv /\ Rest /\ [ScanNext]_scanVars => Rest'
<1> SUFFICES ASSUME ScanInv, Typed, Rest, [ScanNext]_scanVars PROVE Rest'
  BY DEF ScanInv
<1>0. Cardinality(Resources) \in Nat /\ MaxChanges \in Nat
  BY ScanAssumption, FS_CardinalityType
<1>1. CASE Count
  <2>1. Cardinality(store) \in 0 .. Cardinality(Resources)
    <3>1. store \in SUBSET Resources /\ IsFiniteSet(Resources)
      BY ScanAssumption DEF Typed
    <3>2. Cardinality(store) <= Cardinality(Resources) /\ Cardinality(store) \in Nat
      BY <3>1, StoreSize, FS_Subset
    <3>3. QED
      BY <1>0, <3>2
  <2>2. QED
    BY <1>1, <2>1 DEF Count, Counted, Rest, storeVars, poolVars
<1>2. ASSUME UNCHANGED <<changes, totalCount, candidates, results, answer>> PROVE Rest'
  BY <1>2 DEF Rest
<1>3. CASE QueryFails \/ Finish \/ UNCHANGED scanVars
  BY <1>3 DEF QueryFails, Finish, Rest, storeVars, queryVars, poolVars, scanVars
<1>4. CASE Begin
  BY <1>4 DEF Begin, Rest, storeVars, queryVars
<1>11. CASE FindAll
  <2>1. candidates' \in Seq(Resources)
    BY <1>11, FindFacts
  <2>2. QED
    BY <1>11, <2>1 DEF FindAll, Rest, storeVars, poolVars
<1>5. ASSUME NEW w \in Workers, Take(w) PROVE Rest'
  BY <1>2, <1>5 DEF Take, storeVars, queryVars
<1>6. ASSUME NEW w \in Workers, NEW e, End(w, e), UNCHANGED <<changes, queryVars>> PROVE Rest'
  <2>1. CASE e \in Errors /\ ~Skips(e)
    BY <1>6, <2>1 DEF End, Rest, Skips, queryVars
  <2>2. CASE ~(e \in Errors /\ ~Skips(e))
    <3>1. results' = [results EXCEPT ![Slot(w)] = IF e = "permit" THEN e ELSE "deny"]
      BY <1>6, <2>2 DEF End
    <3>2. \A i \in DOMAIN results' : results'[i] \in {"unset", "permit", "deny"}
      BY <3>1 DEF Rest
    <3>3. QED
      BY <1>6, <2>2, <3>2 DEF End, Rest, queryVars
  <2>3. QED
    BY <2>1, <2>2
<1>7. ASSUME NEW w \in Workers, Resume(w) \/ Evaluate(w) PROVE Rest'
  <2>1. UNCHANGED <<changes, queryVars>>
    BY <1>7 DEF Resume, Evaluate, storeVars
  <2>2. (\E e : End(w, e)) \/ UNCHANGED <<results, answer>>
    BY <1>7 DEF Resume, Evaluate
  <2>3. QED
    BY <1>2, <1>6, <2>1, <2>2 DEF queryVars
<1>8. ASSUME NEW o \in Owners, Assemble(o) PROVE Rest'
  BY <1>2, <1>8 DEF Assemble, storeVars, queryVars
<1>9. ASSUME NEW rows \in SUBSET Resources, Enter(rows) \/ Leave(rows) PROVE Rest'
  <2>1. changes' \in 0 .. MaxChanges
    BY <1>0, <1>9 DEF Enter, Leave, Rest
  <2>2. QED
    BY <1>9, <2>1 DEF Enter, Leave, Rest, queryVars, poolVars
<1>10. QED
  BY <1>1, <1>3, <1>4, <1>5, <1>7, <1>8, <1>9, <1>11 DEF ScanNext, Scan

\* Type correctness; a worker holds an item exactly while it waits for a call, and at most
\* Concurrency of them do (mapWithConcurrency of general.utils.ts).
THEOREM ScanTypes == ScanSpec => []TypeOK
<1>1. ScanSpec => [](FewWorkers /\ Rest)
  <2>1. ScanInv => Typed
    BY DEF ScanInv
  <2>2. QED
    BY <2>1, ScanInvHolds, FewWorkersInit, FewWorkersStep, RestInit, RestStep, PTL DEF ScanSpec
<1>2. ScanInv /\ FewWorkers /\ Rest => TypeOK
  <2> SUFFICES ASSUME Typed, FewWorkers, Rest PROVE TypeOK
    BY DEF ScanInv
  <2>1. Cardinality({w \in Workers : job[w].item # 0}) <= Concurrency
    BY FewCalls
  <2>2. QED
    BY <2>1 DEF Typed, Rest, TypeOK, Phases, Stages, SystemStates, Replies, Errors, N
<1>3. QED
  BY <1>1, <1>2, ScanInvHolds, PTL

-----------------------------------------------------------------------------
(* Nobody waits in vain. *)

\* A system that a worker asked for has been asked for; what is over has settled.
Asked ==
    /\ answer = "none" => phase # "done"
    /\ \A w \in Workers : job[w].stage = "assembly" => systems[Owner(job[w].item)] # "none"

LEMMA AskedStep == ScanInv /\ Asked /\ [ScanNext]_scanVars => Asked'
<1> SUFFICES ASSUME ScanInv, Asked, [ScanNext]_scanVars PROVE Asked'
  OBVIOUS
<1>0. Typed /\ NotStarted
  BY DEF ScanInv
<1>1. ASSUME UNCHANGED <<candidates, systems, job>>, answer' = "none" => phase' # "done"
      PROVE  Asked'
  BY <1>1 DEF Asked, Owner
<1>2. CASE Count \/ QueryFails \/ Finish \/ UNCHANGED scanVars \/ \E rows \in SUBSET Resources : Enter(rows) \/ Leave(rows)
  BY <1>1, <1>2 DEF Count, QueryFails, Finish, Enter, Leave, Asked, storeVars, queryVars, poolVars, scanVars
<1>3. CASE FindAll
  <2>1. \A w \in Workers : job'[w] = Idle
    BY <1>0, <1>3 DEF NotStarted, FindAll, poolVars
  <2>2. QED
    BY <1>3, <2>1 DEF FindAll, Asked, Idle
<1>4. CASE Begin
  <2>1. \A w \in Workers : job'[w].stage \in {"loop", "over"}
    BY <1>4 DEF Begin, Idle
  <2>2. QED
    BY <1>4, <2>1 DEF Begin, Asked
<1>5. ASSUME NEW w \in Workers, Take(w) PROVE Asked'
  <2>1. UNCHANGED <<phase, answer, candidates>> /\ \A v \in Workers \ {w} : job'[v] = job[v]
    BY <1>0, <1>5 DEF Take, queryVars, Typed
  <2>2. CASE cursor > Len(candidates)
    <3>1. job'[w] = Idle /\ systems' = systems
      BY <1>0, <1>5, <2>2 DEF Take, Typed
    <3>2. QED
      BY <2>1, <3>1 DEF Asked, Idle, Owner
  <2>3. CASE ~(cursor > Len(candidates))
    <3>1. job'[w] = [stage |-> "assembly", item |-> cursor]
      BY <1>0, <1>5, <2>3 DEF Take, Typed
    <3>2. Owner(cursor) \in Owners
      <4>1. cursor \in 1 .. N
        BY <1>0, <2>3 DEF Typed, N
      <4>2. QED
        BY <1>0, <4>1, OwnerKnown
    <3>3. /\ systems'[Owner(cursor)] # "none"
          /\ \A o \in Owners : systems[o] # "none" => systems'[o] # "none"
      BY <1>0, <1>5, <2>3, <3>2 DEF Take, Memoised, Typed
    <3>4. ASSUME NEW v \in Workers \ {w}, job[v].stage = "assembly" PROVE systems'[Owner(job[v].item)] # "none"
      <4>1. job[v].item \in 1 .. N
        BY <1>0, <3>4 DEF Typed
      <4>2. Owner(job[v].item) \in Owners
        BY <1>0, <4>1, OwnerKnown
      <4>3. QED
        BY <3>3, <3>4, <4>2 DEF Asked
    <3>5. QED
      BY <2>1, <3>1, <3>3, <3>4 DEF Asked, Owner
  <2>4. QED
    BY <2>2, <2>3
<1>6. ASSUME NEW o \in Owners, Assemble(o) PROVE Asked'
  <2>1. \A q \in Owners : systems[q] # "none" => systems'[q] # "none"
    BY <1>0, <1>6 DEF Assemble, Typed, Errors
  <2>2. ASSUME NEW v \in Workers, job[v].stage = "assembly" PROVE systems'[Owner(job[v].item)] # "none"
    <3>1. job[v].item \in 1 .. N
      BY <1>0, <2>2 DEF Typed
    <3>2. Owner(job[v].item) \in Owners
      BY <1>0, <3>1, OwnerKnown
    <3>3. QED
      BY <2>1, <2>2, <3>2 DEF Asked
  <2>3. UNCHANGED <<phase, answer, candidates, job>>
    BY <1>6 DEF Assemble, queryVars
  <2>4. QED
    BY <2>2, <2>3 DEF Asked, Owner
<1>7. ASSUME NEW w \in Workers, Resume(w) \/ Evaluate(w) PROVE Asked'
  <2>1. UNCHANGED <<candidates, systems>>
    BY <1>7 DEF Resume, Evaluate, queryVars
  <2>2. /\ \A v \in Workers \ {w} : job'[v] = job[v]
        /\ job'[w].stage # "assembly"
    BY <1>0, <1>7 DEF Resume, Evaluate, End, Typed, Idle
  <2>3. answer' = "none" => phase' # "done"
    BY <1>7 DEF Resume, Evaluate, End, Asked, Errors
  <2>4. QED
    BY <2>1, <2>2, <2>3 DEF Asked, Owner
<1>8. QED
  BY <1>2, <1>3, <1>4, <1>5, <1>6, <1>7 DEF ScanNext, Scan

\* No worker waits for an assembly that nobody runs, whoever failed, and the scan is over
\* only once it has settled: with the calls answered, it ends.
THEOREM ScanNeverStuck == ScanSpec => []NobodyForgotten
<1>1. ScanInit => Asked
  BY DEF ScanInit, Asked, Idle
<1>2. ScanSpec => []Asked
  BY <1>1, AskedStep, ScanInvHolds, PTL DEF ScanSpec
<1>3. ScanInv /\ Asked => NobodyForgotten
  <2> SUFFICES ASSUME ScanInv, Asked, NEW w \in Workers
               PROVE  \/ job[w] = Idle \/ job[w].stage \in {"loop", "evaluate"}
                      \/ /\ job[w].stage = "assembly"
                         /\ systems[Owner(job[w].item)] = "pending" \/ Settled(Owner(job[w].item))
    BY DEF NobodyForgotten, Asked
  <2>1. Typed
    BY DEF ScanInv
  <2>2. CASE job[w].stage = "over"
    <3>1. job[w] \in [stage : Stages, item : 0 .. N] /\ job[w].item = 0
      BY <2>1, <2>2 DEF Typed
    <3>2. QED
      BY <2>2, <3>1 DEF Idle
  <2>3. CASE job[w].stage = "assembly"
    BY <2>3 DEF Asked, Settled
  <2>4. job[w].stage \in Stages
    BY <2>1 DEF Typed
  <2>5. QED
    BY <2>2, <2>3, <2>4 DEF Stages
<1>4. QED
  BY <1>2, <1>3, ScanInvHolds, PTL
=============================================================================
