--------------------------- MODULE ScreensProofs ---------------------------
(***************************************************************************)
(* Theorems about the screens of one tab, whichever of them takes the next *)
(* step: for every text, list, population and number of steps elsewhere.   *)
(***************************************************************************)
EXTENDS Screens, ListLemmas

\* A step of the tab is one of each of its parts, or leaves that alone.
LEMMA PartSteps ==
  ASSUME [ScreensNext]_screensVars
  PROVE  /\ [Next]_vars /\ [Card!Next]_(Card!vars) /\ [Tab!Next]_(Tab!vars) /\ [List!Next]_(List!vars)
         /\ [Form!NextForm]_(Form!formVars) /\ [Asks!NextVerdicts]_(Asks!verdictVars)
<1> USE DEF ruleVars, attrVars, sessionVars, listVars, formVars, verdictVars, vars, sheet, Card!vars,
            Card!rows, Tab!vars, Tab!identity, Tab!lists, List!vars, Form!formVars, Asks!verdictVars
<1> SUFFICES ASSUME NEW part \in ScreensParts, ScreensStep(part)
             PROVE  /\ [Next]_vars /\ [Card!Next]_(Card!vars) /\ [Tab!Next]_(Tab!vars)
                    /\ [List!Next]_(List!vars) /\ [Form!NextForm]_(Form!formVars)
                    /\ [Asks!NextVerdicts]_(Asks!verdictVars)
  BY DEF ScreensNext, screensVars
<1>1. QED
  BY DEF ScreensStep

\* Each part behaves as if it were alone.
LEMMA PartsBehave ==
  ScreensSpec => /\ Spec /\ Card!Spec /\ Tab!Spec /\ List!Spec /\ Form!FormSpec /\ Asks!VerdictsSpec
<1> DEFINE Step == /\ [Next]_vars /\ [Card!Next]_(Card!vars) /\ [Tab!Next]_(Tab!vars)
                   /\ [List!Next]_(List!vars) /\ [Form!NextForm]_(Form!formVars)
                   /\ [Asks!NextVerdicts]_(Asks!verdictVars)
<1>1. [ScreensNext]_screensVars => Step
  BY PartSteps
<1>2. ScreensInit => Init /\ Card!Init /\ Tab!Init /\ List!Init /\ Form!InitForm /\ Asks!InitVerdicts
  BY DEF ScreensInit
<1>3. QED
  BY <1>1, <1>2, PTL DEF ScreensSpec, Spec, Card!Spec, Tab!Spec, List!Spec, Form!FormSpec, Asks!VerdictsSpec

-----------------------------------------------------------------------------
(* A verdict.                                                              *)

\* Runs are of openings and ids gone by; one that is still owned was begun in this
\* opening; a question that was not crossed is about the pattern on screen.
RunsKnown ==
    /\ count \in Nat /\ runId \in Nat
    /\ \A r \in runs : r.id \in Nat /\ r.of \in Nat /\ r.id <= runId

OwnedHere == \A r \in runs : r.id = runId => isOpen /\ r.of = count

AskedOfPattern == pending # None /\ ~patternCrossed => pending = pattern

VerdictInv == RunsKnown /\ OwnedHere /\ AskedOfPattern /\ Asks!VerdictShown

\* The steps that begin a run.
LEMMA VerdictRuns ==
  ASSUME VerdictInv, Asks!OpenDialog \/ Asks!Retry
  PROVE  VerdictInv'
<1> USE DEF VerdictInv, RunsKnown, OwnedHere, AskedOfPattern
<1> DEFINE new == [id |-> runId, of |-> count']
<1>1. /\ isOpen' /\ runId' = runId /\ result' = result /\ runFailed' = FALSE
      /\ runs' = runs \cup {new}
      /\ count' \in Nat /\ (isOpen => count' = count)
      /\ UNCHANGED <<pattern, verdict, problem, pending, patternCrossed>>
  BY DEF Asks!OpenDialog, Asks!Retry, Asks!Run, Asks!dialogVars, Asks!builderVars
<1>2. new.id = runId /\ new.of = count' /\ new \in runs'
  BY <1>1
<1>3. RunsKnown'
  BY <1>1, <1>2
<1>4. OwnedHere'
  BY <1>1, <1>2
<1>5. Asks!VerdictShown'
  <2>1. result' # None => result' = count'
    BY <1>1 DEF Asks!VerdictShown
  <2>2. \E r \in runs' : (Asks!Owns(r))'
    BY <1>1, <1>2 DEF Asks!Owns
  <2>3. QED
    BY <1>1, <2>1, <2>2 DEF Asks!VerdictShown
<1>6. QED
  BY <1>1, <1>3, <1>4, <1>5

LEMMA VerdictStep ==
  ASSUME VerdictInv, [Asks!NextVerdicts]_(Asks!verdictVars)
  PROVE  VerdictInv'
<1> USE DEF VerdictInv, RunsKnown, OwnedHere, AskedOfPattern, Asks!VerdictShown, Asks!Owns,
            Asks!dialogVars, Asks!builderVars
<1>1. CASE Asks!OpenDialog \/ Asks!Retry
  BY <1>1, VerdictRuns
<1>2. CASE Asks!CloseDialog
  BY <1>2 DEF Asks!CloseDialog
<1>3. CASE Asks!Settle
  <2>1. PICK r \in runs :
          /\ runs' = runs \ {r}
          /\ \/ result' = (IF Asks!Owns(r) THEN r.of ELSE result) /\ UNCHANGED runFailed
             \/ runFailed' = (IF Asks!Owns(r) THEN TRUE ELSE runFailed) /\ UNCHANGED result
          /\ UNCHANGED <<isOpen, count, runId, pattern, verdict, problem, pending, patternCrossed>>
    BY <1>3 DEF Asks!Settle
  <2>2. RunsKnown' /\ OwnedHere' /\ AskedOfPattern'
    BY <2>1
  <2> isOpen' = isOpen /\ count' = count /\ runId' = runId
    BY <2>1
  <2>3. CASE Asks!Owns(r)
    <3>1. isOpen /\ r.of = count /\ r.of # None
      BY <2>3, NoneIsNoOpening
    <3>2. result' = count \/ (runFailed' /\ result' = result)
      BY <2>1, <2>3, <3>1
    <3>3. QED
      BY <2>1, <2>2, <3>1, <3>2, NoneIsNoOpening
  <2>4. CASE ~Asks!Owns(r)
    <3>2. result' = result /\ runFailed' = runFailed
      BY <2>1, <2>4
    <3>3. \A q \in runs : Asks!Owns(q) => q \in runs'
      BY <2>1, <2>4
    <3>4. (\E q \in runs : Asks!Owns(q)) => \E q \in runs' : (Asks!Owns(q))'
      BY <2>1, <3>3
    <3>5. ~patternCrossed' => {verdict', problem'} \subseteq {None, pattern'}
      BY <2>1
    <3>6. result' # None \/ runFailed' => isOpen'
      BY <2>1, <3>2
    <3>7. result' # None => result' = count'
      BY <2>1, <3>2
    <3>8. isOpen' => result' # None \/ runFailed' \/ \E q \in runs' : (Asks!Owns(q))'
      BY <2>1, <3>2, <3>4
    <3>9. QED
      BY <2>2, <3>5, <3>6, <3>7, <3>8
  <2>5. QED
    BY <2>3, <2>4
<1>5. CASE Asks!EditPattern
  BY <1>5 DEF Asks!EditPattern
<1>6. CASE Asks!Submit
  BY <1>6 DEF Asks!Submit
<1>7. CASE Asks!Judged
  BY <1>7 DEF Asks!Judged
<1>8. CASE UNCHANGED Asks!verdictVars
  BY <1>8 DEF Asks!verdictVars
<1>9. QED
  BY <1>1, <1>2, <1>3, <1>5, <1>6, <1>7, <1>8 DEF Asks!NextVerdicts

LEMMA VerdictHolds == Asks!VerdictsSpec => [](Asks!VerdictShown)
<1>1. Asks!InitVerdicts => VerdictInv
  BY DEF Asks!InitVerdicts, VerdictInv, RunsKnown, OwnedHere, AskedOfPattern, Asks!VerdictShown
<1>2. VerdictInv /\ [Asks!NextVerdicts]_(Asks!verdictVars) => VerdictInv'
  BY VerdictStep
<1>3. VerdictInv => Asks!VerdictShown
  BY DEF VerdictInv
<1>4. QED
  BY <1>1, <1>2, <1>3, PTL DEF Asks!VerdictsSpec

-----------------------------------------------------------------------------
(* A list.                                                                 *)

\* The debounce waits for what the inputs show, and only if it is not applied; what
\* is asked for is on its way, on screen or failed.
ListTypes ==
    /\ pages \in [Filter -> Nat] /\ filters \in Filter
    /\ \A f \in Filter : pages[f] >= 1
    /\ applied = [page |-> applied.page, filters |-> applied.filters] /\ applied.filters \in Filter

Waits == IF timer = None THEN applied.filters = filters ELSE timer = filters

AskedOrThere == applied \in fetching \/ shown = applied \/ failed

PageExists == ~stray => applied.page <= pages[applied.filters]

ListInv == ListTypes /\ Waits /\ AskedOrThere /\ PageExists

\* A query applied is on its way, or was the one applied.
LEMMA Applies ==
  ASSUME NEW query, List!Apply(query), AskedOrThere
  PROVE  AskedOrThere' /\ applied' = query
BY DEF List!Apply, AskedOrThere

LEMMA ListStep ==
  ASSUME ListInv, [List!Next]_(List!vars)
  PROVE  ListInv'
<1>0. ListTypes /\ Waits /\ AskedOrThere /\ PageExists
  BY DEF ListInv
<1>1. CASE List!SetFilters
  <2>1. PICK f \in Filter : filters' = f /\ List!Wait(f)
    BY <1>1 DEF List!SetFilters
  <2>2. UNCHANGED <<applied, pages, fetching, cached, failed, shown, steps, stray>>
    BY <1>1 DEF List!SetFilters
  <2>3. Waits'
    BY <2>1, <2>2, FilterAssumption DEF Waits, List!Wait
  <2>4. QED
    BY <1>0, <2>1, <2>2, <2>3 DEF ListInv, ListTypes, AskedOrThere, PageExists
<1>2. CASE List!TimerFires
  <2>1. /\ timer # None /\ List!Apply(List!Query(1, timer)) /\ timer' = None /\ stray' = FALSE
        /\ UNCHANGED <<filters, pages, cached, steps>>
    BY <1>2 DEF List!TimerFires
  <2>2. timer = filters /\ AskedOrThere' /\ applied' = [page |-> 1, filters |-> filters]
    BY <1>0, <2>1, Applies DEF Waits, List!Query
  <2>3. QED
    BY <1>0, <2>1, <2>2 DEF ListInv, ListTypes, Waits, PageExists
<1>3. CASE List!CommitFilters
  <2>1. PICK f \in Filter : filters' = f /\ List!Apply(List!Query(1, f))
    BY <1>3 DEF List!CommitFilters
  <2>2. timer' = None /\ stray' = FALSE /\ UNCHANGED <<pages, cached, steps>>
    BY <1>3 DEF List!CommitFilters
  <2>3. AskedOrThere' /\ applied' = [page |-> 1, filters |-> f]
    BY <1>0, <2>1, Applies DEF List!Query
  <2>4. QED
    BY <1>0, <2>1, <2>2, <2>3 DEF ListInv, ListTypes, Waits, PageExists
<1>4. CASE List!SetPage
  <2>1. PICK p \in {shown.page - 1, shown.page + 1} \cap (1 .. cached[shown]) :
          List!Apply(List!Query(p, applied.filters))
    BY <1>4 DEF List!SetPage
  <2>2. /\ stray' = (stray \/ shown.filters # applied.filters \/ cached[shown] # pages[shown.filters])
        /\ UNCHANGED <<filters, timer, pages, cached, steps>>
    BY <1>4 DEF List!SetPage
  <2>3. AskedOrThere' /\ applied' = [page |-> p, filters |-> applied.filters]
    BY <1>0, <2>1, Applies DEF List!Query
  <2>4. ListTypes' /\ Waits'
    BY <1>0, <2>2, <2>3 DEF ListTypes, Waits
  <2>5. ASSUME ~stray' PROVE p <= pages[applied.filters]
    <3>1. shown.filters = applied.filters /\ cached[shown] = pages[shown.filters]
      BY <2>2, <2>5
    <3>2. cached[shown] \in Nat /\ p \in 1 .. cached[shown]
      BY <1>0, <2>1, <3>1 DEF ListTypes
    <3>3. QED
      BY <3>1, <3>2
  <2>6. QED
    BY <2>2, <2>3, <2>4, <2>5 DEF ListInv, PageExists
<1>5. CASE List!Answer
  <2>1. PICK k \in fetching : fetching' = fetching \ {k} /\ shown' = IF k = applied THEN k ELSE shown
    BY <1>5 DEF List!Answer
  <2>2. UNCHANGED <<filters, applied, timer, pages, failed, steps, stray>>
    BY <1>5 DEF List!Answer
  <2>3. AskedOrThere'
    BY <1>0, <2>1, <2>2 DEF AskedOrThere
  <2>4. QED
    BY <1>0, <2>2, <2>3 DEF ListInv, ListTypes, Waits, PageExists
<1>6. CASE List!Fail
  <2>1. PICK k \in fetching : fetching' = fetching \ {k} /\ failed' = (failed \/ k = applied)
    BY <1>6 DEF List!Fail
  <2>2. UNCHANGED <<filters, applied, timer, pages, cached, shown, steps, stray>>
    BY <1>6 DEF List!Fail
  <2>3. AskedOrThere'
    BY <1>0, <2>1, <2>2 DEF AskedOrThere
  <2>4. QED
    BY <1>0, <2>2, <2>3 DEF ListInv, ListTypes, Waits, PageExists
<1>7. CASE List!Elsewhere
  <2>1. PICK f \in Filter : pages[f] > 1 /\ pages' = [pages EXCEPT ![f] = @ - 1]
    BY <1>7 DEF List!Elsewhere
  <2>2. stray' = TRUE /\ UNCHANGED <<filters, applied, timer, fetching, cached, failed, shown>>
    BY <1>7 DEF List!Elsewhere
  <2>3. pages' \in [Filter -> Nat] /\ \A g \in Filter : pages'[g] >= 1
    BY <1>0, <2>1 DEF ListTypes
  <2>4. QED
    BY <1>0, <2>2, <2>3 DEF ListInv, ListTypes, Waits, AskedOrThere, PageExists
<1>8. CASE UNCHANGED List!vars
  BY <1>0, <1>8 DEF List!vars, ListInv, ListTypes, Waits, AskedOrThere, PageExists
<1>9. QED
  BY <1>1, <1>2, <1>3, <1>4, <1>5, <1>6, <1>7, <1>8 DEF List!Next

LEMMA ListStart == ASSUME List!Init PROVE ListInv
<1>1. filters \in Filter /\ applied = [page |-> 1, filters |-> filters] /\ timer = None /\ ~stray
  BY FilterAssumption DEF List!Init, List!Query
<1>2. pages \in [Filter -> Nat] /\ \A f \in Filter : pages[f] >= 1
  <2>1. pages \in [Filter -> 1 .. MaxPages]
    BY DEF List!Init
  <2>2. \A f \in Filter : pages[f] \in 1 .. MaxPages
    BY <2>1
  <2>3. QED
    BY <2>1, <2>2
<1>3. applied \in fetching
  BY DEF List!Init
<1>4. QED
  BY <1>1, <1>2, <1>3 DEF ListInv, ListTypes, Waits, AskedOrThere, PageExists

LEMMA ListHolds == List!Spec => [](List!SettledShowsTyped)
<1>1. List!Init => ListInv
  BY ListStart
<1>2. ListInv /\ [List!Next]_(List!vars) => ListInv'
  BY ListStep
<1>3. ListInv => List!SettledShowsTyped
  BY DEF ListInv, Waits, AskedOrThere, PageExists, List!SettledShowsTyped
<1>4. QED
  BY <1>1, <1>2, <1>3, PTL DEF List!Spec

\* A list that waits for nothing shows what its inputs show, whatever was typed,
\* chosen and answered in which order (useListQuery, useMyResources).
THEOREM ScreensSettledShowsTyped == ScreensSpec => []SettledShowsTyped
BY PartsBehave, ListHolds, PTL DEF SettledShowsTyped

-----------------------------------------------------------------------------
(* The session.                                                            *)

LEMMA ActingStep ==
  ASSUME Tab!ActingIsCookie, [Tab!Next]_(Tab!vars)
  PROVE  (Tab!ActingIsCookie)'
<1> USE DEF Tab!ActingIsCookie, Tab!ActingUser, Tab!identity, Tab!SetIdentity
<1>1. CASE Tab!Ask \/ Tab!Create \/ Tab!DeleteMe \/ Tab!Reset \/ Tab!StartWalk \/ Tab!WalkPage
           \/ Tab!WalkEnds \/ Tab!Toggle
  <2>1. UNCHANGED <<cookie, acting, tabCrossed, data>>
    BY <1>1 DEF Tab!Ask, Tab!Create, Tab!DeleteMe, Tab!Reset, Tab!StartWalk, Tab!WalkPage, Tab!WalkEnds,
                Tab!Toggle
  <2>2. QED
    BY <2>1
<1>2. CASE Tab!Load
  <2>1. \/ data' = data /\ UNCHANGED <<cookie, acting, tabCrossed>>
        \/ acting' = cookie'
    BY <1>2 DEF Tab!Load
  <2>2. QED
    BY <2>1
<1>3. CASE Tab!SwitchTo
  <2>1. acting' = cookie'
    BY <1>3 DEF Tab!SwitchTo
  <2>2. QED
    BY <2>1
<1>4. CASE Tab!Refreshed
  <2> DEFINE chosen  == Tab!ChooseActingUser(data', cookie)
             written == IF chosen = None THEN cookie ELSE chosen
  <2>1. \/ acting' = cookie'
        \/ /\ data' = data /\ cookie' = written /\ acting' = acting
           /\ tabCrossed' = (tabCrossed /\ written # acting)
    BY <1>4 DEF Tab!Refreshed
  <2>2. CASE data' = data /\ cookie' = written /\ acting' = acting
             /\ tabCrossed' = (tabCrossed /\ written # acting)
    <3> HIDE DEF written
    <3>1. CASE written = acting
      BY <2>2, <3>1
    <3>2. CASE written # acting
      <4>1. ~tabCrossed' => ~tabCrossed
        BY <2>2, <3>2
      <4>2. ASSUME ~tabCrossed, data # None, acting \in Tab!Range(data), acting # None PROVE FALSE
        <5>1. acting = cookie
          BY <4>2
        <5>2. chosen = cookie
          BY <2>2, <4>2, <5>1 DEF Tab!ChooseActingUser
        <5>3. QED
          BY <3>2, <5>1, <5>2 DEF written
      <4>3. data' = data /\ acting' = acting
        BY <2>2
      <4>4. QED
        BY <4>1, <4>2, <4>3
    <3>3. QED
      BY <3>1, <3>2
  <2>3. QED
    BY <2>1, <2>2
<1>5. CASE Tab!RefreshFails
  <2>1. UNCHANGED <<cookie, acting, tabCrossed, data>> \/ data' = None
    BY <1>5 DEF Tab!RefreshFails
  <2>2. QED
    BY <2>1
<1>6. CASE Tab!Others
  <2>1. data' = data /\ (tabCrossed' = TRUE \/ UNCHANGED <<cookie, acting, tabCrossed>>)
    BY <1>6 DEF Tab!Others
  <2>2. QED
    BY <2>1
<1>7. CASE UNCHANGED Tab!vars
  BY <1>7 DEF Tab!vars
<1>8. QED
  BY <1>1, <1>2, <1>3, <1>4, <1>5, <1>6, <1>7 DEF Tab!Next

LEMMA ActingHolds == Tab!Spec => [](Tab!ActingIsCookie)
<1>1. Tab!Init => Tab!ActingIsCookie
  BY DEF Tab!Init, Tab!ActingIsCookie, Tab!ActingUser
<1>2. Tab!ActingIsCookie /\ [Tab!Next]_(Tab!vars) => (Tab!ActingIsCookie)'
  BY ActingStep
<1>3. QED
  BY <1>1, <1>2, PTL DEF Tab!Spec

\* The user a tab shows itself to act as is the one its requests are from, through
\* every load, switch, creation, deletion and failed refresh, unless another tab
\* wrote the cookie (SessionProvider).
THEOREM ScreensActingIsCookie == ScreensSpec => []ActingIsCookie
BY PartsBehave, ActingHolds, PTL DEF ActingIsCookie

\* The size of a set is the same seen from the session.
LEMMA TabCardinality == \A S : Tab!Cardinality(S) = Cardinality(S)
BY DEF Tab!Cardinality, Cardinality

\* The list of a user's connections names each of them once.
LEMMA SortedFacts ==
  ASSUME mine \in [Users -> SUBSET Users], NEW u \in Users
  PROVE  /\ Cardinality(mine[u]) \in Nat
         /\ Tab!Sorted(u) \in Seq(mine[u]) /\ Len(Tab!Sorted(u)) = Cardinality(mine[u])
         /\ \A v \in mine[u] : \E i \in 1 .. Cardinality(mine[u]) : Tab!Sorted(u)[i] = v
         /\ \A i, j \in 1 .. Cardinality(mine[u]) : Tab!Sorted(u)[i] = Tab!Sorted(u)[j] => i = j
<1> DEFINE S == mine[u]
           n == Cardinality(S)
           s == Tab!Sorted(u)
<1>1. S \subseteq Int /\ IsFiniteSet(S)
  BY SessionAssumption, FS_Subset
<1>2. n \in Nat
  BY <1>1, FS_CardinalityType
<1>3. s \in [1 .. n -> S] /\ \A i, j \in 1 .. n : i < j => s[i] < s[j]
  BY <1>1, AscendingList, TabCardinality DEF Tab!Sorted
<1>4. \A i, j \in 1 .. n : s[i] = s[j] => i = j
  <2>1. \A i \in 1 .. n : s[i] \in Int
    BY <1>1, <1>3
  <2>2. QED
    BY <1>3, <2>1
<1>5. s \in Surjection(1 .. n, S)
  <2>1. s \in Injection(1 .. n, S)
    BY <1>3, <1>4 DEF Injection, IsInjective
  <2>2. Cardinality(1 .. n) = n /\ IsFiniteSet(1 .. n)
    BY <1>2, FS_Interval
  <2> HIDE DEF s, n, S
  <2>3. QED
    BY <1>1, <2>1, <2>2, FS_Injection DEF n
<1>6. s \in Seq(S) /\ Len(s) = n
  BY <1>2, <1>3
<1>7. QED
  BY <1>2, <1>3, <1>4, <1>5, <1>6 DEF Surjection

LEMMA LeastOfTwo ==
  ASSUME NEW a \in Int, NEW b \in Int
  PROVE  Tab!Min({a, b}) = IF a <= b THEN a ELSE b
BY DEF Tab!Min

IsWalk(w) == w = [items |-> w.items, pages |-> w.pages, next |-> w.next, complete |-> w.complete,
                  from |-> w.from, shifted |-> w.shifted]

SessionTypes ==
    /\ users \in Seq(Users) /\ mine \in [Users -> SUBSET Users]
    /\ walks = [k \in Users |-> walks[k]]
    /\ \A k \in Users : walks[k] # None => IsWalk(walks[k]) /\ walks[k].from # {}

\* How far a walk of k's list has come that nothing shifted.
SoFar(k, w) ==
    /\ w.next \in Nat /\ w.next >= 2
    /\ w.items = SubSeq(Tab!Sorted(k), 1, Tab!Min({(w.next - 1) * WalkSize, Cardinality(mine[k])}))
    /\ w.pages = Tab!Min({Tab!Pages(k), MaxWalked})
    /\ w.complete <=> Tab!Pages(k) <= MaxWalked
    /\ w.next <= w.pages + 1 \/ w.next = 2

WalkInv ==
    /\ SessionTypes
    /\ \A k \in Users : walks[k] # None /\ ~walks[k].shifted /\ walks[k].from = {k} => SoFar(k, walks[k])

\* As long as nobody's connections change, neither does their list.
LEMMA ListsKept ==
  ASSUME mine' = mine
  PROVE  /\ \A k, w : SoFar(k, w)' <=> SoFar(k, w)
         /\ \A k, n : (Tab!Page(k, n))' = Tab!Page(k, n)
<1>1. \A k : (Tab!Sorted(k))' = Tab!Sorted(k)
  BY DEF Tab!Sorted
<1>2. \A k : (Tab!Pages(k))' = Tab!Pages(k)
  BY DEF Tab!Pages
<1>3. \A k, n : (Tab!Page(k, n))' = Tab!Page(k, n)
  BY <1>1 DEF Tab!Page
<1>4. QED
  BY <1>1, <1>2, <1>3 DEF SoFar

\* What is being walked is shifted, or done with.
LEMMA ShiftedWalks ==
  ASSUME SessionTypes, NEW shifted, shifted = Tab!Shifted(walks)
  PROVE  /\ shifted = [k \in Users |-> shifted[k]]
         /\ \A k \in Users : shifted[k] # None =>
               IsWalk(shifted[k]) /\ shifted[k].from # {} /\ shifted[k].shifted
<1>1. \A k \in Users : shifted[k] = IF walks[k] = None THEN None ELSE [walks[k] EXCEPT !.shifted = TRUE]
  BY DEF Tab!Shifted
<1>2. shifted = [k \in Users |-> shifted[k]]
  BY DEF Tab!Shifted
<1>3. ASSUME NEW k \in Users, shifted[k] # None
      PROVE  IsWalk(shifted[k]) /\ shifted[k].from # {} /\ shifted[k].shifted
  <2>1. walks[k] # None /\ shifted[k] = [walks[k] EXCEPT !.shifted = TRUE]
    BY <1>1, <1>3
  <2>2. IsWalk(walks[k]) /\ walks[k].from # {}
    BY <2>1 DEF SessionTypes
  <2>3. QED
    BY <2>1, <2>2 DEF IsWalk
<1>4. QED
  BY <1>2, <1>3

LEMMA ShiftKeeps ==
  ASSUME WalkInv, users' \in Seq(Users), mine' \in [Users -> SUBSET Users], NEW a,
         walks' = Tab!Shifted(walks) \/ walks' = [Tab!Shifted(walks) EXCEPT ![a] = None]
  PROVE  WalkInv'
<1> DEFINE shifted == Tab!Shifted(walks)
<1>1. /\ shifted = [k \in Users |-> shifted[k]]
      /\ \A k \in Users : shifted[k] # None =>
            IsWalk(shifted[k]) /\ shifted[k].from # {} /\ shifted[k].shifted
  BY ShiftedWalks DEF WalkInv
<1> HIDE DEF shifted
<1>2. walks' = [k \in Users |-> walks'[k]] /\ \A k \in Users : walks'[k] # None => walks'[k] = shifted[k]
  BY <1>1 DEF shifted
<1>3. QED
  BY <1>1, <1>2 DEF WalkInv, SessionTypes, IsWalk

\* Deleting somebody, linking two.
LEMMA UsersTyped ==
  ASSUME SessionTypes
  PROVE  /\ \A u : Tab!Without(u) => users' \in Seq(Users) /\ mine' \in [Users -> SUBSET Users]
         /\ \A u, v : u \in Tab!Range(users) /\ v \in Tab!Range(users) =>
              u \in Users /\ v \in Users /\ (Tab!Link(u, v) => mine' \in [Users -> SUBSET Users])
<1>1. \A i \in DOMAIN users : users[i] \in Users
  BY ElementOfSeq DEF SessionTypes
<1>2. ASSUME NEW u, Tab!Without(u) PROVE users' \in Seq(Users) /\ mine' \in [Users -> SUBSET Users]
  <2>1. PICK i \in DOMAIN users : users' = Tab!RemoveAt(users, i)
    BY <1>2 DEF Tab!Without
  <2>2. users \in Seq(Users) /\ Len(users) \in Nat /\ i \in 1 .. Len(users)
    BY LenProperties DEF SessionTypes
  <2>3. users' \in Seq(Users)
    BY <2>1, <2>2 DEF Tab!RemoveAt
  <2>4. mine' \in [Users -> SUBSET Users]
    BY <1>2 DEF Tab!Without, SessionTypes
  <2>5. QED
    BY <2>3, <2>4
<1>3. ASSUME NEW u, NEW v, u \in Tab!Range(users), v \in Tab!Range(users)
      PROVE  u \in Users /\ v \in Users /\ (Tab!Link(u, v) => mine' \in [Users -> SUBSET Users])
  <2>1. u \in Users /\ v \in Users
    BY <1>1, <1>3 DEF Tab!Range
  <2>2. ASSUME Tab!Link(u, v) PROVE mine' \in [Users -> SUBSET Users]
    BY <2>1, <2>2 DEF Tab!Link, Tab!Flip, SessionTypes
  <2>3. QED
    BY <2>1, <2>2
<1>4. QED
  BY <1>2, <1>3

\* The first page of a walk is the beginning of the list.
LEMMA FirstPageOfWalk ==
  ASSUME SessionTypes, NEW k \in Users, NEW x,
         x = [items |-> Tab!Page(k, 1), pages |-> Tab!Min({Tab!Pages(k), MaxWalked}), next |-> 2,
              complete |-> Tab!Pages(k) <= MaxWalked, from |-> {k}, shifted |-> FALSE]
  PROVE  SoFar(k, x)
<1>1. Cardinality(mine[k]) \in Nat
  BY SortedFacts DEF SessionTypes
<1>2. (1 - 1) * WalkSize + 1 = 1 /\ 1 * WalkSize = WalkSize /\ (2 - 1) * WalkSize = WalkSize
  BY SessionAssumption
<1>3. Tab!Page(k, 1) = SubSeq(Tab!Sorted(k), 1, Tab!Min({WalkSize, Cardinality(mine[k])}))
  BY <1>2, TabCardinality DEF Tab!Page
<1>4. /\ x.items = Tab!Page(k, 1) /\ x.pages = Tab!Min({Tab!Pages(k), MaxWalked}) /\ x.next = 2
      /\ x.complete <=> Tab!Pages(k) <= MaxWalked
  OBVIOUS
<1>5. (x.next - 1) * WalkSize = WalkSize
  BY <1>2, <1>4
<1>6. x.items = SubSeq(Tab!Sorted(k), 1, Tab!Min({(x.next - 1) * WalkSize, Cardinality(mine[k])}))
  BY <1>3, <1>4, <1>5
<1>7. x.next \in Nat /\ x.next >= 2
  BY <1>4
<1>8. QED
  BY <1>4, <1>6, <1>7, Zenon DEF SoFar

\* The next page continues it.
LEMMA NextPageOfWalk ==
  ASSUME SessionTypes, NEW k \in Users, NEW w, IsWalk(w), SoFar(k, w), w.next <= w.pages, NEW x,
         x = [w EXCEPT !.items = @ \o Tab!Page(k, w.next), !.next = @ + 1, !.from = @ \cup {k}]
  PROVE  SoFar(k, x)
<1> DEFINE n == Cardinality(mine[k])
           s == Tab!Sorted(k)
           m == w.next
           a == (m - 1) * WalkSize
           b == IF m * WalkSize <= n THEN m * WalkSize ELSE n
<1>0. /\ x.items = w.items \o Tab!Page(k, m) /\ x.next = m + 1 /\ x.pages = w.pages
      /\ x.complete = w.complete
  BY DEF IsWalk
<1>1. n \in Nat /\ s \in Seq(mine[k]) /\ Len(s) = n
  BY SortedFacts DEF SessionTypes
<1>2. Tab!Pages(k) \in Nat /\ (Tab!Pages(k) - 1) * WalkSize < n
  BY <1>1, SessionAssumption, PagesOfRows, TabCardinality DEF Tab!Pages
<1>3. m \in Nat /\ m >= 2 /\ m <= Tab!Pages(k)
  <2>1. w.pages = IF Tab!Pages(k) <= MaxWalked THEN Tab!Pages(k) ELSE MaxWalked
    BY <1>2, SessionAssumption, LeastOfTwo DEF SoFar
  <2>2. QED
    BY <1>2, <2>1, SessionAssumption DEF SoFar
<1>4. a \in Nat /\ a <= n /\ a + WalkSize = m * WalkSize /\ m * WalkSize \in Nat
  <2>1. a <= (Tab!Pages(k) - 1) * WalkSize
    BY <1>2, <1>3, SessionAssumption, TimesMonotonic
  <2>2. a \in Nat /\ a + WalkSize = m * WalkSize /\ m * WalkSize \in Nat
    BY <1>3, SessionAssumption
  <2>3. (Tab!Pages(k) - 1) * WalkSize \in Int
    BY <1>2, SessionAssumption
  <2>4. QED
    BY <1>1, <1>2, <2>1, <2>2, <2>3
<1>5. b \in a .. n
  BY <1>1, <1>4, SessionAssumption
<1>6. w.items = SubSeq(s, 1, a)
  <2>1. Tab!Min({a, n}) = a
    BY <1>1, <1>4, LeastOfTwo
  <2>2. QED
    BY <2>1 DEF SoFar
<1>7. Tab!Page(k, m) = SubSeq(s, a + 1, b)
  <2>1. Tab!Min({m * WalkSize, n}) = b
    BY <1>1, <1>4, LeastOfTwo
  <2>2. QED
    BY <2>1, TabCardinality DEF Tab!Page
<1>8. x.items = SubSeq(s, 1, b)
  <2>1. a \in 0 .. Len(s) /\ b \in a .. Len(s)
    BY <1>1, <1>4, <1>5
  <2> HIDE DEF a, b, s
  <2>2. SubSeq(s, 1, a) \o SubSeq(s, a + 1, b) = SubSeq(s, 1, b)
    BY <1>1, <2>1, JoinOfPieces
  <2>3. QED
    BY <1>0, <1>6, <1>7, <2>2
<1>9. b = Tab!Min({(x.next - 1) * WalkSize, n})
  <2>1. x.next - 1 = m
    BY <1>0, <1>3
  <2>2. QED
    BY <1>1, <1>4, <2>1, LeastOfTwo
<1>10. x.next \in Nat /\ x.next >= 2 /\ x.next <= x.pages + 1
  <2>1. w.pages \in Int
    BY <1>2, SessionAssumption, LeastOfTwo DEF SoFar
  <2>2. QED
    BY <1>0, <1>3, <2>1
<1>11. QED
  BY <1>0, <1>8, <1>9, <1>10 DEF SoFar

LEMMA ContinuedWalk ==
  ASSUME NEW w, IsWalk(w)
  PROVE  /\ IsWalk(Tab!Continued(w)) /\ Tab!Continued(w).from = w.from \cup {cookie}
         /\ Tab!Continued(w).shifted = w.shifted
<1> DEFINE x == Tab!Continued(w)
<1>1. DOMAIN w = {"items", "pages", "next", "complete", "from", "shifted"}
  BY DEF IsWalk
<1>2. x = [f \in DOMAIN w |-> x[f]] /\ DOMAIN x = DOMAIN w
  BY DEF Tab!Continued
<1>3. x.from = w.from \cup {cookie} /\ x.shifted = w.shifted
  BY <1>1 DEF Tab!Continued
<1> HIDE DEF x
<1>4. IsWalk(x)
  BY <1>1, <1>2 DEF IsWalk
<1>5. QED
  BY <1>3, <1>4 DEF x

LEMMA WalkStep ==
  ASSUME WalkInv, [Tab!Next]_(Tab!vars)
  PROVE  WalkInv'
<1>0. SessionTypes
  BY DEF WalkInv
<1>1. ASSUME users' \in Seq(Users), UNCHANGED <<mine, walks>> PROVE WalkInv'
  BY <1>1, ListsKept DEF WalkInv, SessionTypes
<1>2. CASE Tab!Ask \/ Tab!Load \/ Tab!SwitchTo \/ Tab!Refreshed \/ UNCHANGED Tab!vars
  BY <1>0, <1>1, <1>2 DEF Tab!Ask, Tab!Load, Tab!SwitchTo, Tab!Refreshed, Tab!vars, Tab!lists, SessionTypes
<1>3. CASE Tab!Create
  <2>1. PICK u \in Users : users' = <<u>> \o users
    BY <1>3 DEF Tab!Create
  <2>2. users' \in Seq(Users)
    BY <1>0, <2>1 DEF SessionTypes
  <2>3. QED
    BY <1>1, <1>3, <2>2 DEF Tab!Create, Tab!lists
<1>4. CASE Tab!DeleteMe
  BY <1>0, <1>4, UsersTyped, ShiftKeeps DEF Tab!DeleteMe
<1>5. CASE Tab!Reset
  <2>1. users' = <<>> /\ mine' = [u \in Users |-> {}] /\ walks' = [u \in Users |-> None]
    BY <1>5 DEF Tab!Reset
  <2>2. QED
    BY <2>1 DEF WalkInv, SessionTypes
<1>6. CASE Tab!RefreshFails
  <2>1. UNCHANGED <<users, mine>> /\ (UNCHANGED walks \/ walks' = [u \in Users |-> None])
    BY <1>6 DEF Tab!RefreshFails, Tab!lists
  <2>2. CASE walks' = [u \in Users |-> None]
    BY <1>0, <2>1, <2>2 DEF WalkInv, SessionTypes
  <2>3. QED
    BY <1>0, <1>1, <2>1, <2>2 DEF SessionTypes
<1>7. CASE Tab!StartWalk
  <2> DEFINE w == [items |-> Tab!Page(cookie, 1), pages |-> Tab!Min({Tab!Pages(cookie), MaxWalked}), next |-> 2,
                   complete |-> Tab!Pages(cookie) <= MaxWalked, from |-> {cookie}, shifted |-> FALSE]
  <2>1. UNCHANGED <<users, mine>> /\ walks' = [walks EXCEPT ![acting] = w]
    BY <1>7 DEF Tab!StartWalk
  <2>2. \A k \in Users : walks'[k] = IF k = acting THEN w ELSE walks[k]
    BY <1>0, <2>1 DEF SessionTypes
  <2>3. walks' = [k \in Users |-> walks'[k]]
    BY <1>0, <2>1 DEF SessionTypes
  <2>4. IsWalk(w) /\ w.from = {cookie}
    BY DEF IsWalk
  <2>5. \A k \in Users : w.from = {k} => SoFar(k, w)
    BY <1>0, <2>4, FirstPageOfWalk
  <2> HIDE DEF w
  <2>6. SessionTypes'
    BY <1>0, <2>1, <2>2, <2>3, <2>4 DEF SessionTypes, IsWalk
  <2>7. ASSUME NEW k \in Users, walks'[k] # None, ~walks'[k].shifted, walks'[k].from = {k}
        PROVE  SoFar(k, walks'[k])
    BY <2>2, <2>5, <2>7 DEF WalkInv
  <2>8. \A k \in Users : walks'[k] # None /\ ~walks'[k].shifted /\ walks'[k].from = {k}
                         => SoFar(k, walks[k])'
    BY <2>1, <2>7, ListsKept DEF SoFar
  <2>9. QED
    BY <2>6, <2>8 DEF WalkInv
<1>8. CASE Tab!WalkPage
  <2>1. PICK key \in Users :
          /\ walks[key] # None /\ Tab!More(walks[key])
          /\ walks' = [walks EXCEPT ![key] =
               IF cookie \in Tab!Range(users) THEN Tab!Continued(walks[key]) ELSE None]
    BY <1>8 DEF Tab!WalkPage
  <2>2. UNCHANGED <<users, mine>>
    BY <1>8 DEF Tab!WalkPage
  <2> DEFINE old == walks[key]
             new == Tab!Continued(old)
  <2>3. /\ \A k \in Users \ {key} : walks'[k] = walks[k]
        /\ walks'[key] = None \/ walks'[key] = new
        /\ walks' = [k \in Users |-> walks'[k]]
    BY <1>0, <2>1 DEF SessionTypes
  <2>4. IsWalk(old) /\ old.from # {}
    BY <1>0, <2>1 DEF SessionTypes
  <2>5. IsWalk(new) /\ new.from = old.from \cup {cookie} /\ new.shifted = old.shifted
    BY <2>4, ContinuedWalk
  <2>6. ASSUME new.from = {key}, ~new.shifted PROVE SoFar(key, new)
    <3>1. cookie = key /\ old.from = {key} /\ ~old.shifted
      BY <2>4, <2>5, <2>6
    <3>2. SoFar(key, old) /\ old.next <= old.pages
      BY <2>1, <3>1 DEF WalkInv, Tab!More
    <3>3. new = [old EXCEPT !.items = @ \o Tab!Page(key, old.next), !.next = @ + 1, !.from = @ \cup {key}]
      BY <3>1 DEF Tab!Continued
    <3> HIDE DEF old, new
    <3>4. QED
      BY <1>0, <2>4, <3>2, <3>3, NextPageOfWalk
  <2> HIDE DEF new
  <2>7. SessionTypes'
    BY <1>0, <2>2, <2>3, <2>4, <2>5 DEF SessionTypes, IsWalk
  <2>8. ASSUME NEW k \in Users, walks'[k] # None, ~walks'[k].shifted, walks'[k].from = {k}
        PROVE  SoFar(k, walks'[k])
    BY <2>3, <2>6, <2>8 DEF WalkInv
  <2>9. \A k \in Users : walks'[k] # None /\ ~walks'[k].shifted /\ walks'[k].from = {k}
                         => SoFar(k, walks[k])'
    BY <2>2, <2>8, ListsKept DEF SoFar
  <2>10. QED
    BY <2>7, <2>9 DEF WalkInv
<1>9. CASE Tab!WalkEnds
  <2>1. PICK key \in Users : walks' = [walks EXCEPT ![key] = None]
    BY <1>9 DEF Tab!WalkEnds
  <2>2. UNCHANGED <<users, mine>>
    BY <1>9 DEF Tab!WalkEnds
  <2>3. /\ \A k \in Users : walks'[k] # None => walks'[k] = walks[k]
        /\ walks' = [k \in Users |-> walks'[k]]
    BY <1>0, <2>1 DEF SessionTypes
  <2>4. SessionTypes'
    BY <1>0, <2>2, <2>3 DEF SessionTypes, IsWalk
  <2>5. \A k \in Users : walks'[k] # None /\ ~walks'[k].shifted /\ walks'[k].from = {k}
                         => SoFar(k, walks'[k])
    BY <2>3 DEF WalkInv
  <2>6. \A k \in Users : walks'[k] # None /\ ~walks'[k].shifted /\ walks'[k].from = {k}
                         => SoFar(k, walks[k])'
    BY <2>2, <2>5, ListsKept DEF SoFar
  <2>7. QED
    BY <2>4, <2>6 DEF WalkInv
<1>10. CASE Tab!Toggle
  <2>1. PICK v \in Tab!Range(users) \ {cookie} : Tab!Link(cookie, v)
    BY <1>10 DEF Tab!Toggle
  <2>2. /\ cookie \in Tab!Range(users) /\ users' = users
        /\ walks' = [Tab!Shifted(walks) EXCEPT ![acting] = None]
    BY <1>10 DEF Tab!Toggle
  <2>3. users' \in Seq(Users) /\ mine' \in [Users -> SUBSET Users]
    BY <1>0, <2>1, <2>2, UsersTyped DEF SessionTypes
  <2>4. QED
    BY <2>2, <2>3, ShiftKeeps
<1>11. CASE Tab!Others
  <2>1. CASE UNCHANGED <<users, mine, walks>>
    BY <1>0, <1>1, <2>1 DEF SessionTypes
  <2>2. ASSUME walks' = Tab!Shifted(walks), NEW u \in Tab!Range(users), Tab!Without(u) PROVE WalkInv'
    BY <1>0, <2>2, UsersTyped, ShiftKeeps
  <2>3. ASSUME walks' = Tab!Shifted(walks), NEW u \in Users, users' = <<u>> \o users, UNCHANGED mine
        PROVE  WalkInv'
    <3>1. users' \in Seq(Users) /\ mine' \in [Users -> SUBSET Users]
      BY <1>0, <2>3 DEF SessionTypes
    <3>2. QED
      BY <2>3, <3>1, ShiftKeeps
  <2>4. ASSUME walks' = Tab!Shifted(walks), NEW u \in Tab!Range(users), NEW v \in Tab!Range(users),
               Tab!Link(u, v), UNCHANGED users
        PROVE  WalkInv'
    <3>1. users' \in Seq(Users) /\ mine' \in [Users -> SUBSET Users]
      BY <1>0, <2>4, UsersTyped DEF SessionTypes
    <3>2. QED
      BY <2>4, <3>1, ShiftKeeps
  <2>5. QED
    BY <1>11, <2>1, <2>2, <2>3, <2>4 DEF Tab!Others
<1>12. QED
  BY <1>2, <1>3, <1>4, <1>5, <1>6, <1>7, <1>8, <1>9, <1>10, <1>11 DEF Tab!Next

LEMMA WalkStart == ASSUME Tab!Init PROVE WalkInv
<1>1. users \in Seq(Users)
  <2>1. PICK n \in 0 .. Tab!Cardinality(Users) : users \in [1 .. n -> Users]
    BY DEF Tab!Init
  <2>2. n \in Nat
    BY <2>1, SessionAssumption, TabCardinality, FS_CardinalityType
  <2>3. QED
    BY <2>1, <2>2
<1>2. mine \in [Users -> SUBSET Users]
  <2>1. Tab!Range(users) \subseteq Users
    BY <1>1, ElementOfSeq DEF Tab!Range
  <2>2. QED
    BY <2>1 DEF Tab!Init
<1>3. walks = [u \in Users |-> None]
  BY DEF Tab!Init
<1>4. QED
  BY <1>1, <1>2, <1>3 DEF WalkInv, SessionTypes

\* A walk that is over has the whole list, or what its cap leaves.
LEMMA WalkEnded ==
  ASSUME WalkInv PROVE Tab!WalkExactUnlessShifted
<1> SUFFICES ASSUME NEW k \in Users, walks[k] # None, ~Tab!More(walks[k]), ~walks[k].shifted,
                    walks[k].from = {k}
             PROVE  /\ walks[k].items = SubSeq(Tab!Sorted(k), 1,
                                          Tab!Min({Cardinality(mine[k]), MaxWalked * WalkSize}))
                    /\ walks[k].complete <=> Tab!Range(walks[k].items) = mine[k]
  BY TabCardinality DEF Tab!WalkExactUnlessShifted
<1> DEFINE w == walks[k]
           n == Cardinality(mine[k])
           s == Tab!Sorted(k)
           p == Tab!Pages(k)
           least == IF n <= MaxWalked * WalkSize THEN n ELSE MaxWalked * WalkSize
<1>1. SoFar(k, w) /\ SessionTypes
  BY DEF WalkInv
<1>2. /\ n \in Nat /\ s \in Seq(mine[k]) /\ Len(s) = n
      /\ \A v \in mine[k] : \E i \in 1 .. n : s[i] = v
      /\ \A i, j \in 1 .. n : s[i] = s[j] => i = j
  BY <1>1, SortedFacts DEF SessionTypes
<1>3. p \in Nat /\ p * WalkSize >= n /\ (p - 1) * WalkSize < n
  BY <1>2, SessionAssumption, PagesOfRows, TabCardinality DEF Tab!Pages
<1>4. w.pages = IF p <= MaxWalked THEN p ELSE MaxWalked
  BY <1>1, <1>3, SessionAssumption, LeastOfTwo DEF SoFar
<1>5. w.next \in Nat /\ w.next >= 2 /\ ~(w.next <= w.pages) /\ (w.next <= w.pages + 1 \/ w.next = 2)
  BY <1>1 DEF SoFar, Tab!More
<1>6. w.next - 1 = w.pages \/ (p = 0 /\ w.next = 2)
  <2>1. p \in Nat /\ MaxWalked \in Nat /\ MaxWalked >= 1
    BY <1>3, SessionAssumption
  <2> HIDE DEF w, p
  <2>2. QED
    BY <1>4, <1>5, <2>1
<1>7. MaxWalked * WalkSize \in Nat /\ (w.next - 1) * WalkSize \in Nat
  BY <1>5, SessionAssumption
<1>8. w.items = SubSeq(s, 1, least)
  <2>1. w.items = SubSeq(s, 1, IF (w.next - 1) * WalkSize <= n THEN (w.next - 1) * WalkSize ELSE n)
    <3> HIDE DEF w, s
    <3>1. w.items = SubSeq(s, 1, Tab!Min({(w.next - 1) * WalkSize, n}))
      BY <1>1 DEF SoFar, s
    <3>2. QED
      BY <1>2, <1>7, <3>1, LeastOfTwo
  <2>2. CASE p = 0
    BY <1>2, <1>3, <1>7, <2>1, <2>2, SessionAssumption
  <2>3. CASE p # 0 /\ p <= MaxWalked
    <3>1. w.next - 1 = p
      BY <1>4, <1>6, <2>3
    <3>2. p * WalkSize <= MaxWalked * WalkSize
      BY <1>3, <2>3, SessionAssumption, TimesMonotonic
    <3>3. p * WalkSize \in Int
      BY <1>3, SessionAssumption
    <3>4. least = n
      BY <1>2, <1>3, <1>7, <3>2, <3>3
    <3>5. QED
      BY <1>2, <1>3, <2>1, <3>1, <3>3, <3>4
  <2>4. CASE p > MaxWalked
    <3>1. w.next - 1 = MaxWalked
      BY <1>3, <1>4, <1>6, <2>4, SessionAssumption
    <3> HIDE DEF w, s, n
    <3>2. QED
      BY <1>2, <1>7, <2>1, <3>1
  <2>5. QED
    BY <1>3, <2>2, <2>3, <2>4, SessionAssumption
<1>9. least \in 0 .. n /\ (p <= MaxWalked => least = n) /\ (p > MaxWalked => least < n)
  <2>1. least \in 0 .. n
    BY <1>2, <1>7
  <2>2. ASSUME p <= MaxWalked PROVE least = n
    <3>1. p * WalkSize <= MaxWalked * WalkSize /\ p * WalkSize \in Int
      BY <1>3, <2>2, SessionAssumption, TimesMonotonic
    <3>2. QED
      BY <1>2, <1>3, <1>7, <3>1
  <2>3. ASSUME p > MaxWalked PROVE least < n
    <3>1. MaxWalked <= p - 1 /\ p - 1 \in Int
      BY <1>3, <2>3, SessionAssumption
    <3>2. MaxWalked * WalkSize <= (p - 1) * WalkSize /\ (p - 1) * WalkSize \in Int
      BY <3>1, SessionAssumption, TimesMonotonic
    <3>3. QED
      BY <1>2, <1>3, <1>7, <3>2
  <2>4. QED
    BY <2>1, <2>2, <2>3
<1>10. w.complete <=> Tab!Range(w.items) = mine[k]
  <2> HIDE DEF least, s, n
  <2>1. DOMAIN w.items = 1 .. least /\ \A i \in 1 .. least : w.items[i] = s[i]
    BY <1>2, <1>8, <1>9
  <2>2. \A i \in 1 .. n : s[i] \in mine[k]
    BY <1>2, ElementOfSeq
  <2>3. CASE p <= MaxWalked
    <3>1. \A v \in mine[k] : \E i \in DOMAIN w.items : w.items[i] = v
      BY <1>2, <1>9, <2>1, <2>3
    <3>2. \A i \in DOMAIN w.items : w.items[i] \in mine[k]
      BY <1>9, <2>1, <2>2, <2>3
    <3>3. Tab!Range(w.items) = mine[k]
      BY <3>1, <3>2 DEF Tab!Range
    <3>4. QED
      BY <1>1, <2>3, <3>3 DEF SoFar
  <2>4. CASE p > MaxWalked
    <3>1. least < n /\ n \in 1 .. n /\ n \notin 1 .. least /\ 1 .. least \subseteq 1 .. n
      BY <1>2, <1>9, <2>4
    <3>2. s[n] \in mine[k] /\ \A i \in 1 .. least : s[i] # s[n]
      BY <1>2, <2>2, <3>1
    <3>3. s[n] \notin Tab!Range(w.items)
      BY <2>1, <3>2 DEF Tab!Range
    <3>4. ~w.complete
      BY <1>1, <1>3, <2>4, SessionAssumption DEF SoFar
    <3>5. QED
      BY <3>2, <3>3, <3>4
  <2>5. QED
    BY <1>3, <2>3, <2>4, SessionAssumption
<1>11. Tab!Min({n, MaxWalked * WalkSize}) = least
  BY <1>2, <1>7, LeastOfTwo
<1>12. QED
  BY <1>8, <1>10, <1>11

LEMMA WalkHolds == Tab!Spec => [](Tab!WalkExactUnlessShifted)
<1>1. Tab!Init => WalkInv
  BY WalkStart
<1>2. WalkInv /\ [Tab!Next]_(Tab!vars) => WalkInv'
  BY WalkStep
<1>3. WalkInv => Tab!WalkExactUnlessShifted
  BY WalkEnded
<1>4. QED
  BY <1>1, <1>2, <1>3, PTL DEF Tab!Spec

\* A walk over the pages of the connections that no change shifted ends with each of
\* them once, or with what its cap leaves and the word that this is not all, however
\* switches of the user and other walks lie between its pages (fetchAllPages).
THEOREM ScreensWalkExactUnlessShifted == ScreensSpec => []WalkExactUnlessShifted
BY PartsBehave, WalkHolds, PTL DEF WalkExactUnlessShifted

-----------------------------------------------------------------------------
(* A dialog that stores something.                                         *)

FormName == Names \cup {0}
FormRow  == [name : FormName, file : {"old", "none", "new"}]
FormOf   == [name : FormName, file : {"keep", "new", "remove"}]
FormSave == [step : {"none", "row", "list", "content", "content list"}, row : Nat, made : BOOLEAN, of : FormOf]

FormTypes ==
    /\ kind \in Form!Dialogs
    /\ opening \in Nat /\ opening <= MaxOpenings /\ (dialogOpen => opening \in Form!Openings)
    /\ fields \in FormOf /\ (~Form!Keeps => fields.file = "keep")
    /\ table \in Seq(FormRow \cup {Gone}) /\ createdId \in 0 .. Len(table)
    /\ Form!Editing => Len(table) >= 1
    /\ saves \in [Form!Openings -> FormSave]

\* A save knows the row it is about, and what it made it wrote; the bytes are for
\* the dialogs of resources.
SavesKnown ==
    /\ \A o \in Form!Openings :
         /\ saves[o].step # "none" => o <= opening /\ saves[o].row <= Len(table)
         /\ saves[o].step \notin {"none", "row"} => saves[o].row # 0
         /\ ~Form!Keeps => saves[o].of.file = "keep"
         /\ saves[o].made => <<saves[o].row, o>> \in wrote
    /\ \A x \in wrote : x[1] \in 1 .. Len(table) /\ x[2] \in 1 .. opening

Current == saves[opening]

\* A save under way is this opening's, about the fields on screen, and holds the
\* button down.
OneSave ==
    /\ \A o \in Form!Openings : o # opening => saves[o].step = "none"
    /\ busy <=> opening \in Form!Openings /\ Current.step # "none"
    /\ opening \in Form!Openings /\ Current.step # "none" => Current.of = fields
    /\ fieldErrors # None => fieldErrors = fields

\* A save that is past its row has stored it, one that is past its bytes those.
StoredSoFar ==
    opening \in Form!Openings =>
        /\ Current.step \in {"list", "content", "content list"} =>
             table[Current.row] = Gone \/ table[Current.row].name = Current.of.name
        /\ Current.step = "content list" =>
             \/ table[Current.row] = Gone
             \/ table[Current.row].file = IF Current.of.file = "new" THEN "new" ELSE "none"

\* What this opening made is remembered, or about to be, or it is closed: a retry
\* is about a row of its own, or has none.
Remembers ==
    /\ createdId # 0 => <<createdId, opening>> \in wrote
    /\ opening \in Form!Openings /\ Current.step = "row" /\ Current.row # 0 => <<Current.row, opening>> \in wrote
    /\ opening \in Form!Openings /\ Current.step = "row" /\ Current.row = 0 /\ opening \notin unread =>
         \A x \in wrote : x[2] # opening
    /\ opening \notin unread => \A x \in wrote : x[2] = opening =>
         \/ ~dialogOpen \/ createdId = x[1]
         \/ opening \in Form!Openings /\ Current.step = "list" /\ Current.made /\ Current.row = x[1]

OneRow ==
    \A x, y \in wrote : x[2] \notin unread =>
        /\ x[2] = y[2] => x[1] = y[1]
        /\ x[1] = y[1] => x[2] = y[2]

FormInv ==
    /\ FormTypes /\ SavesKnown
    /\ ~formCrossed => OneSave /\ StoredSoFar
    /\ ~formCrossed /\ ~Form!Editing => Remembers /\ OneRow
LEMMA FormStart == ASSUME Form!InitForm PROVE FormInv
<1> USE DEF Form!InitForm, Form!Idle, Form!Editing, Form!Keeps, Form!Openings
<1>1. FormTypes
  <2>1. kind \in Form!Dialogs /\ opening \in Nat /\ opening <= MaxOpenings /\ ~dialogOpen
    BY OpeningsAssumption
  <2>2. fields \in FormOf /\ fields.file = "keep"
    BY DEF FormOf, FormName
  <2>3. table \in Seq(FormRow \cup {Gone}) /\ createdId \in 0 .. Len(table) /\ (Form!Editing => Len(table) >= 1)
    <3>1. [name |-> 0, file |-> "old"] \in FormRow
      BY DEF FormRow, FormName
    <3>2. CASE kind \in {"resource", "group", "delete"}
      BY <3>1, <3>2
    <3>3. CASE kind \notin {"resource", "group", "delete"}
      BY <3>3
    <3>4. QED
      BY <3>2, <3>3
  <2>4. saves \in [Form!Openings -> FormSave]
    BY DEF FormSave, FormOf, FormName
  <2>5. QED
    BY <2>1, <2>2, <2>3, <2>4 DEF FormTypes
<1>2. SavesKnown
  BY DEF SavesKnown
<1>3. OneSave /\ StoredSoFar
  BY DEF OneSave, StoredSoFar, Current
<1>4. Remembers /\ OneRow
  BY DEF Remembers, OneRow, Current
<1>5. QED
  BY <1>1, <1>2, <1>3, <1>4 DEF FormInv

\* The state of an opening begins.
LEMMA FormOpens == ASSUME FormInv, Form!HandleOpen PROVE FormInv'
<1> USE DEF Form!HandleOpen, Form!Openings
<1>1. FormTypes /\ SavesKnown
  BY DEF FormInv
<1>2. UNCHANGED <<kind, table, saves, wrote, unread>> /\ opening' = opening + 1 /\ opening' \in Form!Openings
  BY <1>1, OpeningsAssumption DEF FormTypes
<1>3. fields' \in FormOf /\ fields'.file = "keep"
  <2>1. CASE Form!Editing
    <3>1. table[1] \in FormRow
      BY <1>1, <2>1, ElementOfSeq DEF FormTypes
    <3>2. QED
      BY <2>1, <3>1 DEF Form!Filled, FormRow, FormOf
  <2>2. CASE ~Form!Editing
    BY <2>2 DEF Form!Filled, FormOf, FormName
  <2>3. QED
    BY <2>1, <2>2
<1>4. FormTypes'
  <2>1. /\ kind' \in Form!Dialogs /\ opening' \in Nat /\ opening' <= MaxOpenings
        /\ createdId' \in 0 .. Len(table')
    BY <1>1, <1>2, OpeningsAssumption DEF FormTypes
  <2>2. /\ (Form!Editing' => Len(table') >= 1) /\ table' \in Seq(FormRow \cup {Gone})
        /\ saves' \in [Form!Openings -> FormSave]
    BY <1>1, <1>2 DEF FormTypes, Form!Editing
  <2>3. QED
    BY <1>2, <1>3, <2>1, <2>2 DEF FormTypes, Form!Dialogs
<1>5. SavesKnown'
  <2>1. \A x \in wrote : x[1] \in 1 .. Len(table) /\ x[2] \in 1 .. opening + 1
    BY <1>1 DEF SavesKnown, FormTypes
  <2>2. \A o \in Form!Openings : o <= opening => o <= opening + 1
    BY <1>1, OpeningsAssumption DEF FormTypes
  <2>3. QED
    BY <1>1, <1>2, <2>1, <2>2 DEF SavesKnown, Form!Keeps
<1>6. ~formCrossed' => ~formCrossed /\ \A o \in Form!Openings : saves[o].step = "none"
  BY DEF Form!Saving
<1>7. ASSUME ~formCrossed' PROVE (OneSave /\ StoredSoFar)'
  <2>1. ~busy /\ ~busy'
    BY <1>6, <1>7 DEF FormInv, OneSave, Current
  <2>2. QED
    BY <1>2, <1>6, <1>7, <2>1 DEF OneSave, StoredSoFar, Current
<1>8. ASSUME ~formCrossed', ~Form!Editing' PROVE (Remembers /\ OneRow)'
  <2>1. OneRow
    BY <1>2, <1>6, <1>8 DEF FormInv, Form!Editing
  <2>2. \A x \in wrote : x[2] # opening'
    BY <1>1, <1>2 DEF FormTypes, SavesKnown
  <2>3. QED
    BY <1>2, <1>6, <1>8, <2>1, <2>2 DEF Remembers, OneRow, Current
<1>9. QED
  BY <1>4, <1>5, <1>7, <1>8 DEF FormInv

LEMMA FormCloses == ASSUME FormInv, Form!HandleClose PROVE FormInv'
<1>1. /\ dialogOpen' = FALSE
      /\ UNCHANGED <<kind, opening, fields, createdId, fieldErrors, busy, rowBusy, table, saves, wrote,
                     unread, formCrossed>>
  BY DEF Form!HandleClose
<1>2. FormTypes'
  BY <1>1 DEF FormInv, FormTypes, Form!Dialogs, Form!Keeps, Form!Editing, Form!Openings
<1>3. SavesKnown'
  BY <1>1 DEF FormInv, SavesKnown, Form!Keeps, Form!Openings
<1>4. ~formCrossed' => (OneSave /\ StoredSoFar)'
  BY <1>1 DEF FormInv, OneSave, StoredSoFar, Current, Form!Openings
<1>5. ~formCrossed' /\ ~Form!Editing' => (Remembers /\ OneRow)'
  BY <1>1 DEF FormInv, Remembers, OneRow, Current, Form!Openings, Form!Editing
<1>6. QED
  BY <1>2, <1>3, <1>4, <1>5 DEF FormInv

LEMMA FormEdited == ASSUME FormInv, Form!Edited PROVE FormInv'
<1>1. /\ fields' \in Form!Fields /\ fieldErrors' = None
      /\ formCrossed' = (formCrossed \/ Form!Saving)
      /\ UNCHANGED <<kind, dialogOpen, opening, createdId, busy, rowBusy, table, saves, wrote, unread>>
  BY DEF Form!Edited
<1>2. fields' \in FormOf /\ (~Form!Keeps => fields'.file = "keep")
  BY <1>1 DEF Form!Fields, Form!Files, Form!Keeps, FormOf, FormName
<1>3. FormTypes'
  BY <1>1, <1>2 DEF FormInv, FormTypes, Form!Dialogs, Form!Keeps, Form!Editing, Form!Openings
<1>4. SavesKnown'
  BY <1>1 DEF FormInv, SavesKnown, Form!Keeps, Form!Openings
<1>5. ~formCrossed' => ~formCrossed /\ \A o \in Form!Openings : saves[o].step = "none"
  BY <1>1 DEF Form!Saving
<1>6. ~formCrossed' => (OneSave /\ StoredSoFar)'
  BY <1>1, <1>5 DEF FormInv, OneSave, StoredSoFar, Current, Form!Openings
<1>7. ~formCrossed' /\ ~Form!Editing' => (Remembers /\ OneRow)'
  BY <1>1, <1>5 DEF FormInv, Remembers, OneRow, Current, Form!Openings, Form!Editing
<1>8. QED
  BY <1>3, <1>4, <1>6, <1>7 DEF FormInv

LEMMA FormSaves == ASSUME FormInv, Form!Save PROVE FormInv'
<1> DEFINE new == [step |-> "row", row |-> IF Form!Editing THEN 1 ELSE createdId, made |-> FALSE, of |-> fields]
<1>1. /\ dialogOpen /\ ~busy /\ busy' = TRUE /\ fieldErrors' = None
      /\ saves' = [saves EXCEPT ![opening] = new]
      /\ UNCHANGED <<kind, dialogOpen, opening, fields, createdId, table, wrote, unread, formCrossed>>
  BY DEF Form!Save
<1>2. FormTypes /\ SavesKnown /\ opening \in Form!Openings
  BY <1>1 DEF FormInv, FormTypes
<1>3. new \in FormSave /\ new.row <= Len(table) /\ (~Form!Keeps => new.of.file = "keep")
  <2>1. fields \in FormOf /\ (~Form!Keeps => fields.file = "keep")
    BY <1>2 DEF FormTypes
  <2>2. new.row \in Nat /\ new.row <= Len(table)
    BY <1>2 DEF FormTypes
  <2>3. QED
    BY <2>1, <2>2 DEF FormSave
<1>4. /\ saves' \in [Form!Openings -> FormSave] /\ saves'[opening] = new
      /\ \A o \in Form!Openings : o # opening => saves'[o] = saves[o]
  BY <1>1, <1>2, <1>3 DEF FormTypes
<1>5. FormTypes'
  BY <1>1, <1>2, <1>4 DEF FormTypes, Form!Dialogs, Form!Keeps, Form!Editing, Form!Openings
<1>6. SavesKnown'
  <2>1. opening <= opening /\ new.step = "row" /\ new.made = FALSE
    BY <1>2 DEF FormTypes
  <2> HIDE DEF new
  <2>2. QED
    BY <1>1, <1>2, <1>3, <1>4, <2>1 DEF SavesKnown, Form!Keeps, Form!Openings
<1>7. ~formCrossed' => (OneSave /\ StoredSoFar)'
  BY <1>1, <1>2, <1>4 DEF FormInv, OneSave, StoredSoFar, Current, Form!Openings
<1>8. ASSUME ~formCrossed', ~Form!Editing' PROVE (Remembers /\ OneRow)'
  <2>1. ~formCrossed /\ ~Form!Editing /\ OneSave /\ Remembers /\ OneRow
    BY <1>1, <1>8 DEF FormInv, Form!Editing
  <2>2. Current.step = "none"
    BY <1>1, <1>2, <2>1 DEF OneSave
  <2>3. new.row = createdId /\ (createdId # 0 => <<createdId, opening>> \in wrote)
    BY <2>1 DEF Remembers
  <2>4. opening \notin unread => \A x \in wrote : x[2] = opening => createdId = x[1]
    BY <1>1, <1>2, <2>1, <2>2 DEF Remembers
  <2>5. \A x \in wrote : x[1] # 0
    BY <1>2 DEF SavesKnown
  <2>6. QED
    BY <1>1, <1>2, <1>4, <2>1, <2>2, <2>3, <2>4, <2>5 DEF Remembers, OneRow, Current, Form!Openings
<1>9. QED
  BY <1>5, <1>6, <1>7, <1>8 DEF FormInv
\* A save of an opening ends, and what is remembered of it is right.
LEMMA FormEnds ==
  ASSUME FormInv, NEW o \in Form!Openings, saves[o].step # "none", Form!Ends(o),
         dialogOpen' \in {dialogOpen, FALSE}, createdId' \in 0 .. Len(table), unread \subseteq unread',
         fieldErrors' = fieldErrors \/ (Form!Reaches(o) /\ fieldErrors' = saves[o].of),
         ~formCrossed /\ ~Form!Editing /\ Remembers /\ OneRow /\ o = opening =>
           /\ createdId' # 0 => <<createdId', opening>> \in wrote
           /\ opening \notin unread' => \A x \in wrote : x[2] = opening => ~dialogOpen' \/ createdId' = x[1],
         UNCHANGED <<kind, opening, fields, table, wrote, formCrossed>>
  PROVE  FormInv'
<1> USE DEF Form!Openings
<1>1. FormTypes /\ SavesKnown
  BY DEF FormInv
<1>2. /\ saves' \in [Form!Openings -> FormSave] /\ saves'[o] = Form!Idle
      /\ \A p \in Form!Openings : p # o => saves'[p] = saves[p]
  <2>1. Form!Idle \in FormSave
    BY DEF Form!Idle, FormSave, FormOf, FormName
  <2>2. QED
    BY <1>1, <2>1 DEF FormTypes, Form!Ends
<1>3. Form!Idle.step = "none" /\ Form!Idle.made = FALSE /\ Form!Idle.of.file = "keep"
  BY DEF Form!Idle
<1>4. FormTypes'
  <2>1. dialogOpen' => dialogOpen
    OBVIOUS
  <2>2. QED
    BY <1>1, <1>2, <2>1 DEF FormTypes, Form!Dialogs, Form!Keeps, Form!Editing
<1>5. SavesKnown'
  BY <1>1, <1>2, <1>3 DEF SavesKnown, Form!Keeps
<1>6. ASSUME ~formCrossed'
      PROVE  /\ o = opening /\ OneSave /\ StoredSoFar /\ ~busy'
             /\ \A p \in Form!Openings : saves'[p].step = "none"
  <2>1. OneSave /\ StoredSoFar /\ o = opening
    BY <1>6 DEF FormInv, OneSave
  <2>2. QED
    BY <1>2, <1>3, <2>1 DEF OneSave, Form!Ends, Form!Reaches
<1>7. ASSUME ~formCrossed' PROVE (OneSave /\ StoredSoFar)'
  BY <1>6, <1>7 DEF OneSave, StoredSoFar, Current
<1>8. ASSUME ~formCrossed', ~Form!Editing' PROVE (Remembers /\ OneRow)'
  <2>1. ~formCrossed /\ ~Form!Editing /\ Remembers /\ OneRow
    BY <1>8 DEF FormInv, Form!Editing
  <2>2. QED
    BY <1>6, <1>8, <2>1 DEF Remembers, OneRow, Current
<1>9. QED
  BY <1>4, <1>5, <1>7, <1>8 DEF FormInv

\* The save of an opening that is under way.
LEMMA SaveTyped ==
  ASSUME FormInv, NEW o \in Form!Openings, saves[o].step # "none"
  PROVE  /\ o \in 1 .. opening /\ saves[o].row \in 0 .. Len(table) /\ saves[o].of \in FormOf
         /\ saves[o].row # 0 => saves[o].row \in 1 .. Len(table) /\ table[saves[o].row] \in FormRow \cup {Gone}
<1>1. saves[o] \in FormSave /\ Len(table) \in Nat /\ opening \in Nat
  BY DEF FormInv, FormTypes
<1>2. o <= opening /\ saves[o].row <= Len(table)
  BY DEF FormInv, SavesKnown
<1>3. saves[o].row \in 0 .. Len(table) /\ saves[o].of \in FormOf /\ o \in 1 .. opening
  <2>1. saves[o].row \in Nat /\ saves[o].of \in FormOf
    BY <1>1 DEF FormSave
  <2>2. o \in Int /\ o >= 1
    BY OpeningsAssumption DEF Form!Openings
  <2>3. QED
    BY <1>1, <1>2, <2>1, <2>2
<1>4. table \in Seq(FormRow \cup {Gone})
  BY DEF FormInv, FormTypes
<1>5. QED
  BY <1>3, <1>4, ElementOfSeq

\* A save goes on to its next step, about the row that it had; nothing new is
\* written and what is remembered is right.
GoesOn(o, to) ==
    /\ saves[o].step # "none" /\ saves[o].row # 0
    /\ saves' = [saves EXCEPT ![o].step = to]
    /\ UNCHANGED <<kind, dialogOpen, opening, fields, fieldErrors, busy, unread, formCrossed>>
    /\ table' \in Seq(FormRow \cup {Gone}) /\ Len(table') = Len(table)
    /\ createdId' \in 0 .. Len(table) /\ wrote \subseteq wrote'
    /\ \A x \in wrote' : x \in wrote \/ x = <<saves[o].row, o>>
    /\ table'[saves[o].row] = Gone \/ table'[saves[o].row].name = saves[o].of.name \/ formCrossed
    /\ to = "content list" =>
         \/ table'[saves[o].row] = Gone
         \/ table'[saves[o].row].file = IF saves[o].of.file = "new" THEN "new" ELSE "none"
    /\ ~formCrossed /\ ~Form!Editing /\ Remembers /\ OneRow /\ o = opening =>
         /\ wrote' = wrote
         /\ createdId' # 0 => <<createdId', opening>> \in wrote
         /\ opening \notin unread => \A x \in wrote : x[2] = opening => ~dialogOpen \/ createdId' = x[1]

LEMMA FormGoesOn ==
  ASSUME FormInv, NEW o \in Form!Openings, NEW to \in {"list", "content", "content list"}, GoesOn(o, to)
  PROVE  FormInv'
<1> USE DEF Form!Openings, GoesOn
<1>1. FormTypes /\ SavesKnown
  BY DEF FormInv
<1>2. /\ saves' \in [Form!Openings -> FormSave] /\ saves'[o].step = to
      /\ saves'[o].row = saves[o].row /\ saves'[o].made = saves[o].made /\ saves'[o].of = saves[o].of
      /\ \A p \in Form!Openings : p # o => saves'[p] = saves[p]
  BY <1>1 DEF FormTypes, FormSave
<1>3. FormTypes'
  BY <1>1, <1>2 DEF FormTypes, Form!Dialogs, Form!Keeps, Form!Editing
<1>4. SavesKnown'
  <2> DEFINE row == saves[o].row
  <2>1. o \in 1 .. opening /\ row \in 1 .. Len(table)
    BY SaveTyped
  <2>2. row \in 1 .. Len(table')
    BY <2>1
  <2>3. \A p \in Form!Openings :
          /\ saves'[p].step # "none" => p <= opening /\ saves'[p].row <= Len(table')
          /\ saves'[p].step \notin {"none", "row"} => saves'[p].row # 0
          /\ ~Form!Keeps => saves'[p].of.file = "keep"
          /\ saves'[p].made => <<saves'[p].row, p>> \in wrote'
    BY <1>1, <1>2, <2>1, <2>2 DEF SavesKnown
  <2>4. ASSUME NEW x \in wrote' PROVE x[1] \in 1 .. Len(table') /\ x[2] \in 1 .. opening
    <3>1. CASE x \in wrote
      BY <1>1, <3>1 DEF SavesKnown
    <3>2. CASE x = <<row, o>>
      BY <2>1, <2>2, <3>2
    <3>3. QED
      BY <3>1, <3>2
  <2>5. QED
    BY <2>3, <2>4 DEF SavesKnown, Form!Keeps
<1>5. ASSUME ~formCrossed' PROVE o = opening /\ (OneSave /\ StoredSoFar)'
  <2>1. OneSave /\ StoredSoFar /\ o = opening
    BY <1>5 DEF FormInv, OneSave
  <2>2. OneSave'
    BY <1>2, <1>5, <2>1 DEF OneSave, Current
  <2>3. StoredSoFar'
    BY <1>2, <1>5, <2>1 DEF StoredSoFar, Current
  <2>4. QED
    BY <2>1, <2>2, <2>3
<1>6. ASSUME ~formCrossed', ~Form!Editing' PROVE (Remembers /\ OneRow)'
  <2>1. ~formCrossed /\ ~Form!Editing /\ Remembers /\ OneRow
    BY <1>6 DEF FormInv, Form!Editing
  <2>2. QED
    BY <1>2, <1>5, <1>6, <2>1 DEF Remembers, OneRow, Current
<1>7. QED
  BY <1>3, <1>4, <1>5, <1>6 DEF FormInv
\* The row is stored.
LEMMA FormWritesRow == ASSUME FormInv, NEW o \in Form!Openings, Form!WriteRow(o) PROVE FormInv'
<1> DEFINE s == saves[o]
           row == s.row
           old == table[row]
           new == [name |-> s.of.name, file |-> "none"]
<1>1. /\ s.step = "row"
      /\ UNCHANGED <<kind, dialogOpen, opening, fields, createdId, fieldErrors, busy, rowBusy, unread, formCrossed>>
  BY DEF Form!WriteRow
<1>2. /\ o \in 1 .. opening /\ row \in 0 .. Len(table) /\ s.of \in FormOf
      /\ table \in Seq(FormRow \cup {Gone}) /\ createdId \in 0 .. Len(table)
      /\ row # 0 => row \in 1 .. Len(table) /\ old \in FormRow \cup {Gone}
  BY <1>1, SaveTyped DEF FormInv, FormTypes
<1>3. ASSUME ~formCrossed /\ ~Form!Editing /\ Remembers /\ OneRow /\ o = opening
      PROVE  /\ createdId' # 0 => <<createdId', opening>> \in wrote
             /\ row # 0 => <<row, opening>> \in wrote
             /\ opening \notin unread => \A x \in wrote : x[2] = opening => ~dialogOpen \/ createdId' = x[1]
             /\ row = 0 /\ opening \notin unread => \A x \in wrote : x[2] # opening
  BY <1>1, <1>3 DEF Remembers, Current, Form!Openings
<1>4. CASE row # 0
  <2>1. /\ old # Gone /\ table' = [table EXCEPT ![row] = Form!Patched(old, s.of)]
        /\ wrote' = wrote \cup {<<row, o>>} /\ saves' = [saves EXCEPT ![o].step = "list"]
    BY <1>4 DEF Form!WriteRow
  <2>2. Form!Patched(old, s.of) = Gone \/ (Form!Patched(old, s.of) \in FormRow /\ Form!Patched(old, s.of).name = s.of.name)
    <3>1. old \in FormRow /\ s.of.name \in FormName
      BY <1>2, <1>4, <2>1 DEF FormOf
    <3>2. QED
      BY <3>1 DEF Form!Patched, FormRow
  <2>3. table' \in Seq(FormRow \cup {Gone}) /\ Len(table') = Len(table) /\ table'[row] = Form!Patched(old, s.of)
    BY <1>2, <1>4, <2>1, <2>2
  <2>4. \A x \in wrote' : x \in wrote \/ x = <<row, o>>
    BY <2>1
  <2>5. ~formCrossed /\ ~Form!Editing /\ Remembers /\ OneRow /\ o = opening => wrote' = wrote
    BY <1>3, <1>4, <2>1
  <2>6. QED
    <3>1. GoesOn(o, "list")
      BY <1>1, <1>2, <1>3, <1>4, <2>1, <2>2, <2>3, <2>4, <2>5 DEF GoesOn
    <3>2. QED
      BY <3>1, FormGoesOn
<1>5. CASE row = 0
  <2> DEFINE n == Len(table) + 1
             made == [step |-> "list", row |-> n, made |-> TRUE, of |-> s.of]
  <2>1. table' = Append(table, new) /\ wrote' = wrote \cup {<<n, o>>} /\ saves' = [saves EXCEPT ![o] = made]
    <3>1. /\ table' = Append(table, new) /\ wrote' = wrote \cup {<<Len(table'), o>>}
          /\ saves' = [saves EXCEPT ![o] = [step |-> "list", row |-> Len(table'), made |-> TRUE, of |-> s.of]]
      BY <1>5 DEF Form!WriteRow
    <3>2. Len(Append(table, new)) = n
      BY <1>2
    <3>3. QED
      BY <3>1, <3>2
  <2>2. /\ table' \in Seq(FormRow \cup {Gone}) /\ Len(table') = n /\ table'[n] = new /\ n \in Nat \ {0}
        /\ Len(table) \in Nat
    <3>1. new \in FormRow
      BY <1>2 DEF FormOf, FormRow
    <3> HIDE DEF new
    <3>2. QED
      BY <1>2, <2>1, <3>1
  <2>3. made \in FormSave /\ (~Form!Keeps => made.of.file = "keep")
    <3>1. ~Form!Keeps => s.of.file = "keep"
      BY DEF FormInv, SavesKnown
    <3>2. QED
      BY <1>2, <2>2, <3>1 DEF FormSave
  <2>4. made.step = "list" /\ made.row = n /\ made.made /\ made.of = s.of
    OBVIOUS
  <2> HIDE DEF made
  <2>5. /\ saves' \in [Form!Openings -> FormSave] /\ saves'[o] = made
        /\ \A p \in Form!Openings : p # o => saves'[p] = saves[p]
    BY <2>1, <2>3 DEF FormInv, FormTypes
  <2>6. FormTypes'
    <3>1. FormTypes
      BY DEF FormInv
    <3>2. createdId \in 0 .. n /\ n >= 1
      BY <1>2, <2>2
    <3>3. QED
      BY <1>1, <2>2, <2>5, <3>1, <3>2 DEF FormTypes, Form!Dialogs, Form!Keeps, Form!Editing, Form!Openings
  <2>7. SavesKnown'
    <3>1. SavesKnown
      BY DEF FormInv
    <3>2. \A p \in Form!Openings : saves'[p].step # "none" => p <= opening /\ saves'[p].row <= n
      <4>1. \A p \in Form!Openings \ {o} : saves[p].step # "none" => p <= opening /\ saves[p].row \in 0 .. Len(table)
        BY <3>1, SaveTyped DEF SavesKnown
      <4>2. QED
        BY <1>2, <2>2, <2>4, <2>5, <4>1
    <3>3. \A x \in wrote' : x[1] \in 1 .. n /\ x[2] \in 1 .. opening
      BY <1>2, <2>1, <2>2, <3>1 DEF SavesKnown
    <3>4. QED
      BY <1>1, <2>1, <2>2, <2>3, <2>4, <2>5, <3>1, <3>2, <3>3 DEF SavesKnown, Form!Keeps, Form!Openings
  <2>8. ASSUME ~formCrossed' PROVE o = opening /\ (OneSave /\ StoredSoFar)'
    <3>1. OneSave /\ o = opening
      BY <1>1, <2>8 DEF FormInv, OneSave
    <3>2. OneSave'
      BY <1>1, <2>4, <2>5, <3>1 DEF OneSave, Current, Form!Openings
    <3>3. StoredSoFar'
      <4>1. saves'[opening] = made /\ table'[made.row].name = made.of.name
        BY <2>2, <2>4, <2>5, <3>1
      <4>2. QED
        BY <1>1, <2>4, <4>1 DEF StoredSoFar, Current, Form!Openings
    <3>4. QED
      BY <3>1, <3>2, <3>3
  <2>9. ASSUME ~formCrossed', ~Form!Editing' PROVE (Remembers /\ OneRow)'
    <3>1. ~formCrossed /\ ~Form!Editing /\ Remembers /\ OneRow /\ o = opening
      BY <1>1, <2>8, <2>9 DEF FormInv, Form!Editing
    <3>2. opening \notin unread => \A x \in wrote : x[2] # opening
      BY <1>3, <1>5, <3>1
    <3>3. \A x \in wrote : x[1] # n
      BY <2>2 DEF FormInv, SavesKnown
    <3>4. Remembers'
      BY <1>1, <1>3, <2>1, <2>4, <2>5, <3>1, <3>2 DEF Remembers, Current, Form!Openings
    <3>5. OneRow'
      BY <1>1, <2>1, <3>1, <3>2, <3>3 DEF OneRow
    <3>6. QED
      BY <3>4, <3>5
  <2>10. QED
    BY <2>6, <2>7, <2>8, <2>9 DEF FormInv
<1>6. QED
  BY <1>4, <1>5

\* The list is read: what was made is remembered, and the bytes or nothing are next.
LEMMA FormReadsList == ASSUME FormInv, NEW o \in Form!Openings, Form!ListRead(o) PROVE FormInv'
<1> DEFINE s == saves[o]
<1>1. /\ s.step = "list" /\ createdId' = Form!Remembered(o)
      /\ UNCHANGED <<kind, opening, fields, table, wrote, unread, formCrossed>>
  BY DEF Form!ListRead
<1>0. s.row # 0
  BY <1>1 DEF FormInv, SavesKnown
<1>2. s.row \in 1 .. Len(table) /\ createdId \in 0 .. Len(table) /\ table \in Seq(FormRow \cup {Gone})
  BY <1>0, <1>1, SaveTyped DEF FormInv, FormTypes
<1>3. createdId' \in 0 .. Len(table)
  <2>1. Len(table) \in Nat /\ s.row \in 0 .. Len(table)
    BY <1>2
  <2>2. createdId' = s.row \/ createdId' = createdId
    BY <1>1 DEF Form!Remembered
  <2>3. QED
    BY <1>2, <2>1, <2>2
<1>4. ASSUME ~formCrossed /\ ~Form!Editing /\ Remembers /\ OneRow /\ o = opening
      PROVE  /\ createdId' # 0 => <<createdId', opening>> \in wrote
             /\ opening \notin unread /\ kind = "new resource" =>
                  \A x \in wrote : x[2] = opening => ~dialogOpen \/ createdId' = x[1]
  <2>1. s.made => <<s.row, o>> \in wrote
    BY DEF FormInv, SavesKnown
  <2>2. createdId' # 0 => <<createdId', opening>> \in wrote
    BY <1>1, <1>4, <2>1 DEF Remembers, Form!Remembered
  <2>3. ASSUME opening \notin unread, kind = "new resource", NEW x \in wrote, x[2] = opening, dialogOpen
        PROVE  createdId' = x[1]
    <3>1. createdId = x[1] \/ (s.made /\ s.row = x[1])
      BY <1>4, <2>3 DEF Remembers, Current
    <3>2. CASE s.made
      <4>1. x[1] = s.row
        BY <1>4, <2>1, <2>3, <3>2 DEF OneRow
      <4>2. QED
        BY <1>1, <2>3, <3>2, <4>1 DEF Form!Remembered
    <3>3. CASE ~s.made
      BY <1>1, <3>1, <3>3 DEF Form!Remembered
    <3>4. QED
      BY <3>2, <3>3
  <2>4. QED
    BY <2>2, <2>3
<1>5. CASE s.of.file # "keep"
  <2>1. saves' = [saves EXCEPT ![o].step = "content"] /\ UNCHANGED <<dialogOpen, fieldErrors, busy, rowBusy>>
    BY <1>5 DEF Form!ListRead, Form!Step
  <2>2. kind = "new resource" \/ kind = "resource"
    BY <1>5 DEF FormInv, SavesKnown, Form!Keeps
  <2>3. kind = "new resource" \/ Form!Editing
    BY <2>2 DEF Form!Editing
  <2>4. table[s.row] = Gone \/ table[s.row].name = s.of.name \/ formCrossed
    BY <1>1 DEF FormInv, StoredSoFar, OneSave, Current, Form!Openings
  <2>5. QED
    <3>0. /\ ~formCrossed /\ ~Form!Editing /\ Remembers /\ OneRow /\ o = opening =>
               /\ createdId' # 0 => <<createdId', opening>> \in wrote
               /\ opening \notin unread => \A x \in wrote : x[2] = opening => ~dialogOpen \/ createdId' = x[1]
      BY <1>4, <2>1, <2>3
    <3>1. GoesOn(o, "content")
      BY <1>0, <1>1, <1>2, <1>3, <2>1, <2>4, <3>0 DEF GoesOn
    <3>2. QED
      BY <3>1, FormGoesOn
<1>6. CASE s.of.file = "keep"
  <2>1. Form!Done(o)
    BY <1>6 DEF Form!ListRead
  <2>2. QED
    BY <1>1, <1>3, <1>4, <2>1, FormEnds DEF Form!Done
<1>7. QED
  BY <1>5, <1>6

\* The bytes are stored.
LEMMA FormWritesContent == ASSUME FormInv, NEW o \in Form!Openings, Form!WriteContent(o) PROVE FormInv'
<1> DEFINE s == saves[o]
           row == s.row
           file == IF s.of.file = "new" THEN "new" ELSE "none"
<1>1. /\ s.step = "content" /\ table[row] # Gone
      /\ table' = [table EXCEPT ![row].file = file]
      /\ saves' = [saves EXCEPT ![o].step = "content list"]
      /\ UNCHANGED <<kind, dialogOpen, opening, fields, createdId, fieldErrors, busy, rowBusy, wrote, unread,
                     formCrossed>>
  BY DEF Form!WriteContent, Form!Step
<1>0. row # 0
  BY <1>1 DEF FormInv, SavesKnown
<1>2. /\ row \in 1 .. Len(table) /\ createdId \in 0 .. Len(table) /\ table \in Seq(FormRow \cup {Gone})
      /\ table[row] \in FormRow
  BY <1>0, <1>1, SaveTyped DEF FormInv, FormTypes
<1>3. /\ [table[row] EXCEPT !.file = file] \in FormRow
      /\ [table[row] EXCEPT !.file = file].name = table[row].name
      /\ [table[row] EXCEPT !.file = file].file = file
  BY <1>2 DEF FormRow
<1>4. table' = [table EXCEPT ![row] = [table[row] EXCEPT !.file = file]]
  BY <1>1
<1> HIDE DEF file
<1>5. /\ table' \in Seq(FormRow \cup {Gone}) /\ Len(table') = Len(table)
      /\ table'[row].name = table[row].name /\ table'[row].file = file
  BY <1>2, <1>3, <1>4
<1>6. table[row].name = s.of.name \/ formCrossed
  BY <1>1 DEF FormInv, StoredSoFar, OneSave, Current, Form!Openings
<1>7. ASSUME ~formCrossed /\ ~Form!Editing /\ Remembers /\ OneRow /\ o = opening
      PROVE  /\ createdId' # 0 => <<createdId', opening>> \in wrote
             /\ opening \notin unread => \A x \in wrote : x[2] = opening => ~dialogOpen \/ createdId' = x[1]
  BY <1>1, <1>7 DEF Remembers, Current
<1>8. GoesOn(o, "content list")
  <2>1. table' \in Seq(FormRow \cup {Gone}) /\ Len(table') = Len(table) /\ createdId' \in 0 .. Len(table)
    BY <1>1, <1>2, <1>5
  <2>2. wrote' = wrote /\ (table'[row].name = s.of.name \/ formCrossed)
    BY <1>1, <1>5, <1>6
  <2>3. table'[row].file = IF s.of.file = "new" THEN "new" ELSE "none"
    BY <1>5 DEF file
  <2>4. QED
    BY <1>0, <1>1, <1>7, <2>1, <2>2, <2>3 DEF GoesOn
<1>9. QED
  BY <1>8, FormGoesOn

\* A save ends with its last list, or fails.
LEMMA FormReturns ==
  ASSUME FormInv, NEW o \in Form!Openings,
         Form!ContentListRead(o) \/ Form!Unread(o) \/ Form!Refused(o)
  PROVE  FormInv'
<1>1. /\ saves[o].step # "none"
      /\ UNCHANGED <<kind, opening, fields, createdId, table, wrote, formCrossed>>
      /\ createdId' \in 0 .. Len(table) /\ unread \subseteq unread'
  BY DEF Form!ContentListRead, Form!Unread, Form!Refused, FormInv, FormTypes
<1>2. ASSUME ~formCrossed /\ ~Form!Editing /\ Remembers /\ OneRow /\ o = opening
      PROVE  createdId' # 0 => <<createdId', opening>> \in wrote
  BY <1>1, <1>2 DEF Remembers
<1>3. CASE Form!ContentListRead(o)
  <2>1. Form!Done(o)
    BY <1>3 DEF Form!ContentListRead
  <2>2. QED
    BY <1>1, <1>2, <2>1, FormEnds DEF Form!Done
<1>4. CASE Form!Unread(o)
  <2>1. Form!Fail(o) /\ o \in unread'
    BY <1>4 DEF Form!Unread
  <2>2. QED
    BY <1>1, <1>2, <2>1, FormEnds DEF Form!Fail
<1>5. CASE Form!Refused(o)
  <2>1. saves[o].step \in {"row", "content"} /\ unread' = unread
    BY <1>5 DEF Form!Refused
  <2>2. CASE kind = "group" /\ Form!Done(o)
    BY <1>1, <1>2, <2>2, FormEnds DEF Form!Done
  <2>3. CASE Form!Fail(o)
    <3>1. ASSUME ~formCrossed /\ ~Form!Editing /\ Remembers /\ OneRow /\ o = opening, opening \notin unread',
                 NEW x \in wrote, x[2] = opening
          PROVE  ~dialogOpen' \/ createdId' = x[1]
      BY <1>1, <2>1, <2>3, <3>1 DEF Remembers, Current, Form!Fail
    <3>2. QED
      BY <1>1, <1>2, <2>3, <3>1, FormEnds DEF Form!Fail
  <2>4. QED
    BY <1>5, <2>2, <2>3 DEF Form!Refused
<1>6. QED
  BY <1>3, <1>4, <1>5

LEMMA FormRowDeleted == ASSUME FormInv, Form!DeletedElsewhere PROVE FormInv'
<1>1. /\ Form!Editing /\ table' = [table EXCEPT ![1] = Gone]
      /\ UNCHANGED <<kind, dialogOpen, opening, fields, createdId, fieldErrors, busy, rowBusy, saves, wrote,
                     unread, formCrossed>>
  BY DEF Form!DeletedElsewhere, Form!Editing
<1>2. /\ table \in Seq(FormRow \cup {Gone}) /\ Len(table) >= 1
  BY <1>1 DEF FormInv, FormTypes
<1>3. /\ table' \in Seq(FormRow \cup {Gone}) /\ Len(table') = Len(table)
      /\ \A i \in 1 .. Len(table) : table'[i] = Gone \/ table'[i] = table[i]
  BY <1>1, <1>2
<1>4. FormTypes'
  BY <1>1, <1>3 DEF FormInv, FormTypes, Form!Dialogs, Form!Keeps, Form!Editing, Form!Openings
<1>5. SavesKnown'
  BY <1>1, <1>3 DEF FormInv, SavesKnown, Form!Keeps, Form!Openings
<1>6. ASSUME ~formCrossed' PROVE (OneSave /\ StoredSoFar)'
  <2>1. OneSave /\ StoredSoFar /\ SavesKnown
    BY <1>1, <1>6 DEF FormInv
  <2>2. OneSave'
    BY <1>1, <2>1 DEF OneSave, Current, Form!Openings
  <2>3. opening \in Form!Openings /\ Current.step \in {"list", "content", "content list"} =>
          Current.row \in 1 .. Len(table)
    BY <2>1, SaveTyped DEF Current, SavesKnown
  <2>4. StoredSoFar'
    BY <1>1, <1>3, <2>1, <2>3 DEF StoredSoFar, Current, Form!Openings
  <2>5. QED
    BY <2>2, <2>4
<1>7. Form!Editing'
  BY <1>1 DEF Form!Editing
<1>8. QED
  BY <1>4, <1>5, <1>6, <1>7 DEF FormInv
LEMMA FormStep == ASSUME FormInv, [Form!NextForm]_(Form!formVars) PROVE FormInv'
<1>1. CASE UNCHANGED Form!formVars
  <2>1. UNCHANGED <<kind, dialogOpen, opening, fields, createdId, fieldErrors, busy, rowBusy, table, saves,
                    wrote, unread, formCrossed>>
    BY <1>1 DEF Form!formVars
  <2>2. FormTypes' /\ SavesKnown'
    BY <2>1 DEF FormInv, FormTypes, SavesKnown, Form!Dialogs, Form!Keeps, Form!Editing, Form!Openings
  <2>3. ~formCrossed' => (OneSave /\ StoredSoFar)'
    BY <2>1 DEF FormInv, OneSave, StoredSoFar, Current, Form!Openings
  <2>4. ~formCrossed' /\ ~Form!Editing' => (Remembers /\ OneRow)'
    BY <2>1 DEF FormInv, Remembers, OneRow, Current, Form!Openings, Form!Editing
  <2>5. QED
    BY <2>2, <2>3, <2>4 DEF FormInv
<1>2. CASE Form!NextForm
  <2>1. \/ Form!HandleOpen \/ Form!HandleClose \/ Form!Edited \/ Form!Save \/ Form!DeletedElsewhere
        \/ \E o \in Form!Openings :
             \/ Form!WriteRow(o) \/ Form!ListRead(o) \/ Form!WriteContent(o)
             \/ Form!ContentListRead(o) \/ Form!Unread(o) \/ Form!Refused(o)
    BY <1>2 DEF Form!NextForm
  <2>2. QED
    BY <2>1, FormOpens, FormCloses, FormEdited, FormSaves, FormRowDeleted, FormWritesRow, FormReadsList,
       FormWritesContent, FormReturns
<1>3. QED
  BY <1>1, <1>2

\* Who closes a dialog.
LEMMA FormClosesStored ==
  ASSUME FormInv, [Form!NextForm]_(Form!formVars), NEW o \in Form!Openings,
         dialogOpen, ~dialogOpen', saves[o].step \notin {"none", saves'[o].step}
  PROVE  \/ formCrossed
         \/ saves[o].step = "row" /\ kind = "group"
         \/ LET row == table[saves[o].row] IN row # Gone =>
              /\ row.name = fields.name
              /\ fields.file = "new" => row.file = "new"
              /\ fields.file = "remove" => row.file = "none"
<1> SUFFICES ASSUME ~formCrossed
             PROVE  \/ saves[o].step = "row" /\ kind = "group"
                    \/ LET row == table[saves[o].row] IN row # Gone =>
                         /\ row.name = fields.name
                         /\ fields.file = "new" => row.file = "new"
                         /\ fields.file = "remove" => row.file = "none"
  OBVIOUS
<1>1. o = opening /\ saves[o] = Current /\ Current.of = fields /\ OneSave /\ StoredSoFar
  BY DEF FormInv, OneSave, Current
<1>2. \/ saves[o].step = "list" /\ fields.file = "keep"
      \/ saves[o].step = "content list"
      \/ saves[o].step = "row" /\ kind = "group"
      \/ saves[o].step = "content" /\ kind = "group"
  <2>1. PICK p \in Form!Openings :
          \/ Form!ListRead(p) /\ saves[p].of.file = "keep"
          \/ Form!ContentListRead(p)
          \/ Form!Refused(p) /\ kind = "group"
    BY DEF Form!NextForm, Form!formVars, Form!HandleOpen, Form!HandleClose, Form!Edited, Form!Save,
           Form!DeletedElsewhere, Form!WriteRow, Form!ListRead, Form!WriteContent, Form!ContentListRead,
           Form!Unread, Form!Refused, Form!Step, Form!Fail
  <2>2. saves[p].step # "none"
    BY <2>1 DEF Form!ListRead, Form!ContentListRead, Form!Refused
  <2>3. p = o
    BY <1>1, <2>2 DEF OneSave
  <2>4. QED
    BY <1>1, <2>1, <2>3 DEF Form!ListRead, Form!ContentListRead, Form!Refused
<1>3. kind = "group" => fields.file = "keep"
  BY DEF FormInv, FormTypes, Form!Keeps
<1>4. opening \in Form!Openings
  BY <1>1
<1>5. QED
  BY <1>1, <1>2, <1>3, <1>4 DEF StoredSoFar, Current

LEMMA FormHolds ==
  Form!FormSpec => [](Form!SavedOnce) /\ [](Form!ErrorsOfFields) /\ Form!ClosedStored
<1>1. Form!InitForm => FormInv
  BY FormStart
<1>2. FormInv /\ [Form!NextForm]_(Form!formVars) => FormInv'
  BY FormStep
<1>3. FormInv => Form!SavedOnce
  BY DEF FormInv, OneRow, Form!SavedOnce
<1>4. FormInv => Form!ErrorsOfFields
  BY DEF FormInv, OneSave, Form!ErrorsOfFields
<1> DEFINE Closes(o) ==
  dialogOpen /\ ~dialogOpen' /\ saves[o].step \notin {"none", saves'[o].step} =>
        \/ formCrossed
        \/ saves[o].step = "row" /\ kind = "group"
        \/ LET row == table[saves[o].row] IN row # Gone =>
             /\ row.name = fields.name
             /\ fields.file = "new" => row.file = "new"
             /\ fields.file = "remove" => row.file = "none"
<1>5. FormInv /\ [Form!NextForm]_(Form!formVars) => [\A o \in Form!Openings : Closes(o)]_(Form!formVars)
  BY FormClosesStored
<1>6. QED
  BY <1>1, <1>2, <1>3, <1>4, <1>5, PTL DEF Form!FormSpec, Form!ClosedStored

\* An opening stores one row and no other opening writes to it, however often its
\* save fails and is tried again (ResourceFormDialog, GroupFormDialog, UserFormDialog).
THEOREM ScreensSavedOnce == ScreensSpec => []SavedOnce
BY PartsBehave, FormHolds, PTL DEF SavedOnce

\* What a screen shows as judged is what was judged: a diagnosis is of the opening
\* on screen, a verdict of the pattern typed, the errors of a form of its fields.
THEOREM ScreensVerdictShown == ScreensSpec => []VerdictShown
BY PartsBehave, VerdictHolds, FormHolds, PTL DEF VerdictShown

\* A dialog that its save closes has stored all that it shows (handleSave).
THEOREM ScreensClosedStored == ScreensSpec => ClosedStored
BY PartsBehave, FormHolds, PTL DEF ClosedStored
-----------------------------------------------------------------------------
(* The attributes' card.                                                   *)

Parsed(key) == Card!ParseAttrValue(edits[key], kinds[key])

\* A row touched has its kind, and is an error if its text does not parse.
RowsJudged ==
    /\ DOMAIN kinds = DOMAIN edits
    /\ editorValid => errors = {}
    /\ \A key \in DOMAIN edits : Parsed(key) = None => key \in errors

\* A row touched that is no error shows what its text parses to.
RowsShown == \A key \in DOMAIN edits \ errors : key \in DOMAIN Card!Shown /\ Parsed(key) = Card!Shown[key]

\* What is saved is the draft; where there is none, the copy is what is stored or no
\* row was written through.
DraftSaved ==
    /\ saving # None => draft = saving
    /\ myAttrs = attrs \/ draft # None \/ DOMAIN edits \subseteq errors

CardInv == RowsJudged /\ (~drifted => RowsShown /\ DraftSaved)

\* A text that parses is written through.
LEMMA CardWritesThrough ==
  ASSUME None # [k \in DOMAIN None |-> None[k]], CardInv,
         NEW key \in DOMAIN Card!Shown, NEW text, NEW of,
         edits' = Card!Put(edits, key, text), kinds' = Card!Put(kinds, key, of),
         LET value == Card!ParseAttrValue(text, of)
         IN  IF value = None THEN Card!WriteErrors(errors \cup {key}) /\ UNCHANGED <<draft, drifted>>
             ELSE Card!WriteErrors(errors \ {key}) /\ Card!OnChange(Card!Put(Card!Shown, key, value)),
         UNCHANGED <<attrs, myAttrs, saving>>
  PROVE  CardInv'
<1> DEFINE value == Card!ParseAttrValue(text, of)
<1>1. /\ DOMAIN edits' = DOMAIN edits \cup {key} /\ DOMAIN kinds' = DOMAIN kinds \cup {key}
      /\ \A k \in DOMAIN edits' : edits'[k] = IF k = key THEN text ELSE edits[k]
      /\ \A k \in DOMAIN kinds' : kinds'[k] = IF k = key THEN of ELSE kinds[k]
  BY DEF Card!Put
<1>2. DOMAIN kinds = DOMAIN edits /\ RowsJudged
  BY DEF CardInv, RowsJudged
<1>3. \A k \in DOMAIN edits' : Parsed(k)' = IF k = key THEN value ELSE Parsed(k)
  BY <1>1, <1>2 DEF Parsed
<1>4. CASE value = None
  <2>1. /\ errors' = errors \cup {key} /\ editorValid' = (errors' = {})
        /\ draft' = draft /\ drifted' = drifted /\ Card!Shown' = Card!Shown
    BY <1>4 DEF Card!WriteErrors, Card!Shown
  <2>2. RowsJudged'
    BY <1>1, <1>2, <1>3, <2>1 DEF RowsJudged
  <2>3. ~drifted' => (RowsShown /\ DraftSaved)'
    BY <1>1, <1>3, <2>1 DEF CardInv, RowsShown, DraftSaved
  <2>4. QED
    BY <2>2, <2>3 DEF CardInv
<1>5. CASE value # None
  <2> DEFINE new == Card!Put(Card!Shown, key, value)
  <2>1. /\ errors' = errors \ {key} /\ editorValid' = (errors' = {})
        /\ draft' = new /\ drifted' = (drifted \/ saving # None)
    BY <1>5 DEF Card!WriteErrors, Card!OnChange
  <2>2. /\ DOMAIN new = DOMAIN Card!Shown \cup {key}
        /\ \A k \in DOMAIN new : new[k] = IF k = key THEN value ELSE Card!Shown[k]
        /\ new = [k \in DOMAIN new |-> new[k]]
    BY DEF Card!Put
  <2> HIDE DEF new, value
  <2>3. new # None
    BY <2>2
  <2>4. Card!Shown' = new
    BY <2>1, <2>3 DEF Card!Shown
  <2>5. RowsJudged'
    <3>1. editorValid' => errors' = {}
      BY <2>1
    <3>2. ASSUME NEW k \in DOMAIN edits', Parsed(k)' = None PROVE k \in errors'
      BY <1>1, <1>2, <1>3, <1>5, <2>1, <3>2 DEF RowsJudged
    <3>3. QED
      BY <1>1, <1>2, <3>1, <3>2 DEF RowsJudged
  <2>6. ASSUME ~drifted' PROVE (RowsShown /\ DraftSaved)'
    <3>1. ~drifted /\ saving = None /\ RowsShown
      BY <2>1, <2>6 DEF CardInv
    <3>2. RowsShown'
      BY <1>1, <1>3, <2>1, <2>2, <2>4, <3>1 DEF RowsShown
    <3>3. DraftSaved'
      BY <2>1, <2>3, <3>1 DEF DraftSaved
    <3>4. QED
      BY <3>2, <3>3
  <2>7. QED
    BY <2>5, <2>6 DEF CardInv
<1>6. QED
  BY <1>4, <1>5

\* A row is taken away, or a new one added that was never touched.
LEMMA CardChanges ==
  ASSUME None # [k \in DOMAIN None |-> None[k]], CardInv, Card!RemoveRow \/ Card!AddRow
  PROVE  CardInv'
<1>1. CASE Card!RemoveRow
  <2>1. PICK key \in DOMAIN Card!Shown :
          /\ draft' = Card!Omit(Card!Shown, key) /\ drifted' = (drifted \/ saving # None)
          /\ errors' = errors \ {key} /\ editorValid' = (errors' = {})
          /\ edits' = Card!Omit(edits, key) /\ kinds' = Card!Omit(kinds, key)
          /\ UNCHANGED <<attrs, myAttrs, saving>>
    BY <1>1 DEF Card!RemoveRow, Card!OnChange, Card!WriteErrors
  <2>2. draft' # None /\ Card!Shown' = Card!Omit(Card!Shown, key)
    BY <2>1 DEF Card!Shown, Card!Omit
  <2>3. /\ DOMAIN edits' = DOMAIN edits \ {key} /\ DOMAIN kinds' = DOMAIN kinds \ {key}
        /\ \A k \in DOMAIN edits' : edits'[k] = edits[k]
        /\ \A k \in DOMAIN kinds' : kinds'[k] = kinds[k]
    BY <2>1 DEF Card!Omit
  <2>4. RowsJudged /\ \A k \in DOMAIN edits' : Parsed(k)' = Parsed(k)
    BY <2>3 DEF CardInv, RowsJudged, Parsed
  <2>5. RowsJudged'
    BY <2>1, <2>3, <2>4 DEF RowsJudged
  <2>6. ASSUME ~drifted' PROVE (RowsShown /\ DraftSaved)'
    <3>1. ~drifted /\ saving = None /\ RowsShown
      BY <2>1, <2>6 DEF CardInv
    <3>2. RowsShown'
      BY <2>1, <2>2, <2>3, <2>4, <3>1 DEF RowsShown, Card!Omit
    <3>3. QED
      BY <2>1, <2>2, <3>1, <3>2 DEF DraftSaved
  <2>7. QED
    BY <2>5, <2>6 DEF CardInv
<1>2. CASE Card!AddRow
  <2>1. PICK key \in (Keys \ Reserved) \ DOMAIN Card!Shown :
          \E value : draft' = Card!Put(Card!Shown, key, value) /\ drifted' = (drifted \/ saving # None)
    BY <1>2 DEF Card!AddRow, Card!OnChange
  <2>2. UNCHANGED <<attrs, myAttrs, edits, kinds, errors, editorValid, saving>>
    BY <1>2 DEF Card!AddRow, Card!rows
  <2>3. draft' # None /\ Card!Shown' = draft'
    BY <2>1 DEF Card!Shown, Card!Put
  <2>4. \A k \in DOMAIN Card!Shown : k \in DOMAIN draft' /\ draft'[k] = Card!Shown[k]
    BY <2>1 DEF Card!Put
  <2>5. RowsJudged' /\ \A k \in DOMAIN edits : Parsed(k)' = Parsed(k)
    BY <2>2 DEF CardInv, RowsJudged, Parsed
  <2>6. ASSUME ~drifted' PROVE (RowsShown /\ DraftSaved)'
    <3>1. ~drifted /\ saving = None /\ RowsShown
      BY <2>1, <2>6 DEF CardInv
    <3>2. QED
      BY <2>2, <2>3, <2>4, <2>5, <3>1 DEF RowsShown, DraftSaved
  <2>7. QED
    BY <2>5, <2>6 DEF CardInv
<1>3. QED
  BY <1>1, <1>2

LEMMA CardStep ==
  ASSUME None # [k \in DOMAIN None |-> None[k]], CardInv, [Card!Next]_(Card!vars)
  PROVE  CardInv'
<1> USE DEF CardInv, RowsJudged, RowsShown, DraftSaved, Parsed, Card!Shown, Card!rows
<1>1. CASE Card!UpdateRow
  <2> USE DEF Card!UpdateRow
  <2> HIDE DEF CardInv, RowsJudged, RowsShown, DraftSaved, Parsed, Card!Shown
  <2>1. QED
    BY <1>1, CardWritesThrough
<1>2. CASE Card!RemoveRow \/ Card!AddRow
  BY <1>2, CardChanges
<1>3. CASE Card!Save
  BY <1>3 DEF Card!Save
<1>4. CASE Card!Saved
  <2>1. /\ saving # None /\ attrs' = saving /\ draft' = None /\ saving' = None
        /\ drifted' = (drifted \/ myAttrs' # saving)
        /\ UNCHANGED <<edits, kinds, errors, editorValid>>
    BY <1>4 DEF Card!Saved
  <2>2. ~drifted' => ~drifted /\ myAttrs' = saving /\ draft = saving
    BY <2>1
  <2>3. ~drifted' => Card!Shown' = Card!Shown
    BY <2>1, <2>2
  <2> HIDE DEF Card!Shown
  <2>4. QED
    BY <2>1, <2>2, <2>3
<1>5. CASE Card!Refused
  BY <1>5 DEF Card!Refused
<1>6. CASE Card!Revert
  BY <1>6 DEF Card!Revert, Card!Nothing
<1>7. CASE Card!Elsewhere
  BY <1>7 DEF Card!Elsewhere
<1>8. CASE Card!Revalidate
  BY <1>8 DEF Card!Revalidate
<1>9. CASE UNCHANGED Card!vars
  BY <1>9 DEF Card!vars
<1>10. QED
  BY <1>1, <1>2, <1>3, <1>4, <1>5, <1>6, <1>7, <1>8, <1>9 DEF Card!Next

LEMMA CardHolds ==
  ASSUME None # [k \in DOMAIN None |-> None[k]]
  PROVE  Card!Spec => [](Card!SavesWhatIsShown)
<1>1. Card!Init => CardInv
  BY DEF Card!Init, Card!Nothing, CardInv, RowsJudged, RowsShown, DraftSaved
<1>2. CardInv /\ [Card!Next]_(Card!vars) => CardInv'
  BY CardStep
<1>3. CardInv => Card!SavesWhatIsShown
  BY DEF CardInv, RowsJudged, RowsShown, Parsed, Card!SavesWhatIsShown, Card!TextShown, Card!KindShown
<1>4. QED
  BY <1>1, <1>2, <1>3, PTL DEF Card!Spec
-----------------------------------------------------------------------------
(* The rules and their sheet.                                              *)

RuleWrite == [rules : Seq(Texts), text : Texts \cup {None}, phase : {"patch", "read"}]

RuleTypes ==
    /\ server \in Seq(Texts) /\ me \in Seq(Texts)
    /\ editing = [id |-> editing.id, source |-> editing.source]
    /\ editing.source \in Texts /\ editing.id \in Nat /\ (editing.id = 0 => editing.source = Blank)
    /\ ast \in Asts /\ source \in Texts /\ tab \in {"simple", "advanced"}
    /\ write = <<>> \/ \E w \in RuleWrite : write = <<w>>

\* The tab that is not shown may be behind a text that is no rule, or a draft.
BlocksFollow ==
    open => \/ PrintOf[ast] = None \/ AstOf[source] = ast \/ IsBlankDraft(editing, source)
            \/ tab = "advanced" /\ AstOf[source] = None

\* Until its write is accepted the sheet is about the rules on the server.
SheetOfServer ==
    open /\ ~crossed /\ (write = <<>> \/ write[1].phase = "patch") =>
        me = server /\ (editing.id = 0 \/ editing.id \in DOMAIN me)

Meant(text) ==
    IF text = None THEN RemoveAt(server, editing.id)
    ELSE IF editing.id = 0 THEN Append(server, text)
    ELSE [server EXCEPT ![editing.id] = text]

\* A deletion has no sheet; a save was of what the sheet still shows.
WriteMeant ==
    write # <<>> =>
        /\ write[1].text = None => ~open
        /\ ~crossed /\ write[1].phase = "patch" => write[1].rules = Meant(write[1].text)
        /\ open /\ ~late => \/ ~Dirty \/ write[1].text = source
                            \/ AstOf[write[1].text] = AstOf[source]

RulesInv == RuleTypes /\ BlocksFollow /\ SheetOfServer /\ WriteMeant
\* The lists that a write sends.
LEMMA ListsTyped ==
  ASSUME NEW s \in Seq(Texts), NEW t \in Texts, NEW i \in DOMAIN s
  PROVE  /\ RemoveAt(s, i) \in Seq(Texts) /\ Append(s, t) \in Seq(Texts)
         /\ [s EXCEPT ![i] = t] \in Seq(Texts) /\ <<t>> \o s \in Seq(Texts)
         /\ s[i] \in Texts /\ i \in Nat \ {0}
<1>1. i \in 1 .. Len(s)
  OBVIOUS
<1>2. SubSeq(s, 1, i - 1) \in Seq(Texts) /\ SubSeq(s, i + 1, Len(s)) \in Seq(Texts)
  BY <1>1
<1>3. RemoveAt(s, i) \in Seq(Texts)
  BY <1>2 DEF RemoveAt
<1>4. QED
  BY <1>1, <1>3

LEMMA RulesStart == ASSUME Init PROVE RulesInv
<1>1. server \in Seq(Texts) /\ me \in Seq(Texts)
  <2>1. CASE server = <<>>
    BY <2>1 DEF Init
  <2>2. CASE \E t \in Foreign : server = <<t>>
    <3>1. PICK t \in Texts : server = <<t>>
      BY <2>2, EditorAssumption
    <3>2. me = server
      BY DEF Init
    <3>3. QED
      BY <3>1, <3>2
  <2>3. QED
    BY <2>1, <2>2 DEF Init
<1>2. QED
  BY <1>1, EditorAssumption
     DEF Init, NewRule, RulesInv, RuleTypes, BlocksFollow, SheetOfServer, WriteMeant

\* A sheet that closes, or stays as it was.
LEMMA SheetShuts ==
  ASSUME RulesInv, Shut, open' \in {open, FALSE}, UNCHANGED <<server, editing, elsewhere, crossed>>,
         me' \in Seq(Texts), open' => me' = me /\ write' = write,
         write' = write \/ write' = <<>>
  PROVE  RulesInv'
<1>1. CASE open'
  <2>1. UNCHANGED <<server, me, editing, open, ast, source, tab, write, crossed, late>>
    BY <1>1 DEF Shut
  <2>2. QED
    BY <2>1 DEF RulesInv, RuleTypes, BlocksFollow, SheetOfServer, WriteMeant, IsBlankDraft, Dirty, Meant
<1>2. CASE ~open'
  <2>1. ast' = EmptyAst /\ source' = Blank /\ tab' = "simple"
    BY <1>2 DEF Shut
  <2>2. RuleTypes'
    BY <2>1, EditorAssumption DEF RulesInv, RuleTypes
  <2>3. BlocksFollow' /\ SheetOfServer'
    BY <1>2 DEF BlocksFollow, SheetOfServer
  <2>4. WriteMeant'
    BY <1>2 DEF RulesInv, WriteMeant, Meant
  <2>5. QED
    BY <2>2, <2>3, <2>4 DEF RulesInv
<1>3. QED
  BY <1>1, <1>2

LEMMA SheetOpens == ASSUME RulesInv, OpenEditor PROVE RulesInv'
<1>1. PICK rule \in {NewRule} \cup {RuleAt(i) : i \in DOMAIN me} :
        /\ editing' = rule /\ source' = rule.source
        /\ ast' = IF AstOf[rule.source] = None THEN EmptyAst ELSE AstOf[rule.source]
        /\ tab' = IF BlocksAvailable(rule, rule.source) THEN "simple" ELSE "advanced"
  BY DEF OpenEditor
<1>2. /\ write = <<>> /\ write' = write /\ crossed' = (me # server) /\ UNCHANGED <<server, me>>
      /\ RuleTypes
  BY DEF OpenEditor, RulesInv
<1>3. /\ rule = [id |-> rule.id, source |-> rule.source] /\ rule.source \in Texts
      /\ rule.id \in Nat /\ (rule.id = 0 => rule.source = Blank)
      /\ rule.id = 0 \/ rule.id \in DOMAIN me
  <2>1. CASE rule = NewRule
    BY <2>1, EditorAssumption DEF NewRule
  <2>2. CASE \E i \in DOMAIN me : rule = RuleAt(i)
    <3>1. PICK i \in DOMAIN me : rule = RuleAt(i)
      BY <2>2
    <3>2. i \in Nat \ {0} /\ me[i] \in Texts
      BY <1>2, EditorAssumption, ListsTyped DEF RuleTypes
    <3>3. QED
      BY <3>1, <3>2 DEF RuleAt
  <2>3. QED
    BY <2>1, <2>2
<1>4. AstOf[rule.source] = None \/ AstOf[rule.source] \in Asts
  BY <1>3, EditorAssumption
<1>5. RuleTypes'
  BY <1>1, <1>2, <1>3, <1>4, EditorAssumption DEF RuleTypes
<1>6. BlocksFollow'
  BY <1>1, <1>3 DEF BlocksFollow, BlocksAvailable, IsBlankDraft
<1>7. SheetOfServer' /\ WriteMeant'
  BY <1>1, <1>2, <1>3 DEF SheetOfServer, WriteMeant
<1>8. QED
  BY <1>5, <1>6, <1>7 DEF RulesInv

\* The blocks or the text are edited, or the other of them is shown.
LEMMA SheetEdited == ASSUME RulesInv, ChangeAst \/ ChangeSource \/ ChangeTab PROVE RulesInv'
<1>1. /\ UNCHANGED <<server, me, editing, open, write, crossed>> /\ open
      /\ RuleTypes /\ BlocksFollow /\ SheetOfServer /\ WriteMeant
  BY DEF ChangeAst, ChangeSource, ChangeTab, InSheet, RulesInv
<1>2. SheetOfServer'
  BY <1>1 DEF SheetOfServer
<1>3. CASE ChangeAst
  <2>1. /\ ast' \in Asts /\ tab' = tab /\ tab = "simple"
        /\ source' = IF PrintOf[ast'] = None THEN source ELSE PrintOf[ast']
        /\ late' = (late \/ write # <<>>)
    BY <1>3 DEF ChangeAst
  <2>2. PrintOf[ast'] # None => PrintOf[ast'] \in Texts /\ AstOf[PrintOf[ast']] = ast'
    BY <2>1, EditorAssumption
  <2>3. RuleTypes' /\ BlocksFollow'
    BY <1>1, <2>1, <2>2 DEF RuleTypes, BlocksFollow
  <2>4. WriteMeant'
    BY <1>1, <2>1 DEF WriteMeant, Meant
  <2>5. QED
    BY <1>2, <2>3, <2>4 DEF RulesInv
<1>4. CASE ChangeSource
  <2>1. /\ source' \in Texts /\ tab' = tab /\ tab = "advanced"
        /\ ast' = IF AstOf[source'] = None THEN ast ELSE AstOf[source']
        /\ late' = (late \/ write # <<>>)
    BY <1>4 DEF ChangeSource
  <2>2. AstOf[source'] # None => AstOf[source'] \in Asts
    BY <2>1, EditorAssumption
  <2>3. RuleTypes' /\ BlocksFollow'
    BY <1>1, <2>1, <2>2 DEF RuleTypes, BlocksFollow
  <2>4. WriteMeant'
    BY <1>1, <2>1 DEF WriteMeant, Meant
  <2>5. QED
    BY <1>2, <2>3, <2>4 DEF RulesInv
<1>5. CASE ChangeTab
  <2>1. /\ UNCHANGED <<ast, source, late>> /\ tab' \in {"simple", "advanced"}
        /\ tab' = "simple" => BlocksAvailable(editing, source)
    BY <1>5 DEF ChangeTab
  <2>2. tab' = "advanced" \/ IsBlankDraft(editing, source) \/ AstOf[source] # None
    BY <2>1 DEF BlocksAvailable
  <2>3. RuleTypes'
    BY <1>1, <2>1 DEF RuleTypes
  <2>4. BlocksFollow'
    BY <1>1, <2>1, <2>2 DEF BlocksFollow, IsBlankDraft
  <2>5. WriteMeant'
    BY <1>1, <2>1 DEF WriteMeant, Meant, Dirty
  <2>6. QED
    BY <1>2, <2>3, <2>4, <2>5 DEF RulesInv
<1>6. QED
  BY <1>3, <1>4, <1>5

\* The text that a save stores, and the list it sends.
LEMMA SheetSaves == ASSUME RulesInv, Save PROVE RulesInv'
<1> DEFINE text == IF tab = "simple" THEN PrintOf[ast] ELSE source
           new == IF editing.id \in DOMAIN me THEN [me EXCEPT ![editing.id] = text] ELSE Append(me, text)
           w == [rules |-> new, text |-> text, phase |-> "patch"]
<1>1. /\ open /\ write = <<>> /\ (tab = "simple" => PrintOf[ast] # None) /\ write' = <<w>>
      /\ UNCHANGED <<server, me, editing, open, ast, source, tab, crossed>>
      /\ RuleTypes /\ BlocksFollow /\ SheetOfServer
  BY DEF Save, InSheet, Submit, sheet, RulesInv
<1>2. text \in Texts /\ (~Dirty \/ text = source \/ AstOf[text] = AstOf[source])
  <2>1. CASE tab = "simple"
    <3>1. PrintOf[ast] \in Texts /\ AstOf[PrintOf[ast]] = ast
      BY <1>1, <2>1, EditorAssumption DEF RuleTypes
    <3>2. AstOf[source] = ast \/ IsBlankDraft(editing, source)
      BY <1>1, <2>1 DEF BlocksFollow
    <3>3. IsBlankDraft(editing, source) => ~Dirty
      BY <1>1 DEF IsBlankDraft, Dirty, RuleTypes
    <3>4. QED
      BY <2>1, <3>1, <3>2, <3>3
  <2>2. CASE tab # "simple"
    BY <1>1, <2>2 DEF RuleTypes
  <2>3. QED
    BY <2>1, <2>2
<1> HIDE DEF text
<1>3. new \in Seq(Texts)
  <2>1. me \in Seq(Texts)
    BY <1>1 DEF RuleTypes
  <2>2. CASE editing.id \in DOMAIN me
    BY <1>2, <2>1, <2>2, ListsTyped
  <2>3. CASE editing.id \notin DOMAIN me
    BY <1>2, <2>1, <2>3
  <2>4. QED
    BY <2>2, <2>3
<1>4. text # None
  BY <1>2, EditorAssumption
<1>5. ~crossed => new = Meant(text)
  <2>1. ~crossed => me = server /\ (editing.id = 0 \/ editing.id \in DOMAIN me)
    BY <1>1 DEF SheetOfServer
  <2>2. 0 \notin DOMAIN me
    BY <1>1 DEF RuleTypes
  <2>3. QED
    BY <1>4, <2>1, <2>2 DEF Meant
<1> HIDE DEF new
<1>6. w \in RuleWrite
  BY <1>2, <1>3 DEF RuleWrite
<1>7. w.rules = new /\ w.text = text /\ w.phase = "patch"
  OBVIOUS
<1> HIDE DEF w
<1>8. write'[1] = w /\ write' # <<>>
  BY <1>1
<1>9. RuleTypes'
  BY <1>1, <1>6 DEF RuleTypes
<1>10. BlocksFollow' /\ SheetOfServer'
  BY <1>1, <1>7, <1>8 DEF BlocksFollow, SheetOfServer, IsBlankDraft
<1>12. WriteMeant'
  BY <1>1, <1>2, <1>4, <1>5, <1>7, <1>8 DEF WriteMeant, Meant, Dirty
<1>13. QED
  BY <1>9, <1>10, <1>12 DEF RulesInv
\* A rule is deleted from its card.
LEMMA RuleDestroyed == ASSUME RulesInv, Destroy PROVE RulesInv'
<1>1. PICK i \in DOMAIN me :
        /\ write' = <<[rules |-> RemoveAt(me, i), text |-> None, phase |-> "patch"]>>
        /\ editing' = RuleAt(i)
  BY DEF Destroy, Submit
<1> DEFINE list == RemoveAt(me, i)
           w == [rules |-> list, text |-> None, phase |-> "patch"]
<1>2. ~open /\ crossed' = (me # server) /\ UNCHANGED <<server, me, open, ast, source, tab>> /\ RuleTypes
  BY DEF Destroy, RulesInv
<1>3. list \in Seq(Texts) /\ me[i] \in Texts /\ i \in Nat \ {0}
  BY <1>2, EditorAssumption, ListsTyped DEF RuleTypes
<1>4. editing'.id = i /\ editing' = [id |-> i, source |-> me[i]]
  BY <1>1 DEF RuleAt
<1>5. ~crossed' => list = RemoveAt(server, i)
  BY <1>2
<1> HIDE DEF list
<1>6. w \in RuleWrite /\ w.rules = list /\ w.text = None /\ write' = <<w>>
  BY <1>1, <1>3 DEF RuleWrite, list
<1> HIDE DEF w
<1>7. write'[1] = w
  BY <1>6
<1>8. RuleTypes'
  BY <1>2, <1>3, <1>4, <1>6 DEF RuleTypes
<1>9. BlocksFollow' /\ SheetOfServer'
  BY <1>2 DEF BlocksFollow, SheetOfServer
<1>10. WriteMeant'
  BY <1>2, <1>4, <1>5, <1>6, <1>7 DEF WriteMeant, Meant
<1>11. QED
  BY <1>8, <1>9, <1>10 DEF RulesInv

\* A write is accepted, refused or read back.
LEMMA WriteAnswered == ASSUME RulesInv, Accept \/ Refuse \/ ReadBack PROVE RulesInv'
<1>1. write # <<>> /\ UNCHANGED <<editing, crossed>> /\ RuleTypes /\ BlocksFollow /\ SheetOfServer /\ WriteMeant
  BY DEF Accept, Refuse, ReadBack, sheet, RulesInv
<1>2. PICK w \in RuleWrite : write = <<w>>
  BY <1>1 DEF RuleTypes
<1>3. write[1] = w
  BY <1>2
<1>4. CASE Accept
  <2> DEFINE x == [w EXCEPT !.phase = "read"]
  <2>1. /\ server' = w.rules /\ write' = <<x>> /\ UNCHANGED <<me, open, ast, source, tab, late>>
    BY <1>3, <1>4 DEF Accept, sheet
  <2>2. x \in RuleWrite /\ x.rules = w.rules /\ x.text = w.text /\ x.phase = "read" /\ w.rules \in Seq(Texts)
    BY DEF RuleWrite
  <2> HIDE DEF x
  <2>3. write'[1] = x /\ write' # <<>>
    BY <2>1
  <2>4. RuleTypes'
    BY <1>1, <2>1, <2>2 DEF RuleTypes
  <2>5. BlocksFollow'
    BY <1>1, <2>1 DEF BlocksFollow, IsBlankDraft
  <2>6. SheetOfServer'
    BY <2>2, <2>3 DEF SheetOfServer
  <2>7. WriteMeant'
    BY <1>1, <1>3, <2>1, <2>2, <2>3 DEF WriteMeant, Dirty
  <2>8. QED
    BY <2>4, <2>5, <2>6, <2>7 DEF RulesInv
<1>5. CASE Refuse
  <2>1. /\ write[1].phase = "patch" /\ write' = <<>>
        /\ UNCHANGED <<server, me, open, ast, source, tab, late>>
    BY <1>5 DEF Refuse, sheet
  <2>2. QED
    BY <1>1, <2>1 DEF RulesInv, RuleTypes, BlocksFollow, SheetOfServer, WriteMeant, IsBlankDraft
<1>6. CASE ReadBack
  <2>1. /\ me' \in {me, server} /\ server' = server /\ write' = <<>> /\ Shut
        /\ open' = (open /\ write[1].text = None)
    BY <1>6 DEF ReadBack
  <2>2. ~open'
    BY <1>1, <2>1 DEF WriteMeant
  <2>3. QED
    BY <1>1, <1>6, <2>1, <2>2, SheetShuts DEF ReadBack, RuleTypes
<1>7. QED
  BY <1>4, <1>5, <1>6

LEMMA RulesStep == ASSUME RulesInv, [Next]_vars PROVE RulesInv'
<1>0. RuleTypes /\ BlocksFollow /\ SheetOfServer /\ WriteMeant
  BY DEF RulesInv
<1>1. CASE RequestClose \/ Confirm
  <2>1. UNCHANGED <<server, me, editing, write, elsewhere, crossed>> /\ Shut /\ open' \in {open, FALSE}
    <3>1. CASE RequestClose
      <4>1. open' = TRUE \/ open' = FALSE
        BY <3>1 DEF RequestClose, Dirty
      <4>2. QED
        BY <3>1, <4>1 DEF RequestClose, InSheet
    <3>2. CASE Confirm
      BY <3>2 DEF Confirm
    <3>3. QED
      BY <1>1, <3>1, <3>2
  <2>2. QED
    BY <1>0, <2>1, SheetShuts DEF RuleTypes
<1>2. CASE Elsewhere
  <2>1. server' \in Seq(Texts)
    <3>1. CASE \E i \in DOMAIN server : server' = RemoveAt(server, i)
      BY <1>0, <3>1, EditorAssumption, ListsTyped DEF RuleTypes
    <3>2. CASE \E t \in Foreign : server' = <<t>> \o server
      BY <1>0, <3>2, EditorAssumption DEF RuleTypes
    <3>3. QED
      BY <1>2, <3>1, <3>2 DEF Elsewhere
  <2>2. crossed' /\ UNCHANGED <<me, editing, open, ast, source, tab, write, late>>
    BY <1>2 DEF Elsewhere, sheet
  <2>3. QED
    BY <1>0, <2>1, <2>2
       DEF RulesInv, RuleTypes, BlocksFollow, SheetOfServer, WriteMeant, IsBlankDraft, Dirty
<1>3. CASE Revalidate
  <2>1. me # server /\ me' = server /\ UNCHANGED <<server, editing, open, ast, source, tab, write, crossed, late>>
    BY <1>3 DEF Revalidate, sheet
  <2>2. QED
    BY <1>0, <2>1
       DEF RulesInv, RuleTypes, BlocksFollow, SheetOfServer, WriteMeant, IsBlankDraft, Dirty, Meant
<1>4. CASE UNCHANGED vars
  <2>1. UNCHANGED <<server, me, editing, open, ast, source, tab, write, crossed, late>>
    BY <1>4 DEF vars, sheet
  <2>2. QED
    BY <1>0, <2>1
       DEF RulesInv, RuleTypes, BlocksFollow, SheetOfServer, WriteMeant, IsBlankDraft, Dirty, Meant
<1>5. QED
  BY <1>1, <1>2, <1>3, <1>4, SheetOpens, SheetEdited, SheetSaves, RuleDestroyed, WriteAnswered DEF Next

\* What is stored over the rules.
LEMMA StoredAsMeant ==
  ASSUME RulesInv, [Next]_vars, write # <<>>, write' # write, server' # server, ~crossed
  PROVE  server' = Meant(write[1].text)
<1>1. Accept
  BY DEF Next, vars, OpenEditor, ChangeAst, ChangeSource, ChangeTab, RequestClose, Confirm, Save, Destroy,
         Refuse, ReadBack, Elsewhere, Revalidate
<1>2. QED
  BY <1>1 DEF Accept, RulesInv, WriteMeant

\* Who closes the sheet.
LEMMA SheetClosed ==
  ASSUME RulesInv, [Next]_vars, open, ~open'
  PROVE  \/ ~Dirty \/ confirming \/ late
         \/ /\ write # <<>> /\ write[1].phase = "read"
            /\ write[1].text = source \/ AstOf[write[1].text] = AstOf[source]
<1>1. RequestClose \/ Confirm \/ ReadBack
  BY DEF Next, vars, sheet, OpenEditor, ChangeAst, ChangeSource, ChangeTab, Save, Destroy, Accept, Refuse,
         Elsewhere, Revalidate
<1>2. CASE RequestClose
  BY <1>2 DEF RequestClose
<1>3. CASE Confirm
  BY <1>3 DEF Confirm
<1>4. CASE ReadBack
  BY <1>4 DEF ReadBack, RulesInv, WriteMeant
<1>5. QED
  BY <1>1, <1>2, <1>3, <1>4

LEMMA RulesHold == Spec => []BlocksShowText /\ OnlyItsRule /\ ClosedKeepsEdits
<1> DEFINE Stores == write # <<>> /\ write' # write /\ server' # server /\ ~crossed =>
                       server' = IF write[1].text = None THEN RemoveAt(server, editing.id)
                                 ELSE IF editing.id = 0 THEN Append(server, write[1].text)
                                 ELSE [server EXCEPT ![editing.id] = write[1].text]
           Closes == open /\ ~open' =>
                       \/ ~Dirty \/ confirming \/ late
                       \/ /\ write # <<>> /\ write[1].phase = "read"
                          /\ write[1].text = source \/ AstOf[write[1].text] = AstOf[source]
<1>1. Init => RulesInv
  BY RulesStart
<1>2. RulesInv /\ [Next]_vars => RulesInv'
  BY RulesStep
<1>3. RulesInv => BlocksShowText
  BY DEF RulesInv, BlocksFollow, BlocksShowText
<1>4. RulesInv /\ [Next]_vars => [Stores]_vars
  BY StoredAsMeant DEF Meant
<1>5. RulesInv /\ [Next]_vars => [Closes]_vars
  BY SheetClosed
<1>6. QED
  BY <1>1, <1>2, <1>3, <1>4, <1>5, PTL DEF Spec, OnlyItsRule, ClosedKeepsEdits

\* The blocks of a rule are those of its text, and a row of the attributes that was
\* touched shows what a save of the card stores (RuleEditorSheet, AttributesEditor).
THEOREM ScreensShownIsSaved ==
  ASSUME None # [k \in DOMAIN None |-> None[k]]
  PROVE  ScreensSpec => []ShownIsSaved
BY PartsBehave, RulesHold, CardHolds, PTL DEF ShownIsSaved

\* A save and a deletion change the one rule they are about, and a sheet closes on
\* a rule as it was, as it was stored, or as its user let it go (RulesList).
THEOREM ScreensEditsKept == ScreensSpec => EditsKept
BY PartsBehave, RulesHold, PTL DEF EditsKept
=============================================================================
