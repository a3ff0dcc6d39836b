--------------------------- MODULE DecisionProofs ---------------------------
(***************************************************************************)
(* Theorems about the party closure, the decision that follows it and a    *)
(* call to the evaluator: for every population, index, seed, policy,       *)
(* context provider and body, and any number of policy changes at any      *)
(* moment.                                                                 *)
(***************************************************************************)
EXTENDS Decision, ListLemmas

-----------------------------------------------------------------------------
(* The closure.                                                            *)

USE DEF Uninspected, TextsIn, Inspected, PartyList

\* Sorting by id rearranges: same people, nobody twice, ids ascending.
LEMMA AscendingFacts ==
  ASSUME NEW s \in Seq(Users), IsInjective(s)
  PROVE  /\ Ascending(s) \in Seq(Users)
         /\ Len(Ascending(s)) = Len(s)
         /\ Range(Ascending(s)) = Range(s)
         /\ IsInjective(Ascending(s))
         /\ \A i, j \in 1 .. Len(s) : i < j => Ascending(s)[i] < Ascending(s)[j]
<1> DEFINE n == Len(s)
           Rearranges(t) == \E place \in Bijection(1 .. n, 1 .. n) :
                               \A i \in 1 .. n : t[i] = s[place[i]]
           Climbs(t) == \A i, j \in 1 .. n : i < j => t[i] <= t[j]
           a == Ascending(s)
<1>1. n \in Nat /\ s \in [1 .. n -> Int] /\ s \in [1 .. n -> Users] /\ DOMAIN s = 1 .. n
  BY LenProperties, ClosureAssumption
<1>2. PICK place \in Bijection(1 .. n, 1 .. n) :
         \A i, j \in 1 .. n : i < j => s[place[i]] <= s[place[j]]
  BY <1>1, AscendingOrder
<1>3. place \in [1 .. n -> 1 .. n]
  BY DEF Bijection, Injection
<1>4. \E t \in [1 .. n -> Range(s)] : Rearranges(t) /\ Climbs(t)
  <2> DEFINE t == [i \in 1 .. n |-> s[place[i]]]
  <2>1. t \in [1 .. n -> Range(s)]
    BY <1>1, <1>3 DEF Range
  <2>2. Rearranges(t)
    BY <1>1
  <2>3. Climbs(t)
    BY <1>2
  <2>4. QED
    BY <2>1, <2>2, <2>3
<1>5. a \in [1 .. n -> Range(s)] /\ Rearranges(a) /\ Climbs(a)
  BY <1>4 DEF Ascending
<1>6. PICK q \in Bijection(1 .. n, 1 .. n) : \A i \in 1 .. n : a[i] = s[q[i]]
  BY <1>5
<1>7. /\ q \in [1 .. n -> 1 .. n]
      /\ \A i, j \in 1 .. n : q[i] = q[j] => i = j
      /\ \A j \in 1 .. n : \E i \in 1 .. n : q[i] = j
  BY DEF Bijection, Injection, Surjection, IsInjective
<1>8. Range(s) \subseteq Users
  BY <1>1 DEF Range
<1>9. a \in Seq(Users) /\ Len(a) = n /\ DOMAIN a = 1 .. n
  BY <1>1, <1>5, <1>8
<1> HIDE DEF a
<1>10. Range(a) = Range(s)
  <2>1. Range(a) = {a[i] : i \in 1 .. n} /\ Range(s) = {s[i] : i \in 1 .. n}
    BY <1>1, <1>9 DEF Range
  <2>2. \A i \in 1 .. n : a[i] \in {s[j] : j \in 1 .. n}
    BY <1>6, <1>7
  <2>3. ASSUME NEW j \in 1 .. n PROVE s[j] \in {a[i] : i \in 1 .. n}
    <3>1. PICK i \in 1 .. n : q[i] = j
      BY <1>7
    <3>2. a[i] = s[j]
      BY <1>6, <3>1
    <3>3. QED
      BY <3>2
  <2>4. QED
    BY <2>1, <2>2, <2>3
<1>11. IsInjective(a)
  <2>1. \A i, j \in 1 .. n : s[i] = s[j] => i = j
    BY <1>1 DEF IsInjective
  <2>2. ASSUME NEW i \in 1 .. n, NEW j \in 1 .. n, a[i] = a[j] PROVE i = j
    <3>1. s[q[i]] = s[q[j]]
      BY <1>6, <2>2
    <3>2. q[i] \in 1 .. n /\ q[j] \in 1 .. n
      BY <1>7
    <3>3. q[i] = q[j]
      BY <2>1, <3>1, <3>2
    <3>4. QED
      BY <1>7, <3>3
  <2>3. QED
    BY <1>9, <2>2 DEF IsInjective
<1>12. \A i \in 1 .. n : a[i] \in Int
  BY <1>5, <1>8, ClosureAssumption
<1>13. \A i, j \in 1 .. n : i < j => a[i] < a[j]
  BY <1>5, <1>9, <1>11, <1>12 DEF IsInjective
<1>14. QED
  BY <1>9, <1>10, <1>11, <1>13 DEF a

\* The loop's bookkeeping between awaits.
RoundShape ==
    /\ frontier \cap analysed = {}
    /\ phase \in {"round", "done"} => frontier = {}
    /\ phase = "done" => members \subseteq analysed

\* `discovered` lists the members the seed does not, each once.
Bookkeeping ==
    /\ IsInjective(discovered)
    /\ Range(discovered) \cap SeedSet = {}
    /\ members = SeedSet \cup Range(discovered)

\* Whoever an analysed policy names is a member.
AnalysedInside == \A u \in analysed : Named(read[u]) \subseteq members

\* As long as nobody has changed a policy, the texts read are the stored ones.
ReadsFresh ==
    writes = 0 => \A u \in analysed \cup (frontier \ unread) : read[u] = policy[u]

\* The inductive invariant: NeverExtra alone is not inductive, for a round
\* adds what the frontier names only because the frontier lies in every closed
\* set and has not been counted as analysed yet.
ClosureInv ==
    /\ TypeOK
    /\ RoundShape
    /\ Bookkeeping
    /\ AnalysedInside
    /\ NeverExtra
    /\ PartyNumbers
    /\ ReadsFresh

\* A policy names only indexed users.
LEMMA NamedIndexed ==
  ASSUME NEW pats \in SUBSET Patterns
  PROVE  Named(pats) \subseteq Index /\ Named(pats) \subseteq Users
BY ClosureAssumption DEF Named

LEMMA SeedInUsers == SeedSet \subseteq Users
BY RangeOfSeq, ClosureAssumption DEF SeedSet

LEMMA InitInv == Init => ClosureInv
<1> SUFFICES ASSUME Init PROVE ClosureInv
  OBVIOUS
<1>1. TypeOK
  BY SeedInUsers, ClosureAssumption DEF Init, TypeOK
<1>2. RoundShape
  BY DEF Init, RoundShape
<1>3. Range(discovered) = {} /\ IsInjective(discovered)
  BY DEF Init, Range, IsInjective
<1>4. Bookkeeping
  BY <1>3 DEF Init, Bookkeeping
<1>5. AnalysedInside /\ PartyNumbers
  BY DEF Init, AnalysedInside, PartyNumbers
<1>6. NeverExtra
  BY DEF Init, NeverExtra, ClosedUnder
<1>7. ReadsFresh
  BY DEF Init, ReadsFresh
<1>8. QED
  BY <1>1, <1>2, <1>4, <1>5, <1>6, <1>7 DEF ClosureInv

\* What a round finds: known users, outside the members, forced by the frontier.
LEMMA FoundFacts ==
  ASSUME ClosureInv
  PROVE  /\ Found \subseteq Users \ members
         /\ IsFiniteSet(Found)
         /\ \A u \in frontier : Named(read[u]) \subseteq members \cup Found
<1>1. \A u \in frontier : read[u] \in SUBSET Patterns
  BY DEF ClosureInv, TypeOK
<1>2. \A u \in frontier : Named(read[u]) \subseteq Users
  BY <1>1, NamedIndexed
<1>3. Found \subseteq Users \ members
  BY <1>2 DEF Found
<1>4. IsFiniteSet(Found)
  BY <1>3, ClosureAssumption, FS_Subset
<1>5. QED
  BY <1>3, <1>4 DEF Found

\* Members lie in every closed set before the round, so the frontier does, so
\* everyone it names does.
LEMMA ExpandKeepsExact ==
  ASSUME ClosureInv, ExpandRound
  PROVE  NeverExtra'
<1>1. SUFFICES ASSUME NEW S \in SUBSET Users, ClosedUnder(S)'
               PROVE  members' \subseteq S
  BY DEF NeverExtra
<1>2. ClosedUnder(S)
  BY <1>1 DEF ClosedUnder, ExpandRound
<1>3. members \subseteq S
  BY <1>2 DEF ClosureInv, NeverExtra
<1>4. frontier \subseteq S \cap analysed'
  BY <1>3 DEF ClosureInv, TypeOK, ExpandRound
<1>5. \A u \in frontier : Named(read[u]) \subseteq S
  BY <1>1, <1>4 DEF ClosedUnder, ExpandRound
<1>6. Found \subseteq S
  BY <1>5 DEF Found
<1>7. QED
  BY <1>3, <1>6 DEF ExpandRound

\* The round appends exactly the new members.
LEMMA ExpandKeepsBookkeeping ==
  ASSUME ClosureInv, ExpandRound
  PROVE  Bookkeeping' /\ discovered' \in Seq(Users)
<1> DEFINE new == SetToSeq(Found)
<1>1. /\ Found \subseteq Users \ members
      /\ IsFiniteSet(Found)
  BY FoundFacts
<1>2. new \in Seq(Found) /\ Range(new) = Found /\ IsInjective(new)
  BY <1>1, ListOfSet
<1>3. new \in Seq(Users)
  BY <1>1, <1>2, SeqMonotonic
<1>4. /\ discovered \in Seq(Users)
      /\ IsInjective(discovered)
      /\ Range(discovered) \cap SeedSet = {}
      /\ members = SeedSet \cup Range(discovered)
  BY DEF ClosureInv, TypeOK, Bookkeeping
<1> HIDE DEF new
<1>5. Range(discovered) \cap Range(new) = {}
  BY <1>1, <1>2, <1>4
<1>6. /\ discovered \o new \in Seq(Users)
      /\ Range(discovered \o new) = Range(discovered) \cup Found
      /\ IsInjective(discovered \o new)
  BY <1>2, <1>3, <1>4, <1>5, JoinOfLists
<1>7. discovered' = discovered \o new /\ members' = members \cup Found
  BY DEF ExpandRound, new
<1>8. QED
  BY <1>1, <1>4, <1>6, <1>7 DEF Bookkeeping, SeedSet

\* The returned list: seed, then the discovered in id order.
LEMMA FinishNumbers ==
  ASSUME ClosureInv, Finish
  PROVE  PartyNumbers' /\ parties' \in Seq(Users)
<1> DEFINE rest == Ascending(discovered)
<1>1. /\ rest \in Seq(Users)
      /\ Len(rest) = Len(discovered)
      /\ Range(rest) = Range(discovered)
      /\ IsInjective(rest)
      /\ \A i, j \in 1 .. Len(discovered) : i < j => rest[i] < rest[j]
  BY AscendingFacts DEF ClosureInv, TypeOK, Bookkeeping
<1>2. /\ Seed \in Seq(Users)
      /\ IsInjective(Seed)
      /\ Range(Seed) \cap Range(rest) = {}
  BY <1>1, ClosureAssumption DEF ClosureInv, Bookkeeping, SeedSet
<1> HIDE DEF rest
<1>3. /\ Seed \o rest \in Seq(Users)
      /\ Range(Seed \o rest) = Range(Seed) \cup Range(rest)
      /\ IsInjective(Seed \o rest)
  BY <1>1, <1>2, JoinOfLists
<1>4. parties' = Seed \o rest /\ members' = members
  BY DEF Finish, rest
<1>5. Range(parties') = members'
  BY <1>1, <1>3, <1>4 DEF ClosureInv, Bookkeeping, SeedSet
<1>6. /\ Len(Seed \o rest) = Len(Seed) + Len(rest)
      /\ Len(Seed) \in Nat /\ Len(rest) \in Nat
      /\ \A i \in 1 .. Len(Seed) : (Seed \o rest)[i] = Seed[i]
      /\ \A i \in Len(Seed) + 1 .. Len(Seed) + Len(rest) :
            (Seed \o rest)[i] = rest[i - Len(Seed)]
  <2>1. Seed \in Seq(Users) /\ rest \in Seq(Users)
    BY <1>1, <1>2
  <2>2. Len(Seed) \in Nat /\ Len(rest) \in Nat
    BY <2>1, LenProperties
  <2>3. /\ Len(Seed \o rest) = Len(Seed) + Len(rest)
        /\ \A i \in 1 .. Len(Seed) + Len(rest) :
              (Seed \o rest)[i] = IF i <= Len(Seed) THEN Seed[i]
                                  ELSE rest[i - Len(Seed)]
    BY <2>1, ConcatProperties
  <2>4. QED
    BY <2>2, <2>3
<1>7. IsPrefix(Seed, Seed \o rest)
  BY <1>1, <1>2, <1>3, <1>6 DEF IsPrefix
<1>8. ASSUME NEW i \in Len(Seed) + 1 .. Len(Seed \o rest),
             NEW j \in Len(Seed) + 1 .. Len(Seed \o rest), i < j
      PROVE  (Seed \o rest)[i] < (Seed \o rest)[j]
  <2>1. /\ i - Len(Seed) \in 1 .. Len(rest)
        /\ j - Len(Seed) \in 1 .. Len(rest)
        /\ i - Len(Seed) < j - Len(Seed)
    BY <1>6, <1>8
  <2>2. rest[i - Len(Seed)] < rest[j - Len(Seed)]
    BY <1>1, <2>1
  <2>3. QED
    BY <1>6, <2>2
<1>9. QED
  BY <1>3, <1>4, <1>5, <1>7, <1>8 DEF PartyNumbers

\* A step that leaves members, analysed, discovered and the inspected texts
\* alone keeps the facts about them.
LEMMA UntouchedFacts ==
  ASSUME ClosureInv,
         members' = members, analysed' = analysed, discovered' = discovered,
         \A u \in analysed : read'[u] = read[u]
  PROVE  Bookkeeping' /\ AnalysedInside' /\ NeverExtra'
<1>1. Bookkeeping'
  BY DEF ClosureInv, Bookkeeping
<1>2. AnalysedInside'
  BY DEF ClosureInv, AnalysedInside
<1>3. ASSUME NEW S \in SUBSET Users, ClosedUnder(S)' PROVE members' \subseteq S
  <2>1. ClosedUnder(S)
    BY <1>3 DEF ClosedUnder
  <2>2. QED
    BY <2>1 DEF ClosureInv, NeverExtra
<1>4. QED
  BY <1>1, <1>2, <1>3 DEF NeverExtra

\* A text read is the stored one at that moment, and every change is counted.
LEMMA StepFresh == ASSUME ClosureInv, [Next]_vars PROVE ReadsFresh'
<1>0. TypeOK /\ RoundShape /\ ReadsFresh
  BY DEF ClosureInv
<1>1. CASE StartRound
  BY <1>0, <1>1 DEF StartRound, ReadsFresh, dbVars, RoundShape
<1>2. ASSUME NEW u \in Users, ReadPolicy(u) PROVE ReadsFresh'
  BY <1>0, <1>2 DEF ReadPolicy, ReadsFresh, dbVars, TypeOK
<1>3. CASE ExpandRound
  BY <1>0, <1>3 DEF ExpandRound, ReadsFresh, dbVars
<1>4. CASE RoundFails \/ Finish \/ UNCHANGED vars
  BY <1>0, <1>4 DEF RoundFails, Finish, vars, ReadsFresh, dbVars
<1>5. ASSUME NEW u \in Users, WritePolicy(u) PROVE ReadsFresh'
  BY <1>0, <1>5 DEF WritePolicy, ReadsFresh, TypeOK
<1>6. QED
  BY <1>1, <1>2, <1>3, <1>4, <1>5 DEF Next, Closure

LEMMA StepInv == ClosureInv /\ [Next]_vars => ClosureInv'
<1> SUFFICES ASSUME ClosureInv, [Next]_vars PROVE ClosureInv'
  OBVIOUS
<1>0. TypeOK /\ RoundShape /\ Bookkeeping /\ AnalysedInside /\ PartyNumbers
  BY DEF ClosureInv
<1>9. ReadsFresh'
  BY StepFresh
<1>1. CASE StartRound
  <2>1. TypeOK' /\ RoundShape'
    BY <1>0, <1>1 DEF StartRound, TypeOK, RoundShape, dbVars
  <2>2. Bookkeeping' /\ AnalysedInside' /\ NeverExtra'
    BY <1>1, UntouchedFacts DEF StartRound
  <2>3. PartyNumbers'
    BY <1>1 DEF StartRound, PartyNumbers
  <2>4. QED
    BY <1>9, <2>1, <2>2, <2>3 DEF ClosureInv
<1>2. ASSUME NEW u \in Users, ReadPolicy(u) PROVE ClosureInv'
  <2>1. TypeOK' /\ RoundShape'
    BY <1>0, <1>2 DEF ReadPolicy, TypeOK, RoundShape, dbVars
  <2>2. u \notin analysed
    BY <1>0, <1>2 DEF ReadPolicy, TypeOK, RoundShape
  <2>3. \A v \in analysed : read'[v] = read[v]
    BY <1>0, <1>2, <2>2 DEF ReadPolicy, TypeOK
  <2>4. Bookkeeping' /\ AnalysedInside' /\ NeverExtra'
    BY <1>2, <2>3, UntouchedFacts DEF ReadPolicy
  <2>5. PartyNumbers'
    BY <1>2 DEF ReadPolicy, PartyNumbers
  <2>6. QED
    BY <1>9, <2>1, <2>4, <2>5 DEF ClosureInv
<1>3. CASE ExpandRound
  <2>1. Bookkeeping' /\ discovered' \in Seq(Users)
    BY <1>3, ExpandKeepsBookkeeping
  <2>2. Found \subseteq Users
    BY FoundFacts
  <2>3. TypeOK'
    BY <1>0, <1>3, <2>1, <2>2 DEF ExpandRound, TypeOK, dbVars
  <2>4. RoundShape' /\ PartyNumbers'
    BY <1>3 DEF ExpandRound, RoundShape, PartyNumbers
  <2>5. AnalysedInside'
    BY <1>0, <1>3, FoundFacts DEF ExpandRound, AnalysedInside
  <2>6. NeverExtra'
    BY <1>3, ExpandKeepsExact
  <2>7. QED
    BY <1>9, <2>1, <2>3, <2>4, <2>5, <2>6 DEF ClosureInv
<1>4. CASE RoundFails
  <2>1. TypeOK' /\ RoundShape'
    BY <1>0, <1>4 DEF RoundFails, TypeOK, RoundShape, dbVars
  <2>2. Bookkeeping' /\ AnalysedInside' /\ NeverExtra'
    BY <1>4, UntouchedFacts DEF RoundFails
  <2>3. PartyNumbers'
    BY <1>4 DEF RoundFails, PartyNumbers
  <2>4. QED
    BY <1>9, <2>1, <2>2, <2>3 DEF ClosureInv
<1>5. CASE Finish
  <2>1. PartyNumbers' /\ parties' \in Seq(Users)
    BY <1>5, FinishNumbers
  <2>2. TypeOK' /\ RoundShape'
    BY <1>0, <1>5, <2>1 DEF Finish, TypeOK, RoundShape, dbVars
  <2>3. Bookkeeping' /\ AnalysedInside' /\ NeverExtra'
    BY <1>5, UntouchedFacts DEF Finish
  <2>4. QED
    BY <1>9, <2>1, <2>2, <2>3 DEF ClosureInv
<1>6. ASSUME NEW u \in Users, WritePolicy(u) PROVE ClosureInv'
  <2>1. TypeOK' /\ RoundShape'
    BY <1>0, <1>6, ClosureAssumption DEF WritePolicy, TypeOK, RoundShape, runVars
  <2>2. Bookkeeping' /\ AnalysedInside' /\ NeverExtra'
    BY <1>6, UntouchedFacts DEF WritePolicy, runVars
  <2>3. PartyNumbers'
    BY <1>0, <1>6 DEF WritePolicy, PartyNumbers, runVars
  <2>4. QED
    BY <1>9, <2>1, <2>2, <2>3 DEF ClosureInv
<1>7. CASE UNCHANGED vars
  <2>1. TypeOK' /\ RoundShape' /\ PartyNumbers'
    BY <1>0, <1>7 DEF vars, TypeOK, RoundShape, PartyNumbers
  <2>2. Bookkeeping' /\ AnalysedInside' /\ NeverExtra'
    BY <1>7, UntouchedFacts DEF vars
  <2>3. QED
    BY <1>9, <2>1, <2>2 DEF ClosureInv
<1>8. QED
  BY <1>1, <1>2, <1>3, <1>4, <1>5, <1>6, <1>7 DEF Next, Closure

LEMMA InvHolds == Spec => []ClosureInv
<1>1. Init => ClosureInv
  BY InitInv
<1>2. ClosureInv /\ [Next]_vars => ClosureInv'
  BY StepInv
<1>3. QED
  BY <1>1, <1>2, PTL DEF Spec

\* partyClosure's state keeps its types.
THEOREM ClosureTypes == Spec => []TypeOK
<1>1. ClosureInv => TypeOK
  BY DEF ClosureInv
<1>2. QED
  BY <1>1, InvHolds, PTL

\* partyClosure never loads a party the policies it analysed do not force.
THEOREM ClosureNeverExtra == Spec => []NeverExtra
<1>1. ClosureInv => NeverExtra
  BY DEF ClosureInv
<1>2. QED
  BY <1>1, InvHolds, PTL

\* partyClosure returns only once everyone its members' policies name is in.
THEOREM ClosureNeverMissing == Spec => []NeverMissing
<1>1. ASSUME ClosureInv, phase = "done"
      PROVE  /\ analysed = members
             /\ ClosedUnder(members)
             /\ writes = 0 => \A u \in members : Named(policy[u]) \subseteq members
  <2>1. analysed = members /\ frontier = {}
    BY <1>1 DEF ClosureInv, RoundShape, TypeOK
  <2>2. ClosedUnder(members)
    BY <1>1, <2>1 DEF ClosureInv, ClosedUnder, AnalysedInside, Bookkeeping
  <2>3. writes = 0 => \A u \in members : read[u] = policy[u]
    BY <1>1, <2>1 DEF ClosureInv, ReadsFresh
  <2>4. QED
    BY <1>1, <2>1, <2>2, <2>3 DEF ClosureInv, AnalysedInside
<1>2. ClosureInv => NeverMissing
  BY <1>1 DEF NeverMissing
<1>3. QED
  BY <1>2, InvHolds, PTL

\* partyClosure numbers the seed first and every other party once, by id.
THEOREM ClosurePartyNumbers == Spec => []PartyNumbers
<1>1. ClosureInv => PartyNumbers
  BY DEF ClosureInv
<1>2. QED
  BY <1>1, InvHolds, PTL

\* partyClosure inspects a member once: no later round re-reads its policy.
THEOREM ClosureReadOnce == Spec => ReadOnce
<1> DEFINE Known == analysed \cup (frontier \ unread)
           Keeps == \A u \in Known : read'[u] = read[u]
<1>1. ASSUME ClosureInv, [Next]_vars PROVE Keeps
  <2>0. TypeOK /\ RoundShape
    BY <1>1 DEF ClosureInv
  <2>1. ASSUME NEW u \in Users, ReadPolicy(u) PROVE Keeps
    <3>1. u \notin Known
      BY <2>0, <2>1 DEF ReadPolicy, RoundShape, TypeOK
    <3>2. QED
      BY <2>0, <2>1, <3>1 DEF ReadPolicy, TypeOK
  <2>2. CASE ~ \E u \in Users : ReadPolicy(u)
    <3>1. read' = read
      BY <1>1, <2>2 DEF Next, Closure, vars, StartRound, ExpandRound, RoundFails,
                        Finish, WritePolicy, runVars
    <3>2. QED
      BY <3>1
  <2>3. QED
    BY <2>1, <2>2
<1>2. QED
  BY <1>1, InvHolds, PTL DEF Spec, ReadOnce

-----------------------------------------------------------------------------
(* The closure implements its promise. *)

\* Members are needed; and once nobody is left to inspect, only members are.
LEMMA NeededFacts ==
  ASSUME ClosureInv
  PROVE  /\ members \subseteq Promise!Needed
         /\ frontier = {} /\ members \subseteq analysed => Promise!Needed = members
<1>1. TypeOK /\ NeverExtra /\ AnalysedInside /\ Bookkeeping
  BY DEF ClosureInv
<1>2. ASSUME NEW S \in SUBSET Users, Promise!ClosedUnderSamples(S)
      PROVE  ClosedUnder(S)
  <2>1. SeedSet \subseteq S
    BY <1>2 DEF Promise!ClosedUnderSamples, SeedSet, Range, Promise!Range
  <2>2. ASSUME NEW u \in S \cap analysed PROVE Named(read[u]) \subseteq S
    BY <1>2, <2>2 DEF Promise!ClosedUnderSamples, Named
  <2>3. QED
    BY <2>1, <2>2 DEF ClosedUnder
<1>3. \A S \in SUBSET Users : Promise!ClosedUnderSamples(S) => members \subseteq S
  BY <1>1, <1>2 DEF NeverExtra
<1>4. members \subseteq Promise!Needed
  BY <1>1, <1>3 DEF Promise!Needed, TypeOK
<1>5. ASSUME frontier = {}, members \subseteq analysed
      PROVE  Promise!Needed \subseteq members
  <2>1. ASSUME NEW u \in members PROVE \A p \in read[u] : Matching[p] \subseteq members
    BY <1>1, <1>5, <2>1 DEF AnalysedInside, Named
  <2>2. Promise!ClosedUnderSamples(members)
    BY <1>1, <2>1 DEF Promise!ClosedUnderSamples, Bookkeeping, SeedSet,
                         Range, Promise!Range
  <2>3. members \in SUBSET Users
    BY <1>1 DEF TypeOK
  <2>4. QED
    BY <2>2, <2>3 DEF Promise!Needed
<1>6. QED
  BY <1>4, <1>5

LEMMA InitRefines == Init => Promise!Init
BY DEF Init, Promise!Init

LEMMA StepRefines ==
  ClosureInv /\ ClosureInv' /\ [Next]_vars => [Promise!Next]_(Promise!vars)
<1> SUFFICES ASSUME ClosureInv, ClosureInv', [Next]_vars
             PROVE  [Promise!Next]_(Promise!vars)
  OBVIOUS
<1>0. TypeOK /\ RoundShape
  BY DEF ClosureInv
<1>1. CASE StartRound
  <2>1. frontier = {}
    BY <1>0, <1>1 DEF StartRound, RoundShape
  <2>2. analysed' \cup (frontier' \ unread') = analysed \cup (frontier \ unread)
    BY <1>1, <2>1 DEF StartRound
  <2>3. UNCHANGED Promise!vars
    BY <1>1, <2>2 DEF StartRound, dbVars, Promise!vars
  <2>4. QED
    BY <2>3
<1>2. ASSUME NEW u \in Users, ReadPolicy(u) PROVE Promise!Next
  <2>1. u \in frontier /\ u \in members /\ u \notin analysed /\ u \in unread
    BY <1>0, <1>2 DEF ReadPolicy, TypeOK, RoundShape
  <2>2. u \in Promise!Needed
    BY <2>1, NeededFacts
  <2>3. analysed' \cup (frontier' \ unread') = (analysed \cup (frontier \ unread)) \cup {u}
    BY <1>2, <2>1 DEF ReadPolicy
  <2>4. Promise!Sample(u)
    BY <1>2, <2>1, <2>2, <2>3 DEF ReadPolicy, dbVars, Promise!Sample
  <2>5. QED
    BY <2>4 DEF Promise!Next
<1>3. CASE ExpandRound
  <2>1. analysed' \cup (frontier' \ unread') = analysed \cup (frontier \ unread)
    BY <1>3 DEF ExpandRound
  <2>2. UNCHANGED Promise!vars
    BY <1>3, <2>1 DEF ExpandRound, dbVars, Promise!vars
  <2>3. QED
    BY <2>2
<1>4. CASE RoundFails
  <2>1. Promise!GiveUp
    BY <1>4 DEF RoundFails, dbVars, Promise!GiveUp
  <2>2. QED
    BY <2>1 DEF Promise!Next
<1>5. CASE Finish
  <2>1. frontier = {} /\ members \subseteq analysed
    BY <1>0, <1>5 DEF Finish, RoundShape
  <2>2. Promise!Needed = members
    BY <2>1, NeededFacts
  <2>3. PartyNumbers' /\ phase' = "done" /\ members' = members
    BY <1>5 DEF ClosureInv, Finish
  <2>4. Promise!Lists(parties', Promise!Needed)
    BY <2>2, <2>3 DEF PartyNumbers, Promise!Lists, IsPrefix, Promise!IsPrefix,
      IsInjective, Promise!IsInjective, Range, Promise!Range
  <2>5. Promise!Answer
    BY <1>5, <2>1, <2>2, <2>4 DEF Finish, dbVars, Promise!Answer
  <2>6. QED
    BY <2>5 DEF Promise!Next
<1>6. ASSUME NEW u \in Users, WritePolicy(u) PROVE Promise!Next
  <2>1. policy' \in [Users -> SUBSET Patterns]
    BY DEF ClosureInv, TypeOK
  <2>2. Promise!Write
    BY <1>6, <2>1 DEF WritePolicy, runVars, Promise!Write
  <2>3. QED
    BY <2>2 DEF Promise!Next
<1>7. CASE UNCHANGED vars
  BY <1>7 DEF vars, Promise!vars
<1>8. QED
  BY <1>1, <1>2, <1>3, <1>4, <1>5, <1>6, <1>7 DEF Next, Closure

\* partyClosure implements LeastClosure: each needed policy sampled once, the
\* answer the list of exactly the needed parties.
THEOREM ClosureImplementsPromise == Spec => ImplementsPromise
<1>1. Init => Promise!Init
  BY InitRefines
<1>2. ClosureInv /\ ClosureInv' /\ [Next]_vars => [Promise!Next]_(Promise!vars)
  BY StepRefines
<1>3. QED
  BY <1>1, <1>2, InvHolds, PTL DEF Spec, ImplementsPromise, Promise!Spec

-----------------------------------------------------------------------------
(* The decision.                                                           *)

USE DEF Policies, PartyOf

\* The closure is over once its parties are used.
StageShape ==
    /\ stage \in {"closure", "rows", "context", "evaluate", "answered"}
    /\ stage \in {"rows", "context", "evaluate"} => phase = "done"

\* The rows hold one text per party; those of an unchanged policy are the ones read.
RowsShape ==
    stage \in {"context", "evaluate"} =>
        /\ policies \in Seq([owner : Users, policy : SUBSET Patterns])
        /\ Len(policies) = Len(parties)
        /\ \A i \in 1 .. Len(parties) :
              /\ policies[i].owner = parties[i]
              /\ writes = 0 => policies[i].policy = read[parties[i]]

\* The context holds one slot per party.
ContextShape ==
    stage = "evaluate" =>
        /\ Len(context) = Len(parties)
        /\ \A i \in 1 .. Len(parties) : context[i].party = parties[i]

\* Nothing is said before the answer.
Unanswered == stage # "answered" => culprit = Nobody /\ reply.blamed = Nobody

\* The inductive invariant: what is evaluated is right only because the closure is
\* complete and its reads are the stored policies as long as nothing was written.
AssemblyInv ==
    /\ ClosureInv
    /\ StageShape
    /\ RowsShape
    /\ ContextShape
    /\ Unanswered
    /\ BlameTrue

LEMMA AssemblyInit == InitAssembly => AssemblyInv
<1> SUFFICES ASSUME InitAssembly PROVE AssemblyInv
  OBVIOUS
<1>1. ClosureInv
  BY InitInv DEF InitAssembly
<1>2. StageShape /\ RowsShape /\ ContextShape /\ Unanswered /\ BlameTrue
  BY DEF InitAssembly, StageShape, RowsShape, ContextShape, Unanswered, BlameTrue
<1>3. QED
  BY <1>1, <1>2 DEF AssemblyInv

\* A step of a decision is one of its closure, or leaves that alone.
LEMMA ClosureSteps == ASSUME [NextAssembly]_allVars PROVE [Next]_vars
<1>1. CASE ClosureGoesOn
  BY <1>1 DEF ClosureGoesOn, Next, Closure
<1>2. CASE ClosureBreaks \/ ClosureDone
  BY <1>2 DEF ClosureBreaks, ClosureDone, Next, Closure
<1>3. CASE LoadRows \/ BuildContext \/ Evaluate
  BY <1>3 DEF LoadRows, BuildContext, Evaluate
<1>4. CASE OtherWrites
  BY <1>4 DEF OtherWrites, Next
<1>5. CASE UNCHANGED allVars
  BY <1>5 DEF allVars, vars
<1>6. QED
  BY <1>1, <1>2, <1>3, <1>4, <1>5 DEF NextAssembly, Decide

\* A rejection blames the owner of the rejected text, and always does so when the
\* texts sent are the texts read.
LEMMA BlameOfRejection ==
  ASSUME NEW texts, Rejects(texts)
  PROVE  /\ stage' = "answered"
         /\ reply'.blamed # Nobody => reply'.blamed = culprit'
         /\ (\A k \in 1 .. Len(texts) : k \in DOMAIN texts /\ texts[k] \in TextOwners)
               /\ 0 \notin DOMAIN texts /\ Len(texts) \in Nat
            => reply'.blamed = culprit'
<1>1. PICK k \in 0 .. Len(texts) :
         /\ culprit' = IF k = 0 THEN Nobody ELSE texts[k].owner
         /\ Answer(500, UserForLocation(k, texts), Nobody)
  BY DEF Rejects
<1>2. stage' = "answered" /\ reply'.blamed = UserForLocation(k, texts)
  BY <1>1 DEF Answer
<1>3. CASE k = 0
  <2>1. culprit' = Nobody
    BY <1>1, <1>3
  <2>2. QED
    BY <1>2, <1>3, <2>1 DEF UserForLocation
<1>4. CASE k # 0
  <2>1. culprit' = texts[k].owner
    BY <1>1, <1>4
  <2>2. Len(texts) \in Nat => k \in 1 .. Len(texts)
    BY <1>1, <1>4
  <2>3. QED
    BY <1>2, <2>1, <2>2 DEF UserForLocation
<1>5. QED
  BY <1>3, <1>4

\* The texts of a round are texts read.
LEMMA BatchTexts ==
  ASSUME ClosureInv, TextsIn, NEW batch \in Batches
  PROVE  /\ Len(batch) \in Nat /\ 0 \notin DOMAIN batch
         /\ \A k \in 1 .. Len(batch) : k \in DOMAIN batch /\ batch[k] \in TextOwners
<1>1. PICK order \in SetToSeqs(frontier) :
         batch = [i \in DOMAIN order |-> Text(order[i], read[order[i]])]
  BY DEF Batches
<1>2. IsFiniteSet(frontier)
  BY ClosureAssumption, FS_Subset DEF ClosureInv, TypeOK
<1> DEFINE n == Cardinality(frontier)
<1>3. n \in Nat
  BY <1>2, FS_CardinalityType
<1>4. order \in [1 .. n -> frontier]
  BY <1>1 DEF SetToSeqs
<1>5. DOMAIN batch = 1 .. n /\ \A k \in 1 .. n : batch[k] = Text(order[k], read[order[k]])
  BY <1>1, <1>4
<1>6. Len(batch) = n
  <2>1. batch \in [1 .. n -> {batch[k] : k \in 1 .. n}]
    BY <1>1, <1>4, <1>5
  <2>2. batch \in Seq({batch[k] : k \in 1 .. n})
    BY <1>3, <2>1, SeqDef
  <2>3. QED
    BY <1>3, <1>5, <2>2, LenProperties
<1>7. \A k \in 1 .. n : batch[k] \in TextOwners
  BY <1>4, <1>5 DEF TextOwners, TextsIn
<1>8. QED
  BY <1>3, <1>5, <1>6, <1>7

\* Once the closure is done, its parties are its members, all of them analysed.
LEMMA PartiesInspected ==
  ASSUME ClosureInv, phase = "done"
  PROVE  /\ parties \in Seq(Users) /\ Len(parties) \in Nat /\ DOMAIN parties = 1 .. Len(parties)
         /\ Range(parties) = members /\ members = analysed /\ frontier = {}
         /\ \A i \in 1 .. Len(parties) : parties[i] \in Users /\ parties[i] \in analysed
<1>1. TypeOK /\ RoundShape /\ PartyNumbers
  BY DEF ClosureInv
<1>2. parties \in Seq(Users) /\ members = analysed /\ frontier = {}
  BY <1>1 DEF TypeOK, RoundShape
<1>3. Len(parties) \in Nat /\ DOMAIN parties = 1 .. Len(parties)
  BY <1>2, LenProperties
<1>4. Range(parties) = members
  BY <1>1 DEF PartyNumbers
<1>5. \A i \in 1 .. Len(parties) : parties[i] \in Users /\ parties[i] \in Range(parties)
  BY <1>2, <1>3, ElementOfSeq DEF Range
<1>6. QED
  BY <1>2, <1>3, <1>4, <1>5

\* A step of the closure, and another request's write, keep what was assembled.
LEMMA ClosureKeeps ==
  ASSUME AssemblyInv, ClosureGoesOn \/ ClosureDone \/ OtherWrites
  PROVE  StageShape' /\ RowsShape' /\ ContextShape' /\ Unanswered' /\ BlameTrue'
<1>0. StageShape /\ RowsShape /\ ContextShape /\ Unanswered /\ BlameTrue /\ TypeOK
  BY DEF AssemblyInv, ClosureInv
<1>1. CASE ClosureGoesOn
  <2>1. stage = "closure" /\ UNCHANGED assemblyVars
    BY <1>1 DEF ClosureGoesOn
  <2>2. QED
    BY <1>0, <2>1 DEF assemblyVars, StageShape, RowsShape, ContextShape, Unanswered, BlameTrue
<1>2. CASE ClosureDone
  <2>1. /\ stage = "closure" /\ stage' = "rows" /\ phase' = "done"
        /\ UNCHANGED <<culprit, reply>>
    BY <1>2 DEF ClosureDone, Finish
  <2>2. QED
    BY <1>0, <2>1 DEF StageShape, RowsShape, ContextShape, Unanswered, BlameTrue
<1>3. CASE OtherWrites
  <2>1. /\ stage # "answered" /\ UNCHANGED assemblyVars /\ writes' = writes + 1
        /\ UNCHANGED runVars
    BY <1>3 DEF OtherWrites, WritePolicy
  <2>2. writes' # 0
    BY <1>0, <2>1 DEF TypeOK
  <2>3. StageShape' /\ ContextShape' /\ Unanswered'
    BY <1>0, <2>1 DEF assemblyVars, runVars, StageShape, ContextShape, Unanswered
  <2>4. RowsShape'
    BY <1>0, <2>1, <2>2 DEF assemblyVars, runVars, RowsShape
  <2>5. BlameTrue'
    BY <1>0, <2>1 DEF assemblyVars, BlameTrue
  <2>6. QED
    BY <2>3, <2>4, <2>5
<1>4. QED
  BY <1>1, <1>2, <1>3

\* An answer that names nobody.
LEMMA BreaksKeeps ==
  ASSUME AssemblyInv, stage # "answered", NEW statuses, Breaks(statuses)
  PROVE  StageShape' /\ RowsShape' /\ ContextShape' /\ Unanswered' /\ BlameTrue'
<1>1. /\ stage' = "answered" /\ reply'.blamed = Nobody
      /\ culprit' = culprit /\ culprit = Nobody
  BY DEF Breaks, Answer, AssemblyInv, Unanswered
<1>2. QED
  BY <1>1 DEF StageShape, RowsShape, ContextShape, Unanswered, BlameTrue

\* The answer to a rejection.
LEMMA RejectsKeeps ==
  ASSUME AssemblyInv, NEW texts, Rejects(texts), writes' = writes,
         writes = 0 => /\ Len(texts) \in Nat /\ 0 \notin DOMAIN texts
                       /\ \A k \in 1 .. Len(texts) : k \in DOMAIN texts /\ texts[k] \in TextOwners
  PROVE  StageShape' /\ RowsShape' /\ ContextShape' /\ Unanswered' /\ BlameTrue'
<1>1. /\ stage' = "answered"
      /\ reply'.blamed # Nobody => reply'.blamed = culprit'
      /\ writes' = 0 => reply'.blamed = culprit'
  BY BlameOfRejection
<1>2. QED
  BY <1>1 DEF StageShape, RowsShape, ContextShape, Unanswered, BlameTrue

\* The rows: one text per party, that of the closure if nobody has written.
LEMMA RowsLoaded ==
  ASSUME AssemblyInv, stage = "rows", policies' = Policies, stage' = "context",
         UNCHANGED <<context, culprit, reply>>, UNCHANGED vars
  PROVE  StageShape' /\ RowsShape' /\ ContextShape' /\ Unanswered' /\ BlameTrue'
<1>0. ClosureInv /\ TypeOK /\ ReadsFresh /\ phase = "done"
  BY DEF AssemblyInv, ClosureInv, StageShape
<1>1. /\ parties \in Seq(Users) /\ Len(parties) \in Nat /\ DOMAIN parties = 1 .. Len(parties)
      /\ \A i \in 1 .. Len(parties) : parties[i] \in Users /\ parties[i] \in analysed
  BY <1>0, PartiesInspected
<1>2. policies' = [i \in 1 .. Len(parties) |-> Text(parties[i], policy[parties[i]])]
  BY <1>1
<1>3. \A i \in 1 .. Len(parties) :
         Text(parties[i], policy[parties[i]]) \in [owner : Users, policy : SUBSET Patterns]
  BY <1>0, <1>1 DEF Text, TypeOK
<1>4. policies' \in Seq([owner : Users, policy : SUBSET Patterns])
  BY <1>1, <1>2, <1>3, SeqDef
<1>5. Len(policies') = Len(parties)
  BY <1>1, <1>2, <1>4, LenProperties
<1>6. ASSUME NEW i \in 1 .. Len(parties)
      PROVE  /\ policies'[i].owner = parties[i]
             /\ writes = 0 => policies'[i].policy = read[parties[i]]
  <2>1. policies'[i] = Text(parties[i], policy[parties[i]])
    BY <1>2
  <2>2. writes = 0 => read[parties[i]] = policy[parties[i]]
    BY <1>0, <1>1 DEF ReadsFresh
  <2>3. QED
    BY <2>1, <2>2 DEF Text
<1>7. RowsShape'
  BY <1>4, <1>5, <1>6 DEF RowsShape, vars
<1>8. QED
  BY <1>0, <1>7 DEF AssemblyInv, StageShape, ContextShape, Unanswered, BlameTrue, vars

\* The context: one slot per party, whatever the providers found.
LEMMA ContextBuilt ==
  ASSUME AssemblyInv, stage = "context", stage' = "evaluate", NEW found, context' = Slots(found),
         UNCHANGED <<policies, culprit, reply>>, UNCHANGED vars
  PROVE  StageShape' /\ RowsShape' /\ ContextShape' /\ Unanswered' /\ BlameTrue'
<1>0. ClosureInv /\ phase = "done" /\ RowsShape /\ Unanswered /\ BlameTrue
  BY DEF AssemblyInv, StageShape
<1>1. Len(parties) \in Nat /\ DOMAIN parties = 1 .. Len(parties)
  BY <1>0, PartiesInspected
<1> DEFINE by(i) == {p \in Providers : parties[i] \in found[p]}
<1>2. context' = [i \in 1 .. Len(parties) |-> [party |-> parties[i], by |-> by(i)]]
  BY <1>1 DEF Slots
<1>3. Len(context') = Len(parties)
  <2>1. context' \in [1 .. Len(parties) -> {context'[i] : i \in 1 .. Len(parties)}]
    BY <1>2
  <2>2. context' \in Seq({context'[i] : i \in 1 .. Len(parties)})
    BY <1>1, <2>1, SeqDef
  <2>3. QED
    BY <1>1, <1>2, <2>2, LenProperties
<1>4. \A i \in 1 .. Len(parties) : context'[i].party = parties[i]
  BY <1>2
<1>5. ContextShape'
  BY <1>3, <1>4 DEF ContextShape, vars
<1>6. RowsShape' /\ StageShape' /\ Unanswered' /\ BlameTrue'
  BY <1>0 DEF RowsShape, StageShape, Unanswered, BlameTrue, vars
<1>7. QED
  BY <1>5, <1>6

LEMMA AssemblyStep == AssemblyInv /\ [NextAssembly]_allVars => AssemblyInv'
<1> SUFFICES ASSUME AssemblyInv, [NextAssembly]_allVars PROVE AssemblyInv'
  OBVIOUS
<1> DEFINE Goal == StageShape' /\ RowsShape' /\ ContextShape' /\ Unanswered' /\ BlameTrue'
<1>0. ClosureInv /\ ClosureInv'
  BY ClosureSteps, StepInv DEF AssemblyInv
<1>1. ASSUME ClosureGoesOn \/ ClosureDone \/ OtherWrites PROVE Goal
  BY <1>1, ClosureKeeps
<1>2. ASSUME ClosureBreaks PROVE Goal
  <2>1. stage = "closure" /\ writes' = writes
    BY <1>2 DEF ClosureBreaks, RoundFails, dbVars
  <2>2. CASE Breaks({400, 500, 503})
    BY <2>1, <2>2, BreaksKeeps
  <2>3. ASSUME TextsIn, NEW batch \in Batches, Rejects(batch) PROVE Goal
    BY <1>0, <2>1, <2>3, BatchTexts, RejectsKeeps
  <2>4. QED
    BY <1>2, <2>2, <2>3 DEF ClosureBreaks
<1>3. ASSUME LoadRows PROVE Goal
  <2>1. CASE Breaks({400, 500})
    BY <1>3, <2>1, BreaksKeeps DEF LoadRows
  <2>2. CASE policies' = Policies /\ stage' = "context" /\ UNCHANGED <<context, culprit, reply>>
    BY <1>3, <2>2, RowsLoaded DEF LoadRows
  <2>3. QED
    BY <1>3, <2>1, <2>2 DEF LoadRows
<1>4. ASSUME BuildContext PROVE Goal
  <2>1. CASE Breaks({400, 500})
    BY <1>4, <2>1, BreaksKeeps DEF BuildContext
  <2>2. ASSUME NEW found, context' = Slots(found), stage' = "evaluate",
               UNCHANGED <<policies, culprit, reply>>
        PROVE  Goal
    BY <1>4, <2>2, ContextBuilt DEF BuildContext
  <2>3. QED
    BY <1>4, <2>1, <2>2 DEF BuildContext
<1>5. ASSUME Evaluate PROVE Goal
  <2>0. stage = "evaluate" /\ UNCHANGED vars
    BY <1>5 DEF Evaluate
  <2>1. CASE Breaks({503})
    BY <2>0, <2>1, BreaksKeeps
  <2>2. CASE Rejects(policies)
    <3>1. phase = "done" /\ RowsShape
      BY <2>0 DEF AssemblyInv, StageShape
    <3>2. /\ Len(policies) \in Nat /\ DOMAIN policies = 1 .. Len(policies)
          /\ Len(policies) = Len(parties)
      BY <2>0, <3>1, LenProperties DEF RowsShape
    <3>3. ASSUME writes = 0, NEW k \in 1 .. Len(policies) PROVE policies[k] \in TextOwners
      <4>1. /\ policies[k] \in [owner : Users, policy : SUBSET Patterns]
            /\ policies[k].owner = parties[k] /\ policies[k].policy = read[parties[k]]
        BY <2>0, <3>1, <3>2, <3>3, ElementOfSeq DEF RowsShape
      <4>2. parties[k] \in analysed
        BY <1>0, <3>1, <3>2, PartiesInspected
      <4>3. policies[k] = Text(parties[k], read[parties[k]])
        BY <4>1 DEF Text
      <4>4. QED
        BY <4>2, <4>3 DEF TextOwners
    <3>4. writes' = writes
      BY <2>0 DEF vars
    <3>5. QED
      BY <2>2, <3>2, <3>3, <3>4, RejectsKeeps
  <2>3. ASSUME NEW k, Answer(200, Nobody, IF k = 0 THEN Nobody ELSE PartyOf(k)),
               UNCHANGED <<systemVars, culprit>>
        PROVE  Goal
    <3>1. stage' = "answered" /\ reply'.blamed = Nobody /\ culprit' = Nobody
      BY <2>0, <2>3 DEF Answer, AssemblyInv, Unanswered
    <3>2. QED
      BY <3>1 DEF StageShape, RowsShape, ContextShape, Unanswered, BlameTrue
  <2>4. QED
    BY <1>5, <2>1, <2>2, <2>3 DEF Evaluate
<1>6. ASSUME UNCHANGED allVars PROVE Goal
  BY <1>6 DEF allVars, AssemblyInv, StageShape, RowsShape, ContextShape, Unanswered, BlameTrue
<1>7. QED
  BY <1>0, <1>1, <1>2, <1>3, <1>4, <1>5, <1>6 DEF NextAssembly, Decide, AssemblyInv

LEMMA AssemblyHolds == AssemblySpec => []AssemblyInv
<1>1. InitAssembly => AssemblyInv
  BY AssemblyInit
<1>2. AssemblyInv /\ [NextAssembly]_allVars => AssemblyInv'
  BY AssemblyStep
<1>3. QED
  BY <1>1, <1>2, PTL DEF AssemblySpec

\* The evaluated system is the closure as it was read: a policy, a context slot and
\* a number are one party's, nobody twice, and nobody whom an unchanged policy names
\* is missing (assemblePolicySystem, buildContextTuple).
THEOREM AssemblyPartiesAsRead == AssemblySpec => []PartiesAsRead
<1>1. ASSUME AssemblyInv, stage = "evaluate" PROVE Aligned /\ CompleteAsRead
  <2>0. ClosureInv /\ phase = "done" /\ RowsShape /\ ContextShape /\ PartyNumbers /\ AnalysedInside
    BY <1>1 DEF AssemblyInv, StageShape, ClosureInv
  <2>1. /\ Len(parties) \in Nat /\ DOMAIN parties = 1 .. Len(parties) /\ parties \in Seq(Users)
        /\ Range(parties) = members
        /\ \A i \in 1 .. Len(parties) : parties[i] \in analysed
    BY <2>0, PartiesInspected
  <2>2. /\ Len(policies) = Len(parties) /\ Len(context) = Len(parties)
        /\ \A i \in 1 .. Len(parties) : policies[i].owner = parties[i] /\ context[i].party = parties[i]
        /\ DOMAIN policies = 1 .. Len(parties)
    BY <1>1, <2>0, LenProperties DEF RowsShape, ContextShape
  <2>3. parties[1] = Seed[1]
    <3>1. IsPrefix(Seed, parties) /\ Len(Seed) \in Nat /\ Len(Seed) >= 1 /\ Seed \in Seq(Users)
      BY <2>0, ClosureAssumption, EmptySeq, LenProperties DEF PartyNumbers
    <3>2. /\ Len(Seed) <= Len(parties)
          /\ SubSeq(Seed, 1, Len(Seed)) = SubSeq(parties, 1, Len(Seed))
      BY <3>1 DEF IsPrefix
    <3>3. SubSeq(Seed, 1, Len(Seed))[1] = Seed[1] /\ SubSeq(parties, 1, Len(Seed))[1] = parties[1]
      BY <2>1, <3>1, <3>2
    <3>4. QED
      BY <3>2, <3>3
  <2>4. ASSUME NEW i \in DOMAIN policies,
               writes = 0 \/ policies[i].policy = read[policies[i].owner]
        PROVE  Named(policies[i].policy) \subseteq Range(parties)
    <3>1. i \in 1 .. Len(parties) /\ policies[i].owner = parties[i] /\ parties[i] \in analysed
      BY <2>1, <2>2, <2>4
    <3>2. policies[i].policy = read[parties[i]]
      BY <1>1, <2>0, <2>4, <3>1 DEF RowsShape
    <3>3. QED
      BY <2>0, <2>1, <3>1, <3>2 DEF AnalysedInside
  <2>5. QED
    BY <1>1, <2>1, <2>2, <2>3, <2>4 DEF Aligned, CompleteAsRead
<1>2. AssemblyInv => PartiesAsRead
  BY <1>1 DEF PartiesAsRead, Aligned, CompleteAsRead, AssemblyInv, ClosureInv
<1>3. QED
  BY <1>2, AssemblyHolds, PTL

\* Only the user whose text was rejected is blamed, and always if no policy changed
\* (callBlaming).
THEOREM AssemblyBlameTrue == AssemblySpec => []BlameTrue
<1>1. AssemblyInv => BlameTrue
  BY DEF AssemblyInv
<1>2. QED
  BY <1>1, AssemblyHolds, PTL
-----------------------------------------------------------------------------
(* A call to the evaluator.                                                *)

Slugs == {"bart-syntax", "bart-model", "empty-policies", "missing-context", "missing-request",
          "context-arity", "invalid-requester"}

texts == body.policies
Asked == {"evaluate", "analyze", "validate", "health"}

\* What the program puts into a body.
BodyTypes ==
    /\ endpoint \in Asked
    /\ texts \in Seq(Call!Text) /\ Len(texts) <= MaxPolicies + 1
    /\ body.context \in Call!Text /\ body.request \in Call!Text
    /\ body.lists \in Nat /\ body.requester \in Nat
    /\ endpoint # "evaluate" => body.context = "good" /\ body.request = "good"
    /\ endpoint = "validate" => Len(texts) = 1

\* A refusal names its kind, and the first place that is bad.
Refusal(f) ==
    /\ f.status = 400 /\ f.valid = FALSE /\ f.slug \in Slugs
    /\ \A k \in DOMAIN texts : f.at = <<"policy", k>> =>
         texts[k] \notin {"good", "crash"} /\ \A i \in 1 .. k - 1 : texts[i] = "good"
    /\ f.at = <<"context">> => body.context # "good" \/ body.lists # Len(texts)
    /\ f.at = <<"request">> => body.request # "good" \/ body.requester \notin DOMAIN texts

LEMMA BodyTyped == ASSUME Call!InitCall PROVE BodyTypes
<1> USE CallAssumption
<1>1. endpoint \in Asked /\ body \in Call!Bodies(endpoint)
  BY DEF Call!InitCall, Asked
<1>2. /\ texts \in Call!Policies(endpoint) /\ body.context \in Call!Text /\ body.request \in Call!Text
      /\ body.lists \in Nat /\ body.requester \in Nat
      /\ endpoint # "evaluate" => body.context = "good" /\ body.request = "good"
  BY <1>1 DEF Call!Bodies, Call!Text, texts
<1>3. PICK n \in 0 .. MaxPolicies + 1 : texts \in [1 .. n -> Call!Text] /\ (endpoint = "validate" => n = 1)
  <2>1. CASE endpoint = "validate"
    BY <1>2, <2>1 DEF Call!Policies
  <2>2. CASE endpoint = "health"
    <3>1. texts = <<>>
      BY <1>2, <2>2 DEF Call!Policies
    <3>2. texts \in [1 .. 0 -> Call!Text]
      BY <3>1
    <3>3. 0 \in 0 .. MaxPolicies + 1
      OBVIOUS
    <3> HIDE CallAssumption
    <3>4. QED
      BY <2>2, <3>2, <3>3
  <2>3. CASE endpoint \notin {"validate", "health"}
    BY <1>2, <2>3 DEF Call!Policies
  <2>4. QED
    BY <2>1, <2>2, <2>3
<1>4. texts \in Seq(Call!Text) /\ Len(texts) = n
  BY <1>3
<1>5. QED
  BY <1>1, <1>2, <1>3, <1>4 DEF BodyTypes

\* Nothing is said of a place where nothing is.
LEMMA NoPlace ==
  ASSUME BodyTypes
  PROVE  /\ None \notin Slugs /\ None # "unknown" /\ None # <<"context">> /\ None # <<"request">>
         /\ \A k \in DOMAIN texts : None # <<"policy", k>>
<1>1. \A k \in DOMAIN texts : k \in 1 .. MaxPolicies + 1
  BY CallAssumption DEF BodyTypes
<1>2. QED
  BY <1>1, CallAssumption DEF Slugs

\* The first check that is not fine.
LEMMA FirstBad ==
  ASSUME NEW S, NEW checks \in Seq(S)
  PROVE  \/ Call!First(checks) = Call!Fine /\ \A i \in 1 .. Len(checks) : checks[i] = Call!Fine
         \/ \E m \in 1 .. Len(checks) :
              /\ Call!First(checks) = checks[m] /\ checks[m] # Call!Fine
              /\ \A j \in 1 .. m - 1 : checks[j] = Call!Fine
<1> DEFINE bad == {i \in DOMAIN checks : checks[i] # Call!Fine}
<1>1. DOMAIN checks = 1 .. Len(checks) /\ Len(checks) \in Nat
  OBVIOUS
<1>2. CASE bad = {}
  BY <1>1, <1>2 DEF Call!First
<1>3. CASE bad # {}
  <2>1. \E m \in bad : \A j \in bad : m <= j
    <3>1. bad \in SUBSET Nat
      BY <1>1
    <3> HIDE DEF bad
    <3>2. QED
      BY <1>3, <3>1, LeastNatural
  <2>2. Call!Min(bad) \in bad /\ \A j \in bad : Call!Min(bad) <= j
    <3> HIDE DEF bad
    <3>1. QED
      BY <2>1 DEF Call!Min
  <2> DEFINE m == Call!Min(bad)
  <2>3. Call!First(checks) = checks[m]
    BY <1>3 DEF Call!First
  <2> HIDE DEF m
  <2>4. m \in 1 .. Len(checks) /\ checks[m] # Call!Fine
    BY <1>1, <2>2 DEF m
  <2>5. \A j \in 1 .. m - 1 : j \in 1 .. Len(checks) /\ ~(m <= j)
    BY <1>1, <2>4
  <2>6. \A j \in 1 .. m - 1 : checks[j] = Call!Fine
    BY <1>1, <2>2, <2>5 DEF m
  <2>7. QED
    BY <2>3, <2>4, <2>6
<1>4. QED
  BY <1>2, <1>3

\* What Written says, part by part.
LEMMA WrittenMeans ==
  ASSUME BodyTypes
  PROVE  Call!Written <=>
           /\ Len(texts) # 0 /\ \A i \in 1 .. Len(texts) : texts[i] = "good"
           /\ body.context = "good" /\ body.request = "good"
           /\ endpoint = "evaluate" => body.lists = Len(texts) /\ body.requester \in 1 .. Len(texts)
<1>1. texts \in Seq(Call!Text) /\ DOMAIN texts = 1 .. Len(texts) /\ (texts = <<>> <=> Len(texts) = 0)
  BY DEF BodyTypes
<1>2. UNION {Call!Parts[p] : p \in DOMAIN Call!Parts} = Call!Range(texts) \cup {body.context, body.request}
  <2>1. DOMAIN Call!Parts = {"policy", "context", "request"}
    BY DEF Call!Parts
  <2>2. /\ Call!Parts["policy"] = Call!Range(texts) /\ Call!Parts["context"] = {body.context}
        /\ Call!Parts["request"] = {body.request}
    BY DEF Call!Parts, texts
  <2>3. QED
    BY <2>1, <2>2
<1>3. Call!Range(texts) \cup {body.context, body.request} = {"good"} <=>
        /\ \A i \in 1 .. Len(texts) : texts[i] = "good"
        /\ body.context = "good" /\ body.request = "good"
  BY <1>1 DEF Call!Range
<1>4. QED
  BY <1>1, <1>2, <1>3 DEF Call!Written, texts

\* The policies are checked one by one, after what is required of the body.
LEMMA EachChecked ==
  ASSUME BodyTypes
  PROVE  /\ Call!Each(texts) \in Seq({Call!Each(texts)[i] : i \in 1 .. Len(texts)})
         /\ Len(Call!Each(texts)) = Len(texts)
         /\ \A i \in 1 .. Len(texts) :
              /\ Call!Each(texts)[i] = Call!Tagging(<<"policy", i>>, texts[i])
              /\ texts[i] \in Call!Text
<1>1. texts \in Seq(Call!Text) /\ DOMAIN texts = 1 .. Len(texts) /\ Len(texts) \in Nat
  BY DEF BodyTypes
<1>2. Call!Each(texts) = [i \in 1 .. Len(texts) |-> Call!Tagging(<<"policy", i>>, texts[i])]
  BY <1>1 DEF Call!Each
<1>3. \A i \in 1 .. Len(texts) : texts[i] \in Call!Text
  BY <1>1
<1> DEFINE e == Call!Each(texts)
           n == Len(texts)
           S == {e[i] : i \in 1 .. n}
<1>4. e \in [1 .. n -> S]
  BY <1>2
<1>5. e \in Seq(S) /\ Len(e) = n
  BY <1>1, <1>4
<1>6. QED
  BY <1>2, <1>3, <1>5

LEMMA EachTold ==
  ASSUME BodyTypes, NEW i \in 1 .. Len(texts), NEW g, g = Call!Each(texts)[i]
  PROVE  /\ g = Call!Fine <=> texts[i] = "good"
         /\ \/ g = Call!Fine \/ g = Call!Failure
            \/ /\ texts[i] \notin {"good", "crash"} /\ g.status = 400 /\ g.valid = FALSE
               /\ g.slug \in Slugs /\ g.at = <<"policy", i>>
<1> DEFINE at == <<"policy", i>>
<1>1. texts[i] \in Call!Text /\ g = Call!Tagging(at, texts[i])
  BY EachChecked
<1> HIDE DEF at
<1>2. /\ g = Call!Fine <=> texts[i] = "good"
      /\ \/ g = Call!Fine \/ g = Call!Failure
         \/ /\ texts[i] \notin {"good", "crash"} /\ g.status = 400 /\ g.valid = FALSE
            /\ g.slug \in Slugs /\ g.at = at
  BY <1>1 DEF Call!Text, Call!Tagging, Call!Bad, Call!Fine, Call!Failure, Call!Answer, Slugs
<1>3. QED
  BY <1>2 DEF at

\* An analysis: all its checks are fine exactly when its body is.
LEMMA AnalysisTold ==
  ASSUME BodyTypes, endpoint = "analyze"
  PROVE  LET f == Call!First(Call!Analyze(body)) IN
         \/ f = Call!Fine /\ Call!Written
         \/ ~Call!Written /\ (f = Call!Failure \/ Refusal(f))
<1> DEFINE n == Len(texts)
           e == Call!Each(texts)
           r == Call!Require(texts)
           checks == <<r>> \o e
           f == Call!First(checks)
           S == {r} \cup {e[i] : i \in 1 .. n}
<1>1. /\ texts \in Seq(Call!Text) /\ n \in Nat /\ (texts = <<>> <=> n = 0) /\ DOMAIN texts = 1 .. n
      /\ e \in Seq(S) /\ Len(e) = n
      /\ \A i \in 1 .. n : e[i] = Call!Tagging(<<"policy", i>>, texts[i]) /\ texts[i] \in Call!Text
  BY EachChecked DEF BodyTypes
<1>2. checks \in Seq(S) /\ Len(checks) = n + 1 /\ checks[1] = r /\ \A i \in 1 .. n : checks[i + 1] = e[i]
  <2> HIDE DEF e, r, S
  <2>1. <<r>> \in Seq(S)
    BY DEF S
  <2>2. QED
    BY <1>1, <2>1
<1>3. /\ r = Call!Fine <=> n # 0 /\ \A i \in 1 .. n : texts[i] # "blank"
      /\ r = Call!Fine \/ (r.status = 400 /\ r.valid = FALSE /\ r.slug \in Slugs /\ r.at = None)
  <2>1. "blank" \in Call!Range(texts) <=> \E i \in 1 .. n : texts[i] = "blank"
    BY <1>1 DEF Call!Range
  <2>2. QED
    BY <1>1, <2>1 DEF Call!Require, Call!Bad, Call!Fine, Call!Answer, Slugs
<1>4. Call!Written <=> n # 0 /\ \A i \in 1 .. n : texts[i] = "good"
  BY WrittenMeans DEF BodyTypes
<1>5. ASSUME NEW i \in 1 .. n
      PROVE  /\ e[i] = Call!Fine <=> texts[i] = "good"
             /\ \/ e[i] = Call!Fine \/ e[i] = Call!Failure
                \/ /\ texts[i] \notin {"good", "crash"} /\ e[i].status = 400 /\ e[i].valid = FALSE
                   /\ e[i].slug \in Slugs /\ e[i].at = <<"policy", i>>
  BY EachTold
<1>6. Call!Analyze(body) = checks
  BY DEF Call!Analyze, texts
<1> HIDE DEF e, r, S, n, checks
<1>7. CASE f = Call!Fine /\ \A i \in 1 .. Len(checks) : checks[i] = Call!Fine
  <2>1. r = Call!Fine /\ \A i \in 1 .. n : e[i] = Call!Fine
    <3>1. 1 \in 1 .. Len(checks) /\ \A i \in 1 .. n : i + 1 \in 1 .. Len(checks)
      BY <1>1, <1>2
    <3>2. QED
      BY <1>2, <1>7, <3>1
  <2>2. QED
    BY <1>3, <1>4, <1>5, <1>6, <1>7, <2>1
<1>8. ASSUME NEW m \in 1 .. Len(checks), f = checks[m], checks[m] # Call!Fine,
             \A j \in 1 .. m - 1 : checks[j] = Call!Fine
      PROVE  ~Call!Written /\ (f = Call!Failure \/ Refusal(f))
  <2>1. CASE m = 1
    <3>1. f = r /\ r # Call!Fine
      BY <1>2, <1>8, <2>1
    <3>2. ~Call!Written
      BY <1>3, <1>4, <3>1
    <3>3. f.status = 400 /\ f.valid = FALSE /\ f.slug \in Slugs /\ f.at = None
      BY <1>3, <3>1
    <3>4. QED
      BY <1>1, <3>2, <3>3, NoPlace DEF Refusal
  <2>2. CASE m # 1
    <3> DEFINE k == m - 1
    <3>1. k \in 1 .. n /\ f = e[k] /\ e[k] # Call!Fine
      BY <1>1, <1>2, <1>8, <2>2
    <3>2. \A i \in 1 .. k - 1 : i \in 1 .. n /\ i + 1 \in 1 .. m - 1 /\ checks[i + 1] = e[i]
      BY <1>1, <1>2, <3>1
    <3>3. \A i \in 1 .. k - 1 : texts[i] = "good"
      BY <1>5, <1>8, <3>2
    <3>4. ~Call!Written
      BY <1>4, <1>5, <3>1
    <3>5. CASE f # Call!Failure
      <4>1. /\ texts[k] \notin {"good", "crash"} /\ f.status = 400 /\ f.valid = FALSE
            /\ f.slug \in Slugs /\ f.at = <<"policy", k>>
        BY <1>5, <3>1, <3>5
      <4>2. \A j : f.at = <<"policy", j>> => j = k
        BY <4>1
      <4>3. f.at # <<"context">> /\ f.at # <<"request">>
        BY <4>1
      <4>4. QED
        BY <1>1, <3>3, <3>4, <4>1, <4>2, <4>3 DEF Refusal
    <3>6. QED
      BY <3>4, <3>5
  <2>3. QED
    BY <2>1, <2>2
<1>9. QED
  BY <1>2, <1>6, <1>7, <1>8, FirstBad

\* What is required of a body, and its parts that are no policy.
BodyCheck(c) ==
    \/ c = Call!Fine \/ c = Call!Failure
    \/ /\ c.status = 400 /\ c.valid = FALSE /\ c.slug \in Slugs
       /\ \/ c.at = None
          \/ c.at = <<"context">> /\ (body.context # "good" \/ body.lists # Len(texts))
          \/ c.at = <<"request">> /\ (body.request # "good" \/ body.requester \notin DOMAIN texts)

LEMMA BodyRefused ==
  ASSUME BodyTypes, NEW c, BodyCheck(c), c # Call!Fine, c # Call!Failure
  PROVE  Refusal(c)
<1>1. ASSUME NEW k \in DOMAIN texts PROVE c.at # <<"policy", k>>
  <2>1. None # <<"policy", k>> /\ <<"context">> # <<"policy", k>> /\ <<"request">> # <<"policy", k>>
    BY NoPlace
  <2>2. c.at \in {None, <<"context">>, <<"request">>}
    BY DEF BodyCheck
  <2>3. QED
    BY <2>1, <2>2
<1>2. c.at = <<"context">> => body.context # "good" \/ body.lists # Len(texts)
  BY NoPlace DEF BodyCheck
<1>3. c.at = <<"request">> => body.request # "good" \/ body.requester \notin DOMAIN texts
  BY NoPlace DEF BodyCheck
<1>4. QED
  BY <1>1, <1>2, <1>3 DEF BodyCheck, Refusal

LEMMA RequireTold ==
  ASSUME BodyTypes, NEW r, r = Call!Require(texts)
  PROVE  /\ BodyCheck(r)
         /\ r = Call!Fine <=> Len(texts) # 0 /\ \A i \in 1 .. Len(texts) : texts[i] # "blank"
<1>1. /\ "blank" \in Call!Range(texts) <=> \E i \in 1 .. Len(texts) : texts[i] = "blank"
      /\ texts = <<>> <=> Len(texts) = 0
  BY DEF Call!Range, BodyTypes
<1>2. QED
  BY <1>1 DEF Call!Require, Call!Bad, Call!Fine, Call!Answer, Slugs, BodyCheck

LEMMA PartsTold ==
  ASSUME BodyTypes
  PROVE  LET c == Call!Context(body)
             r == Call!Request(body)
             q2 == Call!RequireText(body.context, "missing-context")
             q3 == Call!RequireText(body.request, "missing-request")
         IN  /\ c = <<c[1], c[2], c[3]>> /\ r = <<r[1], r[2]>>
             /\ BodyCheck(c[1]) /\ BodyCheck(c[2]) /\ BodyCheck(c[3]) /\ BodyCheck(r[1]) /\ BodyCheck(r[2])
             /\ BodyCheck(q2) /\ BodyCheck(q3)
             /\ c[2] = Call!Fine <=> body.lists = Len(texts)
             /\ c[3] = Call!Fine <=> body.context = "good"
             /\ body.context = "good" => c[1] = Call!Fine /\ q2 = Call!Fine
             /\ r[1] = Call!Fine /\ r[2] = Call!Fine <=> body.request = "good" /\ body.requester \in DOMAIN texts
             /\ body.request = "good" => q3 = Call!Fine
<1> USE DEF Call!Text, Call!Tagging, Call!Bad, Call!Fine, Call!Failure, Call!Answer, Slugs, BodyCheck
<1>1. /\ body.context \in Call!Text /\ body.request \in Call!Text /\ body.requester \in Nat
      /\ DOMAIN texts = 1 .. Len(texts) /\ Len(texts) \in Nat
  BY DEF BodyTypes
<1> DEFINE c1 == Call!Tagging(<<"context">>, IF body.context = "model" THEN "good" ELSE body.context)
           c2 == IF body.lists # Len(texts) THEN Call!Bad("context-arity", <<"context">>) ELSE Call!Fine
           c3 == Call!Tagging(<<"context">>, body.context)
           r1 == Call!Tagging(<<"request">>, IF body.request = "good" /\ body.requester < 1 THEN "syntax" ELSE body.request)
           r2 == IF body.requester > Len(texts) THEN Call!Bad("invalid-requester", <<"request">>) ELSE Call!Fine
           q2 == Call!RequireText(body.context, "missing-context")
           q3 == Call!RequireText(body.request, "missing-request")
<1>2. BodyCheck(c1) /\ (body.context = "good" => c1 = Call!Fine)
  BY <1>1
<1>3. BodyCheck(c2) /\ (c2 = Call!Fine <=> body.lists = Len(texts))
  BY <1>1
<1>4. BodyCheck(c3) /\ (c3 = Call!Fine <=> body.context = "good")
  BY <1>1
<1>5. BodyCheck(r1) /\ BodyCheck(r2)
  BY <1>1
<1>6. r1 = Call!Fine /\ r2 = Call!Fine <=> body.request = "good" /\ body.requester \in DOMAIN texts
  BY <1>1
<1>7. /\ BodyCheck(q2) /\ (body.context = "good" => q2 = Call!Fine)
      /\ BodyCheck(q3) /\ (body.request = "good" => q3 = Call!Fine)
  BY <1>1 DEF Call!RequireText
<1>8. Call!Context(body) = <<c1, c2, c3>> /\ Call!Request(body) = <<r1, r2>>
  BY DEF Call!Context, Call!Request, texts
<1> HIDE DEF c1, c2, c3, r1, r2, q2, q3, BodyCheck, Call!Fine
<1>9. QED
  BY <1>2, <1>3, <1>4, <1>5, <1>6, <1>7, <1>8 DEF q2, q3

\* The places of the checks of an evaluation.
LEMMA EvaluationPlaces ==
  ASSUME BodyTypes
  PROVE  LET n == Len(texts)
             all == Call!Evaluate(body)
             c == Call!Context(body)
             r == Call!Request(body)
         IN  /\ n \in Nat /\ all \in Seq({all[i] : i \in 1 .. n + 8}) /\ Len(all) = n + 8
             /\ all[1] = Call!Require(texts)
             /\ all[2] = Call!RequireText(body.context, "missing-context")
             /\ all[3] = Call!RequireText(body.request, "missing-request")
             /\ \A i \in 1 .. n : all[i + 3] = Call!Each(texts)[i]
             /\ all[n + 4] = c[1] /\ all[n + 5] = c[2] /\ all[n + 6] = c[3]
             /\ all[n + 7] = r[1] /\ all[n + 8] = r[2]
<1> DEFINE n == Len(texts)
           e == Call!Each(texts)
           c == Call!Context(body)
           r == Call!Request(body)
           q1 == Call!Require(texts)
           q2 == Call!RequireText(body.context, "missing-context")
           q3 == Call!RequireText(body.request, "missing-request")
           S == {q1, q2, q3, c[1], c[2], c[3], r[1], r[2]} \cup {e[i] : i \in 1 .. n}
           h == <<q1, q2, q3>>
           all == h \o e \o c \o r
<1>1. n \in Nat /\ e \in Seq(S) /\ Len(e) = n
  BY EachChecked DEF BodyTypes
<1>2. c = <<c[1], c[2], c[3]>> /\ r = <<r[1], r[2]>>
  BY PartsTold
<1>3. Call!Evaluate(body) = all
  BY DEF Call!Evaluate, texts
<1> HIDE DEF n, e, c, r, q1, q2, q3
<1>4. h \in Seq(S) /\ Len(h) = 3 /\ h[1] = q1 /\ h[2] = q2 /\ h[3] = q3
  OBVIOUS
<1>5. c \in Seq(S) /\ Len(c) = 3
  <2> DEFINE x == c[1]
             y == c[2]
             z == c[3]
  <2>1. x \in S /\ y \in S /\ z \in S /\ c = <<x, y, z>>
    BY <1>2
  <2> HIDE DEF x, y, z, S
  <2>2. QED
    BY <2>1
<1>6. r \in Seq(S) /\ Len(r) = 2
  <2> DEFINE x == r[1]
             y == r[2]
  <2>1. x \in S /\ y \in S /\ r = <<x, y>>
    BY <1>2
  <2> HIDE DEF x, y, S
  <2>2. QED
    BY <2>1
<1> HIDE DEF S, h, all
<1> DEFINE he == h \o e
           hec == he \o c
<1>7. /\ he \in Seq(S) /\ Len(he) = n + 3 /\ he[1] = q1 /\ he[2] = q2 /\ he[3] = q3
      /\ \A i \in 1 .. n : he[i + 3] = e[i]
  <2>0. he = h \o e /\ 3 = Len(h) /\ n = Len(e)
    BY <1>1, <1>4
  <2> HIDE DEF he
  <2>a. IsJoin(S, h, e, he, 3, n)
    BY <1>1, <1>4, <2>0, Joined
  <2>1. /\ he \in Seq(S) /\ Len(he) = 3 + n /\ \A i \in 1 .. 3 : he[i] = h[i]
        /\ \A i \in 1 .. n : he[i + 3] = e[i]
    BY <2>a DEF IsJoin
  <2>2. 1 \in 1 .. 3 /\ 2 \in 1 .. 3 /\ 3 \in 1 .. 3 /\ 3 + n = n + 3
    BY <1>1
  <2> HIDE DEF he
  <2>3. QED
    BY <1>4, <2>1, <2>2
<1> HIDE DEF he
<1>8. /\ hec \in Seq(S) /\ Len(hec) = n + 6 /\ \A i \in 1 .. n + 3 : hec[i] = he[i]
      /\ hec[n + 4] = c[1] /\ hec[n + 5] = c[2] /\ hec[n + 6] = c[3]
  <2>0. hec = he \o c /\ n + 3 = Len(he) /\ 3 = Len(c)
    BY <1>5, <1>7
  <2> HIDE DEF hec
  <2>a. IsJoin(S, he, c, hec, n + 3, 3)
    BY <1>5, <1>7, <2>0, Joined
  <2>1. /\ hec \in Seq(S) /\ Len(hec) = n + 3 + 3 /\ \A i \in 1 .. n + 3 : hec[i] = he[i]
        /\ \A i \in 1 .. 3 : hec[i + (n + 3)] = c[i]
    BY <2>a DEF IsJoin
  <2>2. /\ 1 \in 1 .. 3 /\ 2 \in 1 .. 3 /\ 3 \in 1 .. 3 /\ n + 3 + 3 = n + 6
        /\ 1 + (n + 3) = n + 4 /\ 2 + (n + 3) = n + 5 /\ 3 + (n + 3) = n + 6
    BY <1>1
  <2> HIDE DEF hec
  <2>3. QED
    BY <2>1, <2>2
<1> HIDE DEF hec
<1>9. /\ hec \o r \in Seq(S) /\ Len(hec \o r) = n + 8 /\ \A i \in 1 .. n + 6 : (hec \o r)[i] = hec[i]
      /\ (hec \o r)[n + 7] = r[1] /\ (hec \o r)[n + 8] = r[2]
  <2> DEFINE l == hec \o r
  <2>0. l = hec \o r /\ n + 6 = Len(hec) /\ 2 = Len(r)
    BY <1>6, <1>8
  <2> HIDE DEF l
  <2>a. IsJoin(S, hec, r, l, n + 6, 2)
    BY <1>6, <1>8, <2>0, Joined
  <2>1. /\ l \in Seq(S) /\ Len(l) = n + 6 + 2 /\ \A i \in 1 .. n + 6 : l[i] = hec[i]
        /\ \A i \in 1 .. 2 : l[i + (n + 6)] = r[i]
    BY <2>a DEF IsJoin
  <2>2. /\ 1 \in 1 .. 2 /\ 2 \in 1 .. 2 /\ n + 6 + 2 = n + 8
        /\ 1 + (n + 6) = n + 7 /\ 2 + (n + 6) = n + 8
    BY <1>1
  <2> HIDE DEF l
  <2>3. l \in Seq(S) /\ Len(l) = n + 8 /\ l[n + 7] = r[1] /\ l[n + 8] = r[2]
    BY <2>1, <2>2
  <2>4. QED
    BY <2>1, <2>3 DEF l
<1>10. all = hec \o r
  BY DEF he, hec, all
<1>11. /\ all \in Seq(S) /\ Len(all) = n + 8
       /\ all[1] = q1 /\ all[2] = q2 /\ all[3] = q3
       /\ all[n + 4] = c[1] /\ all[n + 5] = c[2] /\ all[n + 6] = c[3] /\ all[n + 7] = r[1] /\ all[n + 8] = r[2]
  <2>1. /\ \A i \in {1, 2, 3} : i \in 1 .. n + 3 /\ i \in 1 .. n + 6
        /\ \A i \in {n + 4, n + 5, n + 6} : i \in 1 .. n + 6
    BY <1>1
  <2>2. all[1] = q1 /\ all[2] = q2 /\ all[3] = q3
    BY <1>7, <1>8, <1>9, <1>10, <2>1
  <2>3. all[n + 4] = c[1] /\ all[n + 5] = c[2] /\ all[n + 6] = c[3]
    BY <1>8, <1>9, <1>10, <2>1
  <2>4. QED
    BY <1>9, <1>10, <2>2, <2>3
<1>12. \A i \in 1 .. n : all[i + 3] = e[i]
  <2>1. \A i \in 1 .. n : i + 3 \in 1 .. n + 3 /\ i + 3 \in 1 .. n + 6
    BY <1>1
  <2>2. QED
    BY <1>7, <1>8, <1>9, <1>10, <2>1
<1>13. all \in Seq({all[i] : i \in 1 .. n + 8})
  BY <1>1, <1>11
<1>14. QED
  BY <1>1, <1>3, <1>11, <1>12, <1>13 DEF n, e, c, r, q1, q2, q3

\* An evaluation: all its checks are fine exactly when its body is.
LEMMA EvaluationTold ==
  ASSUME BodyTypes, endpoint = "evaluate"
  PROVE  LET f == Call!First(Call!Evaluate(body)) IN
         \/ f = Call!Fine /\ Call!Written
         \/ ~Call!Written /\ (f = Call!Failure \/ Refusal(f))
<1> DEFINE n == Len(texts)
           all == Call!Evaluate(body)
           f == Call!First(all)
<1>1. n \in Nat /\ DOMAIN texts = 1 .. n /\ all \in Seq({all[i] : i \in 1 .. n + 8}) /\ Len(all) = n + 8
  BY EvaluationPlaces DEF BodyTypes
<1>2. /\ BodyCheck(all[1]) /\ BodyCheck(all[2]) /\ BodyCheck(all[3])
      /\ all[1] = Call!Fine <=> n # 0 /\ \A i \in 1 .. n : texts[i] # "blank"
      /\ body.context = "good" => all[2] = Call!Fine
      /\ body.request = "good" => all[3] = Call!Fine
  BY EvaluationPlaces, RequireTold, PartsTold
<1>3. /\ BodyCheck(all[n + 4]) /\ BodyCheck(all[n + 5]) /\ BodyCheck(all[n + 6])
      /\ BodyCheck(all[n + 7]) /\ BodyCheck(all[n + 8])
      /\ body.context = "good" => all[n + 4] = Call!Fine
      /\ all[n + 5] = Call!Fine <=> body.lists = n
      /\ all[n + 6] = Call!Fine <=> body.context = "good"
      /\ all[n + 7] = Call!Fine /\ all[n + 8] = Call!Fine
           <=> body.request = "good" /\ body.requester \in DOMAIN texts
  BY EvaluationPlaces, PartsTold
<1>4. ASSUME NEW i \in 1 .. n
      PROVE  /\ all[i + 3] = Call!Fine <=> texts[i] = "good"
             /\ \/ all[i + 3] = Call!Fine \/ all[i + 3] = Call!Failure
                \/ /\ texts[i] \notin {"good", "crash"} /\ all[i + 3].status = 400 /\ all[i + 3].valid = FALSE
                   /\ all[i + 3].slug \in Slugs /\ all[i + 3].at = <<"policy", i>>
  <2>1. all[i + 3] = Call!Each(texts)[i]
    BY EvaluationPlaces
  <2>2. QED
    BY <2>1, EachTold
<1>5. Call!Written <=>
        /\ n # 0 /\ \A i \in 1 .. n : texts[i] = "good"
        /\ body.context = "good" /\ body.request = "good" /\ body.lists = n /\ body.requester \in 1 .. n
  BY WrittenMeans
<1> HIDE DEF all, n
<1>6. Call!Written <=> \A m \in 1 .. n + 8 : all[m] = Call!Fine
  <2>1. ASSUME Call!Written, NEW m \in 1 .. n + 8 PROVE all[m] = Call!Fine
    <3>1. m \in {1, 2, 3, n + 4, n + 5, n + 6, n + 7, n + 8} \/ (m - 3 \in 1 .. n /\ (m - 3) + 3 = m)
      BY <1>1
    <3>2. all[m - 3 + 3] = Call!Fine \/ m - 3 \notin 1 .. n
      BY <1>4, <1>5, <2>1
    <3>3. QED
      BY <1>1, <1>2, <1>3, <1>5, <2>1, <3>1, <3>2
  <2>2. ASSUME \A m \in 1 .. n + 8 : all[m] = Call!Fine PROVE Call!Written
    <3>1. /\ 1 \in 1 .. n + 8 /\ n + 5 \in 1 .. n + 8 /\ n + 6 \in 1 .. n + 8
          /\ n + 7 \in 1 .. n + 8 /\ n + 8 \in 1 .. n + 8 /\ \A i \in 1 .. n : i + 3 \in 1 .. n + 8
      BY <1>1
    <3>2. \A i \in 1 .. n : texts[i] = "good"
      BY <1>4, <2>2, <3>1
    <3>3. QED
      BY <1>1, <1>2, <1>3, <1>5, <2>2, <3>1, <3>2
  <2>3. QED
    BY <2>1, <2>2
<1>7. ASSUME \A i \in 1 .. Len(all) : all[i] = Call!Fine PROVE Call!Written
  BY <1>1, <1>6, <1>7
<1>8. ASSUME NEW m \in 1 .. Len(all), f = all[m], all[m] # Call!Fine,
             \A j \in 1 .. m - 1 : all[j] = Call!Fine
      PROVE  ~Call!Written /\ (f = Call!Failure \/ Refusal(f))
  <2>1. ~Call!Written /\ m \in 1 .. n + 8
    BY <1>1, <1>6, <1>8
  <2>2. CASE m \in {1, 2, 3, n + 4, n + 5, n + 6, n + 7, n + 8}
    <3>1. BodyCheck(f)
      BY <1>2, <1>3, <1>8, <2>2
    <3>2. QED
      BY <1>8, <2>1, <3>1, BodyRefused
  <2>3. CASE m \notin {1, 2, 3, n + 4, n + 5, n + 6, n + 7, n + 8}
    <3> DEFINE k == m - 3
    <3>1. k \in 1 .. n /\ k + 3 = m
      BY <1>1, <2>1, <2>3
    <3>2. \A i \in 1 .. k - 1 : i \in 1 .. n /\ i + 3 \in 1 .. m - 1
      BY <1>1, <2>1, <3>1
    <3>3. \A i \in 1 .. k - 1 : texts[i] = "good"
      BY <1>4, <1>8, <3>2
    <3>4. CASE f # Call!Failure
      <4>0. f = all[k + 3] /\ all[k + 3] # Call!Fine
        BY <1>8, <3>1
      <4> HIDE DEF k, f
      <4>1. /\ texts[k] \notin {"good", "crash"} /\ f.status = 400 /\ f.valid = FALSE
            /\ f.slug \in Slugs /\ f.at = <<"policy", k>>
        BY <1>4, <3>1, <3>4, <4>0
      <4>2. \A j : f.at = <<"policy", j>> => j = k
        BY <4>1
      <4>3. f.at # <<"context">> /\ f.at # <<"request">>
        BY <4>1
      <4>4. QED
        BY <1>1, <2>1, <3>3, <4>1, <4>2, <4>3 DEF Refusal
    <3>5. QED
      BY <2>1, <3>4
  <2>4. QED
    BY <2>2, <2>3
<1>9. QED
  <2>1. \/ f = Call!Fine /\ \A i \in 1 .. Len(all) : all[i] = Call!Fine
        \/ \E m \in 1 .. Len(all) :
              /\ f = all[m] /\ all[m] # Call!Fine
              /\ \A j \in 1 .. m - 1 : all[j] = Call!Fine
    BY <1>1, FirstBad
  <2>2. QED
    BY <1>7, <1>8, <2>1 DEF all
\* What may come back on a call: what the service makes of the body, a failure, or
\* the answer of something in between.
Told(f) ==
    \/ f.status = 200 /\ f.valid \in BOOLEAN /\ (f.valid <=> Call!Written)
    \/ f.status = 500
    \/ f.status = 404 /\ f.slug = None
    \/ Refusal(f) /\ ~Call!Written /\ endpoint # "validate"

LEMMA ValidationTold ==
  ASSUME BodyTypes, endpoint = "validate", NEW f, f = Call!Validate(texts[1])
  PROVE  Told(f)
<1>1. Len(texts) = 1 /\ texts[1] \in Call!Text /\ body.context = "good" /\ body.request = "good"
  <2>1. texts \in Seq(Call!Text) /\ Len(texts) = 1 /\ body.context = "good" /\ body.request = "good"
    BY DEF BodyTypes
  <2>2. 1 \in 1 .. Len(texts)
    BY <2>1
  <2> HIDE DEF texts, Call!Text
  <2>3. QED
    BY <2>1, <2>2
<1>2. Call!Written <=> texts[1] = "good"
  BY <1>1, WrittenMeans
<1>3. \/ f.status = 200 /\ f.valid = TRUE /\ texts[1] = "good"
      \/ f.status = 200 /\ f.valid = FALSE /\ texts[1] # "good"
      \/ f.status = 500
  <2> DEFINE t == texts[1]
  <2>1. t \in Call!Text /\ f = Call!Validate(t)
    BY <1>1
  <2> HIDE DEF t
  <2>2. \/ f.status = 200 /\ f.valid = TRUE /\ t = "good"
        \/ f.status = 200 /\ f.valid = FALSE /\ t # "good"
        \/ f.status = 500
    BY <2>1 DEF Call!Text, Call!Validate, Call!Tagging, Call!Bad, Call!Fine, Call!Failure, Call!Answer
  <2>3. QED
    BY <2>2 DEF t
<1>4. QED
  BY <1>2, <1>3 DEF Told

LEMMA ServedTold ==
  ASSUME BodyTypes, endpoint # "health"
  PROVE  Told(Call!Served)
<1>1. Call!Fine.status = 200 /\ Call!Fine.valid = TRUE /\ Call!Failure.status = 500
  BY DEF Call!Fine, Call!Failure, Call!Answer
<1>2. CASE endpoint = "evaluate"
  <2> DEFINE f == Call!First(Call!Evaluate(body))
  <2>1. \/ f = Call!Fine /\ Call!Written
        \/ ~Call!Written /\ (f = Call!Failure \/ Refusal(f))
    BY <1>2, EvaluationTold
  <2>2. Call!Served = f
    BY <1>2 DEF Call!Served
  <2> HIDE DEF f
  <2>3. CASE f = Call!Fine /\ Call!Written
    BY <1>1, <2>2, <2>3 DEF Told
  <2>4. CASE ~Call!Written /\ f = Call!Failure
    BY <1>1, <2>2, <2>4 DEF Told
  <2>5. CASE ~Call!Written /\ Refusal(f)
    <3>1. Refusal(Call!Served) /\ endpoint # "validate"
      BY <1>2, <2>2, <2>5
    <3>2. QED
      BY <2>5, <3>1 DEF Told
  <2>6. QED
    BY <2>1, <2>3, <2>4, <2>5
<1>3. CASE endpoint = "analyze"
  <2> DEFINE f == Call!First(Call!Analyze(body))
  <2>1. \/ f = Call!Fine /\ Call!Written
        \/ ~Call!Written /\ (f = Call!Failure \/ Refusal(f))
    BY <1>3, AnalysisTold
  <2>2. Call!Served = f
    BY <1>3 DEF Call!Served
  <2> HIDE DEF f
  <2>3. CASE f = Call!Fine /\ Call!Written
    BY <1>1, <2>2, <2>3 DEF Told
  <2>4. CASE ~Call!Written /\ f = Call!Failure
    BY <1>1, <2>2, <2>4 DEF Told
  <2>5. CASE ~Call!Written /\ Refusal(f)
    <3>1. Refusal(Call!Served) /\ endpoint # "validate"
      BY <1>3, <2>2, <2>5
    <3>2. QED
      BY <2>5, <3>1 DEF Told
  <2>6. QED
    BY <2>1, <2>3, <2>4, <2>5
<1>4. CASE endpoint = "validate"
  BY <1>4, ValidationTold DEF Call!Served, texts
<1>5. QED
  BY <1>2, <1>3, <1>4 DEF BodyTypes, Asked

\* A call settles on an outage, or on what came back.
OutcomeShape ==
    endpoint # "health" =>
      /\ wire = "headers" => Told(response)
      /\ wire = "settled" =>
           \/ outcome = Call!Unavailable
           \/ Told(response) /\ \E read0 \in BOOLEAN : outcome = Call!Concluded(read0)

\* A timer runs as long as its probe is open; what a probe says was heard in time.
StatusShape ==
    /\ probes \in [Call!Services -> [said : {"asked", "up", "down"}, timer : {"set", "cleared", "fired"}]]
    /\ \A s \in Call!Services : probes[s].said = "asked" <=> probes[s].timer = "set"
    /\ probes["database"].said = "up" => database = "up"
    /\ probes["database"].said = "down" /\ probes["database"].timer # "fired" => database = "down"
    /\ probes["evaluator"].said = "up" => wire = "settled" /\ outcome.kind = "done"
    /\ probes["evaluator"].said = "down" /\ probes["evaluator"].timer # "fired" =>
         wire = "settled" /\ outcome.kind # "done"
    /\ replied => \A s \in Call!Services : probes[s].said # "asked"

CallInv == BodyTypes /\ OutcomeShape /\ StatusShape

LEMMA CallInit == Call!InitCall => CallInv
<1> SUFFICES ASSUME Call!InitCall PROVE CallInv
  OBVIOUS
<1>1. BodyTypes
  BY BodyTyped
<1>2. OutcomeShape
  BY DEF Call!InitCall, OutcomeShape
<1>3. StatusShape
  BY DEF Call!InitCall, StatusShape, Call!Services
<1>4. QED
  BY <1>1, <1>2, <1>3 DEF CallInv

\* What a call asks does not change.
LEMMA BodyKept ==
  ASSUME BodyTypes, UNCHANGED <<endpoint, body>>
  PROVE  BodyTypes' /\ (Call!Written' <=> Call!Written)
<1>1. BodyTypes'
  BY DEF BodyTypes, texts
<1>2. QED
  BY <1>1 DEF Call!Written, Call!Parts
LEMMA ToldKept ==
  ASSUME BodyTypes, UNCHANGED <<endpoint, body>>, NEW f, Told(f)
  PROVE  (Told(f))'
<1>1. BodyTypes' /\ (Call!Written' <=> Call!Written) /\ texts' = texts
  BY BodyKept DEF texts
<1>2. Refusal(f) => (Refusal(f))'
  BY <1>1 DEF Refusal
<1>3. QED
  BY <1>1, <1>2 DEF Told

\* The call itself, and what its probes make of how it settles.
LEMMA OutcomeStep ==
  ASSUME CallInv, Call!NextCall
  PROVE  BodyTypes' /\ OutcomeShape'
<1>1. UNCHANGED <<endpoint, body>>
  BY DEF Call!NextCall, Call!Settling, Call!Respond, Call!Lost, Call!ReadBody, Call!Conclude,
         Call!DatabaseAnswers, Call!DeadlinePasses, Call!Reply
<1>2. BodyTypes' /\ BodyTypes /\ OutcomeShape
  BY <1>1, BodyKept DEF CallInv
<1> SUFFICES ASSUME endpoint # "health" PROVE OutcomeShape'
  BY <1>1, <1>2 DEF OutcomeShape
<1>3. CASE Call!Respond
  <2>1. response' \in {Call!Served, Call!Failure, Call!Answer(404, None, None, FALSE)}
    BY <1>3 DEF Call!Respond
  <2>2. Told(response')
    <3>1. Told(Call!Served)
      BY <1>2, ServedTold
    <3>2. Told(Call!Failure) /\ Told(Call!Answer(404, None, None, FALSE))
      BY DEF Told, Call!Failure, Call!Answer
    <3>3. QED
      BY <2>1, <3>1, <3>2
  <2>3. Told(response)'
    <3>1. \A f : Told(f) => (Told(f))'
      BY <1>1, <1>2, ToldKept
    <3>2. QED
      BY <2>2, <3>1
  <2>4. wire' = "headers"
    BY <1>3 DEF Call!Respond
  <2>5. QED
    BY <2>3, <2>4 DEF OutcomeShape
<1>4. CASE Call!Lost
  BY <1>4 DEF Call!Lost, Call!Conclude, OutcomeShape, Call!Unavailable, Call!Outcome
<1>5. CASE Call!ReadBody
  <2>1. PICK read0 \in BOOLEAN : Call!Conclude(Call!Concluded(read0))
    BY <1>5 DEF Call!ReadBody
  <2>2. wire = "headers" /\ wire' = "settled" /\ response' = response /\ outcome' = Call!Concluded(read0)
    BY <1>5, <2>1 DEF Call!ReadBody, Call!Conclude
  <2>3. Told(response)
    BY <1>2, <2>2 DEF OutcomeShape
  <2>4. Told(response)'
    <3>1. (Call!Written' <=> Call!Written) /\ texts' = texts /\ endpoint' = endpoint /\ body' = body
      BY <1>1, <1>2, BodyKept DEF texts
    <3>2. Refusal(response) => Refusal(response)'
      BY <2>2, <3>1 DEF Refusal
    <3>3. QED
      BY <2>2, <2>3, <3>1, <3>2 DEF Told
  <2>5. outcome' = (Call!Concluded(read0))'
    BY <2>2 DEF Call!Concluded, Call!Unavailable
  <2>6. QED
    BY <2>2, <2>4, <2>5 DEF OutcomeShape
<1>6. CASE Call!DatabaseAnswers \/ Call!DeadlinePasses \/ Call!Reply
  BY <1>6 DEF Call!DatabaseAnswers, Call!DeadlinePasses, Call!Reply
<1>7. QED
  BY <1>3, <1>4, <1>5, <1>6 DEF Call!NextCall, Call!Settling

\* A probe hears what settles it while it is open.
LEMMA StatusConclude ==
  ASSUME CallInv, wire # "settled", NEW o, Call!Conclude(o)
  PROVE  StatusShape'
<1> USE DEF Call!Services
<1> DEFINE p == probes["evaluator"]
           q == Call!Heard(p, o.kind = "done")
<1>1. /\ wire' = "settled" /\ outcome' = o /\ database' = database /\ replied' = replied
      /\ StatusShape
  BY DEF Call!Conclude, CallInv
<1>2. CASE endpoint = "health"
  <2>1. probes' = [probes EXCEPT !["evaluator"] = q]
    BY <1>2 DEF Call!Conclude
  <2>2. /\ q \in [said : {"asked", "up", "down"}, timer : {"set", "cleared", "fired"}]
        /\ p.said = "asked" => q = [said |-> IF o.kind = "done" THEN "up" ELSE "down", timer |-> "cleared"]
        /\ p.said # "asked" => q = p
    <3> DEFINE up == o.kind = "done"
    <3>1. /\ p \in [said : {"asked", "up", "down"}, timer : {"set", "cleared", "fired"}]
          /\ up \in BOOLEAN /\ q = Call!Heard(p, up)
      BY <1>1 DEF StatusShape
    <3> HIDE DEF p, q
    <3>2. QED
      BY <3>1 DEF Call!Heard
  <2>3. probes'["evaluator"] = q /\ probes'["database"] = probes["database"]
    BY <1>1, <2>1 DEF StatusShape
  <2> HIDE DEF q
  <2>4. /\ q.said = "asked" <=> q.timer = "set"
        /\ q.said = "up" => o.kind = "done"
        /\ q.said = "down" /\ q.timer # "fired" => o.kind # "done"
        /\ p.said # "asked" => q.said # "asked"
    BY <1>1, <2>2 DEF StatusShape
  <2>5. probes' \in [Call!Services -> [said : {"asked", "up", "down"}, timer : {"set", "cleared", "fired"}]]
    BY <1>1, <2>1, <2>2 DEF StatusShape
  <2>6. QED
    BY <1>1, <2>3, <2>4, <2>5 DEF StatusShape
<1>3. CASE endpoint # "health"
  <2>1. probes' = probes
    BY <1>3 DEF Call!Conclude
  <2>2. QED
    BY <1>1, <2>1 DEF StatusShape
<1>4. QED
  BY <1>2, <1>3
LEMMA StatusStep ==
  ASSUME CallInv, Call!NextCall
  PROVE  StatusShape'
<1> USE DEF Call!Services
<1> DEFINE Probe == [said : {"asked", "up", "down"}, timer : {"set", "cleared", "fired"}]
<1>1. StatusShape
  BY DEF CallInv
<1>2. CASE Call!Lost
  BY <1>2, StatusConclude DEF Call!Lost
<1>3. CASE Call!ReadBody
  BY <1>3, StatusConclude DEF Call!ReadBody
<1>4. CASE Call!Respond
  BY <1>1, <1>4 DEF Call!Respond, StatusShape
<1>5. CASE Call!Reply
  BY <1>1, <1>5 DEF Call!Reply, StatusShape
<1>6. CASE Call!DatabaseAnswers
  <2> DEFINE p == probes["database"]
             up == database' = "up"
             q == Call!Heard(p, up)
  <2>1. /\ database = "pending" /\ database' \in {"up", "down"} /\ probes' = [probes EXCEPT !["database"] = q]
        /\ wire' = wire /\ outcome' = outcome /\ replied' = replied
    BY <1>6 DEF Call!DatabaseAnswers
  <2>2. p \in Probe /\ p.said # "up" /\ (p.said = "asked" <=> p.timer = "set")
        /\ (p.said = "down" => p.timer = "fired")
    BY <1>1, <2>1 DEF StatusShape
  <2>3. probes'["database"] = q /\ probes'["evaluator"] = probes["evaluator"]
    BY <1>1, <2>1 DEF StatusShape
  <2>4. /\ q \in Probe
        /\ p.said = "asked" => q = [said |-> IF up THEN "up" ELSE "down", timer |-> "cleared"]
        /\ p.said # "asked" => q = p
    <3>1. up \in BOOLEAN
      OBVIOUS
    <3> HIDE DEF p, up
    <3>2. QED
      BY <2>2, <3>1 DEF Call!Heard
  <2> HIDE DEF q, p
  <2>5. /\ q.said = "asked" <=> q.timer = "set"
        /\ q.said = "up" => database' = "up"
        /\ q.said = "down" /\ q.timer # "fired" => database' = "down"
        /\ p.said # "asked" => q.said # "asked"
    BY <2>1, <2>2, <2>4
  <2>6. probes' \in [Call!Services -> Probe]
    BY <1>1, <2>1, <2>4 DEF StatusShape
  <2>7. QED
    BY <1>1, <2>1, <2>3, <2>5, <2>6 DEF StatusShape, p
<1>7. CASE Call!DeadlinePasses
  <2>1. PICK s \in Call!Services :
          /\ probes[s].timer = "set"
          /\ probes' = [probes EXCEPT ![s] =
               [said |-> IF @.said = "asked" THEN "down" ELSE @.said, timer |-> "fired"]]
    BY <1>7 DEF Call!DeadlinePasses
  <2>2. database' = database /\ wire' = wire /\ outcome' = outcome /\ replied' = replied
    BY <1>7 DEF Call!DeadlinePasses
  <2>3. probes[s].said = "asked" /\ ~replied
    BY <1>1, <2>1 DEF StatusShape
  <2>4. probes' = [probes EXCEPT ![s] = [said |-> "down", timer |-> "fired"]]
    BY <1>1, <2>1, <2>3 DEF StatusShape
  <2>5. /\ probes'[s] = [said |-> "down", timer |-> "fired"]
        /\ \A t \in Call!Services : t # s => probes'[t] = probes[t]
        /\ probes' \in [Call!Services -> Probe]
    BY <1>1, <2>4 DEF StatusShape
  <2>6. QED
    BY <1>1, <2>2, <2>3, <2>5 DEF StatusShape
<1>8. QED
  BY <1>2, <1>3, <1>4, <1>5, <1>6, <1>7 DEF Call!NextCall, Call!Settling

LEMMA CallStep == CallInv /\ [DecisionNext]_<<allVars, moments, callVars>> => CallInv'
<1> SUFFICES ASSUME CallInv, [DecisionNext]_<<allVars, moments, callVars>> PROVE CallInv'
  OBVIOUS
<1>1. CASE Call!NextCall
  BY <1>1, OutcomeStep, StatusStep DEF CallInv
<1>2. CASE UNCHANGED callVars
  <2>1. endpoint' = endpoint /\ body' = body /\ wire' = wire /\ response' = response /\ outcome' = outcome
    BY <1>2 DEF callVars
  <2>2. database' = database /\ probes' = probes /\ replied' = replied
    BY <1>2 DEF callVars
  <2>3. BodyTypes /\ BodyTypes' /\ (Call!Written' <=> Call!Written) /\ texts' = texts
    BY <2>1, BodyKept DEF CallInv, texts
  <2>4. Told(response) => Told(response)'
    <3>1. Refusal(response) => Refusal(response)'
      BY <2>1, <2>3 DEF Refusal
    <3>2. QED
      BY <2>1, <2>3, <3>1 DEF Told
  <2>5. \A read0 \in BOOLEAN : (Call!Concluded(read0))' = Call!Concluded(read0)
    BY <2>1 DEF Call!Concluded, Call!Unavailable
  <2>6. OutcomeShape'
    BY <2>1, <2>4, <2>5 DEF CallInv, OutcomeShape
  <2>7. StatusShape'
    BY <2>1, <2>2 DEF CallInv, StatusShape
  <2>8. QED
    BY <2>3, <2>6, <2>7 DEF CallInv
<1>3. QED
  BY <1>1, <1>2 DEF DecisionNext

LEMMA CallHolds == DecisionSpec => []CallInv
<1>1. DecisionInit => CallInv
  BY CallInit DEF DecisionInit
<1>2. QED
  BY <1>1, CallStep, PTL DEF DecisionSpec

LEMMA ToldOutcome ==
  ASSUME CallInv
  PROVE  Call!OutcomeTold
<1> SUFFICES ASSUME wire = "settled", endpoint # "health" PROVE Call!OutcomeTold
  BY DEF Call!OutcomeTold
<1>1. BodyTypes /\ OutcomeShape
  BY DEF CallInv
<1>2. CASE outcome = Call!Unavailable
  <2>1. outcome.kind = "unavailable" /\ outcome.at = None
    BY <1>2 DEF Call!Unavailable, Call!Outcome
  <2>2. QED
    BY <1>1, <2>1, NoPlace DEF Call!OutcomeTold, Call!Mapped, texts
<1>3. ASSUME Told(response), NEW read0 \in BOOLEAN, outcome = Call!Concluded(read0)
      PROVE  Call!OutcomeTold
  <2>1. CASE response.status = 200
    <3>1. outcome.at = None /\ \/ outcome.kind = "unavailable"
                               \/ outcome.kind = "done" /\ outcome.valid = response.valid
      <4>1. outcome = IF read0 THEN Call!Outcome("done", None, None, response.valid) ELSE Call!Unavailable
        BY <1>3, <2>1 DEF Call!Concluded
      <4>2. CASE read0
        BY <4>1, <4>2 DEF Call!Outcome
      <4>3. CASE ~read0
        BY <4>1, <4>3 DEF Call!Unavailable, Call!Outcome
      <4>4. QED
        BY <1>3, <4>2, <4>3
    <3>2. response.valid <=> Call!Written
      BY <1>3, <2>1 DEF Told, Refusal
    <3>3. QED
      BY <1>1, <2>1, <3>1, <3>2, NoPlace DEF Call!OutcomeTold, Call!Mapped, texts
  <2>2. CASE response.status = 500
    <3>1. outcome.kind = "unavailable" /\ outcome.at = None
      BY <1>3, <2>2 DEF Call!Concluded, Call!Unavailable, Call!Outcome
    <3>2. QED
      BY <1>1, <3>1, NoPlace DEF Call!OutcomeTold, Call!Mapped, texts
  <2>3. CASE response.status = 404 /\ response.slug = None
    <3>1. outcome.kind = "rejected" /\ outcome.slug = "unknown" /\ outcome.at = None
      BY <1>3, <2>3 DEF Call!Concluded, Call!Outcome
    <3>2. QED
      BY <1>1, <2>3, <3>1, NoPlace DEF Call!OutcomeTold, Call!Mapped, texts
  <2>4. CASE Refusal(response) /\ ~Call!Written /\ endpoint # "validate"
    <3>1. response.status = 400 /\ response.slug \in Slugs /\ response.slug # None
      BY <1>1, <2>4, NoPlace DEF Refusal
    <3>2. /\ outcome.kind = "rejected"
          /\ \/ outcome.slug = "unknown" /\ outcome.at = None
             \/ outcome.slug = response.slug /\ outcome.slug # "unknown" /\ outcome.at = response.at
      BY <1>3, <3>1 DEF Call!Concluded, Call!Outcome, Slugs
    <3>3. CASE outcome.at = None /\ outcome.slug = "unknown"
      BY <1>1, <2>4, <3>1, <3>2, <3>3, NoPlace DEF Call!OutcomeTold, Call!Mapped, texts
    <3>4. CASE outcome.at = response.at /\ outcome.slug # "unknown"
      BY <2>4, <3>1, <3>2, <3>4 DEF Call!OutcomeTold, Call!Mapped, Refusal, texts
    <3>5. QED
      BY <3>2, <3>3, <3>4
  <2>5. QED
    BY <1>3, <2>1, <2>2, <2>3, <2>4 DEF Told
<1>4. QED
  BY <1>1, <1>2, <1>3 DEF OutcomeShape

\* A caller of the evaluator is told of an outage, of its own mistake and where it
\* is, or what was answered, and a probe says what it heard in time: for every body
\* and whatever comes back (evaluator.client.ts, mapEvaluatorError, service probes).
THEOREM DecisionEvaluatorTold == DecisionSpec => []EvaluatorTold
<1>1. ASSUME CallInv PROVE Call!StatusTold
  <2>1. StatusShape
    BY <1>1 DEF CallInv
  <2>2. \A s \in Call!Services : probes[s].said = "down" /\ probes[s].timer # "fired" =>
           IF s = "database" THEN database = "down" ELSE wire = "settled" /\ outcome.kind # "done"
    BY <2>1 DEF StatusShape, Call!Services
  <2>3. replied => \A s \in Call!Services : probes[s].timer # "set"
    BY <2>1 DEF StatusShape
  <2>4. QED
    BY <2>1, <2>2, <2>3 DEF StatusShape, Call!StatusTold
<1>2. CallInv => EvaluatorTold
  BY <1>1, ToldOutcome DEF EvaluatorTold
<1>3. QED
  BY <1>2, CallHolds, PTL

-----------------------------------------------------------------------------
(* The decision implements one that is taken at once.                      *)

\* The users whose policy the closure has read, and what it takes for stored: what
\* it read of them, and of everybody else what is there.
ReadUsers == analysed \cup (frontier \ unread)

Sampled == [u \in Users |-> IF u \in ReadUsers THEN read[u] ELSE policy[u]]

\* Each read is of a moment, and the rows are all of one moment.
MomentsShape == policy \in moments /\ moments \subseteq AtOnce!Stored

ReadsOfMoments == \A u \in ReadUsers : \E m \in moments : read[u] = m[u]

RowsOfMoment ==
    stage \in {"context", "evaluate"} =>
        \E m \in moments : \A i \in 1 .. Len(parties) : policies[i].policy = m[parties[i]]

\* The inductive invariant: what the decision is taken on can be traced to moments
\* only because nothing is forgotten between the queries.
DecisionInv ==
    /\ AssemblyInv
    /\ MomentsShape
    /\ ReadsOfMoments
    /\ RowsOfMoment
    /\ stage # "answered" => reply = AtOnce!Unanswered

LEMMA DecisionStarts == DecisionInit => DecisionInv
<1> SUFFICES ASSUME DecisionInit PROVE DecisionInv
  OBVIOUS
<1>1. InitAssembly /\ Init /\ moments = {policy}
  BY DEF DecisionInit, InitAssembly
<1>2. AssemblyInv
  BY <1>1, AssemblyInit
<1>3. MomentsShape
  BY <1>1 DEF MomentsShape, AtOnce!Stored, Init
<1>4. ReadsOfMoments /\ RowsOfMoment /\ reply = AtOnce!Unanswered
  BY <1>1 DEF ReadsOfMoments, ReadUsers, RowsOfMoment, Init, InitAssembly, AtOnce!Unanswered, AtOnce!Says
<1>5. QED
  BY <1>2, <1>3, <1>4 DEF DecisionInv

\* A step of the closure reads of the moment, or reads nothing.
LEMMA ReadsKept ==
  ASSUME ClosureInv, [Next]_vars, NEW u \in ReadUsers'
  PROVE  (u \in ReadUsers /\ read'[u] = read[u]) \/ (u \in Users /\ read'[u] = policy[u])
<1>0. TypeOK /\ RoundShape
  BY DEF ClosureInv
<1>1. CASE StartRound
  BY <1>0, <1>1 DEF StartRound, ReadUsers, RoundShape
<1>2. ASSUME NEW v \in Users, ReadPolicy(v)
      PROVE  (u \in ReadUsers /\ read'[u] = read[u]) \/ (u \in Users /\ read'[u] = policy[u])
  <2>1. CASE u = v
    BY <1>0, <1>2, <2>1 DEF ReadPolicy, TypeOK
  <2>2. CASE u # v
    <3>1. u \in ReadUsers
      BY <1>2, <2>2 DEF ReadPolicy, ReadUsers
    <3>2. read'[u] = read[u]
      BY <1>0, <1>2, <2>2, <3>1 DEF ReadPolicy, TypeOK, ReadUsers
    <3>3. QED
      BY <3>1, <3>2
  <2>3. QED
    BY <2>1, <2>2
<1>3. CASE ExpandRound
  BY <1>0, <1>3 DEF ExpandRound, ReadUsers
<1>4. CASE RoundFails \/ Finish \/ UNCHANGED vars
  BY <1>4 DEF RoundFails, Finish, vars, ReadUsers
<1>5. ASSUME NEW v \in Users, WritePolicy(v) PROVE u \in ReadUsers /\ read'[u] = read[u]
  BY <1>5 DEF WritePolicy, runVars, ReadUsers
<1>6. QED
  BY <1>1, <1>2, <1>3, <1>4, <1>5 DEF Next, Closure

\* The rows are those of the moment they are loaded at, and are not loaded again.
LEMMA RowsKept ==
  ASSUME DecisionInv, NextAssembly, policy \in moments', moments \subseteq moments'
  PROVE  RowsOfMoment'
<1>0. AssemblyInv /\ ClosureInv /\ StageShape /\ RowsOfMoment
  BY DEF DecisionInv, AssemblyInv
<1>1. CASE ClosureGoesOn \/ ClosureBreaks \/ ClosureDone \/ Evaluate
  <2>1. stage' \notin {"context", "evaluate"}
    BY <1>1 DEF ClosureGoesOn, ClosureBreaks, ClosureDone, Evaluate, assemblyVars, Breaks, Rejects, Answer
  <2>2. QED
    BY <2>1 DEF RowsOfMoment
<1>2. CASE LoadRows
  <2>1. CASE Breaks({400, 500})
    BY <2>1 DEF Breaks, Answer, RowsOfMoment
  <2>2. CASE policies' = Policies /\ stage' = "context"
    <3>1. phase = "done" /\ UNCHANGED vars
      BY <1>0, <1>2 DEF LoadRows, StageShape
    <3>2. DOMAIN parties = 1 .. Len(parties) /\ parties' = parties
      BY <1>0, <3>1, PartiesInspected DEF vars
    <3>3. policies' = [i \in 1 .. Len(parties) |-> Text(parties[i], policy[parties[i]])]
      BY <2>2, <3>2
    <3>4. ASSUME NEW i \in 1 .. Len(parties) PROVE policies'[i].policy = policy[parties[i]]
      <4>1. policies'[i] = Text(parties[i], policy[parties[i]])
        BY <3>3
      <4>2. QED
        BY <4>1 DEF Text
    <3>5. QED
      BY <3>2, <3>4 DEF RowsOfMoment
  <2>3. QED
    BY <1>2, <2>1, <2>2 DEF LoadRows
<1>3. CASE BuildContext \/ OtherWrites
  <2>1. CASE stage' = "answered"
    BY <2>1 DEF RowsOfMoment
  <2>2. CASE stage' # "answered"
    <3>1. /\ policies' = policies /\ parties' = parties
          /\ stage' \in {"context", "evaluate"} => stage \in {"context", "evaluate"}
      BY <1>3, <2>2 DEF BuildContext, OtherWrites, WritePolicy, runVars, vars, assemblyVars, Breaks, Answer
    <3>2. QED
      BY <1>0, <3>1 DEF RowsOfMoment
  <2>3. QED
    BY <2>1, <2>2
<1>4. QED
  BY <1>1, <1>2, <1>3 DEF NextAssembly, Decide

\* Nothing is answered before the answer.
LEMMA ReplyKept ==
  ASSUME NextAssembly, stage' # "answered"
  PROVE  stage # "answered" /\ reply' = reply
BY DEF NextAssembly, Decide, ClosureGoesOn, ClosureBreaks, ClosureDone, LoadRows, BuildContext, Evaluate,
       OtherWrites, assemblyVars, Breaks, Rejects, Answer

LEMMA DecisionStep ==
  DecisionInv /\ [DecisionNext]_<<allVars, moments, callVars>> => DecisionInv'
<1> SUFFICES ASSUME DecisionInv, [DecisionNext]_<<allVars, moments, callVars>> PROVE DecisionInv'
  OBVIOUS
<1>0. AssemblyInv /\ ClosureInv /\ MomentsShape
  BY DEF DecisionInv, AssemblyInv
<1>1. AssemblyInv' /\ TypeOK' /\ [Next]_vars
  <2>1. [NextAssembly]_allVars
    BY DEF DecisionNext
  <2>2. QED
    BY <1>0, <2>1, AssemblyStep, ClosureSteps DEF AssemblyInv, ClosureInv
<1>2. CASE NextAssembly /\ Remember
  <2>1. moments' = moments \cup {policy'} /\ policy' \in AtOnce!Stored
    BY <1>1, <1>2 DEF Remember, TypeOK, AtOnce!Stored
  <2>2. MomentsShape'
    BY <1>0, <2>1 DEF MomentsShape, AtOnce!Stored
  <2>3. ReadsOfMoments'
    <3>1. ASSUME NEW u \in ReadUsers' PROVE \E m \in moments' : read'[u] = m[u]
      <4>1. CASE u \in ReadUsers /\ read'[u] = read[u]
        BY <2>1, <4>1 DEF DecisionInv, ReadsOfMoments
      <4>2. CASE read'[u] = policy[u]
        BY <1>0, <2>1, <4>2 DEF MomentsShape
      <4>3. QED
        BY <1>0, <1>1, <4>1, <4>2, ReadsKept
    <3>2. QED
      BY <3>1 DEF ReadsOfMoments
  <2>4. RowsOfMoment'
    BY <1>0, <1>2, <2>1, RowsKept DEF MomentsShape
  <2>5. stage' # "answered" => reply' = AtOnce!Unanswered
    BY <1>2, ReplyKept DEF DecisionInv, AtOnce!Unanswered, AtOnce!Says
  <2>6. QED
    BY <1>1, <2>2, <2>3, <2>4, <2>5 DEF DecisionInv, AtOnce!Unanswered, AtOnce!Says
<1>3. CASE UNCHANGED <<allVars, moments>>
  BY <1>1, <1>3 DEF DecisionInv, allVars, MomentsShape, ReadsOfMoments, ReadUsers, RowsOfMoment,
                    AtOnce!Stored, AtOnce!Unanswered, AtOnce!Says
<1>4. QED
  BY <1>2, <1>3 DEF DecisionNext

LEMMA DecisionHolds == DecisionSpec => []DecisionInv
<1>1. QED
  BY DecisionStarts, DecisionStep, PTL DEF DecisionSpec

\* The members are forced by what was read, whatever the others store; and once the
\* closure is done nobody else is.
LEMMA ForcedFacts ==
  ASSUME DecisionInv
  PROVE  /\ Sampled \in AtOnce!Samples
         /\ members \subseteq AtOnce!Forced(Sampled)
         /\ phase = "done" => AtOnce!Forced(Sampled) = members
<1>0. /\ ClosureInv /\ TypeOK /\ RoundShape /\ NeverExtra /\ AnalysedInside /\ Bookkeeping
      /\ MomentsShape /\ ReadsOfMoments
  BY DEF DecisionInv, AssemblyInv, ClosureInv
<1>1. Sampled \in AtOnce!Samples
  <2>1. Sampled \in AtOnce!Stored
    BY <1>0 DEF Sampled, AtOnce!Stored, TypeOK
  <2>2. ASSUME NEW u \in Users PROVE \E m \in moments : Sampled[u] = m[u]
    <3>1. CASE u \in ReadUsers
      BY <1>0, <3>1 DEF Sampled, ReadsOfMoments
    <3>2. CASE u \notin ReadUsers
      BY <1>0, <3>2 DEF Sampled, MomentsShape
    <3>3. QED
      BY <3>1, <3>2
  <2>3. QED
    BY <2>1, <2>2 DEF AtOnce!Samples
<1> DEFINE Closed(S) == /\ Range(Seed) \subseteq S
                        /\ \A v \in S : \A p \in Sampled[v] : Matching[p] \subseteq S
<1>2. AtOnce!Forced(Sampled) = {u \in Users : \A S \in SUBSET Users : Closed(S) => u \in S}
  BY DEF AtOnce!Forced, Range, AtOnce!Range
<1>3. ASSUME NEW S \in SUBSET Users, Closed(S) PROVE members \subseteq S
  <2>1. ASSUME NEW u \in S \cap analysed PROVE Named(read[u]) \subseteq S
    <3>1. Sampled[u] = read[u]
      BY DEF Sampled, ReadUsers
    <3>2. QED
      BY <1>3, <3>1 DEF Named
  <2>2. ClosedUnder(S)
    BY <1>3, <2>1 DEF ClosedUnder, SeedSet
  <2>3. QED
    BY <1>0, <2>2 DEF NeverExtra
<1>4. members \subseteq AtOnce!Forced(Sampled)
  BY <1>0, <1>2, <1>3 DEF TypeOK
<1>5. ASSUME phase = "done" PROVE AtOnce!Forced(Sampled) \subseteq members
  <2>1. members = analysed /\ members \in SUBSET Users
    BY <1>0, <1>5, PartiesInspected DEF TypeOK
  <2>2. ASSUME NEW v \in members, NEW p \in Sampled[v] PROVE Matching[p] \subseteq members
    <3>1. Sampled[v] = read[v]
      BY <2>1 DEF Sampled, ReadUsers
    <3>2. QED
      BY <1>0, <2>1, <2>2, <3>1 DEF AnalysedInside, Named
  <2>3. Closed(members)
    BY <1>0, <2>2 DEF Bookkeeping, SeedSet
  <2>4. QED
    BY <1>2, <2>1, <2>3
<1>6. QED
  BY <1>1, <1>4, <1>5

\* A failure answers for nobody.
LEMMA BreaksAsPromised ==
  ASSUME DecisionInv, stage # "answered", NEW statuses \in SUBSET {400, 500, 503}, Breaks(statuses),
         policy' = policy, moments' = moments
  PROVE  AtOnce!Fails
<1>1. PICK status \in statuses : reply' = [status |-> status, blamed |-> Nobody, from |-> Nobody]
  BY DEF Breaks, Answer
<1>2. reply = AtOnce!Unanswered /\ reply' = AtOnce!Says(status, Nobody, Nobody)
  BY <1>1 DEF DecisionInv, AtOnce!Says
<1>3. ~Decided /\ ~Decided'
  BY <1>1, <1>2 DEF Decided, AtOnce!Unanswered, AtOnce!Says
<1>4. QED
  BY <1>2, <1>3 DEF AtOnce!Fails

\* A rejection blames somebody whom the policies force.
LEMMA RejectsAsPromised ==
  ASSUME DecisionInv, stage # "answered", NEW sent, Rejects(sent), policy' = policy, moments' = moments
  PROVE  AtOnce!Refuses
<1>1. PICK k \in 0 .. Len(sent) :
         reply' = [status |-> 500, blamed |-> UserForLocation(k, sent), from |-> Nobody]
  BY DEF Rejects, Answer
<1> DEFINE u == UserForLocation(k, sent)
<1>2. reply = AtOnce!Unanswered /\ reply' = AtOnce!Says(500, u, Nobody)
  BY <1>1 DEF DecisionInv, AtOnce!Says
<1>3. ~Decided /\ ~Decided'
  BY <1>1, <1>2 DEF Decided, AtOnce!Unanswered, AtOnce!Says
<1>4. u \in members \cup {Nobody}
  <2>1. TypeOK
    BY DEF DecisionInv, AssemblyInv, ClosureInv
  <2>2. \A text \in TextOwners : text.owner \in members
    BY <2>1 DEF TextOwners, Text, TypeOK
  <2>3. QED
    BY <2>2 DEF UserForLocation
<1>5. u \in AtOnce!Forced(Sampled) \cup {Nobody} /\ Sampled \in AtOnce!Samples
  BY <1>4, ForcedFacts
<1>6. QED
  BY <1>2, <1>3, <1>5 DEF AtOnce!Refuses

\* A verdict is taken on the forced parties, in order, and on texts of one moment.
LEMMA DecidesAsForced ==
  ASSUME DecisionInv, stage = "evaluate", UNCHANGED <<vars, policies>>, moments' = moments,
         NEW k \in 0 .. Len(policies), Answer(200, Nobody, IF k = 0 THEN Nobody ELSE PartyOf(k))
  PROVE  AtOnce!Decides
<1>0. /\ ClosureInv /\ PartyNumbers /\ phase = "done" /\ RowsShape /\ RowsOfMoment
      /\ reply = AtOnce!Unanswered
  BY DEF DecisionInv, AssemblyInv, ClosureInv, StageShape
<1> DEFINE from == IF k = 0 THEN Nobody ELSE parties[k]
<1>1. reply' = AtOnce!Says(200, Nobody, from) /\ Decided'
  BY DEF Answer, AtOnce!Says, Decided
<1>2. /\ DOMAIN parties = 1 .. Len(parties) /\ Len(parties) \in Nat
      /\ Range(parties) = members
      /\ parties' = parties /\ policies' = policies /\ policy' = policy
  BY <1>0, PartiesInspected DEF vars
<1>3. Len(policies) = Len(parties) /\ DOMAIN policies = 1 .. Len(parties)
  BY <1>0, LenProperties DEF RowsShape
<1>4. Sampled \in AtOnce!Samples /\ AtOnce!Numbered(parties, AtOnce!Forced(Sampled))
  <2>1. AtOnce!Forced(Sampled) = members /\ Sampled \in AtOnce!Samples
    BY <1>0, ForcedFacts
  <2>2. QED
    BY <1>0, <2>1 DEF PartyNumbers, AtOnce!Numbered, IsPrefix, AtOnce!IsPrefix,
                      IsInjective, AtOnce!IsInjective, Range, AtOnce!Range
<1>5. PICK m \in moments : \A i \in 1 .. Len(parties) : policies[i].policy = m[parties[i]]
  BY <1>0 DEF RowsOfMoment
<1>6. [i \in DOMAIN policies |-> policies[i].policy] = [i \in DOMAIN parties |-> m[parties[i]]]
  BY <1>2, <1>3, <1>5
<1>7. from \in AtOnce!Range(parties) \cup {Nobody}
  BY <1>2, <1>3 DEF AtOnce!Range
<1>8. QED
  BY <1>0, <1>1, <1>2, <1>4, <1>6, <1>7 DEF AtOnce!Decides

LEMMA StepAsPromised ==
  ASSUME DecisionInv, DecisionInv', [DecisionNext]_<<allVars, moments, callVars>>
  PROVE  [AtOnce!Next]_(AtOnce!vars)
<1>0. MomentsShape /\ TypeOK' /\ (stage # "answered" => ~Decided) /\ (stage' # "answered" => ~Decided')
  BY DEF DecisionInv, AssemblyInv, ClosureInv, Decided, AtOnce!Unanswered, AtOnce!Says
<1>1. ASSUME stage # "answered", stage' # "answered", policy' = policy, moments' = moments, reply' = reply
      PROVE  UNCHANGED AtOnce!vars
  BY <1>0, <1>1 DEF AtOnce!vars
<1>2. CASE Decide /\ Remember
  <2>0. stage # "answered" /\ policy' = policy
    BY <1>2 DEF Decide, ClosureGoesOn, ClosureBreaks, ClosureDone, LoadRows, BuildContext, Evaluate, vars,
                StartRound, ReadPolicy, ExpandRound, RoundFails, Finish, dbVars
  <2>1. moments' = moments
    BY <1>0, <1>2, <2>0 DEF Remember, MomentsShape
  <2>2. CASE stage' # "answered"
    BY <1>1, <1>2, <2>0, <2>1, <2>2, ReplyKept DEF NextAssembly
  <2>3. ASSUME stage' = "answered" PROVE AtOnce!Next
    <3>1. CASE \E statuses \in SUBSET {400, 500, 503} : Breaks(statuses)
      BY <2>0, <2>1, <3>1, BreaksAsPromised DEF AtOnce!Next
    <3>2. CASE \E sent \in Batches \cup {policies} : Rejects(sent)
      BY <2>0, <2>1, <3>2, RejectsAsPromised DEF AtOnce!Next
    <3>3. ASSUME Evaluate, NEW k \in 0 .. Len(policies),
                 Answer(200, Nobody, IF k = 0 THEN Nobody ELSE PartyOf(k)), UNCHANGED <<systemVars, culprit>>
          PROVE  AtOnce!Next
      BY <2>1, <3>3, DecidesAsForced DEF Evaluate, systemVars, AtOnce!Next
    <3>4. QED
      BY <1>2, <2>0, <2>3, <3>1, <3>2, <3>3
      DEF Decide, ClosureGoesOn, ClosureBreaks, ClosureDone, LoadRows, BuildContext, Evaluate, assemblyVars
  <2>4. QED
    BY <2>2, <2>3
<1>3. CASE OtherWrites /\ Remember
  <2>1. stage # "answered" /\ stage' # "answered" /\ reply' = reply
    BY <1>3 DEF OtherWrites, assemblyVars
  <2>2. policy' \in AtOnce!Stored /\ moments' = moments \cup {policy'}
    BY <1>0, <1>3 DEF TypeOK, AtOnce!Stored, Remember
  <2>3. AtOnce!Write
    BY <1>0, <2>1, <2>2 DEF AtOnce!Write
  <2>4. QED
    BY <2>3 DEF AtOnce!Next
<1>4. CASE UNCHANGED <<allVars, moments>>
  BY <1>4 DEF allVars, AtOnce!vars, Decided
<1>5. QED
  BY <1>2, <1>3, <1>4 DEF DecisionNext, NextAssembly

\* An access decision implements one taken at once: whatever is stored between its
\* queries, the parties are the ones forced by policies each as at some moment since
\* the request came in, the texts are those of one moment, and whoever is blamed or
\* permitted from is one of those parties (partyClosure, assemblePolicySystem,
\* decideAccess).
THEOREM DecisionAsPromised == DecisionSpec => DecidesAsPromised
<1>1. DecisionInit => AtOnce!Init
  BY DEF DecisionInit, InitAssembly, Init, AtOnce!Init, AtOnce!Stored, AtOnce!Unanswered, AtOnce!Says, Decided
<1>2. DecisionInv /\ DecisionInv' /\ [DecisionNext]_<<allVars, moments, callVars>>
         => [AtOnce!Next]_(AtOnce!vars)
  BY StepAsPromised
<1>3. DecisionSpec => AtOnce!Spec
  BY <1>1, <1>2, DecisionHolds, PTL DEF DecisionSpec, AtOnce!Spec
<1>4. DecisionInit => Init
  BY DEF DecisionInit, InitAssembly
<1>5. [DecisionNext]_<<allVars, moments, callVars>> => [Next]_vars
  <2>1. ASSUME [DecisionNext]_<<allVars, moments, callVars>> PROVE [NextAssembly]_allVars
    BY <2>1 DEF DecisionNext
  <2>2. QED
    BY <2>1, ClosureSteps
<1>6. DecisionSpec => ImplementsPromise
  BY <1>4, <1>5, ClosureImplementsPromise, PTL DEF DecisionSpec, Spec
<1>7. QED
  BY <1>3, <1>6 DEF DecidesAsPromised
=============================================================================
