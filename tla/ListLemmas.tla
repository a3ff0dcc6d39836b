---------------------------- MODULE ListLemmas ----------------------------
(***************************************************************************)
(* Facts that the proofs of the components share.  Lists: a list of a      *)
(* finite set exists and repeats nothing, and every list of integers can   *)
(* be put in ascending order.  Waiting: where everyone waits, some wait in *)
(* a circle.  The provers cannot instantiate an induction theorem over an  *)
(* operator, so induction goes through sets of naturals.                   *)
(***************************************************************************)
EXTENDS Integers, SequencesExt, WellFoundedInduction, FiniteSetTheorems,
        FunctionTheorems, SequenceTheorems, TLAPS

\* Every nonempty set of naturals has a least element.
LEMMA LeastNatural ==
  ASSUME NEW T \in SUBSET Nat, T # {}
  PROVE  \E n \in T : \A m \in T : n <= m
<1> DEFINE R == OpToRel(<, Nat)
<1>1. IsWellFoundedOn(R, Nat)
  BY NatLessThanWellFounded
<1>2. \A x, y \in Nat : x < y => <<x, y>> \in R
  BY DEF OpToRel
<1> HIDE DEF R
<1>3. PICK n \in T : \A m \in T : ~ (<<m, n>> \in R)
  BY <1>1, WFMin
<1>4. ASSUME NEW m \in T PROVE n <= m
  <2>1. ~ (m < n)
    BY <1>2, <1>3
  <2>2. n \in Nat /\ m \in Nat
    OBVIOUS
  <2>3. QED
    BY <2>1, <2>2
<1>5. QED
  BY <1>4

\* Induction over the naturals, for a set of them.
LEMMA InductiveSet ==
  ASSUME NEW G \in SUBSET Nat, 0 \in G, \A n \in G : n + 1 \in G
  PROVE  G = Nat
<1>1. SUFFICES ASSUME Nat \ G # {} PROVE FALSE
  OBVIOUS
<1>2. PICK n \in Nat \ G : \A m \in Nat \ G : n <= m
  BY <1>1, LeastNatural
<1>3. n # 0 /\ n \in Nat
  OBVIOUS
<1>4. n - 1 \in Nat /\ ~ (n <= n - 1)
  BY <1>3
<1>5. n - 1 \in G
  BY <1>2, <1>4
<1>6. (n - 1) + 1 \in G
  BY <1>5
<1>7. QED
  BY <1>3, <1>6

\* A nonempty list of integers has a position holding its greatest element.
LEMMA GreatestPosition ==
  ASSUME NEW n \in Nat, NEW s \in [1 .. n + 1 -> Int]
  PROVE  \E m \in 1 .. n + 1 : \A i \in 1 .. n + 1 : s[i] <= s[m]
<1> DEFINE Great(k) == \A t \in [1 .. k + 1 -> Int] :
                         \E m \in 1 .. k + 1 : \A i \in 1 .. k + 1 : t[i] <= t[m]
<1>1. Great(0)
  <2> SUFFICES ASSUME NEW t \in [1 .. 1 -> Int]
               PROVE  \E m \in 1 .. 1 : \A i \in 1 .. 1 : t[i] <= t[m]
    OBVIOUS
  <2> WITNESS 1 \in 1 .. 1
  <2> QED
    OBVIOUS
<1>2. ASSUME NEW k \in Nat, Great(k) PROVE Great(k + 1)
  <2> SUFFICES ASSUME NEW t \in [1 .. k + 2 -> Int]
               PROVE  \E m \in 1 .. k + 2 : \A i \in 1 .. k + 2 : t[i] <= t[m]
    <3>1. (k + 1) + 1 = k + 2
      OBVIOUS
    <3>2. QED
      BY <3>1
  <2> DEFINE front == [i \in 1 .. k + 1 |-> t[i]]
  <2>1. front \in [1 .. k + 1 -> Int]
    OBVIOUS
  <2>2. PICK m \in 1 .. k + 1 : \A i \in 1 .. k + 1 : front[i] <= front[m]
    BY <1>2, <2>1
  <2>3. \A i \in 1 .. k + 1 : t[i] <= t[m]
    BY <2>2
  <2>4. \A i \in 1 .. k + 2 : i \in 1 .. k + 1 \/ i = k + 2
    OBVIOUS
  <2>5. /\ m \in 1 .. k + 2
        /\ k + 2 \in 1 .. k + 2
        /\ t[m] \in Int
        /\ t[k + 2] \in Int
    OBVIOUS
  <2>6. CASE t[k + 2] <= t[m]
    BY <2>3, <2>4, <2>5, <2>6
  <2>7. CASE t[m] <= t[k + 2]
    <3>1. ASSUME NEW i \in 1 .. k + 1 PROVE t[i] <= t[k + 2]
      <4>1. t[i] <= t[m] /\ t[i] \in Int
        BY <2>3
      <4>2. QED
        BY <2>5, <2>7, <4>1
    <3>2. \A i \in 1 .. k + 2 : t[i] <= t[k + 2]
      BY <2>4, <2>5, <3>1
    <3>3. QED
      BY <2>5, <3>2
  <2>8. QED
    BY <2>5, <2>6, <2>7
<1> HIDE DEF Great
<1> DEFINE G == {k \in Nat : Great(k)}
<1>3. 0 \in G /\ (\A k \in G : k + 1 \in G) /\ G \in SUBSET Nat
  BY <1>1, <1>2
<1>4. G = Nat
  <2> HIDE DEF G
  <2> QED
    BY <1>3, InductiveSet
<1>5. Great(n)
  BY <1>4
<1>6. QED
  BY <1>5 DEF Great

\* Every list of integers has a rearrangement in ascending order.
LEMMA AscendingOrder ==
  ASSUME NEW n \in Nat, NEW s \in [1 .. n -> Int]
  PROVE  \E place \in Bijection(1 .. n, 1 .. n) :
            \A i, j \in 1 .. n : i < j => s[place[i]] <= s[place[j]]
<1> DEFINE Sorts(k, t, place) ==
             \A i, j \in 1 .. k : i < j => t[place[i]] <= t[place[j]]
           Sortable(k) == \A t \in [1 .. k -> Int] :
                    \E place \in Bijection(1 .. k, 1 .. k) : Sorts(k, t, place)
<1>1. Sortable(0)
  <2> SUFFICES ASSUME NEW t \in [1 .. 0 -> Int]
               PROVE  \E place \in Bijection(1 .. 0, 1 .. 0) : Sorts(0, t, place)
    OBVIOUS
  <2>1. [i \in 1 .. 0 |-> i] \in Bijection(1 .. 0, 1 .. 0)
    BY DEF Bijection, Injection, Surjection, IsInjective
  <2> WITNESS [i \in 1 .. 0 |-> i] \in Bijection(1 .. 0, 1 .. 0)
  <2> QED
    OBVIOUS
<1>2. ASSUME NEW k \in Nat, Sortable(k) PROVE Sortable(k + 1)
  <2> SUFFICES ASSUME NEW t \in [1 .. k + 1 -> Int]
               PROVE  \E place \in Bijection(1 .. k + 1, 1 .. k + 1) :
                         Sorts(k + 1, t, place)
    OBVIOUS
  <2>1. PICK m \in 1 .. k + 1 : \A i \in 1 .. k + 1 : t[i] <= t[m]
    BY GreatestPosition
  <2> DEFINE rest == [i \in 1 .. k |-> IF i = m THEN t[k + 1] ELSE t[i]]
  <2>2. rest \in [1 .. k -> Int]
    <3>1. ASSUME NEW i \in 1 .. k PROVE i \in 1 .. k + 1 /\ k + 1 \in 1 .. k + 1
      OBVIOUS
    <3>2. QED
      BY <3>1
  <2>3. PICK q \in Bijection(1 .. k, 1 .. k) : Sorts(k, rest, q)
    <3> HIDE DEF Sorts, rest
    <3> QED
      BY <1>2, <2>2
  <2>4. /\ q \in [1 .. k -> 1 .. k]
        /\ \A a, b \in 1 .. k : q[a] = q[b] => a = b
        /\ \A b \in 1 .. k : \E a \in 1 .. k : q[a] = b
    BY DEF Bijection, Injection, Surjection, IsInjective
  <2> DEFINE place == [i \in 1 .. k + 1 |->
                          IF i = k + 1 THEN m
                          ELSE IF q[i] = m THEN k + 1 ELSE q[i]]
  <2>5. \A i \in 1 .. k + 1 : i = k + 1 \/ i \in 1 .. k
    OBVIOUS
  <2> HIDE DEF Sortable, Sorts
  <2>6. /\ \A i \in 1 .. k : i \in 1 .. k + 1 /\ i # k + 1
        /\ k + 1 \in 1 .. k + 1
    OBVIOUS
  <2>7. /\ \A i \in 1 .. k : i \in 1 .. k + 1 /\ i # k + 1
        /\ k + 1 \in 1 .. k + 1
        /\ place[k + 1] = m
        /\ \A i \in 1 .. k : place[i] = IF q[i] = m THEN k + 1 ELSE q[i]
        /\ \A i \in 1 .. k : q[i] \in 1 .. k
    BY <2>4, <2>6
  <2>8. place \in [1 .. k + 1 -> 1 .. k + 1]
    <3>1. ASSUME NEW i \in 1 .. k + 1 PROVE place[i] \in 1 .. k + 1
      BY <2>5, <2>7
    <3>2. QED
      BY <3>1
  <2>9. \A a, b \in 1 .. k + 1 : place[a] = place[b] => a = b
    <3> HIDE DEF place
    <3>1. \A i \in 1 .. k : place[i] # m
      BY <2>7
    <3>2. \A a, b \in 1 .. k : place[a] = place[b] => q[a] = q[b]
      BY <2>7
    <3>3. QED
      BY <2>4, <2>5, <2>7, <3>1, <3>2
  <2>10. \A b \in 1 .. k + 1 : \E a \in 1 .. k + 1 : place[a] = b
    <3> TAKE b \in 1 .. k + 1
    <3>1. CASE b = m
      BY <3>1
    <3>2. CASE b # m /\ b = k + 1
      <4>1. PICK a \in 1 .. k : q[a] = m
        BY <2>4, <2>5, <3>2
      <4>2. a \in 1 .. k + 1 /\ place[a] = b
        BY <3>2, <4>1
      <4>3. QED
        BY <4>2
    <3>3. CASE b # m /\ b # k + 1
      <4>1. PICK a \in 1 .. k : q[a] = b
        BY <2>4, <2>5, <3>3
      <4>2. a \in 1 .. k + 1 /\ place[a] = b
        BY <3>3, <4>1
      <4>3. QED
        BY <4>2
    <3>4. QED
      BY <3>1, <3>2, <3>3
  <2>11. ASSUME NEW i \in 1 .. k PROVE t[place[i]] = rest[q[i]]
    <3> HIDE DEF place
    <3>1. rest[q[i]] = IF q[i] = m THEN t[k + 1] ELSE t[q[i]]
      BY <2>7
    <3>2. QED
      BY <2>7, <3>1
  <2> HIDE DEF place
  <2>12. place \in Bijection(1 .. k + 1, 1 .. k + 1)
    BY <2>8, <2>9, <2>10, Fun_IsBij
  <2>13. Sorts(k + 1, t, place)
    <3> SUFFICES ASSUME NEW i \in 1 .. k + 1, NEW j \in 1 .. k + 1, i < j
                 PROVE  t[place[i]] <= t[place[j]]
      BY DEF Sorts
    <3>1. CASE j = k + 1
      BY <2>1, <2>8, <2>7, <3>1
    <3>2. CASE j # k + 1
      <4>1. i \in 1 .. k /\ j \in 1 .. k
        BY <3>2
      <4>2. rest[q[i]] <= rest[q[j]]
        BY <2>3, <4>1 DEF Sorts
      <4>3. QED
        BY <2>11, <4>1, <4>2
    <3>3. QED
      BY <3>1, <3>2
  <2>14. QED
    BY <2>12, <2>13
<1> HIDE DEF Sortable, Sorts
<1> DEFINE G == {k \in Nat : Sortable(k)}
<1>3. 0 \in G /\ (\A k \in G : k + 1 \in G) /\ G \in SUBSET Nat
  BY <1>1, <1>2
<1>4. G = Nat
  <2> HIDE DEF G
  <2> QED
    BY <1>3, InductiveSet
<1>5. Sortable(n)
  BY <1>4
<1>6. QED
  BY <1>5 DEF Sortable, Sorts

\* SetToSeq lists a finite set: every element, each once.
LEMMA ListOfSet ==
  ASSUME NEW S, IsFiniteSet(S)
  PROVE  /\ SetToSeq(S) \in Seq(S)
         /\ Range(SetToSeq(S)) = S
         /\ IsInjective(SetToSeq(S))
<1> DEFINE D == 1 .. Cardinality(S)
           f == SetToSeq(S)
<1>1. Cardinality(S) \in Nat /\ ExistsBijection(D, S)
  BY FS_CardinalityType
<1>2. \E g \in [D -> S] : IsInjective(g)
  BY <1>1 DEF ExistsBijection, Bijection, Injection
<1>3. f \in [D -> S] /\ IsInjective(f)
  BY <1>2 DEF SetToSeq
<1>4. f \in Seq(S)
  BY <1>1, <1>3
<1>5. f \in Injection(D, S)
  BY <1>3 DEF Injection
<1>6. Cardinality(D) = Cardinality(S)
  BY <1>1, FS_Interval
<1>7. f \in Surjection(D, S)
  <2> HIDE DEF D, f
  <2> QED
    BY <1>5, <1>6, FS_Injection
<1>8. Range(f) = S
  BY <1>3, <1>7 DEF Surjection, Range
<1>9. QED
  BY <1>3, <1>4, <1>8

\* Joining two lists that repeat nothing and share nothing repeats nothing.
LEMMA JoinOfLists ==
  ASSUME NEW S, NEW s \in Seq(S), NEW t \in Seq(S),
         IsInjective(s), IsInjective(t), Range(s) \cap Range(t) = {}
  PROVE  /\ s \o t \in Seq(S)
         /\ Range(s \o t) = Range(s) \cup Range(t)
         /\ IsInjective(s \o t)
<1>1. s \o t \in Seq(S) /\ Range(s \o t) = Range(s) \cup Range(t)
  BY RangeConcatenation, ConcatProperties
<1>2. /\ DOMAIN (s \o t) = 1 .. Len(s) + Len(t)
      /\ \A i \in 1 .. Len(s) : (s \o t)[i] = s[i] /\ s[i] \in Range(s)
      /\ \A i \in Len(s) + 1 .. Len(s) + Len(t) :
            /\ (s \o t)[i] = t[i - Len(s)]
            /\ i - Len(s) \in 1 .. Len(t)
            /\ t[i - Len(s)] \in Range(t)
  BY ConcatProperties DEF Range
<1>3. \A i \in 1 .. Len(s) + Len(t) : i \in 1 .. Len(s) \/ i \in Len(s) + 1 .. Len(s) + Len(t)
  OBVIOUS
<1>4. ASSUME NEW i \in 1 .. Len(s) + Len(t), NEW j \in 1 .. Len(s) + Len(t),
             (s \o t)[i] = (s \o t)[j]
      PROVE  i = j
  <2>1. CASE i \in 1 .. Len(s) /\ j \in 1 .. Len(s)
    BY <1>2, <1>4, <2>1 DEF IsInjective
  <2>2. CASE i \in Len(s) + 1 .. Len(s) + Len(t) /\ j \in Len(s) + 1 .. Len(s) + Len(t)
    <3>1. i - Len(s) \in DOMAIN t /\ j - Len(s) \in DOMAIN t
      BY <1>2, <2>2
    <3>2. t[i - Len(s)] = t[j - Len(s)]
      BY <1>2, <1>4, <2>2
    <3>3. i - Len(s) = j - Len(s)
      BY <3>1, <3>2 DEF IsInjective
    <3>4. QED
      BY <3>3, <2>2
  <2>3. QED
    BY <1>2, <1>3, <1>4, <2>1, <2>2
<1>5. QED
  BY <1>1, <1>2, <1>4 DEF IsInjective

\* Two consecutive pieces of a list are one.
LEMMA JoinOfPieces ==
  ASSUME NEW S, NEW s \in Seq(S), NEW a \in 0 .. Len(s), NEW b \in a .. Len(s)
  PROVE  SubSeq(s, 1, a) \o SubSeq(s, a + 1, b) = SubSeq(s, 1, b)
<1> DEFINE l == SubSeq(s, 1, a)
           m == SubSeq(s, a + 1, b)
           t == SubSeq(s, 1, b)
<1>1. l \in Seq(S) /\ m \in Seq(S) /\ t \in Seq(S) /\ Len(l) = a /\ Len(m) = b - a /\ Len(t) = b
  OBVIOUS
<1>2. \A i \in 1 .. a : l[i] = s[i]
  OBVIOUS
<1>3. \A i \in 1 .. b - a : m[i] = s[a + i]
  OBVIOUS
<1>4. \A i \in 1 .. b : t[i] = s[i]
  OBVIOUS
<1> HIDE DEF l, m, t
<1>5. l \o m \in Seq(S) /\ Len(l \o m) = b
  BY <1>1
<1>6. ASSUME NEW i \in 1 .. b PROVE (l \o m)[i] = t[i]
  <2>1. CASE i \in 1 .. a
    BY <1>1, <1>2, <1>4, <2>1, ConcatProperties
  <2>2. CASE i \in a + 1 .. b
    <3>1. (l \o m)[i] = m[i - a]
      BY <1>1, <2>2, ConcatProperties
    <3>2. i - a \in 1 .. b - a /\ a + (i - a) = i
      BY <2>2
    <3>3. QED
      BY <1>3, <1>4, <3>1, <3>2
  <2>3. Len(s) \in Nat /\ a \in Int /\ b \in Int
    BY LenProperties
  <2>4. i \in 1 .. a \/ i \in a + 1 .. b
    BY <2>3
  <2>5. QED
    BY <2>1, <2>2, <2>4
<1>7. QED
  BY <1>1, <1>5, <1>6, SeqEqual DEF l, m, t

\* The pages that n rows fill: all fit, and no page is in vain.
LEMMA PagesOfRows ==
  ASSUME NEW n \in Nat, NEW w \in Nat \ {0}
  PROVE  LET p == (n + w - 1) \div w
         IN  p \in Nat /\ p * w >= n /\ (p - 1) * w < n
<1> DEFINE p == (n + w - 1) \div w
<1>1. p \in Int /\ n + w - 1 >= 0
  OBVIOUS
<1>2. p * w <= n + w - 1
  BY <1>1
<1>3. n + w - 1 < (p + 1) * w
  BY <1>1
<1>4. p >= 0
  BY <1>1
<1>5. (p + 1) * w = p * w + w /\ (p - 1) * w = p * w - w
  BY <1>1
<1>6. QED
  BY <1>1, <1>2, <1>3, <1>4, <1>5

LEMMA TimesMonotonic ==
  ASSUME NEW a \in Int, NEW b \in Int, NEW w \in Nat \ {0}, a <= b
  PROVE  a * w <= b * w
OBVIOUS

\* A finite set of integers has an ascending list.
LEMMA AscendingList ==
  ASSUME NEW S, IsFiniteSet(S), S \subseteq Int
  PROVE  \E s \in [1 .. Cardinality(S) -> S] :
            \A i, j \in 1 .. Cardinality(S) : i < j => s[i] < s[j]
<1> DEFINE n == Cardinality(S)
           t == SetToSeq(S)
<1>1. t \in Seq(S) /\ IsInjective(t) /\ n \in Nat
  BY ListOfSet, FS_CardinalityType
<1>2. t \in [1 .. n -> S]
  <2>1. ExistsBijection(1 .. n, S)
    BY FS_CardinalityType
  <2>2. \E g \in [1 .. n -> S] : IsInjective(g)
    BY <2>1 DEF ExistsBijection, Bijection, Injection
  <2>3. QED
    BY <2>2 DEF SetToSeq
<1> HIDE DEF t
<1>3. PICK place \in Bijection(1 .. n, 1 .. n) :
         \A i, j \in 1 .. n : i < j => t[place[i]] <= t[place[j]]
  <2>1. t \in [1 .. n -> Int]
    BY <1>2
  <2>2. QED
    BY <1>1, <2>1, AscendingOrder
<1>4. /\ place \in [1 .. n -> 1 .. n]
      /\ \A i, j \in 1 .. n : place[i] = place[j] => i = j
  BY DEF Bijection, Injection, IsInjective
<1> DEFINE s == [i \in 1 .. n |-> t[place[i]]]
<1>5. s \in [1 .. n -> S]
  BY <1>2, <1>4
<1>6. ASSUME NEW i \in 1 .. n, NEW j \in 1 .. n, i < j PROVE s[i] < s[j]
  <2>1. t[place[i]] # t[place[j]]
    BY <1>1, <1>2, <1>4, <1>6 DEF IsInjective
  <2>2. t[place[i]] \in Int /\ t[place[j]] \in Int /\ t[place[i]] <= t[place[j]]
    BY <1>2, <1>3, <1>4, <1>6
  <2>3. QED
    BY <2>1, <2>2
<1>7. QED
  BY <1>5, <1>6

\* The places of two lists that are joined.
IsJoin(S, s, t, st, m, k) ==
    /\ st \in Seq(S) /\ Len(st) = m + k
    /\ \A i \in 1 .. m : st[i] = s[i]
    /\ \A i \in 1 .. k : st[i + m] = t[i]

LEMMA Joined ==
  ASSUME NEW S, NEW s \in Seq(S), NEW t \in Seq(S), NEW m, m = Len(s), NEW k, k = Len(t), NEW st, st = s \o t
  PROVE  IsJoin(S, s, t, st, m, k)
BY DEF IsJoin

-----------------------------------------------------------------------------
(* Waiting in circles. *)

\* A family of subsets of a finite set has a member that contains no other.
LEMMA LeastMember ==
  ASSUME NEW S, IsFiniteSet(S), NEW P \in SUBSET (SUBSET S), P # {}
  PROVE  \E T \in P : \A U \in P : U \subseteq T => U = T
<1> DEFINE sizes == {Cardinality(T) : T \in P}
<1>1. ASSUME NEW T \in P PROVE IsFiniteSet(T) /\ Cardinality(T) \in Nat
  <2>1. T \in SUBSET S
    OBVIOUS
  <2>2. IsFiniteSet(T)
    BY <2>1, FS_Subset
  <2>3. QED
    BY <2>2, FS_CardinalityType
<1>2. sizes \in SUBSET Nat /\ sizes # {}
  BY <1>1
<1>3. PICK n \in sizes : \A m \in sizes : n <= m
  <2> HIDE DEF sizes
  <2> QED
    BY <1>2, LeastNatural
<1>4. PICK T \in P : n = Cardinality(T)
  BY <1>3
<1>5. ASSUME NEW U \in P, U \subseteq T PROVE U = T
  <2>1. Cardinality(T) <= Cardinality(U)
    BY <1>3, <1>4
  <2>2. Cardinality(U) <= Cardinality(T) /\ (Cardinality(T) = Cardinality(U) => T = U)
    BY <1>1, <1>5, FS_Subset
  <2>3. QED
    BY <1>1, <2>1, <2>2
<1>6. QED
  BY <1>5

\* Where everyone waits for someone, some wait for each other: each of them for
\* one of them, and one of them for each.
LEMMA SomeCycle ==
  ASSUME NEW S, IsFiniteSet(S), S # {}, NEW W, \A s \in S : W[s] \cap S # {}
  PROVE  \E rs \in SUBSET S : /\ rs # {}
                              /\ \A s \in rs : W[s] \cap rs # {}
                              /\ \A s \in rs : \E q \in rs : s \in W[q]
<1> DEFINE Waits(T) == T # {} /\ \A s \in T : W[s] \cap T # {}
           P == {T \in SUBSET S : Waits(T)}
<1>1. P \in SUBSET (SUBSET S) /\ P # {}
  <2>1. S \in P
    OBVIOUS
  <2>2. QED
    BY <2>1
<1>2. PICK rs \in P : \A U \in P : U \subseteq rs => U = rs
  <2> HIDE DEF P
  <2> QED
    BY <1>1, LeastMember
<1>3. rs \in SUBSET S /\ rs # {} /\ \A s \in rs : W[s] \cap rs # {}
  OBVIOUS
<1> DEFINE U == {s \in rs : \E q \in rs : s \in W[q]}
<1>4. U \in SUBSET S /\ U \subseteq rs
  BY <1>3
<1>5. \A s \in rs : W[s] \cap U # {}
  BY <1>3
<1>6. U # {}
  BY <1>3, <1>5
<1>7. U \in P
  <2> HIDE DEF U
  <2> QED
    BY <1>4, <1>5, <1>6
<1>8. U = rs
  <2> HIDE DEF U, P
  <2> QED
    BY <1>2, <1>4, <1>7
<1>9. \A s \in rs : \E q \in rs : s \in W[q]
  BY <1>8
<1>10. QED
  BY <1>3, <1>9

\* Where everyone waits only for someone there, one of them waits for itself:
\* whatever contains those it waits for, and those they wait for, contains it.
LEMMA SomeoneWaitsForItself ==
  ASSUME NEW S, IsFiniteSet(S), S # {}, NEW W, \A s \in S : W[s] # {} /\ W[s] \subseteq S
  PROVE  \E r \in S : \A Q : (W[r] \subseteq Q /\ \A s \in Q : W[s] \subseteq Q) => r \in Q
<1> DEFINE P == {T \in SUBSET S : T # {} /\ \A s \in T : W[s] \subseteq T}
<1>1. P \in SUBSET (SUBSET S) /\ P # {}
  <2>1. S \in P
    OBVIOUS
  <2>2. QED
    BY <2>1
<1>2. PICK T \in P : \A U \in P : U \subseteq T => U = T
  <2> HIDE DEF P
  <2> QED
    BY <1>1, LeastMember
<1>3. T \in SUBSET S /\ T # {} /\ \A s \in T : W[s] \subseteq T
  OBVIOUS
<1>4. PICK r \in T : TRUE
  BY <1>3
<1>5. ASSUME NEW Q, W[r] \subseteq Q, \A s \in Q : W[s] \subseteq Q PROVE r \in Q
  <2>1. Q \cap T \in SUBSET S /\ Q \cap T \subseteq T
    BY <1>3
  <2>2. Q \cap T # {}
    BY <1>3, <1>4, <1>5
  <2>3. \A s \in Q \cap T : W[s] \subseteq Q \cap T
    BY <1>3, <1>5
  <2>4. Q \cap T \in P
    BY <2>1, <2>2, <2>3
  <2>5. Q \cap T = T
    <3> HIDE DEF P
    <3> QED
      BY <1>2, <2>1, <2>4
  <2>6. QED
    BY <1>4, <2>5
<1>6. QED
  BY <1>3, <1>5
=============================================================================
