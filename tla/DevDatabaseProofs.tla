-------------------------- MODULE DevDatabaseProofs --------------------------
(***************************************************************************)
(* Theorems about seed and reset, for any number of requests of every      *)
(* kind, whatever fails and whichever transaction a deadlock rolls back.   *)
(***************************************************************************)
EXTENDS DevDatabase, ListLemmas

-----------------------------------------------------------------------------
(* The programs.                                                           *)

Verbs == {"start", "peek", "read", "decide", "insert", "key", "truncate", "commit"}
Statements == [do : Verbs, on : SUBSET Tables]

\* The statements of each handler, by their places.
SeedHead(q) ==
    /\ q[1] = Statement("peek", {"Users", "Groups"}) /\ q[2] = Statement("decide", {})
    /\ q[3] = Statement("insert", {"Users"}) /\ q[4] = Statement("insert", {"Resources"})
    /\ q[5] = Statement("insert", {"UserConnections"}) /\ q[6] = Statement("key", {"Users"})

GroupTail(q, n) ==
    /\ q[n + 1] = Statement("insert", {"Groups"}) /\ q[n + 2] = Statement("insert", {"UserGroups"})
    /\ q[n + 3] = Statement("key", {"Users", "Groups"})

Plan(k, q) ==
    CASE k = "seed" -> Len(q) = 6 /\ SeedHead(q)
      [] k = "seedGroups" -> Len(q) = 9 /\ SeedHead(q) /\ GroupTail(q, 6)
      [] k = "reset" ->
           /\ Len(q) = 4
           /\ q[1] = Statement("read", {"Users", "Resources", "Groups", "LogEvents"})
           /\ q[2] = Statement("truncate", {"Users"})
           /\ q[3] = Statement("truncate", {"Resources", "UserConnections", "UserGroups", "LogEvents"})
           /\ q[4] = Statement("truncate", {"Groups"})
      [] k = "user" ->
           /\ Len(q) = 3
           /\ q[1] = Statement("peek", {"Users"}) /\ q[2] = Statement("decide", {})
           /\ q[3] = Statement("insert", {"Users"})
      [] k = "group" ->
           /\ Len(q) = 5
           /\ q[1] = Statement("peek", {"Users"}) /\ q[2] = Statement("decide", {})
           /\ GroupTail(q, 2)

LEMMA Handlers ==
  ASSUME NEW k \in Kinds
  PROVE  HandlerStatements(k) \in Seq(Statements) /\ Plan(k, HandlerStatements(k))
<1> DEFINE pUG == Statement("peek", {"Users", "Groups"})
           pU == Statement("peek", {"Users"})
           de == Statement("decide", {})
           iU == Statement("insert", {"Users"})
           iR == Statement("insert", {"Resources"})
           iC == Statement("insert", {"UserConnections"})
           iG == Statement("insert", {"Groups"})
           iM == Statement("insert", {"UserGroups"})
           kU == Statement("key", {"Users"})
           kUG == Statement("key", {"Users", "Groups"})
           re == Statement("read", {"Users", "Resources", "Groups", "LogEvents"})
           tU == Statement("truncate", {"Users"})
           tA == Statement("truncate", {"Resources", "UserConnections", "UserGroups", "LogEvents"})
           tG == Statement("truncate", {"Groups"})
           six == <<pUG, de, iU, iR, iC, kU>>
           three == <<iG, iM, kUG>>
           two == <<pU, de>>
           q == HandlerStatements(k)
<1>1. /\ pUG \in Statements /\ pU \in Statements /\ de \in Statements /\ iU \in Statements
      /\ iR \in Statements /\ iC \in Statements /\ iG \in Statements /\ iM \in Statements
      /\ kU \in Statements /\ kUG \in Statements /\ re \in Statements /\ tU \in Statements
      /\ tA \in Statements /\ tG \in Statements
  BY DEF Statement, Statements, Verbs, Tables
<1>2. /\ k = "seed" => q = six \o <<>>
      /\ k = "seedGroups" => q = six \o three
      /\ k = "reset" => q = <<re, tU, tA, tG>>
      /\ k = "user" => q = <<pU, de, iU>>
      /\ k = "group" => q = two \o three
  BY DEF HandlerStatements, GroupStatements
<1>3. /\ k = "seed" => (Plan(k, q) <=> Len(q) = 6 /\ SeedHead(q))
      /\ k = "seedGroups" => (Plan(k, q) <=> Len(q) = 9 /\ SeedHead(q) /\ GroupTail(q, 6))
      /\ k = "reset" => (Plan(k, q) <=> Len(q) = 4 /\ q[1] = re /\ q[2] = tU /\ q[3] = tA /\ q[4] = tG)
      /\ k = "user" => (Plan(k, q) <=> Len(q) = 3 /\ q[1] = pU /\ q[2] = de /\ q[3] = iU)
      /\ k = "group" => (Plan(k, q) <=> Len(q) = 5 /\ q[1] = pU /\ q[2] = de /\ GroupTail(q, 2))
  BY DEF Plan
<1>4. /\ SeedHead(q) <=> /\ q[1] = pUG /\ q[2] = de /\ q[3] = iU /\ q[4] = iR /\ q[5] = iC /\ q[6] = kU
      /\ \A n : GroupTail(q, n) <=> q[n + 1] = iG /\ q[n + 2] = iM /\ q[n + 3] = kUG
  BY DEF SeedHead, GroupTail
<1> HIDE DEF pUG, pU, de, iU, iR, iC, iG, iM, kU, kUG, re, tU, tA, tG, q
<1>5. /\ six \in Seq(Statements) /\ Len(six) = 6 /\ six[1] = pUG /\ six[2] = de /\ six[3] = iU
      /\ six[4] = iR /\ six[5] = iC /\ six[6] = kU
  BY <1>1
<1>6. /\ three \in Seq(Statements) /\ Len(three) = 3 /\ three[1] = iG /\ three[2] = iM /\ three[3] = kUG
  BY <1>1
<1>7. two \in Seq(Statements) /\ Len(two) = 2 /\ two[1] = pU /\ two[2] = de
  BY <1>1
<1>8. <<>> \in Seq(Statements) /\ Len(<<>>) = 0
  OBVIOUS
<1> HIDE DEF six, three, two
<1>9. CASE k = "seed"
  <2>1. IsJoin(Statements, six, <<>>, q, 6, 0)
    BY <1>2, <1>5, <1>8, <1>9, Joined
  <2>2. q \in Seq(Statements) /\ Len(q) = 6 /\ \A i \in {1, 2, 3, 4, 5, 6} : q[i] = six[i]
    BY <2>1 DEF IsJoin
  <2>3. QED
    BY <1>3, <1>4, <1>5, <1>9, <2>2 DEF q
<1>10. CASE k = "seedGroups"
  <2>1. IsJoin(Statements, six, three, q, 6, 3)
    BY <1>2, <1>5, <1>6, <1>10, Joined
  <2>2. /\ q \in Seq(Statements) /\ Len(q) = 9 /\ \A i \in {1, 2, 3, 4, 5, 6} : q[i] = six[i]
        /\ q[6 + 1] = three[1] /\ q[6 + 2] = three[2] /\ q[6 + 3] = three[3]
    BY <2>1 DEF IsJoin
  <2>3. QED
    BY <1>3, <1>4, <1>5, <1>6, <1>10, <2>2 DEF q
<1>11. CASE k = "group"
  <2>1. IsJoin(Statements, two, three, q, 2, 3)
    BY <1>2, <1>6, <1>7, <1>11, Joined
  <2>2. /\ q \in Seq(Statements) /\ Len(q) = 5 /\ q[1] = two[1] /\ q[2] = two[2]
        /\ q[2 + 1] = three[1] /\ q[2 + 2] = three[2] /\ q[2 + 3] = three[3]
    BY <2>1 DEF IsJoin
  <2>3. QED
    BY <1>3, <1>4, <1>6, <1>7, <1>11, <2>2 DEF q
<1>12. CASE k = "reset"
  <2>1. q = <<re, tU, tA, tG>>
    BY <1>2, <1>12
  <2>2. Len(q) = 4 /\ q[1] = re /\ q[2] = tU /\ q[3] = tA /\ q[4] = tG
    BY <2>1
  <2>3. q \in Seq(Statements)
    BY <1>1, <2>1
  <2>4. QED
    BY <1>3, <1>12, <2>2, <2>3 DEF q
<1>13. CASE k = "user"
  <2>1. q = <<pU, de, iU>>
    BY <1>2, <1>13
  <2>2. Len(q) = 3 /\ q[1] = pU /\ q[2] = de /\ q[3] = iU
    BY <2>1
  <2>3. q \in Seq(Statements)
    BY <1>1, <2>1
  <2>4. QED
    BY <1>3, <1>13, <2>2, <2>3 DEF q
<1>14. QED
  BY <1>9, <1>10, <1>11, <1>12, <1>13 DEF Kinds
\* What a handler does before it logs: no row of the log, no table twice, and a TRUNCATE of
\* every table, or none.
PlaceMeans(k, st, i) ==
    /\ st.do \notin {"start", "commit"} /\ (st.on = {} <=> st.do = "decide")
    /\ st.do = "insert" => \E t \in Tables \ {"LogEvents"} : st.on = {t}
    /\ st.do \in {"truncate", "read"} => k = "reset"
    /\ st.do \in {"peek", "decide", "insert"} => k # "reset"
    /\ k # "reset" => (st.do = "peek" <=> i = 1) /\ (st.do = "decide" <=> i = 2)

NotTwice(q) ==
    \A i, j \in 1 .. Len(q) : \A t \in Tables :
        q[i].do = "insert" /\ q[j].do = "insert" /\ t \in q[i].on /\ t \in q[j].on => i = j

HandlerMeans(k, q) ==
    /\ q \in Seq(Statements) /\ Len(q) \in Nat /\ Len(q) >= 2
    /\ \A i \in 1 .. Len(q) : PlaceMeans(k, q[i], i)
    /\ NotTwice(q)
    /\ k = "reset" => \A t \in Tables : \E i \in 1 .. Len(q) : q[i].do = "truncate" /\ t \in q[i].on
    /\ k \in {"seed", "seedGroups"} => q[1].on = {"Users", "Groups"}

LEMMA HandlerFacts ==
  ASSUME NEW k \in Kinds, NEW q, q = HandlerStatements(k)
  PROVE  HandlerMeans(k, q)
<1>0. q \in Seq(Statements) /\ Plan(k, q)
  BY Handlers
<1>1. CASE k = "seed"
  <2>1. /\ Len(q) = 6
        /\ q[1] = Statement("peek", {"Users", "Groups"})
        /\ q[2] = Statement("decide", {})
        /\ q[3] = Statement("insert", {"Users"})
        /\ q[4] = Statement("insert", {"Resources"})
        /\ q[5] = Statement("insert", {"UserConnections"})
        /\ q[6] = Statement("key", {"Users"})
    BY <1>0, <1>1 DEF Plan, SeedHead, GroupTail
  <2>2. \A i \in 1 .. Len(q) : i \in {1, 2, 3, 4, 5, 6}
    BY <2>1
  <2>3. \A i \in 1 .. Len(q) : PlaceMeans(k, q[i], i)
    <3>1. PlaceMeans(k, q[1], 1)
      BY <1>1, <2>1 DEF PlaceMeans, Statement, Tables
    <3>2. PlaceMeans(k, q[2], 2)
      BY <1>1, <2>1 DEF PlaceMeans, Statement, Tables
    <3>3. PlaceMeans(k, q[3], 3)
      BY <1>1, <2>1 DEF PlaceMeans, Statement, Tables
    <3>4. PlaceMeans(k, q[4], 4)
      BY <1>1, <2>1 DEF PlaceMeans, Statement, Tables
    <3>5. PlaceMeans(k, q[5], 5)
      BY <1>1, <2>1 DEF PlaceMeans, Statement, Tables
    <3>6. PlaceMeans(k, q[6], 6)
      BY <1>1, <2>1 DEF PlaceMeans, Statement, Tables
    <3> QED
      BY <2>2, <3>1, <3>2, <3>3, <3>4, <3>5, <3>6
  <2>4. NotTwice(q)
    <3>1. /\ q[1].do = "peek" /\ q[2].do = "decide" /\ q[3].do = "insert" /\ q[4].do = "insert"
          /\ q[5].do = "insert" /\ q[6].do = "key" /\ q[3].on = {"Users"} /\ q[4].on = {"Resources"}
          /\ q[5].on = {"UserConnections"}
      BY <2>1 DEF Statement
    <3>2. \A i \in 1 .. Len(q) : q[i].do = "insert" =>
            \/ i = 3 /\ q[i].on = {"Users"}
            \/ i = 4 /\ q[i].on = {"Resources"}
            \/ i = 5 /\ q[i].on = {"UserConnections"}
      BY <2>2, <3>1
    <3> QED
      BY <3>2 DEF NotTwice
  <2>5. q[1].on = {"Users", "Groups"}
    BY <2>1 DEF Statement
  <2> QED
    BY <1>0, <1>1, <2>1, <2>3, <2>4, <2>5 DEF HandlerMeans
<1>2. CASE k = "seedGroups"
  <2>1. /\ Len(q) = 9
        /\ q[1] = Statement("peek", {"Users", "Groups"})
        /\ q[2] = Statement("decide", {})
        /\ q[3] = Statement("insert", {"Users"})
        /\ q[4] = Statement("insert", {"Resources"})
        /\ q[5] = Statement("insert", {"UserConnections"})
        /\ q[6] = Statement("key", {"Users"})
        /\ q[7] = Statement("insert", {"Groups"})
        /\ q[8] = Statement("insert", {"UserGroups"})
        /\ q[9] = Statement("key", {"Users", "Groups"})
    BY <1>0, <1>2 DEF Plan, SeedHead, GroupTail
  <2>2. \A i \in 1 .. Len(q) : i \in {1, 2, 3, 4, 5, 6, 7, 8, 9}
    BY <2>1
  <2>3. \A i \in 1 .. Len(q) : PlaceMeans(k, q[i], i)
    <3>1. PlaceMeans(k, q[1], 1)
      BY <1>2, <2>1 DEF PlaceMeans, Statement, Tables
    <3>2. PlaceMeans(k, q[2], 2)
      BY <1>2, <2>1 DEF PlaceMeans, Statement, Tables
    <3>3. PlaceMeans(k, q[3], 3)
      BY <1>2, <2>1 DEF PlaceMeans, Statement, Tables
    <3>4. PlaceMeans(k, q[4], 4)
      BY <1>2, <2>1 DEF PlaceMeans, Statement, Tables
    <3>5. PlaceMeans(k, q[5], 5)
      BY <1>2, <2>1 DEF PlaceMeans, Statement, Tables
    <3>6. PlaceMeans(k, q[6], 6)
      BY <1>2, <2>1 DEF PlaceMeans, Statement, Tables
    <3>7. PlaceMeans(k, q[7], 7)
      BY <1>2, <2>1 DEF PlaceMeans, Statement, Tables
    <3>8. PlaceMeans(k, q[8], 8)
      BY <1>2, <2>1 DEF PlaceMeans, Statement, Tables
    <3>9. PlaceMeans(k, q[9], 9)
      BY <1>2, <2>1 DEF PlaceMeans, Statement, Tables
    <3> QED
      BY <2>2, <3>1, <3>2, <3>3, <3>4, <3>5, <3>6, <3>7, <3>8, <3>9
  <2>4. NotTwice(q)
    <3>1. /\ q[1].do = "peek" /\ q[2].do = "decide" /\ q[3].do = "insert" /\ q[4].do = "insert"
          /\ q[5].do = "insert" /\ q[6].do = "key" /\ q[7].do = "insert" /\ q[8].do = "insert"
          /\ q[9].do = "key" /\ q[3].on = {"Users"} /\ q[4].on = {"Resources"} /\ q[5].on = {"UserConnections"}
          /\ q[7].on = {"Groups"} /\ q[8].on = {"UserGroups"}
      BY <2>1 DEF Statement
    <3>2. \A i \in 1 .. Len(q) : q[i].do = "insert" =>
            \/ i = 3 /\ q[i].on = {"Users"}
            \/ i = 4 /\ q[i].on = {"Resources"}
            \/ i = 5 /\ q[i].on = {"UserConnections"}
            \/ i = 7 /\ q[i].on = {"Groups"}
            \/ i = 8 /\ q[i].on = {"UserGroups"}
      BY <2>2, <3>1
    <3> QED
      BY <3>2 DEF NotTwice
  <2>5. q[1].on = {"Users", "Groups"}
    BY <2>1 DEF Statement
  <2> QED
    BY <1>0, <1>2, <2>1, <2>3, <2>4, <2>5 DEF HandlerMeans
<1>3. CASE k = "reset"
  <2>1. /\ Len(q) = 4
        /\ q[1] = Statement("read", {"Users", "Resources", "Groups", "LogEvents"})
        /\ q[2] = Statement("truncate", {"Users"})
        /\ q[3] = Statement("truncate", {"Resources", "UserConnections", "UserGroups", "LogEvents"})
        /\ q[4] = Statement("truncate", {"Groups"})
    BY <1>0, <1>3 DEF Plan, SeedHead, GroupTail
  <2>2. \A i \in 1 .. Len(q) : i \in {1, 2, 3, 4}
    BY <2>1
  <2>3. \A i \in 1 .. Len(q) : PlaceMeans(k, q[i], i)
    <3>1. PlaceMeans(k, q[1], 1)
      BY <1>3, <2>1 DEF PlaceMeans, Statement, Tables
    <3>2. PlaceMeans(k, q[2], 2)
      BY <1>3, <2>1 DEF PlaceMeans, Statement, Tables
    <3>3. PlaceMeans(k, q[3], 3)
      BY <1>3, <2>1 DEF PlaceMeans, Statement, Tables
    <3>4. PlaceMeans(k, q[4], 4)
      BY <1>3, <2>1 DEF PlaceMeans, Statement, Tables
    <3> QED
      BY <2>2, <3>1, <3>2, <3>3, <3>4
  <2>4. NotTwice(q)
    <3>1. /\ q[1].do = "read" /\ q[2].do = "truncate" /\ q[3].do = "truncate" /\ q[4].do = "truncate"
      BY <2>1 DEF Statement
    <3>2. \A i \in 1 .. Len(q) : q[i].do = "insert" =>
            FALSE
      BY <2>2, <3>1
    <3> QED
      BY <3>2 DEF NotTwice
  <2>5. \A t \in Tables : \E i \in 1 .. Len(q) : q[i].do = "truncate" /\ t \in q[i].on
    <3>1. /\ 2 \in 1 .. Len(q) /\ 3 \in 1 .. Len(q) /\ 4 \in 1 .. Len(q)
          /\ q[2].do = "truncate" /\ q[3].do = "truncate" /\ q[4].do = "truncate"
      BY <2>1 DEF Statement
    <3>2. \A t \in Tables : t \in q[2].on \/ t \in q[3].on \/ t \in q[4].on
      BY <2>1 DEF Statement, Tables
    <3> QED
      BY <3>1, <3>2
  <2> QED
    BY <1>0, <1>3, <2>1, <2>3, <2>4, <2>5 DEF HandlerMeans
<1>4. CASE k = "user"
  <2>1. /\ Len(q) = 3
        /\ q[1] = Statement("peek", {"Users"})
        /\ q[2] = Statement("decide", {})
        /\ q[3] = Statement("insert", {"Users"})
    BY <1>0, <1>4 DEF Plan, SeedHead, GroupTail
  <2>2. \A i \in 1 .. Len(q) : i \in {1, 2, 3}
    BY <2>1
  <2>3. \A i \in 1 .. Len(q) : PlaceMeans(k, q[i], i)
    <3>1. PlaceMeans(k, q[1], 1)
      BY <1>4, <2>1 DEF PlaceMeans, Statement, Tables
    <3>2. PlaceMeans(k, q[2], 2)
      BY <1>4, <2>1 DEF PlaceMeans, Statement, Tables
    <3>3. PlaceMeans(k, q[3], 3)
      BY <1>4, <2>1 DEF PlaceMeans, Statement, Tables
    <3> QED
      BY <2>2, <3>1, <3>2, <3>3
  <2>4. NotTwice(q)
    <3>1. /\ q[1].do = "peek" /\ q[2].do = "decide" /\ q[3].do = "insert" /\ q[3].on = {"Users"}
      BY <2>1 DEF Statement
    <3>2. \A i \in 1 .. Len(q) : q[i].do = "insert" =>
            \/ i = 3 /\ q[i].on = {"Users"}
      BY <2>2, <3>1
    <3> QED
      BY <3>2 DEF NotTwice
  <2> QED
    BY <1>0, <1>4, <2>1, <2>3, <2>4 DEF HandlerMeans
<1>5. CASE k = "group"
  <2>1. /\ Len(q) = 5
        /\ q[1] = Statement("peek", {"Users"})
        /\ q[2] = Statement("decide", {})
        /\ q[3] = Statement("insert", {"Groups"})
        /\ q[4] = Statement("insert", {"UserGroups"})
        /\ q[5] = Statement("key", {"Users", "Groups"})
    BY <1>0, <1>5 DEF Plan, SeedHead, GroupTail
  <2>2. \A i \in 1 .. Len(q) : i \in {1, 2, 3, 4, 5}
    BY <2>1
  <2>3. \A i \in 1 .. Len(q) : PlaceMeans(k, q[i], i)
    <3>1. PlaceMeans(k, q[1], 1)
      BY <1>5, <2>1 DEF PlaceMeans, Statement, Tables
    <3>2. PlaceMeans(k, q[2], 2)
      BY <1>5, <2>1 DEF PlaceMeans, Statement, Tables
    <3>3. PlaceMeans(k, q[3], 3)
      BY <1>5, <2>1 DEF PlaceMeans, Statement, Tables
    <3>4. PlaceMeans(k, q[4], 4)
      BY <1>5, <2>1 DEF PlaceMeans, Statement, Tables
    <3>5. PlaceMeans(k, q[5], 5)
      BY <1>5, <2>1 DEF PlaceMeans, Statement, Tables
    <3> QED
      BY <2>2, <3>1, <3>2, <3>3, <3>4, <3>5
  <2>4. NotTwice(q)
    <3>1. /\ q[1].do = "peek" /\ q[2].do = "decide" /\ q[3].do = "insert" /\ q[4].do = "insert"
          /\ q[5].do = "key" /\ q[3].on = {"Groups"} /\ q[4].on = {"UserGroups"}
      BY <2>1 DEF Statement
    <3>2. \A i \in 1 .. Len(q) : q[i].do = "insert" =>
            \/ i = 3 /\ q[i].on = {"Groups"}
            \/ i = 4 /\ q[i].on = {"UserGroups"}
      BY <2>2, <3>1
    <3> QED
      BY <3>2 DEF NotTwice
  <2> QED
    BY <1>0, <1>5, <2>1, <2>3, <2>4 DEF HandlerMeans
<1>6. QED
  BY <1>1, <1>2, <1>3, <1>4, <1>5 DEF Kinds

\* The commit of a handler's own transaction, and the last of its statements.
Main(k) == Len(HandlerStatements(k)) + 2
Size(k) == Main(k) + IF k \in {"user", "group"} THEN 3 ELSE 2

LEMMA LogFacts ==
  ASSUME NEW k \in Kinds, NEW l, l = LogStatements(k), NEW n, n = IF k \in {"user", "group"} THEN 3 ELSE 2
  PROVE  /\ l \in Seq(Statements) /\ Len(l) = n /\ n \in {2, 3}
         /\ l[1] = Statement("insert", {"LogEvents"}) /\ l[n] = Statement("commit", {})
         /\ n = 3 => l[2] = Statement("key", {"Users"})
<1> DEFINE i == Statement("insert", {"LogEvents"})
           u == Statement("key", {"Users"})
           c == Statement("commit", {})
           x == IF n = 3 THEN <<u>> ELSE <<>>
           ix == <<i>> \o x
<1>1. i \in Statements /\ u \in Statements /\ c \in Statements
  BY DEF Statement, Statements, Verbs, Tables
<1>2. l = ix \o <<c>>
  BY DEF LogStatements
<1> HIDE DEF i, u, c
<1>3. /\ <<i>> \in Seq(Statements) /\ Len(<<i>>) = 1 /\ <<i>>[1] = i
      /\ <<c>> \in Seq(Statements) /\ Len(<<c>>) = 1 /\ <<c>>[1] = c
      /\ <<u>> \in Seq(Statements) /\ Len(<<u>>) = 1 /\ <<u>>[1] = u
      /\ <<>> \in Seq(Statements) /\ Len(<<>>) = 0
  BY <1>1
<1>4. x \in Seq(Statements) /\ Len(x) = n - 2 /\ (n = 3 => x[1] = u)
  BY <1>3
<1> HIDE DEF x
<1>5. IsJoin(Statements, <<i>>, x, ix, 1, n - 2)
  BY <1>3, <1>4, Joined
<1>6. ix \in Seq(Statements) /\ Len(ix) = n - 1 /\ ix[1] = i /\ (n = 3 => ix[2] = u)
  <2>1. ix \in Seq(Statements) /\ Len(ix) = 1 + (n - 2) /\ ix[1] = <<i>>[1] /\ (n = 3 => ix[1 + 1] = x[1])
    BY <1>5 DEF IsJoin
  <2> HIDE DEF ix
  <2>2. QED
    BY <1>3, <1>4, <2>1
<1> HIDE DEF ix
<1>7. IsJoin(Statements, ix, <<c>>, l, n - 1, 1)
  BY <1>2, <1>3, <1>6, Joined
<1>8. /\ l \in Seq(Statements) /\ Len(l) = (n - 1) + 1 /\ l[1] = ix[1] /\ l[1 + (n - 1)] = <<c>>[1]
      /\ n = 3 => l[2] = ix[2]
  BY <1>7 DEF IsJoin
<1>9. QED
  BY <1>3, <1>6, <1>8 DEF i, u, c

Parted(q, o, l, m) ==
    /\ q \in Seq(Statements) /\ Len(q) = m + Len(l) /\ m = Len(o) + 2
    /\ q[1] = Statement("start", {}) /\ q[m] = Statement("commit", {})
    /\ \A i \in 1 .. Len(o) : q[i + 1] = o[i]
    /\ \A i \in 1 .. Len(l) : q[i + m] = l[i]

LEMMA ProgramParts ==
  ASSUME NEW k \in Kinds, NEW q, q = Program(k), NEW o, o = HandlerStatements(k),
         NEW l, l = LogStatements(k), NEW m, m = Main(k)
  PROVE  Parted(q, o, l, m)
<1> DEFINE s == Statement("start", {})
           c == Statement("commit", {})
           so == <<s>> \o o
           soc == so \o <<c>>
           h == Len(o)
<1>1. s \in Statements /\ c \in Statements
  BY DEF Statement, Statements, Verbs, Tables
<1>2. q = soc \o l /\ o \in Seq(Statements) /\ h \in Nat /\ l \in Seq(Statements) /\ Len(l) \in Nat /\ m = h + 2
  BY HandlerFacts, LogFacts DEF Program, Main, HandlerMeans
<1> HIDE DEF s, c, h
<1>3. /\ <<s>> \in Seq(Statements) /\ Len(<<s>>) = 1 /\ <<s>>[1] = s
      /\ <<c>> \in Seq(Statements) /\ Len(<<c>>) = 1 /\ <<c>>[1] = c
  BY <1>1
<1>4. IsJoin(Statements, <<s>>, o, so, 1, h)
  BY <1>2, <1>3, Joined DEF h
<1> HIDE DEF so
<1>5. /\ so \in Seq(Statements) /\ Len(so) = 1 + h /\ so[1] = s
      /\ \A i \in 1 .. h : so[i + 1] = o[i]
  <2>1. so[1] = <<s>>[1]
    BY <1>4 DEF IsJoin
  <2>2. QED
    BY <1>3, <1>4, <2>1 DEF IsJoin
<1>6. IsJoin(Statements, so, <<c>>, soc, 1 + h, 1)
  BY <1>3, <1>5, Joined
<1> HIDE DEF soc
<1>7. /\ soc \in Seq(Statements) /\ Len(soc) = (1 + h) + 1 /\ soc[1 + (1 + h)] = <<c>>[1]
      /\ \A i \in 1 .. 1 + h : soc[i] = so[i]
  BY <1>6 DEF IsJoin
<1>8. Len(soc) = m /\ soc[m] = c /\ m \in Nat /\ 1 + h = m - 1 /\ 1 + (1 + h) = m
  BY <1>2, <1>3, <1>7
<1>9. IsJoin(Statements, soc, l, q, m, Len(l))
  BY <1>2, <1>7, <1>8, Joined
<1>10. /\ q \in Seq(Statements) /\ Len(q) = m + Len(l)
       /\ \A i \in 1 .. m : q[i] = soc[i]
       /\ \A i \in 1 .. Len(l) : q[i + m] = l[i]
  BY <1>9 DEF IsJoin
<1>11. q[1] = s /\ q[m] = c
  BY <1>2, <1>5, <1>7, <1>8, <1>10
<1>12. \A i \in 1 .. h : q[i + 1] = o[i]
  <2>1. \A i \in 1 .. h : i + 1 \in 1 .. m /\ i + 1 \in 1 .. 1 + h
    BY <1>2
  <2>2. QED
    BY <1>5, <1>7, <1>10, <2>1
<1>13. QED
  BY <1>2, <1>10, <1>11, <1>12 DEF s, c, h, Parted
\* The places of a program: the handler's own transaction up to Main, then the log.
ProgramMeans(k, q, m, n) ==
    /\ q \in Seq(Statements) /\ Len(q) = n
    /\ q[1] = Statement("start", {}) /\ q[m] = Statement("commit", {}) /\ q[n] = Statement("commit", {})
    /\ \A i \in 2 .. m - 1 : PlaceMeans(k, q[i], i - 1)
    /\ \A i \in m + 1 .. n - 1 :
         \/ i = m + 1 /\ q[i] = Statement("insert", {"LogEvents"})
         \/ i = m + 2 /\ q[i] = Statement("key", {"Users"})
    /\ \A i, j \in 2 .. m - 1 : \A t \in Tables :
         q[i].do = "insert" /\ q[j].do = "insert" /\ t \in q[i].on /\ t \in q[j].on => i = j
    /\ k = "reset" => \A t \in Tables : \E i \in 2 .. m - 1 : q[i].do = "truncate" /\ t \in q[i].on
    /\ k \in {"seed", "seedGroups"} => q[2].on = {"Users", "Groups"}

LEMMA ProgramFacts ==
  ASSUME NEW k \in Kinds, NEW q, q = Program(k), NEW m, m = Main(k), NEW n, n = Size(k)
  PROVE  /\ ProgramMeans(k, q, m, n)
         /\ m \in Nat /\ n \in Nat /\ m >= 4 /\ n \in {m + 2, m + 3} /\ n - m = Len(LogStatements(k))
<1> DEFINE o == HandlerStatements(k)
           l == LogStatements(k)
           d == IF k \in {"user", "group"} THEN 3 ELSE 2
<1>1. HandlerMeans(k, o)
  BY HandlerFacts
<1>2. /\ l \in Seq(Statements) /\ Len(l) = d /\ d \in {2, 3}
      /\ l[1] = Statement("insert", {"LogEvents"}) /\ l[d] = Statement("commit", {})
      /\ d = 3 => l[2] = Statement("key", {"Users"})
  BY LogFacts
<1>3. /\ q \in Seq(Statements) /\ Len(q) = m + Len(l) /\ m = Len(o) + 2
      /\ q[1] = Statement("start", {}) /\ q[m] = Statement("commit", {})
      /\ \A i \in 1 .. Len(o) : q[i + 1] = o[i]
      /\ \A i \in 1 .. Len(l) : q[i + m] = l[i]
  <2>1. Parted(q, o, l, m)
    BY ProgramParts
  <2> HIDE DEF o, l
  <2>2. QED
    BY <2>1 DEF Parted
<1>4. n = m + d /\ Len(l) = d /\ d \in Nat /\ (d = 2 \/ d = 3)
  <2>1. n = m + d
    BY DEF Size
  <2> HIDE DEF d, l
  <2>2. QED
    BY <1>2, <2>1
<1> HIDE DEF o, l, d
<1>5. m \in Nat /\ n \in Nat /\ m >= 4 /\ n \in {m + 2, m + 3} /\ n - m = Len(l)
  BY <1>1, <1>2, <1>3, <1>4 DEF HandlerMeans
<1>6. m \in Nat
  BY <1>5
<1>7. \A i \in 2 .. m - 1 : i - 1 \in 1 .. Len(o) /\ q[i] = o[i - 1]
  <2>1. ASSUME NEW i \in 2 .. m - 1 PROVE i - 1 \in 1 .. Len(o) /\ q[i] = o[i - 1]
    <3>1. i - 1 \in 1 .. Len(o) /\ (i - 1) + 1 = i
      BY <1>1, <1>3 DEF HandlerMeans
    <3>2. q[(i - 1) + 1] = o[i - 1]
      BY <1>3, <3>1
    <3>3. QED
      BY <3>1, <3>2
  <2>2. QED
    BY <2>1
<1>8. \A i \in 2 .. m - 1 : PlaceMeans(k, q[i], i - 1)
  BY <1>1, <1>7 DEF HandlerMeans
<1>9. \A i, j \in 2 .. m - 1 : \A t \in Tables :
         q[i].do = "insert" /\ q[j].do = "insert" /\ t \in q[i].on /\ t \in q[j].on => i = j
  <2>1. ASSUME NEW i \in 2 .. m - 1, NEW j \in 2 .. m - 1, NEW t \in Tables,
               q[i].do = "insert", q[j].do = "insert", t \in q[i].on, t \in q[j].on
        PROVE  i = j
    <3>1. i - 1 = j - 1
      BY <1>1, <1>7, <2>1 DEF HandlerMeans, NotTwice
    <3>2. QED
      BY <1>5, <3>1
  <2>2. QED
    BY <2>1
<1>10. q[n] = Statement("commit", {})
  <2>1. d \in 1 .. Len(l) /\ d + m = n
    BY <1>4, <1>6
  <2>2. QED
    BY <1>2, <1>3, <2>1
<1>11. \A i \in m + 1 .. n - 1 :
         \/ i = m + 1 /\ q[i] = Statement("insert", {"LogEvents"})
         \/ i = m + 2 /\ q[i] = Statement("key", {"Users"})
  <2>1. 1 \in 1 .. Len(l) /\ 1 + m = m + 1 /\ (d = 3 => 2 \in 1 .. Len(l)) /\ 2 + m = m + 2
    BY <1>2, <1>5
  <2>2. q[m + 1] = l[1] /\ (d = 3 => q[m + 2] = l[2])
    BY <1>3, <2>1
  <2>3. \A i \in m + 1 .. n - 1 : i = m + 1 \/ (i = m + 2 /\ d = 3)
    BY <1>4, <1>6
  <2>4. QED
    BY <1>2, <2>2, <2>3
<1>12. ASSUME k = "reset", NEW t \in Tables
       PROVE  \E i \in 2 .. m - 1 : q[i].do = "truncate" /\ t \in q[i].on
  <2>1. PICK i \in 1 .. Len(o) : o[i].do = "truncate" /\ t \in o[i].on
    BY <1>1, <1>12 DEF HandlerMeans
  <2>2. i + 1 \in 2 .. m - 1 /\ q[i + 1] = o[i]
    BY <1>1, <1>3, <2>1 DEF HandlerMeans
  <2>3. QED
    BY <2>1, <2>2
<1>13. k \in {"seed", "seedGroups"} => q[2].on = {"Users", "Groups"}
  <2>1. 1 \in 1 .. Len(o) /\ 1 + 1 = 2
    BY <1>1 DEF HandlerMeans
  <2>2. q[2] = o[1]
    BY <1>3, <2>1
  <2>3. QED
    BY <1>1, <2>2 DEF HandlerMeans
<1>14. Len(q) = n
  BY <1>2, <1>3, <1>4
<1>15. ProgramMeans(k, q, m, n)
  BY <1>3, <1>8, <1>9, <1>10, <1>11, <1>12, <1>13, <1>14 DEF ProgramMeans
<1>16. QED
  BY <1>5, <1>15 DEF l

\* What a request writes is what its own transaction inserts.
LEMMA WritesFacts ==
  ASSUME NEW k \in Kinds, NEW q, q = Program(k), NEW m, m = Main(k)
  PROVE  \A t : t \in Writes[k] <=> \E i \in 2 .. m - 1 : q[i].do = "insert" /\ t \in q[i].on
<1> DEFINE n == Size(k)
<1>1. /\ ProgramMeans(k, q, m, n) /\ m \in Nat /\ n \in Nat /\ m >= 4 /\ n \in {m + 2, m + 3}
  BY ProgramFacts
<1> HIDE DEF n
<1>2. Range(q) = {q[i] : i \in 1 .. n}
  <2>1. DOMAIN q = 1 .. n
    <3>1. q \in Seq(Statements) /\ Len(q) = n
      BY <1>1 DEF ProgramMeans
    <3> HIDE DEF Statements
    <3>2. QED
      BY <3>1
  <2>2. QED
    BY <2>1 DEF Range
<1>3. \A t : t \in Writes[k] <=>
        t # "LogEvents" /\ \E i \in 1 .. n : q[i].do = "insert" /\ t \in q[i].on
  <2>1. ASSUME NEW t
        PROVE  t \in Writes[k] <=> t # "LogEvents" /\ \E st \in Range(q) : st.do = "insert" /\ t \in st.on
    BY DEF Writes
  <2>2. \A st : st \in Range(q) <=> \E i \in 1 .. n : st = q[i]
    BY <1>2
  <2>3. ASSUME NEW t PROVE (\E st \in Range(q) : st.do = "insert" /\ t \in st.on)
                              <=> \E i \in 1 .. n : q[i].do = "insert" /\ t \in q[i].on
    BY <2>2
  <2>4. QED
    BY <2>1, <2>3
<1>4. \A i \in 2 .. m - 1 : i \in 1 .. n /\ (q[i].do = "insert" => "LogEvents" \notin q[i].on)
  BY <1>1 DEF ProgramMeans, PlaceMeans
<1>5. \A i \in 1 .. n : i \in {1, m, n} \/ i \in 2 .. m - 1 \/ i \in m + 1 .. n - 1
  BY <1>1
<1>6. \A i \in 1 .. n : q[i].do = "insert" => i \in 2 .. m - 1 \/ q[i].on = {"LogEvents"}
  <2>1. /\ \A i \in {1, m, n} : q[i].do # "insert"
        /\ \A i \in m + 1 .. n - 1 : q[i].do = "insert" => q[i].on = {"LogEvents"}
    BY <1>1 DEF ProgramMeans, Statement
  <2>2. QED
    BY <1>5, <2>1
<1>7. QED
  BY <1>3, <1>4, <1>6
-----------------------------------------------------------------------------
(* What is left of a program.                                              *)

\* The rest of a program after its first a statements, some tables of the first one done.
Rest(q, w, a) ==
    /\ w \in Seq(Statements) /\ a \in Nat /\ Len(w) \in Nat /\ Len(q) = a + Len(w)
    /\ \A i \in 1 .. Len(w) :
         /\ w[i].do = q[a + i].do /\ w[i].on \subseteq q[a + i].on
         /\ w[i].on = {} <=> q[a + i].on = {}
         /\ i > 1 => w[i] = q[a + i]
Fits(k, w) == \E a \in Nat : Rest(Program(k), w, a)

\* The tables that statements of a kind are still to work on.
Of(w, verb) == {t \in Tables : \E i \in 1 .. Len(w) : w[i].do = verb /\ t \in w[i].on}
Undecided(w) == \E i \in 1 .. Len(w) : w[i].do = "decide"
Own(k, w) == ~(Len(w) <= Len(LogStatements(k)))

LEMMA Typed ==
  ASSUME NEW w \in Seq(Statements), NEW i \in 1 .. Len(w)
  PROVE  w[i] \in Statements /\ w[i].do \in Verbs /\ w[i].on \in SUBSET Tables
<1>1. w[i] \in Statements
  <2> HIDE DEF Statements
  <2>1. QED
    OBVIOUS
<1>2. QED
  BY <1>1 DEF Statements

LEMMA ProgramFits ==
  ASSUME NEW k \in Kinds
  PROVE  Fits(k, Program(k)) /\ Own(k, Program(k)) /\ Program(k)[1].do = "start"
<1> DEFINE q == Program(k)
           m == Main(k)
           n == Size(k)
<1>1. /\ ProgramMeans(k, q, m, n)
      /\ m \in Nat /\ n \in Nat /\ m >= 4 /\ n \in {m + 2, m + 3} /\ n - m = Len(LogStatements(k))
  BY ProgramFacts
<1> HIDE DEF q, m, n
<1>2. q \in Seq(Statements) /\ Len(q) = n /\ q[1].do = "start"
  BY <1>1 DEF ProgramMeans, Statement
<1>3. Rest(q, q, 0)
  <2>1. \A i \in 1 .. Len(q) : 0 + i = i
    OBVIOUS
  <2>2. Len(q) = 0 + Len(q) /\ Len(q) \in Nat
    BY <1>1, <1>2
  <2> HIDE DEF Statements
  <2>3. QED
    BY <1>2, <2>1, <2>2 DEF Rest
<1>4. Own(k, q)
  BY <1>1, <1>2 DEF Own
<1>5. QED
  BY <1>2, <1>3, <1>4 DEF Fits, q

LEMMA TailOf ==
  ASSUME NEW S, NEW w \in Seq(S), w # <<>>
  PROVE  /\ Tail(w) \in Seq(S) /\ Len(w) \in Nat /\ Len(w) >= 1 /\ Len(Tail(w)) = Len(w) - 1
         /\ \A i \in 1 .. Len(Tail(w)) : i + 1 \in 1 .. Len(w) /\ Tail(w)[i] = w[i + 1]
OBVIOUS

\* A statement over no table is done in one go.
LEMMA StatementDrops ==
  ASSUME NEW k \in Kinds, NEW w, Fits(k, w), w # <<>>, w[1].on = {}
  PROVE  /\ Fits(k, Tail(w))
         /\ \A verb : Of(w, verb) = Of(Tail(w), verb)
         /\ Undecided(w) /\ w[1].do # "decide" => Undecided(Tail(w))
<1> DEFINE q == Program(k)
           v == Tail(w)
<1>1. PICK a \in Nat : Rest(q, w, a)
  BY DEF Fits
<1>2. w \in Seq(Statements) /\ Len(w) \in Nat /\ Len(q) = a + Len(w)
  BY <1>1 DEF Rest
<1>3. /\ v \in Seq(Statements) /\ Len(w) >= 1 /\ Len(v) = Len(w) - 1
      /\ \A i \in 1 .. Len(v) : i + 1 \in 1 .. Len(w) /\ v[i] = w[i + 1]
  BY <1>2, TailOf
<1> HIDE DEF q, v
<1>4. Rest(q, v, a + 1)
  <2>1. ASSUME NEW i \in 1 .. Len(v) PROVE v[i] = q[(a + 1) + i]
    <3>1. i + 1 \in 1 .. Len(w) /\ i + 1 > 1 /\ a + (i + 1) = (a + 1) + i /\ v[i] = w[i + 1]
      BY <1>2, <1>3
    <3>2. w[i + 1] = q[a + (i + 1)]
      BY <1>1, <3>1 DEF Rest
    <3>3. QED
      BY <3>1, <3>2
  <2>2. Len(v) \in Nat /\ Len(q) = (a + 1) + Len(v) /\ a + 1 \in Nat
    BY <1>2, <1>3
  <2>3. QED
    BY <1>3, <2>1, <2>2 DEF Rest
<1>5. \A i \in 1 .. Len(w) : i = 1 \/ (i - 1 \in 1 .. Len(v) /\ w[i] = v[i - 1])
  <2>1. ASSUME NEW i \in 1 .. Len(w), i # 1 PROVE i - 1 \in 1 .. Len(v) /\ w[i] = v[i - 1]
    <3>1. i - 1 \in 1 .. Len(v) /\ (i - 1) + 1 = i
      BY <1>2, <1>3, <2>1
    <3>2. QED
      BY <1>3, <3>1
  <2>2. QED
    BY <2>1
<1>6. \A verb : Of(w, verb) = Of(v, verb)
  BY <1>3, <1>5 DEF Of
<1>7. Undecided(w) /\ w[1].do # "decide" => Undecided(v)
  BY <1>5 DEF Undecided
<1>8. QED
  BY <1>4, <1>6, <1>7, <1>2 DEF Fits, q, v

\* A table of a statement is done; the statement, if it was its last.
Without(w, t) ==
    IF w[1].on = {t} THEN Tail(w)
    ELSE ReplaceAt(w, 1, Statement(w[1].do, w[1].on \ {t}))

LEMMA TableDrops ==
  ASSUME NEW k \in Kinds, NEW w, Fits(k, w), w # <<>>, NEW t \in w[1].on, NEW v, v = Without(w, t)
  PROVE  /\ Fits(k, v)
         /\ \A verb : Of(w, verb) \ {t} \subseteq Of(v, verb)
         /\ \A verb : verb # w[1].do => Of(w, verb) \subseteq Of(v, verb)
         /\ Undecided(w) /\ w[1].do # "decide" => Undecided(v)
         /\ v # <<>> => v[1].do = w[1].do \/ (w[1].on = {t} /\ v = Tail(w))
<1> DEFINE q == Program(k)
<1>1. PICK a \in Nat : Rest(q, w, a)
  BY DEF Fits
<1>2. w \in Seq(Statements) /\ Len(w) \in Nat /\ Len(q) = a + Len(w) /\ Len(w) >= 1
  BY <1>1 DEF Rest
<1> HIDE DEF q
<1>3. CASE w[1].on = {t}
  <2>0. v = Tail(w)
    BY <1>3 DEF Without
  <2>1. /\ v \in Seq(Statements) /\ Len(v) = Len(w) - 1
        /\ \A i \in 1 .. Len(v) : i + 1 \in 1 .. Len(w) /\ v[i] = w[i + 1]
    BY <1>2, <2>0, TailOf
  <2>2. Rest(q, v, a + 1)
    <3>1. ASSUME NEW i \in 1 .. Len(v) PROVE v[i] = q[(a + 1) + i]
      <4>0. i + 1 \in 1 .. Len(w) /\ v[i] = w[i + 1]
        BY <2>1
      <4>1. i + 1 \in 1 .. Len(w) /\ i + 1 > 1 /\ a + (i + 1) = (a + 1) + i /\ v[i] = w[i + 1]
        BY <4>0
      <4>2. w[i + 1] = q[a + (i + 1)]
        BY <1>1, <4>1 DEF Rest
      <4>3. QED
        BY <4>1, <4>2
    <3>2. Len(v) \in Nat /\ Len(q) = (a + 1) + Len(v) /\ a + 1 \in Nat
      BY <1>2, <2>1
    <3>3. QED
      BY <2>1, <3>1, <3>2 DEF Rest
  <2>3. \A i \in 1 .. Len(w) : i = 1 \/ (i - 1 \in 1 .. Len(v) /\ w[i] = v[i - 1])
    <3>1. ASSUME NEW i \in 1 .. Len(w), i # 1 PROVE i - 1 \in 1 .. Len(v) /\ w[i] = v[i - 1]
      <4>1. i - 1 \in 1 .. Len(v) /\ (i - 1) + 1 = i
        BY <1>2, <2>1, <3>1
      <4>2. QED
        BY <2>1, <4>1
    <3>2. QED
      BY <3>1
  <2>4. /\ \A verb : Of(w, verb) \ {t} \subseteq Of(v, verb)
        /\ \A verb : verb # w[1].do => Of(w, verb) \subseteq Of(v, verb)
    BY <1>3, <2>3 DEF Of
  <2>5. Undecided(w) /\ w[1].do # "decide" => Undecided(v)
    BY <2>3 DEF Undecided
  <2>6. QED
    BY <1>3, <2>0, <2>2, <2>4, <2>5, <1>2 DEF Fits, q
<1>4. CASE w[1].on # {t}
  <2> DEFINE st == Statement(w[1].do, w[1].on \ {t})
  <2>1. 1 \in 1 .. Len(w) /\ w[1].do \in Verbs /\ w[1].on \in SUBSET Tables
    <3>1. 1 \in 1 .. Len(w)
      BY <1>2
    <3>2. QED
      BY <1>2, <3>1, Typed
  <2>2. st \in Statements /\ st.do = w[1].do /\ st.on = w[1].on \ {t}
    BY <2>1 DEF Statement, Statements
  <2> HIDE DEF st
  <2>3. v = [w EXCEPT ![1] = st]
    BY <1>4 DEF Without, ReplaceAt, st
  <2>4. /\ v \in Seq(Statements) /\ Len(v) = Len(w) /\ v[1] = st
        /\ \A i \in 1 .. Len(w) : i # 1 => v[i] = w[i]
    <3> HIDE DEF Statements
    <3>1. QED
      BY <1>2, <2>1, <2>2, <2>3
  <2>5. Rest(q, v, a)
    <3>1. \A i \in 1 .. Len(v) :
            /\ v[i].do = q[a + i].do /\ v[i].on \subseteq q[a + i].on
            /\ v[i].on = {} <=> q[a + i].on = {}
            /\ i > 1 => v[i] = q[a + i]
      <4>1. ASSUME NEW i \in 1 .. Len(w), i # 1
            PROVE  /\ v[i].do = q[a + i].do /\ v[i].on \subseteq q[a + i].on
                   /\ v[i].on = {} <=> q[a + i].on = {}
                   /\ i > 1 => v[i] = q[a + i]
        BY <1>1, <2>4, <4>1 DEF Rest
      <4>2. /\ v[1].do = q[a + 1].do /\ v[1].on \subseteq q[a + 1].on
            /\ v[1].on = {} <=> q[a + 1].on = {}
        <5>1. w[1].do = q[a + 1].do /\ w[1].on \subseteq q[a + 1].on
          BY <1>1, <2>1 DEF Rest
        <5>2. w[1].on \ {t} # {}
          BY <1>4
        <5>3. QED
          BY <2>2, <2>4, <5>1, <5>2
      <4>3. QED
        BY <2>4, <4>1, <4>2
    <3>2. QED
      BY <1>2, <2>4, <3>1 DEF Rest
  <2>6. /\ \A verb : Of(w, verb) \ {t} \subseteq Of(v, verb)
        /\ \A verb : verb # w[1].do => Of(w, verb) \subseteq Of(v, verb)
    BY <2>1, <2>2, <2>4 DEF Of
  <2>7. Undecided(w) /\ w[1].do # "decide" => Undecided(v)
    BY <2>1, <2>2, <2>4 DEF Undecided
  <2>8. QED
    BY <2>2, <2>4, <2>5, <2>6, <2>7 DEF Fits, q
<1>5. QED
  BY <1>3, <1>4
\* What the first statement left says of a request, for each place in its program.
AtStart(k, w) ==
    /\ w[1].do = "start" /\ w[1].on = {}
    /\ Own(k, w) /\ Own(k, Tail(w))
    /\ k \in {"seed", "seedGroups"} => {"Users", "Groups"} \subseteq Of(w, "peek") /\ Undecided(w)
AtWork(k, w) ==
    /\ Own(k, w) /\ (w[1].on = {} <=> w[1].do = "decide")
    /\ w[1].do \notin {"start", "commit"}
    /\ w[1].do = "insert" => w[1].on \subseteq Writes[k] /\ "LogEvents" \notin w[1].on
    /\ w[1].do \in {"truncate", "read"} => k = "reset"
    /\ w[1].do \in {"peek", "decide", "insert"} => k # "reset"
    /\ k \in {"seed", "seedGroups"} /\ w[1].do = "peek" => Undecided(w)
    /\ w[1].do = "decide" => Own(k, Tail(w))
AtCommit(k, w) ==
    /\ w[1].do = "commit" /\ w[1].on = {}
    /\ Own(k, w) /\ ~Own(k, Tail(w)) /\ Tail(w) # <<>> /\ Len(w) # 1
    /\ Of(w, "truncate") = {} /\ Of(w, "peek") = {} /\ Of(w, "insert") \subseteq {"LogEvents"}
    /\ ~Undecided(w)
AtLog(k, w) ==
    /\ ~Own(k, w) /\ Len(w) # 1
    /\ w[1].do \in {"insert", "key"} /\ w[1].on # {}
    /\ w[1].do = "insert" => w[1].on \subseteq {"LogEvents"}
AtEnd(k, w) ==
    ~Own(k, w) /\ Len(w) = 1 /\ w[1].do = "commit" /\ w[1].on = {} /\ Tail(w) = <<>>

\* Beyond the own transaction nothing is looked up, decided or truncated.
LEMMA LogOnly ==
  ASSUME NEW k \in Kinds, NEW w, NEW a \in Nat, Rest(Program(k), w, a), a + 1 >= Main(k)
  PROVE  \A i \in 1 .. Len(w) :
           /\ w[i].do \in {"insert", "key", "commit"}
           /\ w[i].do = "insert" => w[i].on \subseteq {"LogEvents"}
<1> DEFINE q == Program(k)
           m == Main(k)
           n == Size(k)
<1>1. ProgramMeans(k, q, m, n) /\ m \in Nat /\ n \in Nat
  BY ProgramFacts
<1> HIDE DEF q, m, n
<1>2. Len(w) \in Nat /\ n = a + Len(w) /\ a + 1 >= m
  BY <1>1 DEF Rest, ProgramMeans, q, m
<1>3. ASSUME NEW i \in 1 .. Len(w)
      PROVE  w[i].do \in {"insert", "key", "commit"} /\ (w[i].do = "insert" => w[i].on \subseteq {"LogEvents"})
  <2>1. w[i].do = q[a + i].do /\ w[i].on \subseteq q[a + i].on
    BY DEF Rest, q
  <2>2. a + i = m \/ a + i = n \/ a + i \in m + 1 .. n - 1
    BY <1>1, <1>2
  <2>3. q[m].do = "commit" /\ q[n].do = "commit"
    BY <1>1 DEF ProgramMeans, Statement
  <2>4. ASSUME a + i \in m + 1 .. n - 1
        PROVE  q[a + i].do \in {"insert", "key"} /\ (q[a + i].do = "insert" => q[a + i].on = {"LogEvents"})
    BY <1>1, <2>4 DEF ProgramMeans, Statement
  <2>5. QED
    BY <2>1, <2>2, <2>3, <2>4
<1>4. QED
  BY <1>3

\* The place of the first statement left.
Placed(k, w, a, q, m, n) ==
    /\ ProgramMeans(k, q, m, n) /\ m \in Nat /\ n \in Nat /\ m >= 4 /\ n >= m + 2
    /\ a + 1 \in 1 .. n /\ Len(w) \in Nat /\ n = a + Len(w) /\ Len(w) >= 1
    /\ w[1].do = q[a + 1].do /\ w[1].on \subseteq q[a + 1].on /\ (w[1].on = {} <=> q[a + 1].on = {})
    /\ Own(k, w) <=> a + 1 <= m
    /\ Own(k, Tail(w)) <=> a + 1 < m
    /\ Len(Tail(w)) = Len(w) - 1 /\ (Tail(w) = <<>> <=> Len(w) = 1)
    /\ \A i \in 2 .. Len(w) : w[i] = q[a + i]
    /\ \A b \in a + 2 .. n : b - a \in 1 .. Len(w) /\ w[b - a] = q[b]

LEMMA FirstPlace ==
  ASSUME NEW k \in Kinds, NEW w, NEW a \in Nat, Rest(Program(k), w, a), w # <<>>,
         NEW q, q = Program(k), NEW m, m = Main(k), NEW n, n = Size(k)
  PROVE  Placed(k, w, a, q, m, n)
<1>1. /\ ProgramMeans(k, q, m, n) /\ m \in Nat /\ n \in Nat /\ m >= 4 /\ n \in {m + 2, m + 3}
      /\ n - m = Len(LogStatements(k))
  BY ProgramFacts
<1>2. n >= m + 2
  BY <1>1
<1>3. w \in Seq(Statements) /\ Len(w) \in Nat /\ n = a + Len(w)
  BY <1>1 DEF Rest, ProgramMeans
<1>4. Len(w) >= 1 /\ Len(Tail(w)) = Len(w) - 1 /\ Tail(w) \in Seq(Statements)
  BY <1>3, TailOf
<1>5. Tail(w) = <<>> <=> Len(w) = 1
  <2> HIDE DEF Statements
  <2>1. Tail(w) = <<>> <=> Len(Tail(w)) = 0
    BY <1>4
  <2>2. QED
    BY <1>3, <1>4, <2>1
<1>6. a + 1 \in 1 .. n /\ 1 \in 1 .. Len(w)
  BY <1>3, <1>4
<1>7. w[1].do = q[a + 1].do /\ w[1].on \subseteq q[a + 1].on /\ (w[1].on = {} <=> q[a + 1].on = {})
  BY <1>6 DEF Rest
<1>8. \A i \in 2 .. Len(w) : w[i] = q[a + i]
  <2>1. \A i \in 2 .. Len(w) : i \in 1 .. Len(w) /\ i > 1
    BY <1>3
  <2>2. QED
    BY <2>1 DEF Rest
<1>9. \A b \in a + 2 .. n : b - a \in 1 .. Len(w) /\ w[b - a] = q[b]
  <2>1. ASSUME NEW b \in a + 2 .. n PROVE b - a \in 1 .. Len(w) /\ w[b - a] = q[b]
    <3>1. b - a \in 2 .. Len(w) /\ b - a \in 1 .. Len(w) /\ a + (b - a) = b
      BY <1>1, <1>3
    <3>2. w[b - a] = q[a + (b - a)]
      BY <1>8, <3>1
    <3>3. QED
      BY <3>1, <3>2
  <2>2. QED
    BY <2>1
<1>10. (Own(k, w) <=> a + 1 <= m) /\ (Own(k, Tail(w)) <=> a + 1 < m)
  <2>1. (Own(k, w) <=> ~(Len(w) <= n - m)) /\ (Own(k, Tail(w)) <=> ~(Len(w) - 1 <= n - m))
    BY <1>1, <1>4 DEF Own
  <2>2. QED
    BY <1>1, <1>3, <2>1
<1>11. QED
  BY <1>1, <1>2, <1>3, <1>4, <1>5, <1>6, <1>7, <1>8, <1>9, <1>10 DEF Placed

LEMMA FirstFacts ==
  ASSUME NEW k \in Kinds, NEW w, Fits(k, w), w # <<>>
  PROVE  AtStart(k, w) \/ AtWork(k, w) \/ AtCommit(k, w) \/ AtLog(k, w) \/ AtEnd(k, w)
<1> DEFINE q == Program(k)
           m == Main(k)
           n == Size(k)
<1>1. PICK a \in Nat : Rest(q, w, a)
  BY DEF Fits
<1>2. /\ ProgramMeans(k, q, m, n) /\ m \in Nat /\ n \in Nat /\ m >= 4 /\ n >= m + 2
      /\ a + 1 \in 1 .. n /\ Len(w) \in Nat /\ n = a + Len(w) /\ Len(w) >= 1
      /\ w[1].do = q[a + 1].do /\ w[1].on \subseteq q[a + 1].on /\ (w[1].on = {} <=> q[a + 1].on = {})
      /\ Own(k, w) <=> a + 1 <= m
      /\ Own(k, Tail(w)) <=> a + 1 < m
      /\ Len(Tail(w)) = Len(w) - 1 /\ (Tail(w) = <<>> <=> Len(w) = 1)
      /\ \A i \in 2 .. Len(w) : w[i] = q[a + i]
      /\ \A b \in a + 2 .. n : b - a \in 1 .. Len(w) /\ w[b - a] = q[b]
  <2>1. Placed(k, w, a, q, m, n)
    BY <1>1, FirstPlace
  <2> HIDE DEF q, m, n
  <2>2. QED
    BY <2>1 DEF Placed
<1>3. \A t : t \in Writes[k] <=> \E i \in 2 .. m - 1 : q[i].do = "insert" /\ t \in q[i].on
  BY WritesFacts
<1>4. a + 1 >= m => \A i \in 1 .. Len(w) :
           /\ w[i].do \in {"insert", "key", "commit"}
           /\ w[i].do = "insert" => w[i].on \subseteq {"LogEvents"}
  BY <1>1, LogOnly
<1> HIDE DEF q, m, n
<1>5. CASE a + 1 = 1
  <2>1. a = 0 /\ w[1].do = "start" /\ w[1].on = {}
    BY <1>2, <1>5 DEF ProgramMeans, Statement
  <2>2. Own(k, w) /\ Own(k, Tail(w))
    BY <1>2, <1>5
  <2>3. ASSUME k \in {"seed", "seedGroups"}
        PROVE  {"Users", "Groups"} \subseteq Of(w, "peek") /\ Undecided(w)
    <3>1. 2 \in a + 2 .. n /\ 3 \in a + 2 .. n /\ 2 - a = 2 /\ 3 - a = 3
      BY <1>2, <2>1
    <3>2. 2 \in 1 .. Len(w) /\ 3 \in 1 .. Len(w) /\ w[2] = q[2] /\ w[3] = q[3]
      BY <1>2, <3>1
    <3>3. 2 \in 2 .. m - 1 /\ 3 \in 2 .. m - 1 /\ 2 - 1 = 1 /\ 3 - 1 = 2
      BY <1>2
    <3>4. PlaceMeans(k, q[2], 1) /\ PlaceMeans(k, q[3], 2) /\ q[2].on = {"Users", "Groups"}
      BY <1>2, <2>3, <3>3 DEF ProgramMeans
    <3>5. q[2].do = "peek" /\ q[3].do = "decide"
      BY <2>3, <3>4 DEF PlaceMeans
    <3>6. QED
      BY <3>2, <3>4, <3>5 DEF Of, Undecided, Tables
  <2>4. QED
    BY <2>1, <2>2, <2>3 DEF AtStart
<1>6. CASE a + 1 \in 2 .. m - 1
  <2>1. PlaceMeans(k, q[a + 1], a) /\ a + 1 <= m /\ a + 1 < m
    <3>1. (a + 1) - 1 = a
      OBVIOUS
    <3>2. PlaceMeans(k, q[a + 1], (a + 1) - 1)
      BY <1>2, <1>6 DEF ProgramMeans
    <3>3. QED
      BY <1>2, <1>6, <3>1, <3>2
  <2>2. Own(k, w) /\ Own(k, Tail(w))
    BY <1>2, <2>1
  <2>3. w[1].do = "insert" => w[1].on \subseteq Writes[k] /\ "LogEvents" \notin w[1].on
    BY <1>2, <1>3, <1>6, <2>1 DEF PlaceMeans
  <2>4. ASSUME k \in {"seed", "seedGroups"}, w[1].do = "peek" PROVE Undecided(w)
    <3>1. a = 1
      BY <1>2, <2>1, <2>4 DEF PlaceMeans
    <3>2. 3 \in a + 2 .. n /\ 3 \in 2 .. m - 1 /\ 3 - 1 = 2 /\ 3 - a = 2
      BY <1>2, <3>1
    <3>3. PlaceMeans(k, q[3], 2) /\ 2 \in 1 .. Len(w) /\ w[2] = q[3]
      BY <1>2, <3>2 DEF ProgramMeans
    <3>4. QED
      BY <2>4, <3>3 DEF PlaceMeans, Undecided
  <2>5. /\ w[1].do \notin {"start", "commit"} /\ (w[1].on = {} <=> w[1].do = "decide")
        /\ w[1].do \in {"truncate", "read"} => k = "reset"
        /\ w[1].do \in {"peek", "decide", "insert"} => k # "reset"
    BY <1>2, <2>1 DEF PlaceMeans
  <2>6. QED
    BY <2>2, <2>3, <2>4, <2>5 DEF AtWork
<1>7. CASE a + 1 = m
  <2>1. w[1].do = "commit" /\ w[1].on = {}
    <3>1. q[m].do = "commit" /\ q[m].on = {}
      BY <1>2 DEF ProgramMeans, Statement
    <3>2. QED
      BY <1>2, <1>7, <3>1
  <2>2. Own(k, w) /\ ~Own(k, Tail(w)) /\ Len(w) # 1 /\ Tail(w) # <<>>
    BY <1>2, <1>7
  <2>3. \A i \in 1 .. Len(w) :
           /\ w[i].do \in {"insert", "key", "commit"}
           /\ w[i].do = "insert" => w[i].on \subseteq {"LogEvents"}
    BY <1>2, <1>4, <1>7
  <2>4. /\ Of(w, "truncate") = {} /\ Of(w, "peek") = {} /\ Of(w, "insert") \subseteq {"LogEvents"}
        /\ ~Undecided(w)
    BY <2>3 DEF Of, Undecided
  <2>5. QED
    BY <2>1, <2>2, <2>4 DEF AtCommit
<1>8. CASE a + 1 \in m + 1 .. n - 1
  <2>1. ~Own(k, w) /\ Len(w) # 1
    BY <1>2, <1>8
  <2>2. q[a + 1].do \in {"insert", "key"} /\ q[a + 1].on # {}
        /\ (q[a + 1].do = "insert" => q[a + 1].on = {"LogEvents"})
    <3>1. q[a + 1] = Statement("insert", {"LogEvents"}) \/ q[a + 1] = Statement("key", {"Users"})
      BY <1>2, <1>8 DEF ProgramMeans
    <3>2. QED
      BY <3>1 DEF Statement
  <2>3. QED
    BY <1>2, <2>1, <2>2 DEF AtLog
<1>9. CASE a + 1 = n
  <2>1. w[1].do = "commit" /\ w[1].on = {}
    BY <1>2, <1>9 DEF ProgramMeans, Statement
  <2>2. ~Own(k, w) /\ Len(w) = 1 /\ Tail(w) = <<>>
    BY <1>2, <1>9
  <2>3. QED
    BY <2>1, <2>2 DEF AtEnd
<1>10. QED
  BY <1>2, <1>5, <1>6, <1>7, <1>8, <1>9

\* A table done never ends the own transaction.
LEMMA OwnKept ==
  ASSUME NEW k \in Kinds, NEW w, Fits(k, w), w # <<>>, NEW t \in w[1].on, NEW v, v = Without(w, t)
  PROVE  (Own(k, v) <=> Own(k, w)) /\ v # <<>>
<1> DEFINE q == Program(k)
           m == Main(k)
           n == Size(k)
<1>1. PICK a \in Nat : Rest(q, w, a)
  BY DEF Fits
<1>2. /\ ProgramMeans(k, q, m, n) /\ m \in Nat /\ n \in Nat /\ m >= 4 /\ n >= m + 2
      /\ a + 1 \in 1 .. n /\ Len(w) \in Nat /\ n = a + Len(w) /\ Len(w) >= 1
      /\ (w[1].on = {} <=> q[a + 1].on = {})
      /\ Own(k, w) <=> a + 1 <= m
      /\ Own(k, Tail(w)) <=> a + 1 < m
      /\ Tail(w) = <<>> <=> Len(w) = 1
  <2>1. Placed(k, w, a, q, m, n)
    BY <1>1, FirstPlace
  <2> HIDE DEF q, m, n
  <2>2. QED
    BY <2>1 DEF Placed
<1>3. w \in Seq(Statements)
  BY <1>1 DEF Rest
<1> HIDE DEF q, m, n
<1>4. a + 1 # m /\ a + 1 # n
  BY <1>2 DEF ProgramMeans, Statement
<1>5. CASE w[1].on = {t}
  <2>1. v = Tail(w)
    BY <1>5 DEF Without
  <2>2. Len(w) # 1 /\ (a + 1 <= m <=> a + 1 < m)
    <3>1. n = a + Len(w) /\ m \in Nat /\ n \in Nat /\ Len(w) \in Nat /\ a + 1 # m /\ a + 1 # n
      BY <1>2, <1>4
    <3>2. \A l \in Nat : n = a + l => l # 1
      BY <3>1
    <3>3. a + 1 <= m <=> a + 1 < m
      BY <3>1
    <3>4. QED
      BY <3>1, <3>2, <3>3
  <2>3. QED
    BY <1>2, <2>1, <2>2
<1>6. CASE w[1].on # {t}
  <2>1. v = [w EXCEPT ![1] = Statement(w[1].do, w[1].on \ {t})]
    BY <1>6 DEF Without, ReplaceAt
  <2>2. Len(v) = Len(w)
    BY <1>3, <2>1
  <2>3. v # <<>>
    BY <1>2, <2>2
  <2>4. QED
    BY <2>2, <2>3 DEF Own
<1>7. QED
  BY <1>5, <1>6

\* A reset writes nothing, and no request its own event.
LEMMA WritesBounds ==
  ASSUME NEW k \in Kinds
  PROVE  Writes["reset"] = {} /\ Writes[k] \subseteq Tables \ {"LogEvents"}
<1>1. ASSUME NEW c \in Kinds
      PROVE  \A t : t \in Writes[c] => t \in Tables \ {"LogEvents"} /\ c # "reset"
  <2> DEFINE q == Program(c)
             m == Main(c)
             n == Size(c)
  <2>1. ProgramMeans(c, q, m, n)
    BY ProgramFacts
  <2>2. \A t : t \in Writes[c] <=> \E i \in 2 .. m - 1 : q[i].do = "insert" /\ t \in q[i].on
    BY WritesFacts
  <2> HIDE DEF q, m, n
  <2>3. QED
    BY <2>1, <2>2 DEF ProgramMeans, PlaceMeans
<1>2. "reset" \in Kinds
  BY DEF Kinds
<1>3. Writes["reset"] = {}
  BY <1>1, <1>2
<1>4. QED
  BY <1>1, <1>3
-----------------------------------------------------------------------------
(* The invariant.                                                          *)

DevTypes ==
    /\ stored \subseteq Rows
    /\ kind \in [Requests -> Kinds]
    /\ todo \in [Requests -> Seq(Statements)]
    /\ counted \in [Requests -> SUBSET Rows]
    /\ shared \in [Requests -> SUBSET Tables]
    /\ exclusive \in [Requests -> SUBSET Tables]
    /\ pending \in [Requests -> SUBSET Rows]
    /\ reply \in [Requests -> Nat]
    /\ \A r \in Requests : Fits(kind[r], todo[r])

\* The request's own transaction is not over.
Mine(r) == Own(kind[r], todo[r])
\* A reset whose transaction has committed.
Past(r) == kind[r] = "reset" /\ ~Mine(r) /\ (Answered(r) => reply[r] = 200)
Replies(r) == ~Answered(r) => reply[r] = 0

\* What a transaction has inserted is what its program no longer has to insert.
Inserts(r) ==
    /\ Mine(r) => /\ \A t \in Writes[kind[r]] : t \in Of(todo[r], "insert") \/ <<t, r>> \in pending[r]
                  /\ \A row \in pending[r] : row[2] = r /\ row[1] \in Writes[kind[r]]
    /\ ~Mine(r) /\ ~Answered(r) => \A row \in pending[r] : row = <<"LogEvents", r>>

\* Only a reset that is under way holds exclusive locks, on what it has truncated.
Truncates(r) ==
    /\ kind[r] = "reset" /\ Mine(r) =>
         \A t \in Tables : t \in Of(todo[r], "truncate") \/ t \in exclusive[r]
    /\ ~(kind[r] = "reset" /\ Mine(r)) => exclusive[r] = {}

\* The locks that two transactions hold are compatible.
Compatible(r, s) == r # s => exclusive[r] \cap (shared[s] \cup exclusive[s]) = {}

\* Nobody sees a row before it is committed.
Unseen(x, row) == row \notin stored /\ \A s \in Requests : row \notin x[s]
NotYet(r) ==
    /\ Mine(r) => \A t \in Tables : Unseen(counted, <<t, r>>)
    /\ ~Answered(r) => Unseen(counted, <<"LogEvents", r>>)

\* A transaction that is over holds nothing, nor does one that may still answer early.
Free(r) ==
    Answered(r) \/ Undecided(todo[r]) => shared[r] = {} /\ exclusive[r] = {} /\ pending[r] = {}

Whole(r) ==
    \/ \A t \in Tables \ {"LogEvents"} : <<t, r>> \notin stored
    \/ \A t \in Tables \ {"LogEvents"} : <<t, r>> \in stored <=> t \in Writes[kind[r]]

\* What a reset has counted stays there, under its shared locks, until it commits, and is gone
\* then for good.
Guards(r) ==
    kind[r] = "reset" /\ Mine(r) => \A row \in counted[r] : row \in stored /\ row[1] \in shared[r]
Gone(r) == Past(r) => counted[r] \cap stored = {}
Apart(r, s) == r # s /\ Past(r) /\ Past(s) => counted[r] \cap counted[s] = {}

\* A seed beside which nobody but resets has run knows of every user and group.
Knows(r) ==
    \A t \in {"Users", "Groups"} :
        t \in Of(todo[r], "peek") \/ \A row \in stored : row[1] = t => row \in counted[r]
Alone(r) ==
    Seeds(r) /\ r \notin joined /\ InFlight(r) =>
        /\ \A s \in Requests : s # r /\ InFlight(s) => kind[s] = "reset"
        /\ Mine(r) => Knows(r)
        /\ Undecided(todo[r]) \/ counted[r] = {}

DevInv ==
    /\ DevTypes
    /\ \A r \in Requests : Inserts(r) /\ Truncates(r) /\ NotYet(r) /\ Whole(r)
    /\ \A r \in Requests : Guards(r) /\ Gone(r) /\ Alone(r) /\ Replies(r) /\ Free(r)
    /\ \A r, s \in Requests : Compatible(r, s) /\ Apart(r, s)

-----------------------------------------------------------------------------
(* The steps, by what they change.                                         *)

Others(new, old, r) == \A s \in Requests : s # r => new[s] = old[s]

OnlyOf(r) ==
    /\ kind' = kind
    /\ Others(todo', todo, r) /\ Others(counted', counted, r) /\ Others(shared', shared, r)
    /\ Others(exclusive', exclusive, r) /\ Others(pending', pending, r) /\ Others(reply', reply, r)

\* Start, and Decide when the handler goes on.
Passes(r) ==
    /\ ~Answered(r) /\ todo[r][1].on = {} /\ todo[r][1].do \in {"start", "decide"}
    /\ stored' = stored /\ txVars' = txVars /\ reply' = reply
    /\ todo'[r] = Tail(todo[r])
    /\ todo[r][1].do = "decide" => joined' = joined /\ (Seeds(r) => counted[r] = {})
    /\ todo[r][1].do = "start" =>
         /\ joined \subseteq joined'
         /\ \A s \in Requests : s # r /\ InFlight(s) /\ kind[s] # "reset" => r \in joined'
         /\ \A s \in Requests : s # r /\ InFlight(s) /\ kind[r] # "reset" => s \in joined'

\* The rest of a table's work in Read, Insert, CheckKey and Truncate.
Works(r, t) ==
    LET verb == todo[r][1].do
    IN  /\ ~Answered(r) /\ t \in todo[r][1].on /\ HoldersOf(r, t) = {}
        /\ verb \in {"peek", "read", "insert", "key", "truncate"}
        /\ stored' = stored /\ joined' = joined /\ reply' = reply
        /\ todo'[r] = Without(todo[r], t)
        /\ counted'[r] = counted[r] \cup
             (IF verb \in {"peek", "read"} THEN {row \in stored : row[1] = t} ELSE {})
        /\ shared'[r] = shared[r] \cup (IF verb \in {"read", "insert", "key"} THEN {t} ELSE {})
        /\ exclusive'[r] = exclusive[r] \cup (IF verb = "truncate" THEN {t} ELSE {})
        /\ pending'[r] = pending[r] \cup (IF verb = "insert" THEN {<<t, r>>} ELSE {})

\* Fails, and the early answers of Decide.
Ends(r) ==
    /\ ~Answered(r) /\ stored' = stored /\ counted' = counted /\ joined' = joined
    /\ todo'[r] = <<>> /\ reply'[r] \in Nat
    /\ shared'[r] \subseteq shared[r] /\ exclusive'[r] \subseteq exclusive[r]
    /\ pending'[r] \subseteq pending[r]
    /\ \/ shared'[r] = {} /\ exclusive'[r] = {} /\ pending'[r] = {}
       \/ todo[r][1].do = "decide"
    /\ \/ exclusive'[r] = {} /\ (reply'[r] = 200 => ~Mine(r))
       \/ kind[r] # "reset"

Commits(r) ==
    /\ ~Answered(r) /\ todo[r][1].do = "commit"
    /\ stored' = {row \in stored : row[1] \notin exclusive[r]} \cup pending[r]
    /\ counted' = counted /\ joined' = joined
    /\ todo'[r] = Tail(todo[r])
    /\ reply'[r] = IF Len(todo[r]) = 1 THEN 200 ELSE 0
    /\ shared'[r] = {} /\ exclusive'[r] = {} /\ pending'[r] = {}

LEMMA MineMeans ==
  ASSUME NEW r \in Requests
  PROVE  Logging(r) <=> ~Mine(r)
BY DEF Logging, Mine, Own

LEMMA FailEnds ==
  ASSUME DevTypes, NEW r \in Requests, ~Answered(r), Fails(r), UNCHANGED <<kind, joined>>
  PROVE  OnlyOf(r) /\ Ends(r)
<1>1. Logging(r) <=> ~Mine(r)
  BY MineMeans
<1>2. /\ todo'[r] = <<>> /\ Others(todo', todo, r)
      /\ reply'[r] = (IF Logging(r) THEN 200 ELSE 400) /\ Others(reply', reply, r)
  BY DEF Fails, EndsWith, DevTypes, Others
<1>3. /\ shared'[r] = {} /\ exclusive'[r] = {} /\ pending'[r] = {}
      /\ Others(shared', shared, r) /\ Others(exclusive', exclusive, r) /\ Others(pending', pending, r)
  BY DEF Fails, Released, DevTypes, Others
<1>4. stored' = stored /\ counted' = counted /\ kind' = kind /\ joined' = joined
  BY DEF Fails
<1>5. OnlyOf(r)
  BY <1>2, <1>3, <1>4 DEF OnlyOf, Others
<1>6. reply'[r] \in Nat /\ (reply'[r] = 200 => ~Mine(r))
  BY <1>1, <1>2
<1>7. QED
  BY <1>2, <1>3, <1>4, <1>5, <1>6 DEF Ends

LEMMA StartPasses ==
  ASSUME DevTypes, NEW r \in Requests, Start(r)
  PROVE  OnlyOf(r) /\ Passes(r)
<1>1. todo'[r] = Tail(todo[r]) /\ Others(todo', todo, r)
  BY DEF Start, StatementDone, DevTypes, Others
<1>2. /\ stored' = stored /\ txVars' = txVars /\ reply' = reply /\ kind' = kind
      /\ counted' = counted /\ shared' = shared /\ exclusive' = exclusive /\ pending' = pending
  BY DEF Start, txVars
<1>3. ~Answered(r) /\ todo[r][1].do = "start"
  BY DEF Start, Doing
<1>4. todo[r][1].on = {}
  <2>1. kind[r] \in Kinds /\ Fits(kind[r], todo[r]) /\ todo[r] # <<>>
    BY <1>3 DEF DevTypes, Answered
  <2>2. QED
    BY <2>1, <1>3, FirstFacts DEF AtStart, AtWork, AtCommit, AtLog, AtEnd
<1>5. /\ joined \subseteq joined'
      /\ \A s \in Requests : s # r /\ InFlight(s) /\ kind[s] # "reset" => r \in joined'
      /\ \A s \in Requests : s # r /\ InFlight(s) /\ kind[r] # "reset" => s \in joined'
  <2> DEFINE F == {s \in Requests \ {r} : InFlight(s)}
             G(s) == (IF kind[s] # "reset" THEN {r} ELSE {}) \cup (IF kind[r] # "reset" THEN {s} ELSE {})
  <2>1. joined' = joined \cup UNION {G(s) : s \in F}
    BY DEF Start
  <2>2. \A s \in Requests : s # r /\ InFlight(s) => s \in F
    OBVIOUS
  <2>3. \A s \in F : G(s) \subseteq joined'
    BY <2>1
  <2> HIDE DEF F
  <2>4. QED
    BY <2>1, <2>2, <2>3
<1>6. OnlyOf(r)
  BY <1>1, <1>2 DEF OnlyOf, Others
<1>7. QED
  BY <1>1, <1>2, <1>3, <1>4, <1>5, <1>6 DEF Passes

LEMMA DecideEffect ==
  ASSUME DevTypes, NEW r \in Requests, Decide(r)
  PROVE  OnlyOf(r) /\ (Passes(r) \/ Ends(r))
<1>1. /\ stored' = stored /\ txVars' = txVars /\ kind' = kind /\ joined' = joined
      /\ counted' = counted /\ shared' = shared /\ exclusive' = exclusive /\ pending' = pending
  BY DEF Decide, txVars
<1>2. ~Answered(r) /\ todo[r][1].do = "decide"
  BY DEF Decide, Doing
<1>3. kind[r] \in Kinds /\ todo[r][1].on = {} /\ kind[r] # "reset"
  <2>1. kind[r] \in Kinds /\ Fits(kind[r], todo[r]) /\ todo[r] # <<>>
    BY <1>2 DEF DevTypes, Answered
  <2>2. QED
    BY <2>1, <1>2, FirstFacts DEF AtStart, AtWork, AtCommit, AtLog, AtEnd
<1>4. CASE GoesOn(r) /\ StatementDone(r) /\ UNCHANGED reply
  <2>1. todo'[r] = Tail(todo[r]) /\ Others(todo', todo, r)
    BY <1>4 DEF StatementDone, DevTypes, Others
  <2>2. Seeds(r) => counted[r] = {}
    BY <1>4 DEF GoesOn, Seeds
  <2>3. reply' = reply
    BY <1>4
  <2>4. OnlyOf(r)
    BY <1>1, <2>1, <2>3 DEF OnlyOf, Others
  <2>5. QED
    BY <1>1, <1>2, <1>3, <2>1, <2>2, <2>3, <2>4 DEF Passes
<1>5. CASE \E status \in EarlyAnswers(r) : EndsWith(r, status)
  <2>1. PICK status \in EarlyAnswers(r) : EndsWith(r, status)
    BY <1>5
  <2>2. status \in Nat
    BY <1>3 DEF EarlyAnswers, Seeds, Kinds
  <2>3. todo'[r] = <<>> /\ Others(todo', todo, r) /\ reply'[r] = status /\ Others(reply', reply, r)
    BY <2>1 DEF EndsWith, DevTypes, Others
  <2>4. OnlyOf(r)
    BY <1>1, <2>3 DEF OnlyOf, Others
  <2>5. QED
    BY <1>1, <1>2, <1>3, <2>2, <2>3, <2>4 DEF Ends
<1>6. QED
  BY <1>4, <1>5 DEF Decide
LEMMA WorkEffect ==
  ASSUME DevTypes, NEW r \in Requests, Read(r) \/ Insert(r) \/ CheckKey(r) \/ Truncate(r)
  PROVE  OnlyOf(r) /\ ((\E t \in Tables : Works(r, t)) \/ Ends(r))
<1> DEFINE w == todo[r]
           verb == w[1].do
<1>1. ~Answered(r) /\ verb \in {"peek", "read", "insert", "key", "truncate"}
  BY DEF Read, Insert, CheckKey, Truncate, Doing
<1>2. \A t \in w[1].on : t \in Tables
  <2>1. w \in Seq(Statements) /\ w # <<>>
    BY <1>1 DEF DevTypes, Answered
  <2>2. Len(w) \in Nat /\ Len(w) >= 1
    BY <2>1, TailOf
  <2>3. 1 \in 1 .. Len(w)
    BY <2>2
  <2>4. w[1].on \in SUBSET Tables
    BY <2>1, <2>3, Typed
  <2>5. QED
    BY <2>4
<1>3. \A t : TableDone(r, t) => todo'[r] = Without(w, t) /\ Others(todo', todo, r)
  BY DEF TableDone, Without, DevTypes, Others
<1>4. CASE Read(r)
  <2>1. PICK t \in w[1].on :
          /\ Gets(r, t)
          /\ counted' = [counted EXCEPT ![r] = @ \cup {row \in stored : row[1] = t}]
          /\ shared' = [shared EXCEPT ![r] = IF Doing(r, "read") THEN @ \cup {t} ELSE @]
          /\ TableDone(r, t)
    BY <1>4 DEF Read
  <2>2. verb \in {"peek", "read"} /\ (Doing(r, "read") <=> verb = "read")
    BY <1>1, <1>4 DEF Read, Doing
  <2>3. stored' = stored /\ kind' = kind /\ exclusive' = exclusive /\ pending' = pending
        /\ reply' = reply /\ joined' = joined
    BY <1>4 DEF Read
  <2>4. /\ counted'[r] = counted[r] \cup {row \in stored : row[1] = t}
        /\ shared'[r] = shared[r] \cup (IF verb = "read" THEN {t} ELSE {})
        /\ Others(counted', counted, r) /\ Others(shared', shared, r)
    BY <2>1, <2>2 DEF DevTypes, Others
  <2>5. OnlyOf(r)
    BY <1>3, <2>1, <2>3, <2>4 DEF OnlyOf, Others
  <2>6. Works(r, t)
    <3> HIDE DEF verb
    <3>1. HoldersOf(r, t) = {} /\ todo'[r] = Without(w, t)
      BY <1>3, <2>1 DEF Gets
    <3>2. QED
      BY <1>1, <2>1, <2>2, <2>3, <2>4, <3>1 DEF Works, verb
  <2>7. QED
    BY <1>2, <2>5, <2>6
<1>5. CASE Insert(r)
  <2>0. verb = "insert" /\ kind' = kind /\ joined' = joined
    BY <1>5 DEF Insert, Doing
  <2>1. PICK t \in w[1].on : Gets(r, t)
          /\ \/ Fails(r)
             \/ /\ Written(r, <<t, r>>)
                /\ shared' = [shared EXCEPT ![r] = @ \cup {t}]
                /\ TableDone(r, t)
                /\ UNCHANGED <<counted, exclusive, reply>>
    BY <1>5 DEF Insert
  <2>2. CASE Fails(r)
    BY <1>1, <2>0, <2>2, FailEnds
  <2>3. CASE /\ Written(r, <<t, r>>)
             /\ shared' = [shared EXCEPT ![r] = @ \cup {t}]
             /\ TableDone(r, t)
             /\ UNCHANGED <<counted, exclusive, reply>>
    <3>1. stored' = stored /\ counted' = counted /\ exclusive' = exclusive /\ reply' = reply
      BY <2>3 DEF Written
    <3>2. /\ pending'[r] = pending[r] \cup {<<t, r>>} /\ Others(pending', pending, r)
          /\ shared'[r] = shared[r] \cup {t} /\ Others(shared', shared, r)
      BY <2>3 DEF Written, DevTypes, Others
    <3>3. OnlyOf(r)
      BY <1>3, <2>0, <2>3, <3>1, <3>2 DEF OnlyOf, Others
    <3>4. Works(r, t)
      <4> HIDE DEF verb
      <4>1. HoldersOf(r, t) = {} /\ todo'[r] = Without(w, t)
        BY <1>3, <2>1, <2>3 DEF Gets
      <4>2. QED
        BY <1>1, <2>0, <2>1, <3>1, <3>2, <4>1 DEF Works, verb
    <3>5. QED
      BY <1>2, <3>3, <3>4
  <2>4. QED
    BY <2>1, <2>2, <2>3
<1>6. CASE CheckKey(r)
  <2>0. verb = "key" /\ kind' = kind /\ joined' = joined
    BY <1>6 DEF CheckKey, Doing
  <2>1. PICK t \in w[1].on : Gets(r, t)
          /\ \/ Fails(r)
             \/ /\ shared' = [shared EXCEPT ![r] = @ \cup {t}]
                /\ TableDone(r, t)
                /\ UNCHANGED <<stored, counted, exclusive, pending, reply>>
    BY <1>6 DEF CheckKey
  <2>2. CASE Fails(r)
    BY <1>1, <2>0, <2>2, FailEnds
  <2>3. CASE /\ shared' = [shared EXCEPT ![r] = @ \cup {t}]
             /\ TableDone(r, t)
             /\ UNCHANGED <<stored, counted, exclusive, pending, reply>>
    <3>1. stored' = stored /\ counted' = counted /\ exclusive' = exclusive /\ pending' = pending /\ reply' = reply
      BY <2>3
    <3>2. shared'[r] = shared[r] \cup {t} /\ Others(shared', shared, r)
      BY <2>3 DEF DevTypes, Others
    <3>3. OnlyOf(r)
      BY <1>3, <2>0, <2>3, <3>1, <3>2 DEF OnlyOf, Others
    <3>4. Works(r, t)
      <4> HIDE DEF verb
      <4>1. HoldersOf(r, t) = {} /\ todo'[r] = Without(w, t)
        BY <1>3, <2>1, <2>3 DEF Gets
      <4>2. QED
        BY <1>1, <2>0, <2>1, <3>1, <3>2, <4>1 DEF Works, verb
    <3>5. QED
      BY <1>2, <3>3, <3>4
  <2>4. QED
    BY <2>1, <2>2, <2>3
<1>7. CASE Truncate(r)
  <2>1. PICK t \in w[1].on :
          /\ Gets(r, t)
          /\ exclusive' = [exclusive EXCEPT ![r] = @ \cup {t}]
          /\ TableDone(r, t)
    BY <1>7 DEF Truncate
  <2>2. /\ verb = "truncate" /\ stored' = stored /\ kind' = kind /\ counted' = counted /\ shared' = shared
        /\ pending' = pending /\ reply' = reply /\ joined' = joined
    BY <1>7 DEF Truncate, Doing
  <2>3. exclusive'[r] = exclusive[r] \cup {t} /\ Others(exclusive', exclusive, r)
    BY <2>1 DEF DevTypes, Others
  <2>4. OnlyOf(r)
    BY <1>3, <2>1, <2>2, <2>3 DEF OnlyOf, Others
  <2>5. Works(r, t)
    <3> HIDE DEF verb
    <3>1. HoldersOf(r, t) = {} /\ todo'[r] = Without(w, t)
      BY <1>3, <2>1 DEF Gets
    <3>2. QED
      BY <1>1, <2>1, <2>2, <2>3, <3>1 DEF Works, verb
  <2>6. QED
    BY <1>2, <2>4, <2>5
<1>8. QED
  BY <1>4, <1>5, <1>6, <1>7

LEMMA CommitEffect ==
  ASSUME DevTypes, NEW r \in Requests, Commit(r)
  PROVE  OnlyOf(r) /\ Commits(r)
<1>1. ~Answered(r) /\ todo[r][1].do = "commit"
  BY DEF Commit, Doing
<1>2. /\ todo'[r] = Tail(todo[r]) /\ Others(todo', todo, r)
      /\ reply'[r] = (IF Len(todo[r]) = 1 THEN 200 ELSE 0) /\ Others(reply', reply, r)
  BY DEF Commit, StatementDone, DevTypes, Others
<1>3. /\ shared'[r] = {} /\ exclusive'[r] = {} /\ pending'[r] = {}
      /\ Others(shared', shared, r) /\ Others(exclusive', exclusive, r) /\ Others(pending', pending, r)
  BY DEF Commit, Released, DevTypes, Others
<1>4. /\ stored' = {row \in stored : row[1] \notin exclusive[r]} \cup pending[r]
      /\ kind' = kind /\ counted' = counted /\ joined' = joined
  BY DEF Commit
<1>5. OnlyOf(r)
  BY <1>2, <1>3, <1>4 DEF OnlyOf, Others
<1>6. QED
  BY <1>1, <1>2, <1>3, <1>4, <1>5 DEF Commits

\* Every step is of one of these kinds.
LEMMA StepEffect ==
  ASSUME DevTypes, Next
  PROVE  \E r \in Requests :
           OnlyOf(r) /\ (Passes(r) \/ (\E t \in Tables : Works(r, t)) \/ Ends(r) \/ Commits(r))
<1>1. PICK r \in Requests : Step(r) \/ Deadlock(r)
  BY DEF Next
<1>2. CASE Deadlock(r)
  <2>1. ~Answered(r)
    BY <1>2 DEF Deadlock, WaitsFor
  <2>2. Fails(r) /\ UNCHANGED <<kind, joined>>
    BY <1>2 DEF Deadlock
  <2>3. QED
    BY <2>1, <2>2, FailEnds
<1>3. CASE Step(r)
  BY <1>3, StartPasses, DecideEffect, WorkEffect, CommitEffect DEF Step
<1>4. QED
  BY <1>1, <1>2, <1>3
-----------------------------------------------------------------------------
(* The types.                                                              *)

Keyed(x) == x = [s \in Requests |-> x[s]]
AllKeyed ==
    /\ Keyed(todo) /\ Keyed(counted) /\ Keyed(shared) /\ Keyed(exclusive) /\ Keyed(pending)
    /\ Keyed(reply)

LEMMA ExceptKeyed ==
  ASSUME NEW x, Keyed(x), NEW r, NEW e
  PROVE  Keyed([x EXCEPT ![r] = e])
BY DEF Keyed

LEMMA KeyedKept ==
  ASSUME DevTypes, Next
  PROVE  AllKeyed'
<1>1. AllKeyed
  BY DEF AllKeyed, Keyed, DevTypes
<1>2. PICK r \in Requests : Step(r) \/ Deadlock(r)
  BY DEF Next
<1>3. \A e : /\ Keyed([todo EXCEPT ![r] = e]) /\ Keyed([counted EXCEPT ![r] = e])
             /\ Keyed([shared EXCEPT ![r] = e]) /\ Keyed([exclusive EXCEPT ![r] = e])
             /\ Keyed([pending EXCEPT ![r] = e]) /\ Keyed([reply EXCEPT ![r] = e])
  BY <1>1, ExceptKeyed DEF AllKeyed
<1>4. \A status : EndsWith(r, status) => Keyed(todo)' /\ Keyed(reply)'
  <2>1. ASSUME NEW status, EndsWith(r, status) PROVE Keyed(todo)' /\ Keyed(reply)'
    <3>1. todo' = [todo EXCEPT ![r] = <<>>] /\ reply' = [reply EXCEPT ![r] = status]
      BY <2>1 DEF EndsWith
    <3>2. Keyed([todo EXCEPT ![r] = <<>>]) /\ Keyed([reply EXCEPT ![r] = status])
      BY <1>3
    <3>3. QED
      BY <3>1, <3>2
  <2>2. QED
    BY <2>1
<1>5. StatementDone(r) => Keyed(todo)'
  <2>1. ASSUME StatementDone(r) PROVE Keyed(todo)'
    <3>1. todo' = [todo EXCEPT ![r] = Tail(@)]
      BY <2>1 DEF StatementDone
    <3>2. QED
      BY <1>1, <3>1 DEF Keyed, AllKeyed
  <2>2. QED
    BY <2>1
<1>6. \A t : TableDone(r, t) => Keyed(todo)'
  <2>1. ASSUME NEW t, TableDone(r, t) PROVE Keyed(todo)'
    <3>1. PICK e : todo' = [todo EXCEPT ![r] = e]
      BY <2>1 DEF TableDone
    <3>2. QED
      BY <1>3, <3>1
  <2>2. QED
    BY <2>1
<1>7. Released(r) => Keyed(shared)' /\ Keyed(exclusive)' /\ Keyed(pending)'
  <2>1. ASSUME Released(r) PROVE Keyed(shared)' /\ Keyed(exclusive)' /\ Keyed(pending)'
    <3>1. /\ shared' = [shared EXCEPT ![r] = {}] /\ exclusive' = [exclusive EXCEPT ![r] = {}]
          /\ pending' = [pending EXCEPT ![r] = {}]
      BY <2>1 DEF Released
    <3>2. QED
      BY <1>3, <3>1
  <2>2. QED
    BY <2>1
<1>8. Fails(r) => AllKeyed'
  BY <1>1, <1>4, <1>7 DEF Fails, AllKeyed
<1>9. CASE Start(r)
  BY <1>1, <1>5, <1>9 DEF Start, txVars, AllKeyed
<1>10. CASE Decide(r)
  BY <1>1, <1>4, <1>5, <1>10 DEF Decide, txVars, AllKeyed
<1>11. CASE Read(r)
  <2>1. PICK t \in todo[r][1].on :
          /\ counted' = [counted EXCEPT ![r] = @ \cup {row \in stored : row[1] = t}]
          /\ shared' = [shared EXCEPT ![r] = IF Doing(r, "read") THEN @ \cup {t} ELSE @]
          /\ TableDone(r, t)
    BY <1>11 DEF Read
  <2>2. exclusive' = exclusive /\ pending' = pending /\ reply' = reply
    BY <1>11 DEF Read
  <2>3. Keyed(counted)' /\ Keyed(shared)'
    BY <1>3, <2>1
  <2>4. QED
    BY <1>1, <1>6, <2>1, <2>2, <2>3 DEF AllKeyed
<1>12. CASE Insert(r)
  <2>1. PICK t \in todo[r][1].on :
             \/ Fails(r)
             \/ /\ Written(r, <<t, r>>)
                /\ shared' = [shared EXCEPT ![r] = @ \cup {t}]
                /\ TableDone(r, t)
                /\ UNCHANGED <<counted, exclusive, reply>>
    BY <1>12 DEF Insert
  <2>2. ASSUME ~Fails(r) PROVE AllKeyed'
    <3>1. pending' = [pending EXCEPT ![r] = @ \cup {<<t, r>>}] /\ shared' = [shared EXCEPT ![r] = @ \cup {t}]
          /\ counted' = counted /\ exclusive' = exclusive /\ reply' = reply /\ TableDone(r, t)
      BY <2>1, <2>2 DEF Written
    <3>2. Keyed(pending)' /\ Keyed(shared)'
      BY <1>3, <3>1
    <3>3. QED
      BY <1>1, <1>6, <3>1, <3>2 DEF AllKeyed
  <2>3. QED
    BY <1>8, <2>2
<1>13. CASE CheckKey(r)
  <2>1. PICK t \in todo[r][1].on :
             \/ Fails(r)
             \/ /\ shared' = [shared EXCEPT ![r] = @ \cup {t}]
                /\ TableDone(r, t)
                /\ UNCHANGED <<stored, counted, exclusive, pending, reply>>
    BY <1>13 DEF CheckKey
  <2>2. ASSUME ~Fails(r) PROVE AllKeyed'
    <3>1. pending' = pending /\ shared' = [shared EXCEPT ![r] = @ \cup {t}]
          /\ counted' = counted /\ exclusive' = exclusive /\ reply' = reply /\ TableDone(r, t)
      BY <2>1, <2>2
    <3>2. Keyed(shared)'
      BY <1>3, <3>1
    <3>3. QED
      BY <1>1, <1>6, <3>1, <3>2 DEF AllKeyed
  <2>3. QED
    BY <1>8, <2>2
<1>14. CASE Truncate(r)
  <2>1. PICK t \in todo[r][1].on :
          exclusive' = [exclusive EXCEPT ![r] = @ \cup {t}] /\ TableDone(r, t)
    BY <1>14 DEF Truncate
  <2>2. counted' = counted /\ shared' = shared /\ pending' = pending /\ reply' = reply
    BY <1>14 DEF Truncate
  <2>3. Keyed(exclusive)'
    BY <1>3, <2>1
  <2>4. QED
    BY <1>1, <1>6, <2>1, <2>2, <2>3 DEF AllKeyed
<1>15. CASE Commit(r)
  <2>1. /\ Released(r) /\ StatementDone(r) /\ counted' = counted
        /\ reply' = [reply EXCEPT ![r] = IF Len(todo[r]) = 1 THEN 200 ELSE 0]
    BY <1>15 DEF Commit
  <2>2. Keyed(reply)'
    BY <1>3, <2>1
  <2>3. QED
    BY <1>1, <1>5, <1>7, <2>1, <2>2 DEF AllKeyed
<1>16. CASE Deadlock(r)
  BY <1>8, <1>16 DEF Deadlock
<1>17. QED
  BY <1>2, <1>9, <1>10, <1>11, <1>12, <1>13, <1>14, <1>15, <1>16 DEF Step

LEMMA FitsSeq ==
  ASSUME NEW k \in Kinds, NEW w, Fits(k, w)
  PROVE  w \in Seq(Statements)
BY DEF Fits, Rest

LEMMA EmptyFits ==
  ASSUME NEW k \in Kinds
  PROVE  Fits(k, <<>>) /\ ~Own(k, <<>>)
<1>1. Program(k) \in Seq(Statements) /\ Len(Program(k)) \in Nat /\ Len(LogStatements(k)) \in Nat
  BY ProgramFacts, LogFacts DEF ProgramMeans
<1>2. Len(<<>>) = 0 /\ <<>> \in Seq(Statements) /\ \A i \in 1 .. 0 : FALSE
  OBVIOUS
<1> HIDE DEF Statements
<1>3. Rest(Program(k), <<>>, Len(Program(k)))
  BY <1>1, <1>2 DEF Rest
<1>4. QED
  BY <1>1, <1>2, <1>3 DEF Fits, Own

LEMMA TypesKept ==
  ASSUME DevTypes, Next
  PROVE  DevTypes'
<1>1. AllKeyed'
  BY KeyedKept
<1>2. PICK r \in Requests :
        OnlyOf(r) /\ (Passes(r) \/ (\E t \in Tables : Works(r, t)) \/ Ends(r) \/ Commits(r))
  BY StepEffect
<1> DEFINE k == kind[r]
           w == todo[r]
<1>3. k \in Kinds /\ Fits(k, w) /\ (~Answered(r) <=> w # <<>>)
  BY DEF DevTypes, Answered
<1>4. Fits(k, todo'[r])
  <2>1. CASE Passes(r)
    BY <1>3, <2>1, StatementDrops DEF Passes
  <2>2. ASSUME NEW t \in Tables, Works(r, t) PROVE Fits(k, todo'[r])
    BY <1>3, <2>2, TableDrops DEF Works
  <2>3. CASE Ends(r)
    BY <1>3, <2>3, EmptyFits DEF Ends
  <2>4. CASE Commits(r)
    <3>1. w[1].on = {}
      BY <1>3, <2>4, FirstFacts DEF Commits, AtStart, AtWork, AtCommit, AtLog, AtEnd
    <3>2. QED
      BY <1>3, <2>4, <3>1, StatementDrops DEF Commits
  <2>5. QED
    BY <1>2, <2>1, <2>2, <2>3, <2>4
<1>5. kind' = kind /\ \A s \in Requests : Fits(kind[s], todo'[s])
  BY <1>2, <1>4 DEF OnlyOf, Others, DevTypes
<1>6. \A s \in Requests : todo'[s] \in Seq(Statements)
  <2>1. \A s \in Requests : kind[s] \in Kinds
    BY DEF DevTypes
  <2>2. QED
    BY <1>5, <2>1, FitsSeq
<1>7. \A t \in Tables : {row \in stored : row[1] = t} \subseteq Rows /\ <<t, r>> \in Rows
  BY DEF DevTypes, Rows
<1>8. /\ stored' \subseteq Rows /\ counted'[r] \subseteq Rows /\ shared'[r] \subseteq Tables
      /\ exclusive'[r] \subseteq Tables /\ pending'[r] \subseteq Rows /\ reply'[r] \in Nat
  <2>0. /\ stored \subseteq Rows /\ counted[r] \subseteq Rows /\ shared[r] \subseteq Tables
        /\ exclusive[r] \subseteq Tables /\ pending[r] \subseteq Rows /\ reply[r] \in Nat
    BY DEF DevTypes
  <2>1. CASE Passes(r)
    BY <2>0, <2>1 DEF Passes, txVars
  <2>2. ASSUME NEW t \in Tables, Works(r, t)
        PROVE  /\ stored' \subseteq Rows /\ counted'[r] \subseteq Rows /\ shared'[r] \subseteq Tables
               /\ exclusive'[r] \subseteq Tables /\ pending'[r] \subseteq Rows /\ reply'[r] \in Nat
    BY <1>7, <2>0, <2>2 DEF Works
  <2>3. CASE Ends(r)
    BY <2>0, <2>3 DEF Ends
  <2>4. CASE Commits(r)
    BY <2>0, <2>4 DEF Commits
  <2>5. QED
    BY <1>2, <2>1, <2>2, <2>3, <2>4
<1>9. \A s \in Requests :
        /\ counted'[s] \in SUBSET Rows /\ shared'[s] \in SUBSET Tables
        /\ exclusive'[s] \in SUBSET Tables /\ pending'[s] \in SUBSET Rows /\ reply'[s] \in Nat
  BY <1>2, <1>8 DEF OnlyOf, Others, DevTypes
<1> HIDE DEF k, w
<1>10. /\ todo' \in [Requests -> Seq(Statements)] /\ counted' \in [Requests -> SUBSET Rows]
       /\ shared' \in [Requests -> SUBSET Tables] /\ exclusive' \in [Requests -> SUBSET Tables]
       /\ pending' \in [Requests -> SUBSET Rows] /\ reply' \in [Requests -> Nat]
  <2>1. todo' = [s \in Requests |-> todo'[s]]
    BY <1>1 DEF AllKeyed, Keyed
  <2>2. counted' = [s \in Requests |-> counted'[s]]
    BY <1>1 DEF AllKeyed, Keyed
  <2>3. shared' = [s \in Requests |-> shared'[s]]
    BY <1>1 DEF AllKeyed, Keyed
  <2>4. exclusive' = [s \in Requests |-> exclusive'[s]]
    BY <1>1 DEF AllKeyed, Keyed
  <2>5. pending' = [s \in Requests |-> pending'[s]]
    BY <1>1 DEF AllKeyed, Keyed
  <2>6. reply' = [s \in Requests |-> reply'[s]]
    BY <1>1 DEF AllKeyed, Keyed
  <2> HIDE DEF Statements, Rows, Tables
  <2>7. QED
    BY <1>6, <1>9, <2>1, <2>2, <2>3, <2>4, <2>5, <2>6
<1>11. kind' \in [Requests -> Kinds]
  BY <1>5 DEF DevTypes
<1>12. QED
  BY <1>5, <1>8, <1>10, <1>11 DEF DevTypes
-----------------------------------------------------------------------------
(* What each kind of step says of the request that takes it.               *)

Moves(r) ==
    OnlyOf(r) /\ (Passes(r) \/ (\E t \in Tables : Works(r, t)) \/ Ends(r) \/ Commits(r))

LEMMA Same ==
  ASSUME NEW r \in Requests, OnlyOf(r), NEW s \in Requests, s # r
  PROVE  /\ kind'[s] = kind[s] /\ todo'[s] = todo[s] /\ counted'[s] = counted[s] /\ shared'[s] = shared[s]
         /\ exclusive'[s] = exclusive[s] /\ pending'[s] = pending[s] /\ reply'[s] = reply[s]
         /\ (Mine(s)' <=> Mine(s)) /\ (Answered(s)' <=> Answered(s)) /\ (Past(s)' <=> Past(s))
         /\ (InFlight(s)' <=> InFlight(s)) /\ (Seeds(s)' <=> Seeds(s))
<1>1. /\ kind' = kind /\ todo'[s] = todo[s] /\ counted'[s] = counted[s] /\ shared'[s] = shared[s]
      /\ exclusive'[s] = exclusive[s] /\ pending'[s] = pending[s] /\ reply'[s] = reply[s]
  BY DEF OnlyOf, Others
<1>2. (Mine(s)' <=> Mine(s)) /\ (Answered(s)' <=> Answered(s)) /\ (Seeds(s)' <=> Seeds(s))
  BY <1>1 DEF Mine, Answered, Seeds
<1>3. Past(s)' <=> Past(s)
  BY <1>1, <1>2 DEF Past
<1>4. InFlight(s)' <=> InFlight(s)
  BY <1>1, <1>2 DEF InFlight, Doing
<1>5. QED
  BY <1>1, <1>2, <1>3, <1>4

LEMMA PassFacts ==
  ASSUME DevTypes, NEW r \in Requests, OnlyOf(r), Passes(r)
  PROVE  /\ Mine(r) /\ Mine(r)' /\ ~Answered(r)'
         /\ \A verb : Of(todo[r], verb) = Of(todo'[r], verb)
         /\ todo[r][1].do = "decide" => kind[r] # "reset"
         /\ todo[r][1].do = "start" /\ Seeds(r) =>
              {"Users", "Groups"} \subseteq Of(todo[r], "peek") /\ Undecided(todo'[r])
<1> DEFINE k == kind[r]
           w == todo[r]
<1>1. k \in Kinds /\ Fits(k, w) /\ w # <<>> /\ w[1].on = {} /\ w[1].do \in {"start", "decide"}
      /\ todo'[r] = Tail(w) /\ kind' = kind
  BY DEF DevTypes, Answered, Passes, OnlyOf
<1>2. AtStart(k, w) \/ AtWork(k, w)
  BY <1>1, FirstFacts DEF AtCommit, AtLog, AtEnd
<1>3. Own(k, w) /\ Own(k, Tail(w))
  BY <1>1, <1>2 DEF AtStart, AtWork
<1>4. Tail(w) # <<>>
  BY <1>1, <1>3, EmptyFits
<1>5. (w[1].do = "decide" => k # "reset")
      /\ (w[1].do = "start" /\ k \in {"seed", "seedGroups"} =>
            {"Users", "Groups"} \subseteq Of(w, "peek") /\ Undecided(w))
  BY <1>2 DEF AtStart, AtWork
<1>6. /\ \A verb : Of(w, verb) = Of(Tail(w), verb)
      /\ Undecided(w) /\ w[1].do # "decide" => Undecided(Tail(w))
  BY <1>1, StatementDrops
<1>7. Mine(r) /\ Mine(r)' /\ ~Answered(r)'
  BY <1>1, <1>3, <1>4 DEF Mine, Answered
<1>8. QED
  BY <1>1, <1>5, <1>6, <1>7 DEF Seeds

LEMMA WorkFacts ==
  ASSUME DevTypes, NEW r \in Requests, OnlyOf(r), NEW t \in Tables, Works(r, t),
         NEW verb, verb = todo[r][1].do
  PROVE  /\ (Mine(r)' <=> Mine(r)) /\ ~Answered(r) /\ ~Answered(r)' /\ InFlight(r)
         /\ \A v : Of(todo[r], v) \ {t} \subseteq Of(todo'[r], v)
         /\ \A v : v # verb => Of(todo[r], v) \subseteq Of(todo'[r], v)
         /\ Undecided(todo[r]) => Undecided(todo'[r])
         /\ verb \in {"peek", "read", "truncate"} => Mine(r)
         /\ verb \in {"truncate", "read"} => kind[r] = "reset"
         /\ verb = "peek" => kind[r] # "reset" /\ (Seeds(r) => Undecided(todo[r]))
         /\ verb = "insert" => IF Mine(r) THEN t \in Writes[kind[r]] /\ kind[r] # "reset"
                                          ELSE t = "LogEvents"
<1> DEFINE k == kind[r]
           w == todo[r]
<1>1. k \in Kinds /\ Fits(k, w) /\ w # <<>> /\ t \in w[1].on /\ verb \in {"peek", "read", "insert", "key", "truncate"}
      /\ todo'[r] = Without(w, t) /\ kind' = kind
  BY DEF DevTypes, Answered, Works, OnlyOf
<1>2. AtWork(k, w) \/ AtLog(k, w)
  BY <1>1, FirstFacts DEF AtStart, AtCommit, AtEnd
<1>3. (Own(k, Without(w, t)) <=> Own(k, w)) /\ Without(w, t) # <<>>
  BY <1>1, OwnKept
<1>4. (Mine(r)' <=> Mine(r)) /\ ~Answered(r) /\ ~Answered(r)' /\ (Mine(r) <=> Own(k, w))
  BY <1>1, <1>3 DEF Mine, Answered
<1>5. InFlight(r)
  BY <1>1, <1>4 DEF InFlight, Doing
<1>6. /\ \A v : Of(w, v) \ {t} \subseteq Of(todo'[r], v)
      /\ \A v : v # w[1].do => Of(w, v) \subseteq Of(todo'[r], v)
      /\ Undecided(w) /\ w[1].do # "decide" => Undecided(todo'[r])
  BY <1>1, TableDrops
<1>7. /\ verb \in {"peek", "read", "truncate"} => Own(k, w)
      /\ verb \in {"truncate", "read"} => k = "reset"
      /\ verb = "peek" => k # "reset" /\ (k \in {"seed", "seedGroups"} => Undecided(w))
      /\ verb = "insert" => IF Own(k, w) THEN t \in Writes[k] /\ k # "reset" ELSE t = "LogEvents"
  BY <1>1, <1>2 DEF AtWork, AtLog
<1>8. QED
  BY <1>1, <1>4, <1>5, <1>6, <1>7 DEF Seeds

LEMMA EndFacts ==
  ASSUME DevTypes, NEW r \in Requests, OnlyOf(r), Ends(r)
  PROVE  ~Mine(r)' /\ Answered(r)' /\ ~InFlight(r)'
<1>1. kind[r] \in Kinds /\ kind' = kind /\ todo'[r] = <<>>
  BY DEF DevTypes, OnlyOf, Ends
<1>2. QED
  BY <1>1, EmptyFits DEF Mine, Answered, InFlight

LEMMA CommitFacts ==
  ASSUME DevTypes, NEW r \in Requests, OnlyOf(r), Commits(r)
  PROVE  /\ ~Mine(r)' /\ InFlight(r)
         /\ Mine(r) => /\ Of(todo[r], "truncate") = {} /\ Of(todo[r], "peek") = {}
                       /\ Of(todo[r], "insert") \subseteq {"LogEvents"}
                       /\ ~Undecided(todo[r]) /\ ~Answered(r)' /\ Len(todo[r]) # 1
         /\ ~Mine(r) => Answered(r)'
<1> DEFINE k == kind[r]
           w == todo[r]
<1>1. k \in Kinds /\ Fits(k, w) /\ w # <<>> /\ w[1].do = "commit" /\ todo'[r] = Tail(w) /\ kind' = kind
  BY DEF DevTypes, Answered, Commits, OnlyOf
<1>2. AtCommit(k, w) \/ AtEnd(k, w)
  BY <1>1, FirstFacts DEF AtStart, AtWork, AtLog
<1>3. ~Own(k, Tail(w))
  BY <1>1, <1>2, EmptyFits DEF AtCommit, AtEnd
<1>4. InFlight(r)
  BY <1>1 DEF InFlight, Answered, Doing
<1>5. CASE AtCommit(k, w)
  BY <1>1, <1>3, <1>4, <1>5 DEF AtCommit, Mine, Answered
<1>6. CASE AtEnd(k, w)
  BY <1>1, <1>3, <1>4, <1>6 DEF AtEnd, Mine, Answered
<1>7. QED
  BY <1>2, <1>5, <1>6

\* Nobody goes back, and a reset is past its transaction by committing it.
LEMMA Backwards ==
  ASSUME DevTypes, NEW r \in Requests, Moves(r), NEW s \in Requests
  PROVE  /\ Mine(s)' => Mine(s)
         /\ ~Answered(s)' => ~Answered(s)
         /\ Past(s)' => Past(s) \/ (s = r /\ Commits(r) /\ Mine(r))
         /\ InFlight(s)' => InFlight(s) \/ (s = r /\ Passes(r) /\ todo[r][1].do = "start")
         /\ kind' = kind
<1>0. OnlyOf(r) /\ kind' = kind
  BY DEF Moves, OnlyOf
<1>1. CASE s # r
  BY <1>0, <1>1, Same
<1>2. CASE s = r /\ Passes(r)
  <2>1. Mine(r) /\ Mine(r)' /\ ~Answered(r) /\ ~Past(r)'
    BY <1>0, <1>2, PassFacts DEF Passes, Past
  <2>2. todo[r][1].do # "start" => InFlight(r)
    BY <2>1 DEF InFlight, Doing
  <2>3. QED
    BY <1>0, <1>2, <2>1, <2>2
<1>3. ASSUME s = r, NEW t \in Tables, Works(r, t)
      PROVE  (Mine(s)' => Mine(s)) /\ ~Answered(s) /\ (Past(s)' => Past(s)) /\ InFlight(s)
  <2>1. (Mine(r)' <=> Mine(r)) /\ ~Answered(r) /\ ~Answered(r)' /\ InFlight(r)
    BY <1>0, <1>3, WorkFacts
  <2>2. QED
    BY <1>0, <1>3, <2>1 DEF Past
<1>4. CASE s = r /\ Ends(r)
  <2>1. ~Mine(r)' /\ Answered(r)' /\ ~InFlight(r)' /\ ~Answered(r)
    BY <1>0, <1>4, EndFacts DEF Ends
  <2>2. Past(r)' => Past(r)
    BY <1>0, <1>4, <2>1 DEF Past, Ends
  <2>3. QED
    BY <1>0, <1>4, <2>1, <2>2
<1>5. CASE s = r /\ Commits(r)
  <2>1. ~Mine(r)' /\ InFlight(r) /\ ~Answered(r)
    BY <1>0, <1>5, CommitFacts DEF Commits
  <2>2. QED
    BY <1>0, <1>5, <2>1 DEF Past
<1>6. QED
  BY <1>0, <1>1, <1>2, <1>3, <1>4, <1>5 DEF Moves
-----------------------------------------------------------------------------
(* The parts of the invariant.                                             *)

LEMMA InsertsKept ==
  ASSUME DevInv, NEW r \in Requests, Moves(r), NEW s \in Requests
  PROVE  Inserts(s)'
<1>0. DevTypes /\ OnlyOf(r) /\ kind' = kind /\ Inserts(s) /\ kind[r] \in Kinds
  BY DEF DevInv, Moves, OnlyOf, DevTypes
<1>1. CASE s # r
  BY <1>0, <1>1, Same DEF Inserts
<1>2. CASE s = r /\ Passes(r)
  <2>1. /\ Mine(r) /\ Mine(r)' /\ ~Answered(r)' /\ \A verb : Of(todo[r], verb) = Of(todo'[r], verb)
        /\ pending' = pending
    BY <1>0, <1>2, PassFacts DEF Passes, txVars
  <2>2. QED
    BY <1>0, <1>2, <2>1 DEF Inserts
<1>3. ASSUME s = r, NEW t \in Tables, Works(r, t)
      PROVE  Inserts(s)'
  <2> DEFINE verb == todo[r][1].do
  <2>1. /\ (Mine(r)' <=> Mine(r)) /\ ~Answered(r)
        /\ \A v : Of(todo[r], v) \ {t} \subseteq Of(todo'[r], v)
        /\ \A v : v # verb => Of(todo[r], v) \subseteq Of(todo'[r], v)
        /\ verb = "insert" => IF Mine(r) THEN t \in Writes[kind[r]] ELSE t = "LogEvents"
    BY <1>0, <1>3, WorkFacts
  <2>2. pending'[r] = pending[r] \cup (IF verb = "insert" THEN {<<t, r>>} ELSE {})
    BY <1>3 DEF Works
  <2> HIDE DEF verb
  <2>3. ASSUME Mine(r), NEW u \in Writes[kind[r]] PROVE u \in Of(todo'[r], "insert") \/ <<u, r>> \in pending'[r]
    <3>1. u \in Of(todo[r], "insert") \/ <<u, r>> \in pending[r]
      BY <1>0, <1>3, <2>3 DEF Inserts
    <3>2. CASE verb = "insert" /\ u = t
      BY <2>2, <3>2
    <3>3. CASE verb # "insert" \/ u # t
      BY <2>1, <2>2, <3>1, <3>3
    <3>4. QED
      BY <3>2, <3>3
  <2>4. ASSUME Mine(r), NEW row \in pending'[r] PROVE row[2] = r /\ row[1] \in Writes[kind[r]]
    BY <1>0, <1>3, <2>1, <2>2, <2>4 DEF Inserts
  <2>5. ASSUME ~Mine(r), NEW row \in pending'[r] PROVE row = <<"LogEvents", r>>
    BY <1>0, <1>3, <2>1, <2>2, <2>5 DEF Inserts
  <2>6. QED
    BY <1>0, <1>3, <2>1, <2>3, <2>4, <2>5 DEF Inserts
<1>4. CASE s = r /\ Ends(r)
  BY <1>0, <1>4, EndFacts DEF Inserts
<1>5. CASE s = r /\ Commits(r)
  <2>1. ~Mine(r)' /\ pending'[r] = {}
    BY <1>0, <1>5, CommitFacts DEF Commits
  <2>2. QED
    BY <1>5, <2>1 DEF Inserts
<1>6. QED
  BY <1>1, <1>2, <1>3, <1>4, <1>5 DEF Moves

LEMMA TruncatesKept ==
  ASSUME DevInv, NEW r \in Requests, Moves(r), NEW s \in Requests
  PROVE  Truncates(s)'
<1>0. DevTypes /\ OnlyOf(r) /\ kind' = kind /\ Truncates(s)
  BY DEF DevInv, Moves, OnlyOf
<1>1. CASE s # r
  BY <1>0, <1>1, Same DEF Truncates
<1>2. CASE s = r /\ Passes(r)
  <2>1. /\ Mine(r) /\ Mine(r)' /\ \A verb : Of(todo[r], verb) = Of(todo'[r], verb)
        /\ exclusive' = exclusive
    BY <1>0, <1>2, PassFacts DEF Passes, txVars
  <2>2. QED
    BY <1>0, <1>2, <2>1 DEF Truncates
<1>3. ASSUME s = r, NEW t \in Tables, Works(r, t)
      PROVE  Truncates(s)'
  <2> DEFINE verb == todo[r][1].do
  <2>1. /\ (Mine(r)' <=> Mine(r))
        /\ \A v : Of(todo[r], v) \ {t} \subseteq Of(todo'[r], v)
        /\ \A v : v # verb => Of(todo[r], v) \subseteq Of(todo'[r], v)
        /\ verb = "truncate" => Mine(r) /\ kind[r] = "reset"
    BY <1>0, <1>3, WorkFacts
  <2>2. exclusive'[r] = exclusive[r] \cup (IF verb = "truncate" THEN {t} ELSE {})
    BY <1>3 DEF Works
  <2> HIDE DEF verb
  <2>3. ASSUME kind[r] = "reset", Mine(r), NEW u \in Tables
        PROVE  u \in Of(todo'[r], "truncate") \/ u \in exclusive'[r]
    <3>1. u \in Of(todo[r], "truncate") \/ u \in exclusive[r]
      BY <1>0, <1>3, <2>3 DEF Truncates
    <3>2. CASE verb = "truncate" /\ u = t
      BY <2>2, <3>2
    <3>3. CASE verb # "truncate" \/ u # t
      BY <2>1, <2>2, <3>1, <3>3
    <3>4. QED
      BY <3>2, <3>3
  <2>4. ASSUME ~(kind[r] = "reset" /\ Mine(r)) PROVE exclusive'[r] = {}
    BY <1>0, <1>3, <2>1, <2>2, <2>4 DEF Truncates
  <2>5. QED
    BY <1>0, <1>3, <2>1, <2>3, <2>4 DEF Truncates
<1>4. CASE s = r /\ Ends(r)
  <2>1. ~Mine(r)'
    BY <1>0, <1>4, EndFacts
  <2>2. exclusive'[r] = {}
    BY <1>0, <1>4 DEF Ends, Truncates
  <2>3. QED
    BY <1>4, <2>1, <2>2 DEF Truncates
<1>5. CASE s = r /\ Commits(r)
  <2>1. ~Mine(r)' /\ exclusive'[r] = {}
    BY <1>0, <1>5, CommitFacts DEF Commits
  <2>2. QED
    BY <1>5, <2>1 DEF Truncates
<1>6. QED
  BY <1>1, <1>2, <1>3, <1>4, <1>5 DEF Moves

LEMMA CompatibleKept ==
  ASSUME DevInv, NEW r \in Requests, Moves(r), NEW x \in Requests, NEW y \in Requests
  PROVE  Compatible(x, y)'
<1>0. DevTypes /\ OnlyOf(r) /\ Compatible(x, y)
  BY DEF DevInv, Moves
<1>1. CASE ~\E t \in Tables : Works(r, t)
  <2>1. /\ shared'[r] \subseteq shared[r] /\ exclusive'[r] \subseteq exclusive[r]
    BY <1>1 DEF Moves, Passes, Ends, Commits, txVars
  <2>2. \A s \in Requests : shared'[s] \subseteq shared[s] /\ exclusive'[s] \subseteq exclusive[s]
    BY <1>0, <2>1 DEF OnlyOf, Others
  <2>3. QED
    BY <1>0, <2>2 DEF Compatible
<1>2. ASSUME NEW t \in Tables, Works(r, t), x # y
      PROVE  exclusive'[x] \cap (shared'[y] \cup exclusive'[y]) = {}
  <2> DEFINE verb == todo[r][1].do
  <2>1. /\ shared'[r] = shared[r] \cup (IF verb \in {"read", "insert", "key"} THEN {t} ELSE {})
        /\ exclusive'[r] = exclusive[r] \cup (IF verb = "truncate" THEN {t} ELSE {})
        /\ HoldersOf(r, t) = {} /\ ~Answered(r)
    BY <1>2 DEF Works
  <2>2. \A s \in Requests : s # r => shared'[s] = shared[s] /\ exclusive'[s] = exclusive[s]
    BY <1>0 DEF OnlyOf, Others
  <2>3. \A s \in Requests : s # r => t \notin exclusive[s] /\ (verb = "truncate" => t \notin shared[s])
    BY <2>1 DEF HoldersOf, Doing
  <2>4. exclusive[x] \cap (shared[y] \cup exclusive[y]) = {}
    BY <1>0, <1>2 DEF Compatible
  <2> HIDE DEF verb
  <2>5. CASE x = r
    <3>1. shared'[y] = shared[y] /\ exclusive'[y] = exclusive[y]
      BY <1>2, <2>2, <2>5
    <3>2. exclusive'[x] \subseteq exclusive[x] \cup (IF verb = "truncate" THEN {t} ELSE {})
      BY <2>1, <2>5
    <3>3. t \notin exclusive[y] /\ (verb = "truncate" => t \notin shared[y])
      BY <1>2, <2>3, <2>5
    <3>4. QED
      BY <2>4, <3>1, <3>2, <3>3
  <2>6. CASE y = r
    <3>1. exclusive'[x] = exclusive[x] /\ t \notin exclusive[x]
      BY <1>2, <2>2, <2>3, <2>6
    <3>2. shared'[y] \cup exclusive'[y] \subseteq shared[y] \cup exclusive[y] \cup {t}
      BY <2>1, <2>6
    <3>3. QED
      BY <2>4, <3>1, <3>2
  <2>7. CASE x # r /\ y # r
    BY <2>2, <2>4, <2>7
  <2>8. QED
    BY <2>5, <2>6, <2>7
<1>3. QED
  BY <1>1, <1>2 DEF Compatible

\* Where committed rows come from.
LEMMA StoredFrom ==
  ASSUME DevInv, NEW r \in Requests, Moves(r), NEW row \in stored', row \notin stored
  PROVE  /\ Commits(r) /\ row \in pending[r]
         /\ Mine(r) => row[2] = r /\ row[1] \in Writes[kind[r]] /\ row[1] # "LogEvents" /\ kind[r] # "reset"
         /\ ~Mine(r) => row = <<"LogEvents", r>>
<1>0. DevTypes /\ OnlyOf(r) /\ Inserts(r) /\ kind[r] \in Kinds
  BY DEF DevInv, Moves, DevTypes
<1>1. Commits(r) /\ row \in pending[r] /\ ~Answered(r)
  BY DEF Moves, Passes, Works, Ends, Commits
<1>2. Writes["reset"] = {} /\ Writes[kind[r]] \subseteq Tables \ {"LogEvents"}
  BY <1>0, WritesBounds
<1>3. QED
  BY <1>0, <1>1, <1>2 DEF Inserts

LEMMA NotYetKept ==
  ASSUME DevInv, NEW r \in Requests, Moves(r), NEW s \in Requests
  PROVE  NotYet(s)'
<1>0. DevTypes /\ OnlyOf(r) /\ NotYet(s)
  BY DEF DevInv, Moves
<1>1. (Mine(s)' => Mine(s)) /\ (~Answered(s)' => ~Answered(s))
  BY <1>0, Backwards
<1>2. \A x \in Requests : counted'[x] \subseteq counted[x] \cup stored
  <2>1. counted'[r] \subseteq counted[r] \cup stored
    BY DEF Moves, Passes, Works, Ends, Commits, txVars
  <2>2. QED
    BY <1>0, <2>1 DEF OnlyOf, Others
<1>3. ASSUME Mine(s)', NEW t \in Tables PROVE <<t, s>> \notin stored'
  <2>1. <<t, s>> \notin stored
    BY <1>0, <1>1, <1>3 DEF NotYet, Unseen
  <2>2. SUFFICES ASSUME <<t, s>> \in stored' PROVE FALSE
    OBVIOUS
  <2>3. Commits(r) /\ s = r
    <3>1. /\ Commits(r)
          /\ Mine(r) => <<t, s>>[2] = r
          /\ ~Mine(r) => <<t, s>> = <<"LogEvents", r>>
      BY <2>1, <2>2, StoredFrom
    <3>2. QED
      BY <3>1
  <2>4. ~Mine(r)'
    BY <1>0, <2>3, CommitFacts
  <2>5. QED
    BY <1>3, <2>3, <2>4
<1>4. ASSUME ~Answered(s)' PROVE <<"LogEvents", s>> \notin stored'
  <2>1. <<"LogEvents", s>> \notin stored
    BY <1>0, <1>1, <1>4 DEF NotYet, Unseen
  <2>2. SUFFICES ASSUME <<"LogEvents", s>> \in stored' PROVE FALSE
    OBVIOUS
  <2>3. /\ Commits(r)
        /\ Mine(r) => <<"LogEvents", s>>[1] # "LogEvents"
        /\ ~Mine(r) => <<"LogEvents", s>> = <<"LogEvents", r>>
    BY <2>1, <2>2, StoredFrom
  <2>4. ~Mine(r) /\ s = r
    BY <2>3
  <2>5. Answered(r)'
    BY <1>0, <2>3, <2>4, CommitFacts
  <2>6. QED
    BY <1>4, <2>4, <2>5
<1>5. \A row : row \notin stored' /\ Unseen(counted, row) => Unseen(counted, row)'
  BY <1>2 DEF Unseen
<1>6. ASSUME Mine(s)', NEW t \in Tables PROVE Unseen(counted, <<t, s>>)'
  BY <1>0, <1>1, <1>3, <1>5, <1>6 DEF NotYet
<1>7. ASSUME ~Answered(s)' PROVE Unseen(counted, <<"LogEvents", s>>)'
  BY <1>0, <1>1, <1>4, <1>5, <1>7 DEF NotYet
<1>8. QED
  BY <1>6, <1>7 DEF NotYet

\* A reset that commits leaves nothing; anything else that commits adds what it inserted.
LEMMA CommitStores ==
  ASSUME DevInv, NEW r \in Requests, OnlyOf(r), Commits(r)
  PROVE  /\ kind[r] = "reset" /\ Mine(r) => stored' = {}
         /\ ~(kind[r] = "reset" /\ Mine(r)) => stored' = stored \cup pending[r]
         /\ Mine(r) => \A t \in Writes[kind[r]] : <<t, r>> \in pending[r]
<1>0. /\ DevTypes /\ Inserts(r) /\ Truncates(r) /\ kind[r] \in Kinds
      /\ stored' = {row \in stored : row[1] \notin exclusive[r]} \cup pending[r]
  BY DEF DevInv, DevTypes, Commits
<1>1. Writes["reset"] = {} /\ Writes[kind[r]] \subseteq Tables \ {"LogEvents"}
  BY <1>0, WritesBounds
<1>2. Mine(r) => Of(todo[r], "truncate") = {} /\ Of(todo[r], "insert") \subseteq {"LogEvents"}
  BY <1>0, CommitFacts
<1>3. ASSUME kind[r] = "reset", Mine(r) PROVE stored' = {}
  <2>1. pending[r] = {}
    BY <1>0, <1>1, <1>3 DEF Inserts
  <2>2. \A row \in stored : row[1] \in Tables
    BY <1>0 DEF DevTypes, Rows
  <2>3. \A t \in Tables : t \in exclusive[r]
    BY <1>0, <1>2, <1>3 DEF Truncates
  <2>4. QED
    BY <1>0, <2>1, <2>2, <2>3
<1>4. ASSUME ~(kind[r] = "reset" /\ Mine(r)) PROVE stored' = stored \cup pending[r]
  BY <1>0, <1>4 DEF Truncates
<1>5. Mine(r) => \A t \in Writes[kind[r]] : <<t, r>> \in pending[r]
  BY <1>0, <1>1, <1>2 DEF Inserts
<1>6. QED
  BY <1>3, <1>4, <1>5

LEMMA WholeKept ==
  ASSUME DevInv, NEW r \in Requests, Moves(r), NEW s \in Requests
  PROVE  Whole(s)'
<1>0. DevTypes /\ OnlyOf(r) /\ Whole(s) /\ kind' = kind /\ kind[r] \in Kinds
  BY DEF DevInv, Moves, OnlyOf, DevTypes
<1>1. CASE stored' = stored
  BY <1>0, <1>1 DEF Whole
<1>2. CASE stored' = {}
  BY <1>2 DEF Whole
<1>3. CASE Commits(r) /\ stored' = stored \cup pending[r]
  <2>1. CASE s = r /\ Mine(r)
    <3>1. \A t \in Tables : <<t, r>> \notin stored
      BY <2>1 DEF DevInv, NotYet, Unseen
    <3>2. \A t \in Writes[kind[r]] : <<t, r>> \in pending[r]
      BY <1>0, <1>3, <2>1, CommitStores
    <3>3. \A row \in pending[r] : row[1] \in Writes[kind[r]]
      BY <2>1 DEF DevInv, Inserts
    <3>4. ASSUME NEW t \in Tables \ {"LogEvents"} PROVE <<t, r>> \in stored' <=> t \in Writes[kind[r]]
      <4>1. <<t, r>> \in pending[r] => t \in Writes[kind[r]]
        <5>1. <<t, r>> \in pending[r] => <<t, r>>[1] \in Writes[kind[r]]
          BY <3>3
        <5>2. QED
          BY <5>1
      <4>2. QED
        BY <1>3, <3>1, <3>2, <4>1
    <3>5. QED
      BY <1>0, <2>1, <3>4 DEF Whole
  <2>2. CASE ~(s = r /\ Mine(r))
    <3>1. ASSUME NEW t \in Tables \ {"LogEvents"} PROVE <<t, s>> \in stored' <=> <<t, s>> \in stored
      <4>1. SUFFICES ASSUME <<t, s>> \in stored', <<t, s>> \notin stored PROVE FALSE
        BY <1>3
      <4>2. /\ Mine(r) => <<t, s>>[2] = r
            /\ ~Mine(r) => <<t, s>> = <<"LogEvents", r>>
        BY <4>1, StoredFrom
      <4>3. QED
        BY <2>2, <4>2
    <3>2. QED
      BY <1>0, <3>1 DEF Whole
  <2>3. QED
    BY <2>1, <2>2
<1>4. stored' = stored \/ stored' = {} \/ (Commits(r) /\ stored' = stored \cup pending[r])
  <2>1. stored' = stored \/ Commits(r)
    BY DEF Moves, Passes, Works, Ends
  <2>2. QED
    BY <1>0, <2>1, CommitStores
<1>5. QED
  BY <1>1, <1>2, <1>3, <1>4
LEMMA GuardsKept ==
  ASSUME DevInv, NEW r \in Requests, Moves(r), NEW s \in Requests
  PROVE  Guards(s)'
<1>0. DevTypes /\ OnlyOf(r) /\ Guards(s) /\ kind' = kind /\ Compatible(r, s)
  BY DEF DevInv, Moves, OnlyOf
<1>1. CASE s # r
  <2>1. /\ counted'[s] = counted[s] /\ shared'[s] = shared[s] /\ (Mine(s)' <=> Mine(s))
    BY <1>0, <1>1, Same
  <2>2. ASSUME kind[s] = "reset", Mine(s), NEW row \in counted[s]
        PROVE  row \in stored' /\ row[1] \in shared[s]
    <3>1. row \in stored /\ row[1] \in shared[s]
      BY <1>0, <2>2 DEF Guards
    <3>2. row[1] \notin exclusive[r]
      BY <1>0, <1>1, <3>1 DEF Compatible
    <3>3. row \in stored'
      BY <3>1, <3>2 DEF Moves, Passes, Works, Ends, Commits
    <3>4. QED
      BY <3>1, <3>3
  <2>3. QED
    BY <1>0, <2>1, <2>2 DEF Guards
<1>2. CASE s = r /\ Passes(r)
  <2>1. Mine(r) /\ counted' = counted /\ shared' = shared /\ stored' = stored
    BY <1>0, <1>2, PassFacts DEF Passes, txVars
  <2>2. QED
    BY <1>0, <1>2, <2>1 DEF Guards
<1>3. ASSUME s = r, NEW t \in Tables, Works(r, t)
      PROVE  Guards(s)'
  <2> DEFINE verb == todo[r][1].do
  <2>1. (Mine(r)' <=> Mine(r)) /\ (verb = "peek" => kind[r] # "reset")
    BY <1>0, <1>3, WorkFacts
  <2>2. /\ counted'[r] = counted[r] \cup
             (IF verb \in {"peek", "read"} THEN {row \in stored : row[1] = t} ELSE {})
        /\ shared'[r] = shared[r] \cup (IF verb \in {"read", "insert", "key"} THEN {t} ELSE {})
        /\ stored' = stored
    BY <1>3 DEF Works
  <2> HIDE DEF verb
  <2>3. ASSUME kind[r] = "reset", Mine(r), NEW row \in counted'[r]
        PROVE  row \in stored /\ row[1] \in shared'[r]
    <3>1. CASE row \in counted[r]
      BY <1>0, <1>3, <2>2, <2>3, <3>1 DEF Guards
    <3>2. CASE row \notin counted[r]
      BY <2>1, <2>2, <2>3, <3>2
    <3>3. QED
      BY <3>1, <3>2
  <2>4. QED
    BY <1>0, <1>3, <2>1, <2>2, <2>3 DEF Guards
<1>4. CASE s = r /\ Ends(r)
  BY <1>0, <1>4, EndFacts DEF Guards
<1>5. CASE s = r /\ Commits(r)
  BY <1>0, <1>5, CommitFacts DEF Guards
<1>6. QED
  BY <1>1, <1>2, <1>3, <1>4, <1>5 DEF Moves

\* What a reset past its transaction has counted it counts no more.
LEMMA PastCounts ==
  ASSUME DevInv, NEW r \in Requests, Moves(r), NEW s \in Requests, Past(s) \/ Commits(r)
  PROVE  counted'[s] = counted[s]
<1>0. DevTypes /\ OnlyOf(r)
  BY DEF DevInv, Moves
<1>1. CASE s # r
  BY <1>0, <1>1, Same
<1>2. ASSUME s = r, NEW t \in Tables, Works(r, t), Past(s)
      PROVE  counted'[s] = counted[s]
  <2>1. todo[r][1].do \notin {"peek", "read"}
    BY <1>0, <1>2, WorkFacts DEF Past
  <2>2. QED
    BY <1>2, <2>1 DEF Works
<1>3. CASE s = r /\ ~\E t \in Tables : Works(r, t)
  BY <1>3 DEF Moves, Passes, Ends, Commits, txVars
<1>4. ASSUME Commits(r) PROVE counted'[s] = counted[s]
  BY <1>4 DEF Commits
<1>5. QED
  BY <1>1, <1>2, <1>3, <1>4

LEMMA GoneKept ==
  ASSUME DevInv, NEW r \in Requests, Moves(r), NEW s \in Requests
  PROVE  Gone(s)'
<1>0. DevTypes /\ OnlyOf(r) /\ Gone(s)
  BY DEF DevInv, Moves
<1>1. ASSUME Past(s) PROVE counted'[s] \cap stored' = {}
  <2>1. counted'[s] = counted[s] /\ counted[s] \cap stored = {}
    BY <1>0, <1>1, PastCounts DEF Gone
  <2>2. ASSUME NEW row \in stored', row \in counted[s] PROVE FALSE
    <3>1. row \notin stored
      BY <2>1, <2>2
    <3>2. /\ Commits(r) /\ row \in pending[r]
          /\ Mine(r) => row[2] = r
          /\ ~Mine(r) => row = <<"LogEvents", r>>
      BY <2>2, <3>1, StoredFrom
    <3>3. row = <<row[1], row[2]>> /\ row[1] \in Tables
      BY <1>0, <3>2 DEF DevTypes, Rows
    <3>4. ~Answered(r)
      BY <3>2 DEF Commits
    <3>5. Unseen(counted, row)
      BY <3>2, <3>3, <3>4 DEF DevInv, NotYet
    <3>6. QED
      BY <2>2, <3>5 DEF Unseen
  <2>3. QED
    BY <2>1, <2>2
<1>2. ASSUME s = r, Commits(r), Mine(r), Past(s)' PROVE counted'[s] \cap stored' = {}
  <2>1. kind[r] = "reset"
    BY <1>0, <1>2 DEF Past, OnlyOf
  <2>2. stored' = {}
    BY <1>0, <1>2, <2>1, CommitStores
  <2>3. QED
    BY <2>2
<1>3. QED
  BY <1>0, <1>1, <1>2, Backwards DEF Gone

LEMMA ApartKept ==
  ASSUME DevInv, NEW r \in Requests, Moves(r), NEW x \in Requests, NEW y \in Requests
  PROVE  Apart(x, y)'
<1>0. DevTypes /\ OnlyOf(r) /\ Apart(x, y) /\ kind' = kind
  BY DEF DevInv, Moves, OnlyOf
<1>1. ASSUME NEW s \in Requests, s # r, Past(s), Commits(r), Mine(r), kind[r] = "reset"
      PROVE  counted'[r] \cap counted'[s] = {}
  <2>1. counted'[r] = counted[r] /\ counted'[s] = counted[s]
    BY <1>1 DEF Commits
  <2>2. counted[r] \subseteq stored
    BY <1>1 DEF DevInv, Guards
  <2>3. counted[s] \cap stored = {}
    BY <1>1 DEF DevInv, Gone
  <2>4. QED
    BY <2>1, <2>2, <2>3
<1>2. ASSUME x # y, Past(x)', Past(y)' PROVE counted'[x] \cap counted'[y] = {}
  <2>1. /\ Past(x) \/ (x = r /\ Commits(r) /\ Mine(r) /\ kind[r] = "reset")
        /\ Past(y) \/ (y = r /\ Commits(r) /\ Mine(r) /\ kind[r] = "reset")
    BY <1>0, <1>2, Backwards DEF Past
  <2>2. CASE Past(x) /\ Past(y)
    <3>1. counted'[x] = counted[x] /\ counted'[y] = counted[y]
      BY <2>2, PastCounts
    <3>2. QED
      BY <1>0, <1>2, <2>2, <3>1 DEF Apart
  <2>3. CASE ~Past(x)
    BY <1>1, <1>2, <2>1, <2>3
  <2>4. CASE ~Past(y)
    BY <1>1, <1>2, <2>1, <2>4
  <2>5. QED
    BY <2>2, <2>3, <2>4
<1>3. QED
  BY <1>2 DEF Apart

LEMMA RepliesKept ==
  ASSUME DevInv, NEW r \in Requests, Moves(r), NEW s \in Requests
  PROVE  Replies(s)'
<1>0. DevTypes /\ OnlyOf(r) /\ Replies(s)
  BY DEF DevInv, Moves
<1>1. CASE s # r
  BY <1>0, <1>1, Same DEF Replies
<1>2. CASE s = r /\ (Passes(r) \/ \E t \in Tables : Works(r, t))
  BY <1>0, <1>2 DEF Replies, Passes, Works
<1>3. CASE s = r /\ Ends(r)
  BY <1>0, <1>3, EndFacts DEF Replies
<1>4. CASE s = r /\ Commits(r)
  BY <1>0, <1>4, CommitFacts DEF Replies, Commits
<1>5. QED
  BY <1>1, <1>2, <1>3, <1>4 DEF Moves

\* No user and no group is committed beside a seed that is alone.
\* What a statement done leaves is what was left before.
LEMMA StillUndecided ==
  ASSUME NEW k \in Kinds, NEW w, Fits(k, w), w # <<>>, NEW v,
         v = Tail(w) \/ \E t \in w[1].on : v = Without(w, t), Undecided(v)
  PROVE  Undecided(w)
<1>1. w \in Seq(Statements) /\ Len(w) \in Nat /\ Len(w) >= 1
  BY FitsSeq, TailOf
<1>2. CASE v = Tail(w)
  <2>1. \A i \in 1 .. Len(v) : i + 1 \in 1 .. Len(w) /\ v[i] = w[i + 1]
    BY <1>1, <1>2, TailOf
  <2>2. QED
    BY <2>1 DEF Undecided
<1>3. CASE v # Tail(w)
  <2>1. PICK t \in w[1].on : v = Without(w, t)
    BY <1>3
  <2> DEFINE st == Statement(w[1].do, w[1].on \ {t})
  <2>2. st.do = w[1].do
    BY DEF Statement
  <2>3. v = [w EXCEPT ![1] = st]
    BY <1>3, <2>1 DEF Without, ReplaceAt
  <2> HIDE DEF st, Statements
  <2>4. Len(v) = Len(w) /\ \A i \in 1 .. Len(w) : v[i].do = w[i].do
    BY <1>1, <2>2, <2>3
  <2>5. QED
    BY <2>4 DEF Undecided
<1>4. QED
  BY <1>2, <1>3

\* Before a handler decides it only looks up.
LEMMA BeforeDeciding ==
  ASSUME NEW k \in Kinds, NEW w, Fits(k, w), w # <<>>, Undecided(w)
  PROVE  w[1].do \in {"start", "peek", "decide"}
<1> DEFINE q == Program(k)
           m == Main(k)
           n == Size(k)
<1>1. PICK a \in Nat : Rest(q, w, a)
  BY DEF Fits
<1>2. /\ ProgramMeans(k, q, m, n) /\ m \in Nat /\ n \in Nat /\ n = a + Len(w) /\ Len(w) \in Nat
      /\ w[1].do = q[a + 1].do
  BY <1>1, FirstPlace DEF Placed
<1>3. PICK i \in 1 .. Len(w) : q[a + i].do = "decide"
  BY <1>1 DEF Undecided, Rest
<1> HIDE DEF q, m, n
<1>4. a + i \in 1 .. n /\ a + i \in Nat
  BY <1>2
<1>5. a + i \notin {1, m, n} /\ a + i \notin m + 1 .. n - 1
  <2>1. q[1].do = "start" /\ q[m].do = "commit" /\ q[n].do = "commit"
    BY <1>2 DEF ProgramMeans, Statement
  <2>2. \A b \in m + 1 .. n - 1 : q[b].do \in {"insert", "key"}
    BY <1>2 DEF ProgramMeans, Statement
  <2>3. QED
    BY <1>3, <2>1, <2>2
<1>6. a + i \in 2 .. m - 1
  BY <1>2, <1>4, <1>5
<1>7. PlaceMeans(k, q[a + i], (a + i) - 1)
  BY <1>2, <1>6 DEF ProgramMeans
<1>8. k # "reset" /\ a + i = 3
  <2>1. k # "reset" /\ (a + i) - 1 = 2
    BY <1>3, <1>7 DEF PlaceMeans
  <2>2. QED
    BY <1>4, <2>1
<1>9. a + 1 \in {1, 2, 3} /\ 2 \in 2 .. m - 1 /\ 3 \in 2 .. m - 1
  BY <1>2, <1>6, <1>8
<1>10. q[1].do = "start"
  BY <1>2 DEF ProgramMeans, Statement
<1>11. q[2].do = "peek"
  <2>1. PlaceMeans(k, q[2], 2 - 1) /\ 2 - 1 = 1
    BY <1>2, <1>9 DEF ProgramMeans
  <2>2. QED
    BY <1>8, <2>1 DEF PlaceMeans
<1>12. q[3].do = "decide"
  BY <1>3, <1>8
<1>13. QED
  BY <1>2, <1>9, <1>10, <1>11, <1>12

LEMMA FreeKept ==
  ASSUME DevInv, NEW r \in Requests, Moves(r), NEW s \in Requests
  PROVE  Free(s)'
<1> DEFINE k == kind[r]
           w == todo[r]
<1>0. DevTypes /\ OnlyOf(r) /\ Free(r) /\ Free(s) /\ k \in Kinds /\ Fits(k, w)
  BY DEF DevInv, Moves, DevTypes
<1>1. CASE s # r
  BY <1>0, <1>1, Same DEF Free
<1>2. CASE s = r /\ Passes(r)
  <2>1. ~Answered(r)' /\ w # <<>> /\ todo'[r] = Tail(w)
    BY <1>0, <1>2, PassFacts DEF Passes, Answered
  <2>2. Undecided(todo'[r]) => Undecided(w)
    BY <1>0, <2>1, StillUndecided
  <2>3. shared' = shared /\ exclusive' = exclusive /\ pending' = pending
    BY <1>2 DEF Passes, txVars
  <2>4. QED
    BY <1>0, <1>2, <2>1, <2>2, <2>3 DEF Free
<1>3. ASSUME s = r, NEW t \in Tables, Works(r, t) PROVE Free(s)'
  <2>1. ~Answered(r)' /\ w # <<>> /\ t \in w[1].on /\ todo'[r] = Without(w, t)
    BY <1>0, <1>3, WorkFacts DEF Works, Answered
  <2>2. Undecided(todo'[r]) => Undecided(w)
    BY <1>0, <2>1, StillUndecided
  <2>3. Undecided(w) => w[1].do = "peek"
    BY <1>0, <1>3, <2>1, BeforeDeciding DEF Works
  <2>4. w[1].do = "peek" => shared'[r] = shared[r] /\ exclusive'[r] = exclusive[r] /\ pending'[r] = pending[r]
    BY <1>3 DEF Works
  <2>5. QED
    BY <1>0, <1>3, <2>1, <2>2, <2>3, <2>4 DEF Free
<1>4. CASE s = r /\ Ends(r)
  <2>1. w # <<>> /\ w \in Seq(Statements)
    BY <1>0, <1>4, FitsSeq DEF Ends, Answered
  <2>2. 1 \in 1 .. Len(w)
    BY <2>1, TailOf
  <2>3. w[1].do = "decide" => Undecided(w)
    BY <2>2 DEF Undecided
  <2>4. QED
    BY <1>0, <1>4, <2>3 DEF Free, Ends
<1>5. CASE s = r /\ Commits(r)
  BY <1>5 DEF Free, Commits
<1>6. QED
  BY <1>1, <1>2, <1>3, <1>4, <1>5 DEF Moves

LEMMA AloneStores ==
  ASSUME DevInv, NEW r \in Requests, Moves(r), NEW s \in Requests, s # r,
         Seeds(s), s \notin joined, InFlight(s), NEW row \in stored', row[1] \in {"Users", "Groups"}
  PROVE  row \in stored
<1>1. SUFFICES ASSUME row \notin stored PROVE FALSE
  OBVIOUS
<1>2. /\ Commits(r) /\ OnlyOf(r) /\ DevTypes
      /\ Mine(r) => kind[r] # "reset"
      /\ ~Mine(r) => row = <<"LogEvents", r>>
  BY <1>1, StoredFrom DEF Moves, DevInv
<1>3. InFlight(r)
  BY <1>2, CommitFacts
<1>4. kind[r] = "reset"
  BY <1>3 DEF DevInv, Alone
<1>5. row[1] = "LogEvents"
  BY <1>2, <1>4
<1>6. QED
  BY <1>5

LEMMA JoinedGrows ==
  ASSUME NEW r \in Requests, Moves(r)
  PROVE  joined \subseteq joined'
BY DEF Moves, Passes, Works, Ends, Commits

LEMMA AloneKeptOther ==
  ASSUME DevInv, NEW r \in Requests, Moves(r), NEW s \in Requests, s # r
  PROVE  Alone(s)'
<1>0. DevTypes /\ OnlyOf(r) /\ Alone(s) /\ kind' = kind /\ joined \subseteq joined'
  BY JoinedGrows DEF DevInv, Moves, OnlyOf
<1>1. /\ todo'[s] = todo[s] /\ counted'[s] = counted[s] /\ (Mine(s)' <=> Mine(s))
      /\ (InFlight(s)' <=> InFlight(s)) /\ (Seeds(s)' <=> Seeds(s))
  BY <1>0, Same
<1>2. ASSUME Seeds(s), s \notin joined', InFlight(s), NEW x \in Requests, x # s, InFlight(x)'
      PROVE  kind[x] = "reset"
  <2>1. InFlight(x) \/ (x = r /\ Passes(r) /\ todo[r][1].do = "start")
    BY <1>0, <1>2, Backwards
  <2>2. CASE InFlight(x)
    BY <1>0, <1>2, <2>2 DEF Alone
  <2>3. CASE x = r /\ Passes(r) /\ todo[r][1].do = "start"
    BY <1>2, <2>3 DEF Passes
  <2>4. QED
    BY <2>1, <2>2, <2>3
<1>3. ASSUME Seeds(s), s \notin joined', InFlight(s), Mine(s) PROVE Knows(s)'
  <2>1. Knows(s) /\ s \notin joined
    BY <1>0, <1>3 DEF Alone
  <2>2. \A row \in stored' : row[1] \in {"Users", "Groups"} => row \in stored
    BY <1>3, <2>1, AloneStores
  <2>3. QED
    BY <1>1, <2>1, <2>2 DEF Knows
<1>4. Seeds(s) /\ s \notin joined' /\ InFlight(s) => Undecided(todo[s]) \/ counted[s] = {}
  BY <1>0 DEF Alone
<1>5. QED
  BY <1>0, <1>1, <1>2, <1>3, <1>4 DEF Alone

LEMMA AloneKeptOwn ==
  ASSUME DevInv, NEW r \in Requests, Moves(r)
  PROVE  Alone(r)'
<1>0. DevTypes /\ OnlyOf(r) /\ Alone(r) /\ kind' = kind /\ joined \subseteq joined' /\ (Seeds(r)' <=> Seeds(r))
  BY JoinedGrows DEF DevInv, Moves, OnlyOf, Seeds
<1>1. \A x \in Requests : x # r /\ InFlight(x)' => InFlight(x)
  BY <1>0, Same
<1>2. CASE Passes(r) /\ todo[r][1].do = "start"
  <2>1. ASSUME r \notin joined', NEW x \in Requests, x # r, InFlight(x)' PROVE kind[x] = "reset"
    BY <1>1, <1>2, <2>1 DEF Passes
  <2>2. ASSUME Seeds(r) PROVE Knows(r)' /\ Undecided(todo[r])'
    BY <1>0, <1>2, <2>2, PassFacts DEF Knows
  <2>3. QED
    BY <1>0, <2>1, <2>2 DEF Alone
<1>3. ASSUME InFlight(r), Seeds(r), r \notin joined', NEW x \in Requests, x # r, InFlight(x)' PROVE kind[x] = "reset"
  BY <1>0, <1>1, <1>3 DEF Alone
<1>4. CASE Passes(r) /\ todo[r][1].do = "decide"
  <2>1. InFlight(r) /\ Mine(r)
    BY <1>0, <1>4, PassFacts DEF InFlight, Doing, Passes
  <2>2. /\ stored' = stored /\ counted' = counted
        /\ Seeds(r) => counted[r] = {}
    BY <1>4 DEF Passes, txVars
  <2>3. ASSUME Seeds(r), r \notin joined' PROVE Knows(r)'
    <3>1. Knows(r)
      BY <1>0, <2>1, <2>3 DEF Alone
    <3>2. \A verb : Of(todo[r], verb) = Of(todo'[r], verb)
      BY <1>0, <1>4, PassFacts
    <3>3. QED
      BY <2>2, <3>1, <3>2 DEF Knows
  <2>4. QED
    BY <1>0, <1>3, <2>1, <2>2, <2>3 DEF Alone
<1>5. ASSUME NEW t \in Tables, Works(r, t) PROVE Alone(r)'
  <2> DEFINE verb == todo[r][1].do
  <2>1. /\ InFlight(r) /\ (Mine(r)' <=> Mine(r))
        /\ \A v : Of(todo[r], v) \ {t} \subseteq Of(todo'[r], v)
        /\ \A v : v # verb => Of(todo[r], v) \subseteq Of(todo'[r], v)
        /\ Undecided(todo[r]) => Undecided(todo'[r])
        /\ verb = "read" => kind[r] = "reset"
        /\ verb = "peek" => (Seeds(r) => Undecided(todo[r]))
    BY <1>0, <1>5, WorkFacts
  <2>2. /\ counted'[r] = counted[r] \cup
             (IF verb \in {"peek", "read"} THEN {row \in stored : row[1] = t} ELSE {})
        /\ stored' = stored /\ joined' = joined
    BY <1>5 DEF Works
  <2> HIDE DEF verb
  <2>3. ASSUME Seeds(r), r \notin joined', Mine(r) PROVE Knows(r)'
    <3>1. Knows(r)
      BY <1>0, <2>1, <2>3 DEF Alone
    <3>2. ASSUME NEW u \in {"Users", "Groups"}
          PROVE  u \in Of(todo'[r], "peek") \/ \A row \in stored : row[1] = u => row \in counted'[r]
      <4>1. u \in Of(todo[r], "peek") \/ \A row \in stored : row[1] = u => row \in counted[r]
        BY <3>1 DEF Knows
      <4>2. CASE verb = "peek" /\ u = t
        BY <2>2, <4>2
      <4>3. CASE verb # "peek" \/ u # t
        BY <2>1, <2>2, <4>1, <4>3
      <4>4. QED
        BY <4>2, <4>3
    <3>3. QED
      BY <2>2, <3>2 DEF Knows
  <2>4. ASSUME Seeds(r), r \notin joined' PROVE Undecided(todo'[r]) \/ counted'[r] = {}
    <3>1. Undecided(todo[r]) \/ counted[r] = {}
      BY <1>0, <2>1, <2>4 DEF Alone
    <3>2. CASE Undecided(todo[r])
      BY <2>1, <3>2
    <3>3. CASE ~Undecided(todo[r])
      <4>1. verb \notin {"peek", "read"}
        BY <2>1, <2>4, <3>3 DEF Seeds
      <4>2. QED
        BY <2>2, <3>1, <3>3, <4>1
    <3>4. QED
      BY <3>2, <3>3
  <2>5. QED
    BY <1>0, <1>3, <2>1, <2>3, <2>4 DEF Alone
<1>6. CASE Ends(r)
  BY <1>0, <1>6, EndFacts DEF Alone
<1>7. CASE Commits(r)
  <2>1. ~Mine(r)' /\ InFlight(r)
    BY <1>0, <1>7, CommitFacts
  <2>2. CASE Mine(r)
    <3>1. ~Undecided(todo[r]) /\ counted' = counted
      BY <1>0, <1>7, <2>2, CommitFacts DEF Commits
    <3>2. Seeds(r) /\ r \notin joined' => counted'[r] = {}
      BY <1>0, <2>1, <3>1 DEF Alone
    <3>3. QED
      BY <1>0, <1>3, <2>1, <3>2 DEF Alone
  <2>3. CASE ~Mine(r)
    BY <1>0, <1>7, <2>3, CommitFacts DEF Alone, InFlight
  <2>4. QED
    BY <2>2, <2>3
<1>8. QED
  BY <1>2, <1>4, <1>5, <1>6, <1>7 DEF Moves, Passes

-----------------------------------------------------------------------------
(* The theorems.                                                           *)

LEMMA DevInvInit == Init => DevInv
<1> SUFFICES ASSUME Init PROVE DevInv
  OBVIOUS
<1>0. /\ stored \in SUBSET {<<"Users", Before>>, <<"Groups", Before>>} /\ kind \in [Requests -> Kinds]
      /\ todo = [r \in Requests |-> Program(kind[r])]
      /\ counted = [r \in Requests |-> {}] /\ shared = [r \in Requests |-> {}]
      /\ exclusive = [r \in Requests |-> {}] /\ pending = [r \in Requests |-> {}]
      /\ reply = [r \in Requests |-> 0]
  BY DEF Init
<1>1. \A r \in Requests :
        /\ kind[r] \in Kinds /\ todo[r] = Program(kind[r]) /\ counted[r] = {} /\ shared[r] = {}
        /\ exclusive[r] = {} /\ pending[r] = {} /\ reply[r] = 0
  BY <1>0
<1>2. \A r \in Requests : Fits(kind[r], todo[r]) /\ Mine(r) /\ todo[r][1].do = "start"
  BY <1>1, ProgramFits DEF Mine
<1>3. \A r \in Requests : todo[r] \in Seq(Statements)
  BY <1>1, <1>2, FitsSeq
<1>4. DevTypes
  <2>1. stored \subseteq Rows
    BY <1>0 DEF Rows, Tables
  <2>2. todo \in [Requests -> Seq(Statements)]
    <3> HIDE DEF Statements
    <3>1. QED
      BY <1>0, <1>1, <1>3
  <2>3. /\ counted \in [Requests -> SUBSET Rows] /\ shared \in [Requests -> SUBSET Tables]
        /\ exclusive \in [Requests -> SUBSET Tables] /\ pending \in [Requests -> SUBSET Rows]
        /\ reply \in [Requests -> Nat]
    BY <1>0
  <2>4. QED
    BY <1>0, <1>2, <2>1, <2>2, <2>3 DEF DevTypes
<1>5. \A r \in Requests, row \in stored : row[2] # r
  BY <1>0, DevAssumption
<1>6. \A r \in Requests : Whole(r)
  <2>1. ASSUME NEW r \in Requests, NEW t PROVE <<t, r>> \notin stored
    <3>1. <<t, r>>[2] = r
      OBVIOUS
    <3>2. QED
      BY <1>5, <3>1
  <2>2. QED
    BY <2>1 DEF Whole
<1>7. \A r \in Requests : NotYet(r)
  <2>1. ASSUME NEW r \in Requests, NEW t PROVE <<t, r>> \notin stored
    <3>1. <<t, r>>[2] = r
      OBVIOUS
    <3>2. QED
      BY <1>5, <3>1
  <2>2. QED
    BY <1>1, <2>1 DEF NotYet, Unseen
<1>8. ASSUME NEW r \in Requests PROVE Inserts(r) /\ Truncates(r)
  <2> DEFINE q == Program(kind[r])
             m == Main(kind[r])
             n == Size(kind[r])
  <2>0. kind[r] \in Kinds /\ todo[r] = q
    BY <1>1
  <2>1. ProgramMeans(kind[r], q, m, n) /\ m \in Nat /\ n \in Nat /\ n \in {m + 2, m + 3}
    BY <2>0, ProgramFacts
  <2>2. \A t : t \in Writes[kind[r]] <=> \E i \in 2 .. m - 1 : q[i].do = "insert" /\ t \in q[i].on
    BY <2>0, WritesFacts
  <2>3. Writes[kind[r]] \subseteq Tables
    BY <2>0, WritesBounds
  <2> HIDE DEF q, m, n
  <2>4. Len(q) = n
    BY <2>1 DEF ProgramMeans
  <2>5. \A i \in 2 .. m - 1 : i \in 1 .. Len(q)
    BY <2>1, <2>4
  <2>6. Writes[kind[r]] \subseteq Of(q, "insert")
    BY <2>2, <2>3, <2>5 DEF Of
  <2>7. kind[r] = "reset" => \A t \in Tables : t \in Of(q, "truncate")
    BY <2>1, <2>5 DEF ProgramMeans, Of
  <2>8. QED
    BY <1>1, <1>2, <2>0, <2>6, <2>7 DEF Inserts, Truncates
<1>9. \A r \in Requests : Guards(r) /\ Gone(r) /\ Alone(r) /\ Replies(r) /\ Free(r)
  <2>1. \A r \in Requests : ~InFlight(r)
    BY <1>2 DEF InFlight, Doing
  <2>2. QED
    BY <1>1, <2>1 DEF Guards, Gone, Alone, Replies, Free
<1>10. \A r, s \in Requests : Compatible(r, s) /\ Apart(r, s)
  BY <1>1 DEF Compatible, Apart
<1>11. QED
  BY <1>4, <1>6, <1>7, <1>8, <1>9, <1>10 DEF DevInv

LEMMA DevInvNext == DevInv /\ [Next]_vars => DevInv'
<1> SUFFICES ASSUME DevInv, [Next]_vars PROVE DevInv'
  OBVIOUS
<1>1. CASE Next
  <2>1. DevTypes'
    BY <1>1, TypesKept DEF DevInv
  <2>2. PICK r \in Requests : Moves(r)
    BY <1>1, StepEffect DEF DevInv, Moves
  <2>3. \A s \in Requests : Inserts(s)' /\ Truncates(s)' /\ NotYet(s)' /\ Whole(s)'
    BY <2>2, InsertsKept, TruncatesKept, NotYetKept, WholeKept
  <2>4. \A s \in Requests : Guards(s)' /\ Gone(s)' /\ Alone(s)' /\ Replies(s)' /\ Free(s)'
    BY <2>2, GuardsKept, GoneKept, AloneKeptOther, AloneKeptOwn, RepliesKept, FreeKept
  <2>5. \A x, y \in Requests : Compatible(x, y)' /\ Apart(x, y)'
    BY <2>2, CompatibleKept, ApartKept
  <2>6. QED
    BY <2>1, <2>3, <2>4, <2>5 DEF DevInv
<1>2. CASE UNCHANGED vars
  <2>1. /\ stored' = stored /\ kind' = kind /\ todo' = todo /\ counted' = counted /\ shared' = shared
        /\ exclusive' = exclusive /\ pending' = pending /\ reply' = reply /\ joined' = joined
    BY <1>2 DEF vars, txVars
  <2>2. DevTypes'
    BY <2>1 DEF DevInv, DevTypes
  <2>3. \A r \in Requests : /\ (Mine(r)' <=> Mine(r)) /\ (Answered(r)' <=> Answered(r))
                            /\ (InFlight(r)' <=> InFlight(r)) /\ (Seeds(r)' <=> Seeds(r))
    BY <2>1 DEF Mine, Answered, InFlight, Doing, Seeds
  <2>4. \A r \in Requests : Inserts(r)' /\ Truncates(r)' /\ NotYet(r)' /\ Whole(r)'
    BY <2>1, <2>3 DEF DevInv, Inserts, Truncates, NotYet, Whole, Unseen
  <2>5. \A r \in Requests : Guards(r)' /\ Gone(r)' /\ Alone(r)' /\ Replies(r)' /\ Free(r)'
    BY <2>1, <2>3 DEF DevInv, Guards, Gone, Alone, Knows, Past, Replies, Free
  <2>6. \A x, y \in Requests : Compatible(x, y)' /\ Apart(x, y)'
    BY <2>1, <2>3 DEF DevInv, Compatible, Apart, Past
  <2>7. QED
    BY <2>2, <2>4, <2>5, <2>6 DEF DevInv
<1>3. QED
  BY <1>1, <1>2

\* Whatever fails, whatever a reset wipes and whichever transaction a deadlock rolls back:
\* what a request wrote is there as a whole or not at all, and no row is in the counts that
\* two resets report.
THEOREM DevWholeAndReportedOnce == Spec => []WholeAndReportedOnce
<1>1. DevInv => WholeAndReportedOnce
  <2> SUFFICES ASSUME DevInv PROVE AllOrNothing /\ ReportedOnce
    BY DEF WholeAndReportedOnce
  <2>1. AllOrNothing
    <3> SUFFICES ASSUME NEW r \in Requests
                 PROVE  {row[1] : row \in {row \in stored : row[2] = r}} \ {"LogEvents"} \in {{}, Writes[kind[r]]}
      BY DEF AllOrNothing
    <3> DEFINE T == {row[1] : row \in {row \in stored : row[2] = r}}
    <3>1. Whole(r) /\ stored \subseteq Rows /\ kind[r] \in Kinds
      BY DEF DevInv, DevTypes
    <3>2. \A t : t \in T <=> t \in Tables /\ <<t, r>> \in stored
      <4>1. ASSUME NEW t, t \in T PROVE t \in Tables /\ <<t, r>> \in stored
        <5>1. PICK row \in stored : row[2] = r /\ row[1] = t
          BY <4>1
        <5>2. row = <<row[1], row[2]>> /\ row[1] \in Tables
          BY <3>1, <5>1 DEF Rows
        <5>3. QED
          BY <5>1, <5>2
      <4>2. ASSUME NEW t, <<t, r>> \in stored PROVE t \in T
        <5>1. <<t, r>>[1] = t /\ <<t, r>>[2] = r
          OBVIOUS
        <5>2. QED
          BY <4>2, <5>1
      <4>3. QED
        BY <4>1, <4>2
    <3> HIDE DEF T
    <3>3. Writes[kind[r]] \subseteq Tables \ {"LogEvents"}
      BY <3>1, WritesBounds
    <3>4. CASE \A t \in Tables \ {"LogEvents"} : <<t, r>> \notin stored
      <4>1. T \ {"LogEvents"} = {}
        BY <3>2, <3>4
      <4>2. QED
        BY <4>1 DEF T
    <3>5. CASE \A t \in Tables \ {"LogEvents"} : <<t, r>> \in stored <=> t \in Writes[kind[r]]
      <4>1. T \ {"LogEvents"} = Writes[kind[r]]
        BY <3>2, <3>3, <3>5
      <4>2. QED
        BY <4>1 DEF T
    <3>6. QED
      BY <3>1, <3>4, <3>5 DEF Whole
  <2>2. ReportedOnce
    <3>1. ASSUME NEW r \in Requests, kind[r] = "reset", reply[r] = 200 PROVE Past(r)
      <4>1. Answered(r)
        BY <3>1 DEF DevInv, Replies
      <4>2. QED
        BY <3>1, <4>1, EmptyFits DEF Past, Mine, Answered, DevInv, DevTypes
    <3>2. QED
      BY <3>1 DEF DevInv, Apart, ReportedOnce
  <2>3. QED
    BY <2>1, <2>2
<1>2. QED
  BY DevInvInit, DevInvNext, <1>1, PTL DEF Spec

\* Unless someone who inserts users or groups runs beside it, a seed commits its scenario into
\* a database that has no user and no group of anyone else.
THEOREM DevSeedOnEmpty == Spec => SeedOnEmptyUnlessRaced
<1>1. DevInv /\ [Next]_vars =>
        [\A r \in Requests \ joined :
          Seeds(r) /\ <<"Users", r>> \in stored' \ stored =>
              \A row \in stored' : row[1] \in {"Users", "Groups"} => row[2] = r]_vars
  <2> SUFFICES ASSUME DevInv, Next, NEW s \in Requests \ joined, Seeds(s), <<"Users", s>> \in stored' \ stored,
                      NEW row \in stored', row[1] \in {"Users", "Groups"}
               PROVE  row[2] = s
    OBVIOUS
  <2>1. PICK r \in Requests : Moves(r)
    BY StepEffect DEF DevInv, Moves
  <2>2. /\ Commits(r)
        /\ Mine(r) => <<"Users", s>>[2] = r
        /\ ~Mine(r) => <<"Users", s>> = <<"LogEvents", r>>
    BY <2>1, StoredFrom
  <2>3. s = r /\ Mine(r) /\ OnlyOf(r)
    BY <2>1, <2>2 DEF Moves
  <2>4. InFlight(r) /\ Of(todo[r], "peek") = {} /\ ~Undecided(todo[r])
    BY <2>2, <2>3, CommitFacts DEF DevInv
  <2>5. Knows(r) /\ counted[r] = {}
    BY <2>3, <2>4 DEF DevInv, Alone
  <2>6. row \notin stored
    BY <2>4, <2>5 DEF Knows
  <2>7. QED
    BY <2>1, <2>3, <2>6, StoredFrom
<1>2. QED
  BY DevInvInit, DevInvNext, <1>1, PTL DEF Spec, SeedOnEmptyUnlessRaced

\* While a seed, a reset or a creation is unanswered, one of them can go on or waits for
\* itself, and PostgreSQL rolls it back: whichever way a request ended -- committed, failed,
\* or answered early -- none of its locks and none of its rows is in anyone's way.
THEOREM DevNeverStuck == Spec => []NeverStuck
<1>1. DevInv => NeverStuck
  <2> SUFFICES ASSUME DevInv, NEW r0 \in Requests, ~Answered(r0),
                      \A r \in Requests : ~CanGo(r)
               PROVE  \E r \in Requests : WaitsForItself(r)
    BY DEF NeverStuck
  <2> DEFINE waiting == {r \in Requests : ~Answered(r)}
             waits == [s \in Requests |-> WaitsFor(s)]
  <2>1. IsFiniteSet(waiting) /\ waiting # {}
    BY DevAssumption, FS_Subset
  <2>2. ASSUME NEW r \in waiting PROVE WaitsFor(r) # {}
    <3>1. kind[r] \in Kinds /\ Fits(kind[r], todo[r]) /\ todo[r] # <<>>
      BY DEF DevInv, DevTypes, Answered
    <3>2. todo[r][1].do \notin {"start", "decide", "commit"} /\ \A t \in todo[r][1].on : HoldersOf(r, t) # {}
      BY DEF CanGo, Gets
    <3>3. todo[r][1].on # {}
      BY <3>1, <3>2, FirstFacts DEF AtStart, AtWork, AtCommit, AtLog, AtEnd
    <3>4. QED
      BY <3>2, <3>3 DEF WaitsFor
  <2>3. ASSUME NEW r \in waiting PROVE WaitsFor(r) \subseteq waiting
    <3>1. ASSUME NEW t, NEW s \in HoldersOf(r, t) PROVE s \in waiting
      <4>1. s \in Requests /\ (exclusive[s] # {} \/ shared[s] # {} \/ pending[s] # {})
        BY DEF HoldersOf
      <4>2. Free(s)
        BY <4>1 DEF DevInv
      <4>3. QED
        BY <4>1, <4>2 DEF Free
    <3>2. QED
      BY <3>1 DEF WaitsFor
  <2>4. \A s \in waiting : waits[s] # {} /\ waits[s] \subseteq waiting
    BY <2>2, <2>3
  <2>5. PICK r \in waiting : \A Q : (waits[r] \subseteq Q /\ \A s \in Q : waits[s] \subseteq Q) => r \in Q
    <3> HIDE DEF waiting, waits
    <3> QED
      BY <2>1, <2>4, SomeoneWaitsForItself
  <2>6. WaitsForItself(r)
    BY <2>5 DEF WaitsForItself
  <2>7. QED
    BY <2>6
<1>2. QED
  BY DevInvInit, DevInvNext, <1>1, PTL DEF Spec
=============================================================================
