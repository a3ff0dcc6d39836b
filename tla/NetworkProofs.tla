---------------------------- MODULE NetworkProofs ----------------------------
(***************************************************************************)
(* Theorems about the network: connections, for any number of users and of *)
(* requests of every kind, with deadlocks and failed statements; groups,   *)
(* for any number of calls, people and groups.                             *)
(***************************************************************************)
EXTENDS Network, ListLemmas

-----------------------------------------------------------------------------
(* Connections. *)

Pairs == Users \X Users

Labels == {"find", "check", "selectRow", "insertRow", "selectMirror", "insertMirror",
           "deleteRow", "deleteMirror", "listMirrors", "dropMirrors", "listOwn", "dropOwn",
           "destroyUser", "commit", "done"}

\* Which handler has which statement.
Whose(label) ==
    CASE label = "check" -> {"connect", "disconnect"}
      [] label \in {"selectRow", "insertRow", "selectMirror", "insertMirror"} -> {"connect"}
      [] label \in {"deleteRow", "deleteMirror"} -> {"disconnect"}
      [] label \in {"listMirrors", "dropMirrors", "listOwn", "dropOwn", "destroyUser"} -> {"deleteMe"}
      [] OTHER -> {"connect", "disconnect", "deleteMe"}

\* What the requests ask for.
Asked ==
    /\ kind \in [Requests -> {"connect", "disconnect", "deleteMe"}]
    /\ caller \in [Requests -> Users]
    /\ other \in [Requests -> Users]
    /\ \A r \in Requests : caller[r] # other[r]

\* Where they are.
Underway ==
    /\ pc \in [Requests -> Labels]
    /\ \A r \in Requests : kind[r] \in Whose(pc[r])
    /\ failures \in Nat

\* What is stored, and what the open transactions hold.
Stored ==
    /\ alive \subseteq Users
    /\ rows \subseteq Pairs
    /\ ins \in [Requests -> SUBSET Pairs]
    /\ del \in [Requests -> SUBSET Pairs]
    /\ dying \in [Requests -> SUBSET Users]

TypeInv == Asked /\ Underway /\ Stored

\* What the transaction of a handler has written when it is at a statement.
Connecting(r) ==
    /\ del[r] = {} /\ dying[r] = {} /\ ins[r] \subseteq {Row(r), Mirror(r)}
    /\ pc[r] \in {"find", "check", "selectRow", "insertRow", "done"} => ins[r] = {}
    /\ pc[r] \in {"selectMirror", "insertMirror"} => ins[r] \subseteq {Row(r)}

Disconnecting(r) ==
    /\ ins[r] = {} /\ dying[r] = {} /\ del[r] \subseteq {Row(r), Mirror(r)}
    /\ pc[r] \in {"find", "check", "deleteRow", "done"} => del[r] = {}
    /\ pc[r] = "deleteMirror" => del[r] \subseteq {Row(r)}

Deleting(r) ==
    /\ ins[r] = {} /\ del[r] \subseteq Touching(caller[r]) /\ dying[r] \subseteq {caller[r]}
    /\ pc[r] \in {"find", "done"} => del[r] = {}
    /\ pc[r] # "commit" => dying[r] = {}
    /\ pc[r] = "commit" => caller[r] \in dying[r] \/ caller[r] \notin alive

Written ==
    \A r \in Requests :
        /\ kind[r] = "connect" => Connecting(r)
        /\ kind[r] = "disconnect" => Disconnecting(r)
        /\ kind[r] = "deleteMe" => Deleting(r)

\* The locks: an inserted row is new and a deleted one is stored, and each is one
\* transaction's.
Locked ==
    /\ \A r \in Requests : del[r] \subseteq rows /\ ins[r] \cap rows = {}
    /\ \A r, s \in Requests : r # s => ins[r] \cap ins[s] = {} /\ del[r] \cap del[s] = {}

HeldInv == TypeInv /\ Written /\ Locked

\* A step of one request.
Step(r) == Statement(r) \/ Deadlock(r) \/ Fails(r)

\* The others stand still.
Still(r) ==
    /\ UNCHANGED inputs
    /\ \A s \in Requests \ {r} : /\ pc'[s] = pc[s] /\ ins'[s] = ins[s]
                                 /\ del'[s] = del[s] /\ dying'[s] = dying[s]

-----------------------------------------------------------------------------
(* What the statements do. *)

LEMMA Rows ==
  ASSUME TypeInv, NEW r \in Requests
  PROVE  /\ Row(r) \in Pairs /\ Mirror(r) \in Pairs /\ Row(r) # Mirror(r)
         /\ Row(r)[1] = caller[r] /\ Row(r)[2] = other[r]
         /\ Mirror(r)[1] = other[r] /\ Mirror(r)[2] = caller[r]
BY DEF TypeInv, Asked, Row, Mirror, Pairs

\* Find, Check, Select and List write nothing.
Reads(r) == Find(r) \/ Check(r) \/ Select(r) \/ List(r)

LEMMA ReadStep ==
  ASSUME TypeInv, NEW r \in Requests, Reads(r)
  PROVE  /\ UNCHANGED <<alive, rows, inputs, ins, del, dying, failures>>
         /\ pc' \in [Requests -> Labels] /\ \A s \in Requests \ {r} : pc'[s] = pc[s]
         /\ kind[r] \in Whose(pc'[r]) /\ pc[r] # "done"
         /\ pc'[r] = "commit" => pc[r] = "selectMirror" /\ Mirror(r) \in Visible(r)
         /\ pc'[r] = "selectMirror" => pc[r] = "selectRow" /\ Row(r) \in Visible(r)
         /\ pc'[r] = "insertMirror" => pc[r] = "selectMirror"
         /\ pc'[r] = "insertRow" => pc[r] = "selectRow"
         /\ pc'[r] \in {"deleteRow", "selectRow"} => pc[r] = "check"
         /\ pc'[r] = "check" => pc[r] = "find"
         /\ pc'[r] # "find" /\ pc'[r] # "deleteMirror"
         /\ pc'[r] = "done" => pc[r] \in {"find", "check"}
         /\ ~Find(r) => met' = met /\ InFlight(r)
         /\ met => met'
<1>0. pc \in [Requests -> Labels] /\ kind[r] \in Whose(pc[r])
      /\ kind[r] \in {"connect", "disconnect", "deleteMe"}
  BY DEF TypeInv, Underway, Asked
<1>1. UNCHANGED <<alive, rows, inputs, ins, del, dying, failures>>
  BY DEF Reads, Find, Check, Select, List, dbVars, txVars
<1>2. /\ ~Find(r) => met' = met /\ InFlight(r)
      /\ met => met'
  <2>1. CASE Find(r)
    BY <2>1 DEF Find
  <2>2. CASE Check(r) \/ Select(r) \/ List(r)
    <3>1. met' = met
      BY <2>2 DEF Check, Select, List
    <3>2. pc[r] \in {"check", "selectRow", "selectMirror", "listMirrors", "listOwn"}
      BY <2>2 DEF Check, Select, List
    <3>3. QED
      BY <3>1, <3>2 DEF InFlight
  <2>3. QED
    BY <2>1, <2>2 DEF Reads
<1>3. PICK label : GoTo(r, label)
  BY DEF Reads, Find, Check, Select, List, Answer
<1>4. \/ pc[r] = "find" /\ GoTo(r, "done")
      \/ pc[r] = "find" /\ GoTo(r, "listMirrors") /\ kind[r] = "deleteMe"
      \/ pc[r] = "find" /\ GoTo(r, "check") /\ kind[r] \in {"connect", "disconnect"}
      \/ pc[r] = "check" /\ GoTo(r, "done")
      \/ pc[r] = "check" /\ GoTo(r, "selectRow") /\ kind[r] = "connect"
      \/ pc[r] = "check" /\ GoTo(r, "deleteRow") /\ kind[r] = "disconnect"
      \/ pc[r] = "selectRow" /\ GoTo(r, "selectMirror") /\ Row(r) \in Visible(r)
      \/ pc[r] = "selectRow" /\ GoTo(r, "insertRow")
      \/ pc[r] = "selectMirror" /\ GoTo(r, "commit") /\ Mirror(r) \in Visible(r)
      \/ pc[r] = "selectMirror" /\ GoTo(r, "insertMirror")
      \/ pc[r] = "listMirrors" /\ GoTo(r, "dropMirrors")
      \/ pc[r] = "listOwn" /\ GoTo(r, "dropOwn")
  <2>1. CASE Find(r)
    BY <1>0, <2>1 DEF Find, Answer
  <2>2. CASE Check(r)
    BY <2>2 DEF Check, Answer
  <2>3. CASE Select(r)
    BY <2>3 DEF Select
  <2>4. CASE List(r)
    BY <2>4 DEF List
  <2>5. QED
    BY <2>1, <2>2, <2>3, <2>4 DEF Reads
<1>5. label \in Labels /\ kind[r] \in Whose(label) /\ pc' = [pc EXCEPT ![r] = label]
  <2>1. pc'[r] = label
    BY <1>0, <1>3 DEF GoTo
  <2>2. QED
    BY <1>0, <1>3, <1>4, <2>1 DEF GoTo, Labels, Whose
<1>6. pc'[r] = label
  BY <1>0, <1>5
<1>7. \A next : GoTo(r, next) => next = label
  BY <1>0, <1>6 DEF GoTo
<1>8. /\ pc' \in [Requests -> Labels] /\ \A s \in Requests \ {r} : pc'[s] = pc[s]
      /\ kind[r] \in Whose(pc'[r])
  BY <1>0, <1>5, <1>6
<1>9. QED
  BY <1>1, <1>2, <1>4, <1>6, <1>7, <1>8

\* A failed statement leaves nothing of its transaction.
LEMMA RolledBackStep ==
  ASSUME TypeInv, NEW r \in Requests, RollBack(r)
  PROVE  /\ rows' = rows
         /\ ins' = [ins EXCEPT ![r] = {}] /\ del' = [del EXCEPT ![r] = {}]
         /\ dying' = [dying EXCEPT ![r] = {}] /\ pc' = [pc EXCEPT ![r] = "done"]
         /\ ins'[r] = {} /\ del'[r] = {} /\ dying'[r] = {} /\ pc'[r] = "done"
BY DEF RollBack, RolledBack, Released, Answer, GoTo, TypeInv, Underway, Stored

LEMMA InsertStep ==
  ASSUME TypeInv, NEW r \in Requests, Insert(r), ~Refused(r)
  PROVE  /\ UNCHANGED <<alive, rows, inputs, del, dying, failures, met>>
         /\ kind[r] = "connect" /\ pc[r] \in {"insertRow", "insertMirror"}
         /\ Writes(r) = IF pc[r] = "insertRow" THEN {Row(r)} ELSE {Mirror(r)}
         /\ ins' = [ins EXCEPT ![r] = @ \cup Writes(r)]
         /\ pc' = [pc EXCEPT ![r] = IF pc[r] = "insertRow" THEN "selectMirror" ELSE "commit"]
         /\ Writes(r) \cap Visible(r) = {} /\ {caller[r], other[r]} \subseteq alive
         /\ \A s \in Requests \ {r} : /\ Writes(r) \cap (ins[s] \cup del[s]) = {}
                                      /\ {caller[r], other[r]} \cap dying[s] = {}
<1>1. kind[r] = "connect" /\ pc[r] \in {"insertRow", "insertMirror"}
  BY DEF Insert, Inserting, TypeInv, Underway, Whose
<1>2. Writes(r) = IF pc[r] = "insertRow" THEN {Row(r)} ELSE {Mirror(r)}
  BY <1>1 DEF Writes
<1>3. WaitsOn(r) = {} /\ Inserting(r)
  BY DEF Insert, Blocked
<1>4. \A s \in Requests \ {r} : /\ Writes(r) \cap (ins[s] \cup del[s]) = {}
                                /\ {caller[r], other[r]} \cap dying[s] = {}
  BY <1>3 DEF WaitsOn
<1>5. Writes(r) \cap Visible(r) = {} /\ {caller[r], other[r]} \subseteq alive
  BY DEF Refused
<1>6. QED
  BY <1>1, <1>2, <1>4, <1>5 DEF Insert, GoTo, AfterInsert

\* Delete, DropMirror and DropOwn delete rows that they see and that no other
\* transaction has deleted.
Drops(r) == Delete(r) \/ DropMirror(r) \/ DropOwn(r)

\* The part of r's writes that it finds.
Found(r) == Writes(r) \cap Visible(r)

LEMMA DropStep ==
  ASSUME TypeInv, NEW r \in Requests, Drops(r)
  PROVE  /\ UNCHANGED <<alive, rows, inputs, ins, dying, failures, met>>
         /\ del' = del \/ del' = [del EXCEPT ![r] = @ \cup Found(r)]
         /\ Delete(r) => /\ del' = [del EXCEPT ![r] = @ \cup Found(r)]
                         /\ kind[r] = "disconnect" /\ pc[r] \in {"deleteRow", "deleteMirror"}
                         /\ Writes(r) = IF pc[r] = "deleteRow" THEN {Row(r)} ELSE {Mirror(r)}
                         /\ pc' = [pc EXCEPT ![r] = IF pc[r] = "deleteRow" THEN "deleteMirror"
                                                                        ELSE "commit"]
         /\ ~Delete(r) => /\ kind[r] = "deleteMe" /\ Found(r) \subseteq Touching(caller[r])
                          /\ pc[r] \in {"dropMirrors", "dropOwn"}
                          /\ \/ pc' = pc
                             \/ \E label \in {"listOwn", "destroyUser"} :
                                    pc' = [pc EXCEPT ![r] = label]
         /\ \A s \in Requests \ {r} : Found(r) \cap del[s] = {}
<1>1. /\ kind[r] \in Whose(pc[r]) /\ pc[r] \in Labels
      /\ rows \subseteq Pairs /\ ins[r] \subseteq Pairs /\ del[r] \subseteq Pairs
  BY DEF TypeInv, Underway, Stored
<1>2. WaitsOn(r) = {} /\ ~Inserting(r)
  BY DEF Drops, Delete, DropMirror, DropOwn, Blocked, Inserting
<1>3. \A s \in Requests \ {r} : Found(r) \cap del[s] = {}
  BY <1>2 DEF WaitsOn, Found
<1>4. UNCHANGED <<alive, rows, inputs, ins, dying, failures, met>>
  BY DEF Drops, Delete, DropMirror, DropOwn, dbVars
<1>5. ASSUME Delete(r)
      PROVE  /\ del' = [del EXCEPT ![r] = @ \cup Found(r)]
             /\ kind[r] = "disconnect" /\ pc[r] \in {"deleteRow", "deleteMirror"}
             /\ Writes(r) = IF pc[r] = "deleteRow" THEN {Row(r)} ELSE {Mirror(r)}
             /\ pc' = [pc EXCEPT ![r] = IF pc[r] = "deleteRow" THEN "deleteMirror" ELSE "commit"]
  <2>1. kind[r] = "disconnect" /\ pc[r] \in {"deleteRow", "deleteMirror"}
    BY <1>1, <1>5 DEF Delete, Whose
  <2>2. Writes(r) = IF pc[r] = "deleteRow" THEN {Row(r)} ELSE {Mirror(r)}
    BY <2>1 DEF Writes
  <2>3. QED
    BY <1>5, <2>1, <2>2 DEF Delete, GoTo, AfterDelete, Found
<1>6. ASSUME DropMirror(r) \/ DropOwn(r)
      PROVE  /\ del' = del \/ del' = [del EXCEPT ![r] = @ \cup Found(r)]
             /\ kind[r] = "deleteMe" /\ Found(r) \subseteq Touching(caller[r])
             /\ pc[r] \in {"dropMirrors", "dropOwn"}
             /\ \/ pc' = pc
                \/ \E label \in {"listOwn", "destroyUser"} : pc' = [pc EXCEPT ![r] = label]
  <2>1. pc[r] \in {"dropMirrors", "dropOwn"}
    BY <1>6 DEF DropMirror, DropOwn
  <2>2. kind[r] = "deleteMe"
    BY <1>1, <2>1 DEF Whose
  <2>3. \A k \in Writes(r) : k[1] = caller[r] \/ k[2] = caller[r]
    BY <2>1 DEF Writes
  <2>4. Visible(r) \subseteq Pairs
    BY <1>1 DEF Visible
  <2>5. Found(r) \subseteq Touching(caller[r])
    BY <2>3, <2>4 DEF Found, Touching, Pairs
  <2>6. del' = del \/ del' = [del EXCEPT ![r] = @ \cup Found(r)]
    BY <1>6 DEF DropMirror, DropOwn, Found
  <2>7. \/ pc' = pc
        \/ \E label \in {"listOwn", "destroyUser"} : pc' = [pc EXCEPT ![r] = label]
    BY <1>6 DEF DropMirror, DropOwn, GoTo
  <2>8. QED
    BY <2>1, <2>2, <2>5, <2>6, <2>7
<1>7. QED
  BY <1>3, <1>4, <1>5, <1>6 DEF Drops

LEMMA DestroyStep ==
  ASSUME TypeInv, NEW r \in Requests, DestroyUser(r)
  PROVE  /\ UNCHANGED <<alive, rows, inputs, ins, failures, met>>
         /\ kind[r] = "deleteMe" /\ pc[r] = "destroyUser" /\ pc' = [pc EXCEPT ![r] = "commit"]
         /\ \/ /\ caller[r] \in alive
               /\ dying' = [dying EXCEPT ![r] = {caller[r]}]
               /\ del' = [del EXCEPT ![r] = @ \cup (Touching(caller[r]) \cap Visible(r))]
            \/ caller[r] \notin alive /\ UNCHANGED <<dying, del>>
         /\ \A s \in Requests \ {r} :
               /\ Touching(caller[r]) \cap del[s] = {} /\ Touching(caller[r]) \cap ins[s] = {}
               /\ caller[r] \notin dying[s]
<1>1. WaitsOn(r) = {} /\ pc[r] = "destroyUser" /\ ~Inserting(r)
  BY DEF DestroyUser, Blocked, Inserting
<1>2. Writes(r) = Touching(caller[r])
  BY <1>1 DEF Writes
<1>3. \A s \in Requests \ {r} :
        /\ Touching(caller[r]) \cap del[s] = {} /\ Touching(caller[r]) \cap ins[s] = {}
        /\ caller[r] \notin dying[s]
  BY <1>1, <1>2 DEF WaitsOn
<1>4. kind[r] = "deleteMe"
  BY <1>1 DEF TypeInv, Underway, Whose
<1>5. QED
  BY <1>1, <1>3, <1>4 DEF DestroyUser, GoTo, dbVars

LEMMA CommitStep ==
  ASSUME TypeInv, NEW r \in Requests, Commit(r)
  PROVE  /\ UNCHANGED <<inputs, failures, met>>
         /\ pc[r] = "commit" /\ pc' = [pc EXCEPT ![r] = "done"] /\ pc'[r] = "done"
         /\ rows' = (rows \ del[r]) \cup ins[r] /\ alive' = alive \ dying[r]
         /\ ins' = [ins EXCEPT ![r] = {}] /\ del' = [del EXCEPT ![r] = {}]
         /\ dying' = [dying EXCEPT ![r] = {}]
BY DEF Commit, Visible, Answer, GoTo, TypeInv, Underway

\* The steps, by what they do.
RollsBack(r) ==
    /\ RollBack(r)
    /\ UNCHANGED <<alive, inputs, met>>
    /\ failures' \in {failures, failures + 1}

LEMMA StepKinds ==
  ASSUME TypeInv, NEW r \in Requests, Step(r)
  PROVE  \/ Reads(r) \/ (Insert(r) /\ ~Refused(r)) \/ Drops(r) \/ DestroyUser(r) \/ Commit(r)
         \/ RollsBack(r) /\ Insert(r) /\ Refused(r) /\ failures' = failures
         \/ RollsBack(r) /\ Deadlock(r) /\ failures' = failures
         \/ RollsBack(r) /\ failures' = failures + 1
<1>1. CASE Insert(r) /\ Refused(r)
  BY <1>1 DEF Insert, RollsBack
<1>2. CASE Deadlock(r)
  BY <1>2 DEF Deadlock, RollsBack
<1>3. CASE Fails(r)
  BY <1>3 DEF Fails, RollsBack
<1>4. QED
  BY <1>1, <1>2, <1>3 DEF Step, Statement, Reads, Drops

LEMMA StandStill ==
  ASSUME TypeInv, NEW r \in Requests, Step(r)
  PROVE  Still(r) /\ (met => met')
<1>0. /\ pc \in [Requests -> Labels] /\ ins \in [Requests -> SUBSET Pairs]
      /\ del \in [Requests -> SUBSET Pairs] /\ dying \in [Requests -> SUBSET Users]
  BY DEF TypeInv, Underway, Stored
<1>1. CASE Reads(r)
  BY <1>1, ReadStep DEF Still
<1>2. CASE Insert(r) /\ ~Refused(r)
  BY <1>0, <1>2, InsertStep DEF Still
<1>3. CASE Drops(r)
  BY <1>0, <1>3, DropStep DEF Still
<1>4. CASE DestroyUser(r)
  BY <1>0, <1>4, DestroyStep DEF Still
<1>5. CASE Commit(r)
  BY <1>0, <1>5, CommitStep DEF Still
<1>6. CASE RollsBack(r)
  BY <1>0, <1>6, RolledBackStep DEF Still, RollsBack
<1>7. QED
  BY <1>1, <1>2, <1>3, <1>4, <1>5, <1>6, StepKinds

-----------------------------------------------------------------------------
(* Types. *)

LEMMA StepTypes == ASSUME TypeInv, NEW r \in Requests, Step(r) PROVE TypeInv'
<1>0. Asked /\ Underway /\ Stored
  BY DEF TypeInv
<1>1. Asked'
  BY <1>0, StandStill DEF Asked, Still, inputs
<1>2. kind' = kind /\ kind[r] \in {"connect", "disconnect", "deleteMe"}
  BY <1>0, StandStill DEF Asked, Still, inputs
<1>3. CASE Reads(r)
  BY <1>0, <1>1, <1>2, <1>3, ReadStep DEF TypeInv, Underway, Stored
<1>4. CASE Insert(r) /\ ~Refused(r)
  <2>1. Writes(r) \subseteq Pairs
    BY <1>4, InsertStep, Rows
  <2>2. Underway'
    BY <1>0, <1>2, <1>4, InsertStep DEF Underway, Labels, Whose
  <2>3. Stored'
    BY <1>0, <1>4, <2>1, InsertStep DEF Stored
  <2>4. QED
    BY <1>1, <2>2, <2>3 DEF TypeInv
<1>5. CASE Drops(r)
  <2>1. Found(r) \subseteq Pairs
    BY <1>0 DEF Found, Visible, Stored
  <2>2. Underway'
    <3>1. CASE Delete(r)
      BY <1>0, <1>2, <1>5, <3>1, DropStep DEF Underway, Labels, Whose
    <3>2. CASE ~Delete(r)
      BY <1>0, <1>2, <1>5, <3>2, DropStep DEF Underway, Labels, Whose
    <3>3. QED
      BY <3>1, <3>2
  <2>3. Stored'
    BY <1>0, <1>5, <2>1, DropStep DEF Stored
  <2>4. QED
    BY <1>1, <2>2, <2>3 DEF TypeInv
<1>6. CASE DestroyUser(r)
  <2>1. Touching(caller[r]) \subseteq Pairs /\ caller[r] \in Users
    BY <1>0 DEF Touching, Pairs, Asked
  <2>2. Underway'
    BY <1>0, <1>2, <1>6, DestroyStep DEF Underway, Labels, Whose
  <2>3. Stored'
    BY <1>0, <1>6, <2>1, DestroyStep DEF Stored
  <2>4. QED
    BY <1>1, <2>2, <2>3 DEF TypeInv
<1>7. CASE Commit(r)
  <2>1. Underway'
    BY <1>0, <1>2, <1>7, CommitStep DEF Underway, Labels, Whose
  <2>2. Stored'
    BY <1>0, <1>7, CommitStep DEF Stored
  <2>3. QED
    BY <1>1, <2>1, <2>2 DEF TypeInv
<1>8. CASE RollsBack(r)
  <2>1. Underway'
    BY <1>0, <1>2, <1>8, RolledBackStep DEF RollsBack, Underway, Labels, Whose
  <2>2. Stored'
    BY <1>0, <1>8, RolledBackStep DEF RollsBack, Stored
  <2>3. QED
    BY <1>1, <2>1, <2>2 DEF TypeInv
<1>9. QED
  BY <1>3, <1>4, <1>5, <1>6, <1>7, <1>8, StepKinds

-----------------------------------------------------------------------------
(* What the transactions hold. *)

LEMMA AliveShrinks == ASSUME TypeInv, NEW r \in Requests, Step(r) PROVE alive' \subseteq alive
BY StepKinds, ReadStep, InsertStep, DropStep, DestroyStep, CommitStep DEF RollsBack

\* A transaction that holds nothing, and where such a one may be.
LEMMA NothingHeld ==
  ASSUME TypeInv, TypeInv', NEW r \in Requests, Still(r), ins'[r] = {}, del'[r] = {},
         dying'[r] = {}, pc'[r] = "done"
  PROVE  /\ kind'[r] = "connect" => Connecting(r)'
         /\ kind'[r] = "disconnect" => Disconnecting(r)'
         /\ kind'[r] = "deleteMe" => Deleting(r)'
BY DEF Connecting, Disconnecting, Deleting

LEMMA StepWritten == ASSUME HeldInv, NEW r \in Requests, Step(r) PROVE Written'
<1>0. TypeInv /\ TypeInv' /\ Still(r) /\ alive' \subseteq alive
  BY StepTypes, StandStill, AliveShrinks DEF HeldInv
<1>1. \A s \in Requests : /\ kind'[s] = kind[s] /\ caller'[s] = caller[s] /\ other'[s] = other[s]
                          /\ Row(s)' = Row(s) /\ Mirror(s)' = Mirror(s)
  BY <1>0 DEF Still, inputs, Row, Mirror
<1>2. ASSUME NEW s \in Requests \ {r}
      PROVE  /\ kind'[s] = "connect" => Connecting(s)'
             /\ kind'[s] = "disconnect" => Disconnecting(s)'
             /\ kind'[s] = "deleteMe" => Deleting(s)'
  BY <1>0, <1>1 DEF Still, HeldInv, Written, Connecting, Disconnecting, Deleting, Touching
<1> DEFINE Own == /\ kind[r] = "connect" => Connecting(r)'
                  /\ kind[r] = "disconnect" => Disconnecting(r)'
                  /\ kind[r] = "deleteMe" => Deleting(r)'
<1>3. /\ kind[r] = "connect" => Connecting(r)
      /\ kind[r] = "disconnect" => Disconnecting(r)
      /\ kind[r] = "deleteMe" => Deleting(r)
      /\ kind[r] \in Whose(pc[r])
      /\ ins \in [Requests -> SUBSET Pairs] /\ del \in [Requests -> SUBSET Pairs]
      /\ dying \in [Requests -> SUBSET Users] /\ pc \in [Requests -> Labels]
  BY <1>0 DEF HeldInv, Written, TypeInv, Stored, Underway
<1>4. ASSUME Reads(r) PROVE Own
  <2>1. UNCHANGED <<ins, del, dying, alive>> /\ kind[r] \in Whose(pc'[r])
    BY <1>0, <1>4, ReadStep
  <2>0. /\ pc'[r] \in Labels /\ pc'[r] # "find" /\ pc'[r] # "deleteMirror"
        /\ pc'[r] = "commit" => pc[r] = "selectMirror"
        /\ pc'[r] = "selectMirror" => pc[r] = "selectRow"
        /\ pc'[r] = "insertMirror" => pc[r] = "selectMirror"
        /\ pc'[r] = "insertRow" => pc[r] = "selectRow"
        /\ pc'[r] \in {"deleteRow", "selectRow"} => pc[r] = "check"
        /\ pc'[r] = "check" => pc[r] = "find"
        /\ pc'[r] = "done" => pc[r] \in {"find", "check"}
    BY <1>0, <1>4, ReadStep
  <2>2. kind[r] = "connect" => Connecting(r)'
    BY <1>1, <1>3, <2>0, <2>1 DEF Connecting
  <2>3. kind[r] = "disconnect" => Disconnecting(r)'
    BY <1>1, <1>3, <2>0, <2>1 DEF Disconnecting
  <2>4. kind[r] = "deleteMe" => Deleting(r)'
    <3>1. ASSUME kind[r] = "deleteMe" PROVE pc'[r] # "commit" /\ (pc'[r] = "done" => pc[r] = "find")
      BY <1>3, <2>0, <3>1 DEF Whose
    <3>2. ASSUME kind[r] = "deleteMe" PROVE dying'[r] = {}
      <4>1. pc[r] # "commit"
        BY <1>0, <1>4 DEF Reads, Find, Check, Select, List
      <4>2. QED
        BY <1>3, <2>1, <3>2, <4>1 DEF Deleting
    <3>3. QED
      BY <1>1, <1>3, <2>0, <2>1, <3>1, <3>2 DEF Deleting, Touching
  <2>5. QED
    BY <2>2, <2>3, <2>4
<1>5. ASSUME Insert(r), ~Refused(r) PROVE Own
  BY <1>0, <1>1, <1>3, <1>5, InsertStep DEF Connecting
<1>6. ASSUME Drops(r) PROVE Own
  <2>1. UNCHANGED <<ins, dying, alive>>
    BY <1>0, <1>6, DropStep
  <2>2. CASE Delete(r)
    <3>1. del'[r] = del[r] \cup Found(r) /\ pc'[r] \in {"deleteMirror", "commit"}
      BY <1>0, <1>3, <1>6, <2>2, DropStep
    <3>2. Found(r) \subseteq Writes(r)
      BY DEF Found
    <3>3. Disconnecting(r)'
      BY <1>0, <1>1, <1>3, <1>6, <2>1, <2>2, <3>1, <3>2, DropStep DEF Disconnecting
    <3>4. QED
      BY <1>0, <1>6, <2>2, <3>3, DropStep
  <2>3. CASE ~Delete(r)
    <3>1. /\ kind[r] = "deleteMe" /\ Found(r) \subseteq Touching(caller[r])
          /\ del'[r] \subseteq del[r] \cup Found(r)
          /\ pc[r] \in {"dropMirrors", "dropOwn"}
          /\ pc'[r] \in {"dropMirrors", "dropOwn", "listOwn", "destroyUser"}
      BY <1>0, <1>3, <1>6, <2>3, DropStep
    <3>2. QED
      BY <1>1, <1>3, <2>1, <3>1 DEF Deleting, Touching
  <2>4. QED
    BY <2>2, <2>3
<1>7. ASSUME DestroyUser(r) PROVE Own
  <2>1. kind[r] = "deleteMe" /\ pc[r] = "destroyUser" /\ pc'[r] = "commit" /\ ins' = ins
        /\ alive' = alive
    BY <1>0, <1>3, <1>7, DestroyStep
  <2>2. /\ del'[r] \subseteq del[r] \cup Touching(caller[r])
        /\ dying'[r] \subseteq {caller[r]}
        /\ caller[r] \in dying'[r] \/ caller[r] \notin alive
    BY <1>0, <1>3, <1>7, <2>1, DestroyStep DEF Deleting
  <2>3. QED
    BY <1>1, <1>3, <2>1, <2>2 DEF Deleting, Touching
<1>8. ASSUME Commit(r) PROVE Own
  BY <1>0, <1>1, <1>3, <1>8, CommitStep, NothingHeld
<1>9. ASSUME RollsBack(r) PROVE Own
  BY <1>0, <1>1, <1>9, RolledBackStep, NothingHeld DEF RollsBack
<1>10. Own
  BY <1>0, <1>4, <1>5, <1>6, <1>7, <1>8, <1>9, StepKinds
<1>11. QED
  BY <1>1, <1>2, <1>10 DEF Written

LEMMA StepLocked == ASSUME HeldInv, NEW r \in Requests, Step(r) PROVE Locked'
<1>0. /\ TypeInv /\ Locked /\ Still(r)
      /\ ins \in [Requests -> SUBSET Pairs] /\ del \in [Requests -> SUBSET Pairs]
  BY StandStill DEF HeldInv, TypeInv, Stored
<1>1. CASE Reads(r)
  BY <1>0, <1>1, ReadStep DEF Locked
<1>2. CASE Insert(r) /\ ~Refused(r)
  <2>1. /\ UNCHANGED <<rows, del>> /\ ins'[r] = ins[r] \cup Writes(r)
        /\ \A s \in Requests \ {r} : ins'[s] = ins[s] /\ Writes(r) \cap ins[s] = {}
        /\ Writes(r) \cap Visible(r) = {}
    BY <1>0, <1>2, InsertStep DEF Still
  <2>2. Writes(r) \cap rows = {}
    <3>1. del[r] = {}
      BY <1>0, <1>2, InsertStep DEF HeldInv, Written, Connecting
    <3>2. QED
      BY <2>1, <3>1 DEF Visible
  <2>3. \A s \in Requests : del'[s] \subseteq rows' /\ ins'[s] \cap rows' = {}
    BY <1>0, <2>1, <2>2 DEF Locked
  <2>4. \A s, q \in Requests : s # q => ins'[s] \cap ins'[q] = {} /\ del'[s] \cap del'[q] = {}
    BY <1>0, <2>1 DEF Locked
  <2>5. QED
    BY <2>3, <2>4 DEF Locked
<1>3. ASSUME NEW more, del'[r] \subseteq del[r] \cup more, more \subseteq rows, UNCHANGED <<rows, ins>>,
             \A s \in Requests \ {r} : more \cap del[s] = {}
      PROVE  Locked'
  <2>1. \A s \in Requests : del'[s] \subseteq rows' /\ ins'[s] \cap rows' = {}
    BY <1>0, <1>3 DEF Locked, Still
  <2>2. \A s, q \in Requests : s # q => ins'[s] \cap ins'[q] = {} /\ del'[s] \cap del'[q] = {}
    BY <1>0, <1>3 DEF Locked, Still
  <2>3. QED
    BY <2>1, <2>2 DEF Locked
<1>4. CASE Drops(r)
  <2>1. ins[r] = {}
    BY <1>0, <1>4, DropStep DEF HeldInv, Written, Disconnecting, Deleting
  <2>2. Found(r) \subseteq rows
    BY <2>1 DEF Found, Visible
  <2>3. /\ UNCHANGED <<rows, ins>> /\ del'[r] \subseteq del[r] \cup Found(r)
        /\ \A s \in Requests \ {r} : Found(r) \cap del[s] = {}
    BY <1>0, <1>4, DropStep
  <2>4. QED
    BY <1>3, <2>2, <2>3
<1>5. CASE DestroyUser(r)
  <2>1. ins[r] = {}
    BY <1>0, <1>5, DestroyStep DEF HeldInv, Written, Deleting
  <2>2. Touching(caller[r]) \cap Visible(r) \subseteq rows
    BY <2>1 DEF Visible
  <2>3. /\ UNCHANGED <<rows, ins>>
        /\ del'[r] \subseteq del[r] \cup (Touching(caller[r]) \cap Visible(r))
        /\ \A s \in Requests \ {r} : (Touching(caller[r]) \cap Visible(r)) \cap del[s] = {}
    BY <1>0, <1>5, DestroyStep
  <2>4. QED
    BY <1>3, <2>2, <2>3
<1>6. CASE Commit(r)
  <2>1. /\ rows' = (rows \ del[r]) \cup ins[r] /\ ins'[r] = {} /\ del'[r] = {}
        /\ \A s \in Requests \ {r} : ins'[s] = ins[s] /\ del'[s] = del[s]
    BY <1>0, <1>6, CommitStep DEF Still
  <2>2. ASSUME NEW s \in Requests PROVE del'[s] \subseteq rows' /\ ins'[s] \cap rows' = {}
    <3>1. CASE s = r
      BY <2>1, <3>1
    <3>2. CASE s # r
      BY <1>0, <2>1, <3>2 DEF Locked
    <3>3. QED
      BY <3>1, <3>2
  <2>3. \A s, q \in Requests : s # q => ins'[s] \cap ins'[q] = {} /\ del'[s] \cap del'[q] = {}
    BY <1>0, <2>1 DEF Locked
  <2>4. QED
    BY <2>2, <2>3 DEF Locked
<1>7. CASE RollsBack(r)
  <2>1. /\ rows' = rows /\ ins'[r] = {} /\ del'[r] = {}
        /\ \A s \in Requests \ {r} : ins'[s] = ins[s] /\ del'[s] = del[s]
    BY <1>0, <1>7, RolledBackStep DEF Still, RollsBack
  <2>2. QED
    BY <1>0, <2>1 DEF Locked
<1>8. QED
  BY <1>0, <1>1, <1>2, <1>4, <1>5, <1>6, <1>7, StepKinds

LEMMA StepHeld == ASSUME HeldInv, NEW r \in Requests, Step(r) PROVE HeldInv'
BY StepTypes, StepWritten, StepLocked DEF HeldInv

-----------------------------------------------------------------------------
(* None dangles. *)

\* A user whose deletion is about to commit: no transaction has inserted a row of theirs,
\* and the deletion takes every stored one along.
LeavingNone ==
    /\ \A t \in Requests : ins[t] \subseteq alive \X alive
    /\ \A s \in Requests : \A u \in dying[s] :
          /\ \A t \in Requests : Touching(u) \cap ins[t] = {}
          /\ Touching(u) \cap rows \subseteq del[s]

LEMMA StepDangling ==
  ASSUME HeldInv, NoDangling, LeavingNone, NEW r \in Requests, Step(r)
  PROVE  NoDangling' /\ LeavingNone'
<1>0. /\ TypeInv /\ Written /\ Locked /\ Still(r)
      /\ ins \in [Requests -> SUBSET Pairs] /\ del \in [Requests -> SUBSET Pairs]
      /\ dying \in [Requests -> SUBSET Users] /\ rows \subseteq Pairs
      /\ caller \in [Requests -> Users]
  BY StandStill DEF HeldInv, TypeInv, Stored, Asked
<1>1. ASSUME UNCHANGED <<alive, rows, dying>>, UNCHANGED ins,
             \A s \in Requests : del[s] \subseteq del'[s]
      PROVE  NoDangling' /\ LeavingNone'
  BY <1>1 DEF NoDangling, LeavingNone, Touching
<1>2. CASE Reads(r)
  BY <1>0, <1>1, <1>2, ReadStep
<1>3. CASE Drops(r)
  <2>1. \A s \in Requests : del[s] \subseteq del'[s]
    BY <1>0, <1>3, DropStep
  <2>2. QED
    BY <1>0, <1>1, <1>3, <2>1, DropStep
<1>4. CASE Insert(r) /\ ~Refused(r)
  <2>1. /\ UNCHANGED <<alive, rows, del, dying>> /\ ins' = [ins EXCEPT ![r] = @ \cup Writes(r)]
        /\ Writes(r) \subseteq {Row(r), Mirror(r)} /\ {caller[r], other[r]} \subseteq alive
        /\ \A s \in Requests \ {r} : {caller[r], other[r]} \cap dying[s] = {}
    BY <1>0, <1>4, InsertStep
  <2>2. dying[r] = {}
    BY <1>0, <1>4, InsertStep DEF Written, Connecting
  <2>3. Writes(r) \subseteq alive \X alive
    BY <2>1 DEF Row, Mirror
  <2>4. \A s \in Requests : \A u \in dying[s] : Touching(u) \cap Writes(r) = {}
    <3>1. SUFFICES ASSUME NEW s \in Requests, NEW u \in dying[s], NEW k \in Writes(r)
                   PROVE  k \notin Touching(u)
      OBVIOUS
    <3>2. u # caller[r] /\ u # other[r]
      BY <2>1, <2>2
    <3>3. QED
      BY <1>0, <2>1, <3>2, Rows DEF Touching
  <2>5. \A t \in Requests : ins'[t] \subseteq ins[t] \cup Writes(r)
    BY <1>0, <2>1
  <2>6. QED
    BY <2>1, <2>3, <2>4, <2>5 DEF NoDangling, LeavingNone, Touching
<1>5. CASE DestroyUser(r)
  <2>1. UNCHANGED <<alive, rows, ins>> /\ ins[r] = {}
    BY <1>0, <1>5, DestroyStep DEF Written, Deleting
  <2>2. CASE caller[r] \notin alive
    BY <1>0, <1>1, <1>5, <2>1, <2>2, DestroyStep
  <2>3. CASE caller[r] \in alive
    <3>1. /\ dying'[r] = {caller[r]}
          /\ del'[r] = del[r] \cup (Touching(caller[r]) \cap Visible(r))
          /\ \A s \in Requests \ {r} : Touching(caller[r]) \cap ins[s] = {}
      BY <1>0, <1>5, <2>3, DestroyStep
    <3>2. Touching(caller[r]) \cap rows \subseteq del'[r]
      BY <3>1 DEF Visible
    <3>3. \A t \in Requests : Touching(caller[r]) \cap ins[t] = {}
      BY <2>1, <3>1
    <3>4. \A s \in Requests \ {r} : dying'[s] = dying[s] /\ del'[s] = del[s]
      BY <1>0 DEF Still
    <3>5. QED
      BY <2>1, <3>1, <3>2, <3>3, <3>4 DEF NoDangling, LeavingNone, Touching
  <2>4. QED
    BY <2>2, <2>3
<1>6. CASE Commit(r)
  <2>1. /\ rows' = (rows \ del[r]) \cup ins[r] /\ alive' = alive \ dying[r]
        /\ ins'[r] = {} /\ del'[r] = {} /\ dying'[r] = {}
        /\ \A s \in Requests \ {r} : ins'[s] = ins[s] /\ del'[s] = del[s] /\ dying'[s] = dying[s]
    BY <1>0, <1>6, CommitStep DEF Still
  <2>2. ASSUME NEW k \in Pairs, k \in alive \X alive, \A u \in dying[r] : k \notin Touching(u)
        PROVE  k \in alive' \X alive'
    <3>1. k[1] \notin dying[r] /\ k[2] \notin dying[r]
      BY <2>2 DEF Touching, Pairs
    <3>2. QED
      BY <2>1, <2>2, <3>1
  <2>3. \A k \in rows' : \A u \in dying[r] : k \notin Touching(u)
    BY <1>0, <2>1 DEF LeavingNone
  <2>4. rows' \subseteq alive \X alive /\ rows' \subseteq Pairs
    BY <1>0, <2>1 DEF NoDangling, LeavingNone
  <2>5. NoDangling'
    BY <2>2, <2>3, <2>4 DEF NoDangling
  <2>6. \A t \in Requests : ins'[t] \subseteq alive' \X alive'
    <3>1. SUFFICES ASSUME NEW t \in Requests, NEW k \in ins'[t] PROVE k \in alive' \X alive'
      OBVIOUS
    <3>2. k \in ins[t]
      BY <2>1
    <3>3. QED
      BY <1>0, <2>2, <3>2 DEF LeavingNone
  <2>7. ASSUME NEW s \in Requests, NEW u \in dying'[s]
        PROVE  /\ \A t \in Requests : Touching(u) \cap ins'[t] = {}
               /\ Touching(u) \cap rows' \subseteq del'[s]
    <3>1. s # r /\ u \in dying[s] /\ del'[s] = del[s]
      BY <2>1, <2>7
    <3>2. /\ \A t \in Requests : Touching(u) \cap ins[t] = {}
          /\ Touching(u) \cap rows \subseteq del[s]
      BY <3>1 DEF LeavingNone
    <3>3. QED
      BY <2>1, <3>1, <3>2
  <2>8. QED
    BY <2>5, <2>6, <2>7 DEF LeavingNone, Touching
<1>7. CASE RollsBack(r)
  <2>1. /\ UNCHANGED <<alive, rows>> /\ ins'[r] = {} /\ del'[r] = {} /\ dying'[r] = {}
        /\ \A s \in Requests \ {r} : ins'[s] = ins[s] /\ del'[s] = del[s] /\ dying'[s] = dying[s]
    BY <1>0, <1>7, RolledBackStep DEF Still, RollsBack
  <2>2. QED
    BY <2>1 DEF NoDangling, LeavingNone, Touching
<1>8. QED
  BY <1>0, <1>2, <1>3, <1>4, <1>5, <1>6, <1>7, StepKinds

-----------------------------------------------------------------------------
(* The rows stay mirrored. *)

\* A connect and a disconnect of one pair are not in flight together.
NoneMeets ==
    \A r, s \in Requests :
        ~(InFlight(r) /\ InFlight(s) /\ SamePair(r, s)
            /\ kind[r] = "connect" /\ kind[s] = "disconnect")

\* A connect past its first row has inserted it, or found it stored; it commits with both
\* rows inserted or none.
ConnectsBoth(r) ==
    pc[r] \in {"selectMirror", "insertMirror", "commit"} =>
        /\ \/ Row(r) \in ins[r]
           \/ ins[r] = {} /\ (Row(r) \in rows \/ ~({caller[r], other[r]} \subseteq alive))
        /\ pc[r] = "commit" /\ Row(r) \in ins[r] => Mirror(r) \in ins[r]

\* A disconnect deletes both rows, or finds none and none comes.
DisconnectsBoth(r) ==
    /\ pc[r] = "deleteMirror" => Row(r) \in del[r] \/ (del[r] = {} /\ Row(r) \notin rows)
    /\ pc[r] = "commit" => \/ del[r] = {Row(r), Mirror(r)}
                           \/ del[r] = {} /\ Row(r) \notin rows

BothWays ==
    /\ NoneMeets
    /\ \A r \in Requests : /\ kind[r] = "connect" => ConnectsBoth(r)
                           /\ kind[r] = "disconnect" => DisconnectsBoth(r)

\* Requests of one pair write the same two rows, and others none of them.
LEMMA OnePair ==
  ASSUME TypeInv, NEW r \in Requests, NEW s \in Requests
  PROVE  /\ SamePair(r, s) => {Row(r), Mirror(r)} = {Row(s), Mirror(s)}
         /\ ~SamePair(r, s) => {Row(r), Mirror(r)} \cap {Row(s), Mirror(s)} = {}
         /\ SamePair(r, s) => SamePair(s, r)
<1>1. /\ caller[r] \in Users /\ other[r] \in Users /\ caller[r] # other[r]
      /\ caller[s] \in Users /\ other[s] \in Users /\ caller[s] # other[s]
  BY DEF TypeInv, Asked
<1>2. SamePair(r, s) <=> \/ caller[r] = caller[s] /\ other[r] = other[s]
                         \/ caller[r] = other[s] /\ other[r] = caller[s]
  BY <1>1 DEF SamePair
<1>3. QED
  BY <1>1, <1>2 DEF SamePair, Row, Mirror

\* Mirrored rows: both of a pair or none.
LEMMA MirrorOf ==
  ASSUME TypeInv, Mutual, NEW r \in Requests
  PROVE  Row(r) \in rows <=> Mirror(r) \in rows
BY Rows DEF Mutual, Row, Mirror

LEMMA StepMeets ==
  ASSUME HeldInv, NoneMeets, NEW r \in Requests, Step(r), ~met'
  PROVE  NoneMeets'
<1>0. TypeInv /\ Still(r) /\ \A s \in Requests \ {r} : InFlight(s)' = InFlight(s)
  BY StandStill DEF HeldInv, Still, InFlight
<1>1. \A s, q \in Requests : SamePair(s, q)' = SamePair(s, q) /\ kind'[s] = kind[s]
  BY <1>0 DEF Still, inputs, SamePair
<1>2. CASE Find(r)
  <2>1. \A s \in Requests : InFlight(s) /\ SamePair(r, s) => {kind[r], kind[s]} # {"connect", "disconnect"}
    BY <1>2 DEF Find
  <2>2. \A s \in Requests : SamePair(s, r) => SamePair(r, s)
    BY <1>0, OnePair
  <2>3. QED
    BY <1>0, <1>1, <2>1, <2>2 DEF NoneMeets
<1>3. CASE ~Find(r)
  <2>1. InFlight(r)' => InFlight(r)
    <3>1. CASE Reads(r)
      BY <1>0, <1>3, <3>1, ReadStep
    <3>2. CASE Insert(r) /\ ~Refused(r)
      BY <1>0, <3>2, InsertStep DEF InFlight
    <3>3. CASE Drops(r)
      BY <1>0, <3>3, DropStep DEF InFlight
    <3>4. CASE DestroyUser(r)
      BY <1>0, <3>4, DestroyStep DEF InFlight
    <3>5. CASE Commit(r)
      BY <1>0, <3>5, CommitStep DEF InFlight
    <3>6. CASE RollsBack(r)
      BY <1>0, <3>6, RolledBackStep DEF InFlight, RollsBack
    <3>7. QED
      BY <1>0, <3>1, <3>2, <3>3, <3>4, <3>5, <3>6, StepKinds
  <2>2. QED
    BY <1>0, <1>1, <2>1 DEF NoneMeets
<1>4. QED
  BY <1>2, <1>3

\* The rows change when a transaction commits: those of a pair together.
LEMMA CommitMutual ==
  ASSUME HeldInv, NoDangling, LeavingNone, Mutual, BothWays, NEW r \in Requests, Commit(r)
  PROVE  Mutual' /\ (kind[r] = "deleteMe" => caller[r] \notin alive')
<1>0. /\ TypeInv /\ Written /\ Locked /\ rows \subseteq Pairs /\ pc[r] = "commit"
      /\ kind[r] \in {"connect", "disconnect", "deleteMe"}
      /\ rows' = (rows \ del[r]) \cup ins[r] /\ alive' = alive \ dying[r]
  BY CommitStep DEF HeldInv, TypeInv, Stored, Asked
<1>1. CASE kind[r] = "connect"
  <2>1. del[r] = {} /\ ins[r] \in {{}, {Row(r), Mirror(r)}}
    BY <1>0, <1>1 DEF Written, Connecting, BothWays, ConnectsBoth
  <2>2. QED
    BY <1>0, <1>1, <2>1 DEF Mutual, Row, Mirror
<1>2. CASE kind[r] = "disconnect"
  <2>1. ins[r] = {} /\ del[r] \in {{}, {Row(r), Mirror(r)}}
    BY <1>0, <1>2 DEF Written, Disconnecting, BothWays, DisconnectsBoth
  <2>2. \A k \in Pairs : k \in del[r] <=> <<k[2], k[1]>> \in del[r]
    BY <2>1 DEF Row, Mirror, Pairs
  <2>3. QED
    BY <1>0, <1>2, <2>1, <2>2 DEF Mutual
<1>3. CASE kind[r] = "deleteMe"
  <2>1. /\ ins[r] = {} /\ del[r] \subseteq Touching(caller[r]) /\ dying[r] \subseteq {caller[r]}
        /\ caller[r] \in dying[r] \/ caller[r] \notin alive
    BY <1>0, <1>3 DEF Written, Deleting
  <2>2. rows' = rows \ Touching(caller[r])
    <3>1. CASE caller[r] \in dying[r]
      <4>1. Touching(caller[r]) \cap rows \subseteq del[r]
        BY <3>1 DEF LeavingNone
      <4>2. QED
        BY <1>0, <2>1, <4>1
    <3>2. CASE caller[r] \notin alive
      <4>1. Touching(caller[r]) \cap rows = {}
        BY <3>2 DEF NoDangling, Touching
      <4>2. del[r] \subseteq rows
        BY <1>0 DEF Locked
      <4>3. QED
        BY <1>0, <2>1, <4>1, <4>2
    <3>3. QED
      BY <2>1, <3>1, <3>2
  <2>3. \A k \in Pairs : k \in Touching(caller[r]) <=> <<k[2], k[1]>> \in Touching(caller[r])
    BY DEF Touching, Pairs
  <2>4. QED
    BY <1>0, <2>1, <2>2, <2>3 DEF Mutual
<1>4. QED
  BY <1>0, <1>1, <1>2, <1>3

LEMMA StepMutual ==
  ASSUME HeldInv, NoDangling, LeavingNone, met \/ (Mutual /\ BothWays), NEW r \in Requests, Step(r)
  PROVE  met' \/ (Mutual' /\ BothWays')
<1> SUFFICES ASSUME ~met' PROVE Mutual' /\ BothWays'
  OBVIOUS
<1>0. /\ TypeInv /\ TypeInv' /\ Written /\ Written' /\ Locked /\ Locked' /\ Still(r)
      /\ Mutual /\ BothWays /\ alive' \subseteq alive
      /\ kind[r] \in {"connect", "disconnect", "deleteMe"}
  BY StandStill, AliveShrinks, StepHeld DEF HeldInv, TypeInv, Asked
<1>1. \A s \in Requests : /\ kind'[s] = kind[s] /\ caller'[s] = caller[s] /\ other'[s] = other[s]
                          /\ Row(s)' = Row(s) /\ Mirror(s)' = Mirror(s)
  BY <1>0 DEF Still, inputs, Row, Mirror
<1>2. ASSUME ~Commit(r) PROVE rows' = rows
  BY <1>0, <1>2, StepKinds, ReadStep, InsertStep, DropStep, DestroyStep, RolledBackStep DEF RollsBack
<1>3. Mutual'
  <2>1. CASE Commit(r)
    BY <1>0, <2>1, CommitMutual
  <2>2. CASE ~Commit(r)
    BY <1>0, <1>2, <2>2 DEF Mutual
  <2>3. QED
    BY <2>1, <2>2
\* What a commit of r does to the rows of another request that has yet to end.
<1>4. ASSUME NEW s \in Requests \ {r}, InFlight(s), Commit(r)
      PROVE  /\ kind[s] = "connect" /\ Row(s) \in rows =>
                   Row(s) \in rows' \/ ~({caller[s], other[s]} \subseteq alive')
             /\ kind[s] = "disconnect" /\ Row(s) \notin rows => Row(s) \notin rows'
  <2>1. /\ rows' = (rows \ del[r]) \cup ins[r] /\ InFlight(r)
        /\ ins[r] \cup del[r] \subseteq Pairs
    BY <1>0, <1>4, CommitStep DEF InFlight, TypeInv, Stored
  <2>2. CASE kind[r] = "connect"
    <3>1. del[r] = {} /\ ins[r] \subseteq {Row(r), Mirror(r)}
      BY <1>0, <2>2 DEF Written, Connecting
    <3>2. kind[s] = "disconnect" => Row(s) \notin ins[r]
      BY <1>0, <1>4, <2>1, <2>2, <3>1, OnePair DEF BothWays, NoneMeets
    <3>3. QED
      BY <2>1, <3>1, <3>2
  <2>3. CASE kind[r] = "disconnect"
    <3>1. ins[r] = {} /\ del[r] \subseteq {Row(r), Mirror(r)}
      BY <1>0, <2>3 DEF Written, Disconnecting
    <3>2. kind[s] = "connect" => Row(s) \notin del[r]
      BY <1>0, <1>4, <2>1, <2>3, <3>1, OnePair DEF BothWays, NoneMeets
    <3>3. QED
      BY <2>1, <3>1, <3>2
  <2>4. CASE kind[r] = "deleteMe"
    <3>1. ins[r] = {} /\ del[r] \subseteq Touching(caller[r]) /\ caller[r] \notin alive'
      BY <1>0, <1>4, <2>4, CommitMutual DEF Written, Deleting
    <3>2. Row(s) \in Touching(caller[r]) => caller[r] \in {caller[s], other[s]}
      BY <1>0, Rows DEF Touching
    <3>3. QED
      BY <2>1, <3>1, <3>2
  <2>5. QED
    BY <1>0, <2>2, <2>3, <2>4
<1>5. ASSUME NEW s \in Requests \ {r}
      PROVE  /\ kind[s] = "connect" => ConnectsBoth(s)'
             /\ kind[s] = "disconnect" => DisconnectsBoth(s)'
  <2>1. pc'[s] = pc[s] /\ ins'[s] = ins[s] /\ del'[s] = del[s]
    BY <1>0 DEF Still
  <2>2. /\ InFlight(s) /\ kind[s] = "connect" /\ Row(s) \in rows =>
              Row(s) \in rows' \/ ~({caller[s], other[s]} \subseteq alive')
        /\ InFlight(s) /\ kind[s] = "disconnect" /\ Row(s) \notin rows => Row(s) \notin rows'
    BY <1>2, <1>4
  <2>3. kind[s] = "connect" => ConnectsBoth(s)'
    BY <1>0, <1>1, <2>1, <2>2 DEF BothWays, ConnectsBoth, InFlight
  <2>4. kind[s] = "disconnect" => DisconnectsBoth(s)'
    BY <1>0, <1>1, <2>1, <2>2 DEF BothWays, DisconnectsBoth, InFlight
  <2>5. QED
    BY <2>3, <2>4
<1>6. ASSUME kind[r] = "connect" PROVE ConnectsBoth(r)'
  <2>0. /\ Connecting(r) /\ ConnectsBoth(r) /\ ins[r] \cap rows = {} /\ Row(r) # Mirror(r)
        /\ Row(r) \in rows <=> Mirror(r) \in rows
        /\ ins \in [Requests -> SUBSET Pairs] /\ pc \in [Requests -> Labels]
    BY <1>0, <1>6, Rows, MirrorOf DEF Written, BothWays, Locked, TypeInv, Stored, Underway
  <2>1. Visible(r) = rows \cup ins[r]
    BY <2>0 DEF Visible, Connecting
  <2>2. CASE Reads(r)
    <3>1. UNCHANGED <<rows, alive, ins>>
      BY <1>0, <2>2, ReadStep
    <3>2. CASE pc'[r] = "selectMirror"
      <4>1. pc[r] = "selectRow" /\ Row(r) \in Visible(r)
        BY <1>0, <2>2, <3>2, ReadStep
      <4>2. QED
        BY <1>1, <2>0, <2>1, <3>1, <3>2, <4>1 DEF Connecting, ConnectsBoth
    <3>3. CASE pc'[r] = "insertMirror"
      <4>1. pc[r] = "selectMirror"
        BY <1>0, <2>2, <3>3, ReadStep
      <4>2. QED
        BY <1>1, <2>0, <3>1, <3>3, <4>1 DEF ConnectsBoth
    <3>4. CASE pc'[r] = "commit"
      <4>1. pc[r] = "selectMirror" /\ Mirror(r) \in rows \cup ins[r]
        BY <1>0, <2>1, <2>2, <3>4, ReadStep
      <4>2. Mirror(r) \notin ins[r]
        BY <2>0, <4>1 DEF Connecting
      <4>3. Row(r) \in rows /\ Row(r) \notin ins[r]
        BY <2>0, <4>1, <4>2
      <4>4. ins[r] = {}
        BY <2>0, <4>1, <4>3 DEF Connecting
      <4>5. QED
        BY <1>1, <3>1, <4>3, <4>4 DEF ConnectsBoth
    <3>5. CASE pc'[r] \notin {"selectMirror", "insertMirror", "commit"}
      BY <3>5 DEF ConnectsBoth
    <3>6. QED
      BY <3>2, <3>3, <3>4, <3>5
  <2>3. CASE Insert(r) /\ ~Refused(r)
    <3>1. /\ UNCHANGED <<rows, alive>> /\ ins'[r] = ins[r] \cup Writes(r)
          /\ Writes(r) = IF pc[r] = "insertRow" THEN {Row(r)} ELSE {Mirror(r)}
          /\ pc'[r] = IF pc[r] = "insertRow" THEN "selectMirror" ELSE "commit"
          /\ pc[r] \in {"insertRow", "insertMirror"}
          /\ Writes(r) \cap Visible(r) = {} /\ {caller[r], other[r]} \subseteq alive
      BY <1>0, <2>0, <2>3, InsertStep
    <3>2. Row(r) \in ins'[r]
      <4>1. CASE pc[r] = "insertRow"
        BY <3>1, <4>1
      <4>2. CASE pc[r] = "insertMirror"
        <5>1. Row(r) \notin rows
          BY <2>0, <2>1, <3>1, <4>2
        <5>2. QED
          BY <2>0, <3>1, <4>2, <5>1 DEF ConnectsBoth
      <4>3. QED
        BY <3>1, <4>1, <4>2
    <3>3. QED
      BY <1>1, <3>1, <3>2 DEF ConnectsBoth
  <2>4. CASE Commit(r) \/ RollsBack(r)
    <3>1. pc'[r] = "done"
      BY <1>0, <2>4, CommitStep, RolledBackStep DEF RollsBack
    <3>2. QED
      BY <3>1 DEF ConnectsBoth
  <2>5. QED
    BY <1>0, <1>6, <2>2, <2>3, <2>4, StepKinds, DropStep, DestroyStep
<1>7. ASSUME kind[r] = "disconnect" PROVE DisconnectsBoth(r)'
  <2>0. /\ Disconnecting(r) /\ DisconnectsBoth(r) /\ del[r] \subseteq rows /\ Row(r) # Mirror(r)
        /\ Row(r) \in rows <=> Mirror(r) \in rows
        /\ del \in [Requests -> SUBSET Pairs] /\ pc \in [Requests -> Labels]
        /\ kind[r] \in Whose(pc[r])
    BY <1>0, <1>7, Rows, MirrorOf DEF Written, BothWays, Locked, TypeInv, Stored, Underway
  <2>1. Visible(r) = rows \ del[r]
    BY <2>0 DEF Visible, Disconnecting
  <2>2. CASE Reads(r)
    <3>1. pc'[r] # "deleteMirror" /\ (pc'[r] = "commit" => pc[r] = "selectMirror")
      BY <1>0, <2>2, ReadStep
    <3>2. pc'[r] # "commit"
      BY <1>7, <2>0, <3>1 DEF Whose
    <3>3. QED
      BY <3>1, <3>2 DEF DisconnectsBoth
  <2>3. CASE Drops(r)
    <3>1. /\ rows' = rows /\ del'[r] = del[r] \cup (Writes(r) \cap Visible(r))
          /\ Writes(r) = IF pc[r] = "deleteRow" THEN {Row(r)} ELSE {Mirror(r)}
          /\ pc'[r] = IF pc[r] = "deleteRow" THEN "deleteMirror" ELSE "commit"
          /\ pc[r] \in {"deleteRow", "deleteMirror"}
      BY <1>0, <1>7, <2>0, <2>3, DropStep DEF Found
    <3>2. CASE pc[r] = "deleteRow"
      BY <1>1, <2>0, <2>1, <3>1, <3>2 DEF Disconnecting, DisconnectsBoth
    <3>3. CASE pc[r] = "deleteMirror"
      <4>1. CASE Row(r) \in del[r]
        <5>1. del'[r] = {Row(r), Mirror(r)}
          BY <2>0, <2>1, <3>1, <3>3, <4>1 DEF Disconnecting
        <5>2. QED
          BY <1>1, <3>1, <3>3, <5>1 DEF DisconnectsBoth
      <4>2. CASE Row(r) \notin del[r]
        <5>1. del[r] = {} /\ Row(r) \notin rows /\ Mirror(r) \notin rows
          BY <2>0, <3>3, <4>2 DEF DisconnectsBoth
        <5>2. del'[r] = {}
          BY <2>1, <3>1, <3>3, <5>1
        <5>3. QED
          BY <1>1, <3>1, <3>3, <5>1, <5>2 DEF DisconnectsBoth
      <4>3. QED
        BY <4>1, <4>2
    <3>4. QED
      BY <3>1, <3>2, <3>3
  <2>4. CASE Commit(r) \/ RollsBack(r)
    <3>1. pc'[r] = "done"
      BY <1>0, <2>4, CommitStep, RolledBackStep DEF RollsBack
    <3>2. QED
      BY <3>1 DEF DisconnectsBoth
  <2>5. QED
    BY <1>0, <1>7, <2>2, <2>3, <2>4, StepKinds, InsertStep, DestroyStep
<1>8. NoneMeets'
  BY <1>0, StepMeets DEF BothWays
<1>9. QED
  BY <1>1, <1>3, <1>5, <1>6, <1>7, <1>8 DEF BothWays

-----------------------------------------------------------------------------
(* Racing connects lose none. *)

\* What a request asked for is stored, or on its way: another transaction has inserted a
\* row of the pair.  The one that the database aborts in a deadlock waits for such a one.
OnItsWay(r) ==
    \/ {Row(r), Mirror(r)} \subseteq rows
    \/ \E s \in Requests : ins[s] # {} /\ SamePair(r, s)

Racing == failures = 0 /\ \A r \in Requests : kind[r] = "connect"

NoneLostYet ==
    Racing => /\ alive = Users /\ ~met
              /\ \A r \in Requests : pc[r] = "done" => OnItsWay(r)

LEMMA StepLosesNone ==
  ASSUME HeldInv, met \/ (Mutual /\ BothWays), NoneLostYet, NEW r \in Requests, Step(r)
  PROVE  NoneLostYet'
<1> SUFFICES ASSUME Racing'
             PROVE  /\ alive' = Users /\ ~met'
                    /\ \A s \in Requests : pc'[s] = "done" => OnItsWay(s)'
  BY DEF NoneLostYet
<1>0. TypeInv /\ Written /\ Locked /\ Still(r)
  BY StandStill DEF HeldInv
<1>1. /\ UNCHANGED inputs /\ \A s \in Requests : kind[s] = "connect"
      /\ failures \in Nat /\ failures' = 0
  BY <1>0 DEF Racing, Still, inputs, TypeInv, Underway
<1>2. failures = 0 /\ failures' # failures + 1
  <2>1. failures' # failures + 1
    BY <1>1
  <2>2. failures' = failures
    BY <1>0, <2>1, StepKinds, ReadStep, InsertStep, DropStep, DestroyStep, CommitStep
  <2>3. QED
    BY <1>1, <2>1, <2>2
<1>3. /\ alive = Users /\ ~met /\ Mutual /\ BothWays
      /\ \A s \in Requests : pc[s] = "done" => OnItsWay(s)
  BY <1>1, <1>2 DEF NoneLostYet, Racing
<1>4. /\ \A s \in Requests : del[s] = {} /\ dying[s] = {} /\ Connecting(s) /\ ConnectsBoth(s)
      /\ \A s \in Requests : caller[s] \in alive /\ other[s] \in alive
  BY <1>0, <1>1, <1>3 DEF Written, Connecting, BothWays, TypeInv, Asked
<1>5. \A s, q \in Requests : /\ Row(s)' = Row(s) /\ Mirror(s)' = Mirror(s)
                             /\ SamePair(s, q)' = SamePair(s, q)
  BY <1>1 DEF inputs, Row, Mirror, SamePair
\* Enough: no row is lost, and if r's pair was on its way, it still is.
<1>6. ASSUME alive' = Users, ~met', rows \subseteq rows',
             pc'[r] = "done" \/ (ins'[r] = {} /\ ins[r] # {}) => OnItsWay(r)'
      PROVE  /\ alive' = Users /\ ~met'
             /\ \A s \in Requests : pc'[s] = "done" => OnItsWay(s)'
  <2>1. SUFFICES ASSUME NEW s \in Requests, pc'[s] = "done" PROVE OnItsWay(s)'
    BY <1>6
  <2>2. CASE s = r
    BY <1>6, <2>1, <2>2 DEF OnItsWay, SamePair, Row, Mirror
  <2>3. CASE s # r
    <3>1. pc[s] = "done" /\ OnItsWay(s)
      BY <1>0, <1>3, <2>1, <2>3 DEF Still
    <3>2. CASE {Row(s), Mirror(s)} \subseteq rows
      BY <1>5, <1>6, <3>2 DEF OnItsWay
    <3>3. CASE \E q \in Requests : ins[q] # {} /\ SamePair(s, q)
      <4>1. PICK q \in Requests : ins[q] # {} /\ SamePair(s, q)
        BY <3>3
      <4>2. CASE ins'[q] # {}
        BY <1>5, <4>1, <4>2 DEF OnItsWay
      <4>3. CASE ins'[q] = {}
        <5>1. q = r
          BY <1>0, <4>1, <4>3 DEF Still
        <5>2. OnItsWay(r)'
          BY <1>6, <4>1, <4>3, <5>1
        <5>3. CASE {Row(r), Mirror(r)} \subseteq rows'
          BY <1>0, <1>5, <4>1, <5>1, <5>3, OnePair DEF OnItsWay
        <5>4. CASE \E t \in Requests : ins'[t] # {} /\ SamePair(r, t)
          BY <1>5, <4>1, <5>1, <5>4 DEF OnItsWay, SamePair
        <5>5. QED
          BY <1>5, <5>2, <5>3, <5>4 DEF OnItsWay
      <4>4. QED
        BY <4>2, <4>3
    <3>4. QED
      BY <3>1, <3>2, <3>3 DEF OnItsWay
  <2>4. QED
    BY <2>2, <2>3
<1>7. CASE Reads(r)
  <2>1. UNCHANGED <<alive, rows, ins>>
    BY <1>0, <1>7, ReadStep
  <2>2. ~met'
    <3>1. CASE Find(r)
      <4>1. \A s \in Requests : {kind[r], kind[s]} # {"connect", "disconnect"}
        BY <1>1
      <4>2. QED
        BY <1>3, <3>1, <4>1 DEF Find
    <3>2. CASE ~Find(r)
      BY <1>0, <1>3, <1>7, <3>2, ReadStep
    <3>3. QED
      BY <3>1, <3>2
  <2>3. pc'[r] = "done" => {Row(r), Mirror(r)} \subseteq rows
    <3>1. SUFFICES ASSUME pc'[r] = "done" PROVE {Row(r), Mirror(r)} \subseteq rows
      OBVIOUS
    <3>2. pc \in [Requests -> Labels]
      BY <1>0 DEF TypeInv, Underway
    <3>3. ~Find(r)
      BY <1>1, <1>4, <3>1, <3>2 DEF Find, GoTo
    <3>4. Check(r)
      BY <1>0, <1>7, <3>1, <3>3, ReadStep DEF Reads, Select, List
    <3>5. Row(r) \in rows
      BY <1>1, <3>1, <3>2, <3>4 DEF Check, GoTo
    <3>6. QED
      BY <1>0, <1>3, <3>5, MirrorOf
  <2>4. QED
    BY <1>3, <1>5, <1>6, <2>1, <2>2, <2>3 DEF OnItsWay
<1>8. CASE Insert(r) /\ ~Refused(r)
  <2>1. /\ UNCHANGED <<alive, rows, met>> /\ ins'[r] = ins[r] \cup Writes(r) /\ pc'[r] # "done"
        /\ Writes(r) # {}
    BY <1>0, <1>8, InsertStep DEF TypeInv, Stored, Underway
  <2>2. QED
    BY <1>3, <1>6, <2>1
<1>9. CASE Commit(r)
  <2>1. rows' = rows \cup ins[r] /\ alive' = Users /\ ~met' /\ pc[r] = "commit"
    BY <1>0, <1>3, <1>4, <1>9, CommitStep
  <2>2. {Row(r), Mirror(r)} \subseteq rows'
    <3>1. CASE Row(r) \in ins[r]
      BY <1>4, <2>1, <3>1 DEF ConnectsBoth
    <3>2. CASE Row(r) \notin ins[r]
      BY <1>0, <1>3, <1>4, <2>1, <3>2, MirrorOf DEF ConnectsBoth
    <3>3. QED
      BY <3>1, <3>2
  <2>3. QED
    BY <1>5, <1>6, <2>1, <2>2 DEF OnItsWay
<1>10. CASE RollsBack(r) /\ Insert(r) /\ Refused(r)
  <2>1. UNCHANGED <<alive, rows, met>>
    BY <1>0, <1>10, RolledBackStep DEF RollsBack
  <2>2. /\ Inserting(r) /\ Writes(r) \cap Visible(r) # {} /\ Visible(r) = rows \cup ins[r]
    BY <1>4, <1>10 DEF Insert, Refused, Visible
  <2>3. CASE pc[r] = "insertRow"
    <3>1. Writes(r) = {Row(r)} /\ ins[r] = {}
      BY <1>4, <2>3 DEF Writes, Connecting
    <3>2. QED
      BY <1>0, <1>3, <1>5, <1>6, <2>1, <2>2, <3>1, MirrorOf DEF OnItsWay
  <2>4. CASE pc[r] = "insertMirror"
    <3>1. Writes(r) = {Mirror(r)} /\ ins[r] \subseteq {Row(r)}
      BY <1>4, <2>4 DEF Writes, Connecting
    <3>2. Mirror(r) \in rows
      BY <1>0, <2>2, <3>1, Rows
    <3>3. QED
      BY <1>0, <1>3, <1>5, <1>6, <2>1, <3>2, MirrorOf DEF OnItsWay
  <2>5. QED
    BY <2>2, <2>3, <2>4 DEF Inserting
<1>11. CASE RollsBack(r) /\ Deadlock(r)
  <2>1. UNCHANGED <<alive, rows, met>>
    BY <1>0, <1>11, RolledBackStep DEF RollsBack
  <2>2. PICK s \in WaitsOn(r) : TRUE
    BY <1>11 DEF Deadlock, InCycle, Blocked
  <2>3. s \in Requests \ {r} /\ Inserting(r) /\ Writes(r) \cap ins[s] # {}
    <3>1. pc[r] # "destroyUser"
      BY <1>0, <1>1 DEF TypeInv, Underway, Whose
    <3>2. s \in Requests \ {r} /\ del[s] = {} /\ dying[s] = {}
      BY <1>4, <2>2 DEF WaitsOn
    <3>3. QED
      BY <2>2, <3>1, <3>2 DEF WaitsOn
  <2>4. Writes(r) \subseteq {Row(r), Mirror(r)} /\ ins[s] \subseteq {Row(s), Mirror(s)}
    BY <1>4, <2>3 DEF Inserting, Writes, Connecting
  <2>5. SamePair(r, s)
    BY <1>0, <2>3, <2>4, OnePair
  <2>6. ins'[s] # {}
    BY <1>0, <2>3 DEF Still
  <2>7. OnItsWay(r)'
    BY <1>5, <2>3, <2>5, <2>6 DEF OnItsWay
  <2>8. QED
    BY <1>3, <1>6, <2>1, <2>7
<1>12. QED
  BY <1>0, <1>1, <1>2, <1>7, <1>8, <1>9, <1>10, <1>11, StepKinds, DropStep, DestroyStep

-----------------------------------------------------------------------------
(* The invariant of connections, and what follows from it. *)

ConnectionsInv ==
    /\ HeldInv
    /\ NoDangling /\ LeavingNone
    /\ met \/ (Mutual /\ BothWays)
    /\ NoneLostYet

LEMMA ConnectionsInvInit == Init => ConnectionsInv
<1> SUFFICES ASSUME Init PROVE ConnectionsInv
  OBVIOUS
<1>1. PICK pairs \in SUBSET {k \in Users \X Users : k[1] # k[2]} :
         rows = pairs \cup {<<k[2], k[1]>> : k \in pairs}
  BY DEF Init
<1>2. rows \subseteq Pairs /\ Mutual
  <2>1. rows \subseteq Pairs
    BY <1>1 DEF Pairs
  <2>2. ASSUME NEW k \in rows PROVE <<k[2], k[1]>> \in rows
    <3>1. CASE k \in pairs
      BY <1>1, <3>1
    <3>2. CASE k \notin pairs
      <4>1. PICK j \in pairs : k = <<j[2], j[1]>>
        BY <1>1, <3>2
      <4>2. <<k[2], k[1]>> = j
        BY <1>1, <4>1
      <4>3. QED
        BY <1>1, <4>2
    <3>3. QED
      BY <3>1, <3>2
  <2>3. QED
    BY <2>1, <2>2 DEF Mutual
<1>3. TypeInv
  <2>1. Asked
    BY ConnectionsAssumption DEF Init, Asked
  <2>2. Underway
    BY <2>1 DEF Init, Underway, Labels, Whose, Asked
  <2>3. Stored
    BY <1>2 DEF Init, Stored
  <2>4. QED
    BY <2>1, <2>2, <2>3 DEF TypeInv
<1>4. Written /\ Locked
  BY DEF Init, Written, Connecting, Disconnecting, Deleting, Locked
<1>5. NoDangling /\ LeavingNone
  BY <1>2 DEF Init, NoDangling, LeavingNone, Pairs
<1>6. BothWays
  BY DEF Init, BothWays, NoneMeets, InFlight, ConnectsBoth, DisconnectsBoth
<1>7. NoneLostYet
  BY DEF Init, NoneLostYet
<1>8. QED
  BY <1>2, <1>3, <1>4, <1>5, <1>6, <1>7 DEF ConnectionsInv, HeldInv

LEMMA ConnectionsInvStep == ConnectionsInv /\ [Next]_vars => ConnectionsInv'
<1> SUFFICES ASSUME ConnectionsInv, [Next]_vars PROVE ConnectionsInv'
  OBVIOUS
<1>1. CASE Next
  <2>1. PICK r \in Requests : Step(r)
    BY <1>1 DEF Next, Step
  <2>2. QED
    BY <2>1, StepHeld, StepDangling, StepMutual, StepLosesNone DEF ConnectionsInv
<1>2. CASE UNCHANGED vars
  <2>1. HeldInv'
    BY <1>2 DEF vars, ConnectionsInv, HeldInv, TypeInv, Asked, Underway, Stored, Written, Locked,
                Connecting, Disconnecting, Deleting, Row, Mirror, Touching
  <2>2. NoDangling' /\ LeavingNone'
    BY <1>2 DEF vars, ConnectionsInv, NoDangling, LeavingNone, Touching
  <2>3. met' \/ (Mutual' /\ BothWays')
    BY <1>2 DEF vars, ConnectionsInv, Mutual, BothWays, NoneMeets, InFlight, SamePair,
                ConnectsBoth, DisconnectsBoth, Row, Mirror
  <2>4. NoneLostYet'
    BY <1>2 DEF vars, ConnectionsInv, NoneLostYet, Racing, OnItsWay, Row, Mirror, SamePair
  <2>5. QED
    BY <2>1, <2>2, <2>3, <2>4 DEF ConnectionsInv
<1>3. QED
  BY <1>1, <1>2

LEMMA ConnectionsInvHolds == Spec => []ConnectionsInv
BY ConnectionsInvInit, ConnectionsInvStep, PTL DEF Spec

\* Connections stay mirrored (post_connection, delete_connection and delete_me of
\* me.controller.ts, statement by statement) unless a connect meets a disconnect; racing
\* connects, which abort each other in deadlocks, lose none; none is left to an account
\* that is gone.
THEOREM ConnectionsHold == Spec => []ConnectionsKept
<1>1. ConnectionsInv => ConnectionsKept
  <2>1. SUFFICES ASSUME ConnectionsInv PROVE (met \/ Mutual) /\ NoneLost /\ NoDangling
    BY DEF ConnectionsKept
  <2>2. NoneLost
    <3>1. SUFFICES ASSUME failures = 0, \A r \in Requests : kind[r] = "connect" /\ pc[r] = "done",
                          NEW r \in Requests
                   PROVE  {Row(r), Mirror(r)} \subseteq rows
      BY DEF NoneLost
    <3>2. \A s \in Requests : ins[s] = {}
      BY <2>1, <3>1 DEF ConnectionsInv, HeldInv, Written, Connecting
    <3>3. OnItsWay(r)
      BY <2>1, <3>1 DEF ConnectionsInv, NoneLostYet, Racing
    <3>4. QED
      BY <3>2, <3>3 DEF OnItsWay
  <2>3. QED
    BY <2>1, <2>2 DEF ConnectionsInv
<1>2. QED
  BY <1>1, ConnectionsInvHolds, PTL

\* Who is waited for is not yet answered: an answer leaves nothing held.
LEMMA AnsweredHoldsNothing ==
  ASSUME HeldInv, NEW r \in Requests, NEW s \in WaitsOn(r)
  PROVE  s \in Requests /\ pc[s] # "done"
<1>1. s \in Requests /\ (ins[s] # {} \/ del[s] # {} \/ dying[s] # {})
  BY DEF WaitsOn
<1>2. kind[s] \in {"connect", "disconnect", "deleteMe"}
  BY <1>1 DEF HeldInv, TypeInv, Asked
<1>3. pc[s] = "done" => ins[s] = {} /\ del[s] = {} /\ dying[s] = {}
  BY <1>1, <1>2 DEF HeldInv, Written, Connecting, Disconnecting, Deleting
<1>4. QED
  BY <1>1, <1>3

\* While a connect, a disconnect or an account deletion is unanswered, one of them can
\* go on or is in a cycle of waits that the database breaks: whatever aborts a
\* transaction, the handlers' catch leaves none of its rows or locks in anyone's way.
THEOREM ConnectionsNeverStuck == Spec => []NeverStuck
<1>1. ConnectionsInv => NeverStuck
  <2> SUFFICES ASSUME ConnectionsInv, NEW r0 \in Requests, pc[r0] # "done",
                      \A r \in Requests : ~CanGo(r)
               PROVE  \E r \in Requests : InCycle(r)
    BY DEF NeverStuck
  <2>1. HeldInv
    BY DEF ConnectionsInv
  <2> DEFINE waiting == {r \in Requests : pc[r] # "done"}
             waits == [r \in waiting |-> WaitsOn(r)]
  <2>2. IsFiniteSet(waiting) /\ waiting # {}
    BY ConnectionsAssumption, FS_Subset
  <2>3. ASSUME NEW r \in waiting PROVE WaitsOn(r) # {}
    <3>1. pc[r] = "check" => kind[r] \in {"connect", "disconnect"}
      BY <2>1 DEF HeldInv, TypeInv, Underway, Whose
    <3>2. QED
      BY <3>1 DEF CanGo, Blocked
  <2>4. \A r \in waiting : waits[r] \cap waiting # {}
    BY <2>1, <2>3, AnsweredHoldsNothing
  <2>5. PICK rs \in SUBSET waiting : /\ rs # {}
                                     /\ \A s \in rs : waits[s] \cap rs # {}
                                     /\ \A s \in rs : \E q \in rs : s \in waits[q]
    BY <2>2, <2>4, SomeCycle
  <2>6. Cycle(rs)
    BY <2>5 DEF Cycle
  <2>7. PICK r \in rs : TRUE
    BY <2>5
  <2>8. InCycle(r) /\ r \in Requests
    BY <2>3, <2>6, <2>7 DEF InCycle, Blocked
  <2>9. QED
    BY <2>8
<1>2. QED
  BY <1>1, ConnectionsInvHolds, PTL

\* Of the answers, a 204 is that of a commit.
LEMMA ReplyStep ==
  ASSUME TypeInv, DOMAIN reply = Requests, NEW r \in Requests, Step(r)
  PROVE  /\ DOMAIN reply' = Requests
         /\ \A s \in Requests \ {r} : reply'[s] = reply[s]
         /\ reply'[r] # reply[r] /\ reply'[r] = 204 => Commit(r) /\ kind[r] # "deleteMe"
<1>1. CASE Find(r) \/ Check(r)
  <2>1. reply' = reply \/ \E code \in {404, 409} : reply' = [reply EXCEPT ![r] = code]
    BY <1>1 DEF Find, Check, Answer
  <2>2. QED
    BY <2>1
<1>2. CASE Commit(r)
  BY <1>2 DEF Commit, Answer
<1>3. CASE Select(r) \/ Delete(r) \/ List(r) \/ DropMirror(r) \/ DropOwn(r) \/ DestroyUser(r)
  BY <1>3 DEF Select, Delete, List, DropMirror, DropOwn, DestroyUser
<1>4. CASE Insert(r) \/ Deadlock(r) \/ Fails(r)
  <2>1. reply' = reply \/ reply' = [reply EXCEPT ![r] = 400]
    BY <1>4 DEF Insert, Deadlock, Fails, RollBack, Answer
  <2>2. QED
    BY <2>1
<1>5. QED
  BY <1>1, <1>2, <1>3, <1>4 DEF Step, Statement

\* A 204 is true when it is sent: a connect commits both rows, or has found both and
\* nothing has taken them; a disconnect deletes both, or has found none and none has come.
CommitsAsTold ==
    \A r \in Requests :
        (reply[r] = 0 /\ reply'[r] = 204 /\ ~met' /\ {caller[r], other[r]} \subseteq alive')
        => {Row(r), Mirror(r)} \cap rows'
              = IF kind[r] = "connect" THEN {Row(r), Mirror(r)} ELSE {}

LEMMA CommitTold ==
  ASSUME ConnectionsInv, NEW r \in Requests, Commit(r), kind[r] # "deleteMe", ~met',
         {caller[r], other[r]} \subseteq alive'
  PROVE  {Row(r), Mirror(r)} \cap rows'
            = IF kind[r] = "connect" THEN {Row(r), Mirror(r)} ELSE {}
<1>1. /\ TypeInv /\ Written /\ Locked
      /\ kind[r] \in {"connect", "disconnect"}
  BY DEF ConnectionsInv, HeldInv, TypeInv, Asked
<1>2. /\ rows' = (rows \ del[r]) \cup ins[r] /\ pc[r] = "commit"
      /\ {caller[r], other[r]} \subseteq alive /\ ~met
  BY <1>1, CommitStep
<1>3. Mutual /\ BothWays /\ (Row(r) \in rows <=> Mirror(r) \in rows) /\ ins[r] \cap rows = {}
  BY <1>1, <1>2, MirrorOf DEF ConnectionsInv, Locked
<1>4. CASE kind[r] = "connect"
  <2>1. del[r] = {} /\ ({Row(r), Mirror(r)} \subseteq ins[r] \/ Row(r) \in rows)
    BY <1>1, <1>2, <1>3, <1>4 DEF Written, Connecting, BothWays, ConnectsBoth
  <2>2. QED
    BY <1>2, <1>3, <1>4, <2>1
<1>5. CASE kind[r] = "disconnect"
  <2>1. ins[r] = {} /\ (del[r] = {Row(r), Mirror(r)} \/ Row(r) \notin rows)
    BY <1>1, <1>2, <1>3, <1>5 DEF Written, Disconnecting, BothWays, DisconnectsBoth
  <2>2. QED
    BY <1>2, <1>3, <1>5, <2>1
<1>6. QED
  BY <1>1, <1>4, <1>5

LEMMA StepTold ==
  ASSUME ConnectionsInv, DOMAIN reply = Requests, [Next]_vars
  PROVE  CommitsAsTold /\ DOMAIN reply' = Requests
<1>0. TypeInv
  BY DEF ConnectionsInv, HeldInv
<1>1. CASE UNCHANGED vars
  BY <1>1 DEF vars, CommitsAsTold
<1>2. ASSUME NEW r \in Requests, Step(r) PROVE CommitsAsTold /\ DOMAIN reply' = Requests
  <2>1. \A s \in Requests : reply[s] = 0 /\ reply'[s] = 204 => s = r /\ Commit(r) /\ kind[r] # "deleteMe"
    BY <1>0, <1>2, ReplyStep
  <2>2. QED
    BY <1>0, <1>2, <2>1, ReplyStep, CommitTold DEF CommitsAsTold
<1>3. QED
  BY <1>1, <1>2 DEF Next, Step

\* The 204 of a connect or a disconnect is true when it is sent (post_connection and
\* delete_connection): the connection is there in both directions, or in none, unless a
\* connect met a disconnect or one of the two accounts is gone.
THEOREM ConnectionsConfirmed == Spec => Confirmed
<1>1. Init => DOMAIN reply = Requests
  BY DEF Init
<1>2. ConnectionsInv /\ DOMAIN reply = Requests /\ [Next]_vars
      => [CommitsAsTold]_vars /\ (DOMAIN reply = Requests)'
  BY StepTold
<1>3. Spec => [][CommitsAsTold]_vars
  BY <1>1, <1>2, ConnectionsInvHolds, PTL DEF Spec
<1>4. QED
  BY <1>3 DEF Confirmed, CommitsAsTold

-----------------------------------------------------------------------------
(* Groups. *)

GroupRow == [Fields -> Texts]

CallLabels == {"start", "user", "check", "insertGroup", "insertFirst", "commit", "select", "insert",
           "remove", "save", "destroy", "count", "rows", "done"}

\* Which handler has which statement.
CallOf(label) ==
    CASE label = "user" -> {"patch", "delete"}
      [] label = "check" -> {"patch", "delete", "join", "leave"}
      [] label \in {"insertGroup", "insertFirst", "commit"} -> {"create"}
      [] label \in {"select", "insert"} -> {"join"}
      [] label = "remove" -> {"leave"}
      [] label = "save" -> {"patch"}
      [] label = "destroy" -> {"delete"}
      [] label \in {"count", "rows"} -> {"list"}
      [] OTHER -> G!Ops

\* Types; a body sets columns of a group to texts.
CallTypes ==
    /\ op \in [Calls -> G!Ops] /\ who \in [Calls -> People] /\ whose \in [Calls -> GroupIds]
    /\ at \in [Calls -> CallLabels]
    /\ \A r \in Calls : op[r] \in CallOf(at[r])
    /\ body \in [Calls -> Bodies] /\ Texts # {}
    /\ group \in [GroupIds -> GroupRow \cup {Gone}]
    /\ DOMAIN status = Calls /\ DOMAIN loaded = Calls /\ DOMAIN total = Calls
    /\ \A r \in Calls : DOMAIN total[r] = {"count", "rows"}

\* A membership is one of an account in a group, both there.
Members ==
    /\ members \subseteq people \X GroupIds
    /\ \A g \in GroupIds : group[g] = Gone => \A u \in people : <<u, g>> \notin members
    /\ \A r \in Calls : at[r] = "commit" => who[r] \in people

\* A group that is being created is not there, nobody else creates it, and no call has
\* found it.
Creating ==
    \A r, s \in Calls : op[r] = "create" =>
        /\ at[r] # "done" => group[whose[r]] = Gone
        /\ op[s] = "create" /\ s # r => whose[s] # whose[r]
        /\ at[r] # "done" /\ op[s] = "delete" /\ whose[s] = whose[r] =>
              at[s] = "start" \/ G!Done(s, {404})

GroupsInv == CallTypes /\ Members /\ Creating

-----------------------------------------------------------------------------
(* The statements. *)

\* A statement of r takes it on within its handler, or ends it.
LEMMA Going ==
  ASSUME CallTypes, NEW r \in Calls, G!Statement(r)
  PROVE  /\ UNCHANGED <<G!callInputs, people>>
         /\ at' \in [Calls -> CallLabels] /\ op[r] \in CallOf(at'[r])
         /\ at[r] # "done" /\ at'[r] # "start"
         /\ \A s \in Calls \ {r} : at'[s] = at[s] /\ status'[s] = status[s] /\ total'[s] = total[s]
         /\ DOMAIN status' = Calls /\ DOMAIN loaded' = Calls /\ DOMAIN total' = Calls
         /\ \A s \in Calls : DOMAIN total'[s] = {"count", "rows"}
         /\ at'[r] = "commit" => G!InsertFirst(r) /\ who[r] \in people
<1>0. /\ at \in [Calls -> CallLabels] /\ op[r] \in CallOf(at[r]) /\ op[r] \in G!Ops
      /\ DOMAIN status = Calls /\ DOMAIN loaded = Calls /\ DOMAIN total = Calls
      /\ \A s \in Calls : DOMAIN total[s] = {"count", "rows"}
  BY DEF CallTypes
<1>1. UNCHANGED <<G!callInputs, people>> /\ at[r] # "done"
  BY DEF G!Statement, G!FindGroup, G!FindUser, G!Find, G!Check, G!InsertGroup,
         G!InsertFirst, G!Commit, G!Select, G!Insert, G!Remove, G!Save, G!Destroy, G!Count, G!Rows, G!groupDb
<1>2. /\ DOMAIN loaded' = Calls /\ DOMAIN total' = Calls
      /\ \A s \in Calls : DOMAIN total'[s] = {"count", "rows"}
      /\ \A s \in Calls \ {r} : total'[s] = total[s]
  BY <1>0 DEF G!Statement, G!FindGroup, G!FindUser, G!Find, G!Check, G!InsertGroup,
         G!InsertFirst, G!Commit, G!Select, G!Insert, G!Remove, G!Save, G!Destroy, G!Count, G!Rows
<1>3. status' = status \/ \E code : status' = [status EXCEPT ![r] = code]
  BY DEF G!Statement, G!FindGroup, G!FindUser, G!Find, G!Check, G!InsertGroup,
         G!InsertFirst, G!Commit, G!Select, G!Insert, G!Remove, G!Save, G!Destroy, G!Count, G!Rows, G!Answer, G!GoTo
<1> DEFINE Goes(label) == at' = [at EXCEPT ![r] = label]
<1>4. \/ Goes("done")
      \/ Goes("user") /\ op[r] \in {"patch", "delete"}
      \/ Goes("check") /\ op[r] \in {"patch", "delete", "join", "leave"}
      \/ Goes("insertGroup") /\ op[r] = "create"
      \/ Goes("insertFirst") /\ at[r] = "insertGroup"
      \/ Goes("commit") /\ at[r] = "insertFirst" /\ G!InsertFirst(r) /\ who[r] \in people
      \/ Goes("select") /\ op[r] = "join"
      \/ Goes("insert") /\ at[r] = "select"
      \/ Goes("remove") /\ op[r] = "leave"
      \/ Goes("save") /\ op[r] = "patch"
      \/ Goes("destroy") /\ op[r] = "delete"
      \/ Goes("count") /\ op[r] = "list"
      \/ Goes("rows") /\ at[r] = "count"
  <2>1. CASE G!FindGroup(r) \/ G!FindUser(r) \/ G!Find(r)
    BY <1>0, <2>1 DEF G!FindGroup, G!FindUser, G!Find, G!Answer, G!GoTo, CallOf
  <2>2. CASE G!Check(r)
    <3>1. op[r] \in {"patch", "delete", "join", "leave"}
      BY <1>0, <2>2 DEF G!Check, CallOf
    <3>2. QED
      BY <2>2, <3>1 DEF G!Check, G!Answer, G!GoTo
  <2>3. CASE G!InsertGroup(r) \/ G!InsertFirst(r) \/ G!Select(r) \/ G!Count(r)
    BY <2>3 DEF G!InsertGroup, G!InsertFirst, G!Select, G!Count, G!Answer, G!GoTo
  <2>4. CASE G!Commit(r) \/ G!Insert(r) \/ G!Remove(r) \/ G!Save(r) \/ G!Destroy(r) \/ G!Rows(r)
    BY <2>4 DEF G!Commit, G!Insert, G!Remove, G!Save, G!Destroy, G!Rows, G!Answer
  <2>5. QED
    BY <2>1, <2>2, <2>3, <2>4 DEF G!Statement
<1>5. ASSUME NEW label \in CallLabels \ {"start"}, Goes(label), op[r] \in CallOf(label),
             label = "commit" => G!InsertFirst(r) /\ who[r] \in people
      PROVE  /\ at' \in [Calls -> CallLabels] /\ op[r] \in CallOf(at'[r]) /\ at'[r] # "start"
             /\ \A s \in Calls \ {r} : at'[s] = at[s]
             /\ at'[r] = "commit" => G!InsertFirst(r) /\ who[r] \in people
  <2>1. at'[r] = label /\ at' \in [Calls -> CallLabels] /\ \A s \in Calls \ {r} : at'[s] = at[s]
    BY <1>0, <1>5
  <2>2. QED
    BY <1>5, <2>1
<1>6. /\ at' \in [Calls -> CallLabels] /\ op[r] \in CallOf(at'[r]) /\ at'[r] # "start"
      /\ \A s \in Calls \ {r} : at'[s] = at[s]
      /\ at'[r] = "commit" => G!InsertFirst(r) /\ who[r] \in people
  <2>1. \E label \in CallLabels \ {"start"} :
          /\ Goes(label) /\ op[r] \in CallOf(label)
          /\ label = "commit" => G!InsertFirst(r) /\ who[r] \in people
    BY <1>0, <1>4 DEF CallLabels, CallOf
  <2> HIDE DEF Goes
  <2>2. QED
    BY <1>5, <2>1
<1>7. DOMAIN status' = Calls /\ \A s \in Calls \ {r} : status'[s] = status[s]
  BY <1>0, <1>3
<1>8. QED
  BY <1>1, <1>2, <1>6, <1>7

LEMMA NoRowIsNone == Gone \notin GroupRow
BY NetworkAssumption DEF GroupRow

LEMMA BodyTexts ==
  ASSUME CallTypes, NEW r \in Calls
  PROVE  \A f \in DOMAIN body[r] : body[r][f] \in Texts
<1>1. body[r] \in UNION {[F -> Texts] : F \in SUBSET Fields}
  BY NetworkAssumption DEF CallTypes
<1>2. QED
  BY <1>1

\* A save leaves a group that is there, and each column what it was or what the body sets.
LEMMA SavedGroup ==
  ASSUME CallTypes, NEW r \in Calls, G!Save(r)
  PROVE  /\ group' \in [GroupIds -> GroupRow \cup {Gone}]
         /\ \A g \in GroupIds : group'[g] = Gone <=> group[g] = Gone
         /\ \A g \in GroupIds : \A f \in Fields : group'[g][f] # group[g][f] =>
               g = whose[r] /\ f \in DOMAIN body[r] /\ group'[g][f] = body[r][f]
<1>1. CASE group[whose[r]] = Gone
  BY <1>1 DEF G!Save, CallTypes
<1>2. CASE group[whose[r]] # Gone
  <2>1. DOMAIN G!Saved(r) \subseteq DOMAIN body[r] /\ \A f \in DOMAIN G!Saved(r) : G!Saved(r)[f] = body[r][f]
    BY DEF G!Saved
  <2>2. group' = [group EXCEPT ![whose[r]] =
                    [f \in Fields |-> IF f \in DOMAIN G!Saved(r) THEN G!Saved(r)[f] ELSE @[f]]]
    BY <1>2 DEF G!Save
  <2>3. /\ DOMAIN group'[whose[r]] = Fields
        /\ \A f \in Fields : group'[whose[r]][f] =
               IF f \in DOMAIN G!Saved(r) THEN G!Saved(r)[f] ELSE group[whose[r]][f]
        /\ \A g \in GroupIds \ {whose[r]} : group'[g] = group[g]
    BY <2>2 DEF CallTypes
  <2>4. group'[whose[r]] \in GroupRow
    <3>1. whose[r] \in GroupIds /\ group[whose[r]] \in GroupRow
      BY <1>2 DEF CallTypes
    <3>2. \A f \in Fields : group'[whose[r]][f] \in Texts
      BY <2>1, <2>3, <3>1, BodyTexts DEF GroupRow
    <3>3. group'[whose[r]] = [f \in Fields |-> IF f \in DOMAIN G!Saved(r) THEN G!Saved(r)[f]
                                              ELSE group[whose[r]][f]]
      BY <2>2, <3>1 DEF CallTypes
    <3>4. QED
      BY <2>3, <3>2, <3>3 DEF GroupRow
  <2>5. group' \in [GroupIds -> GroupRow \cup {Gone}]
    <3>1. DOMAIN group' = GroupIds /\ group' = [g \in GroupIds |-> group'[g]]
      BY <2>2 DEF CallTypes
    <3>2. \A g \in GroupIds : group'[g] \in GroupRow \cup {Gone}
      BY <2>3, <2>4 DEF CallTypes
    <3>3. QED
      BY <3>1, <3>2
  <2>6. group'[whose[r]] # Gone
    BY <2>4, NoRowIsNone
  <2>7. QED
    BY <1>2, <2>1, <2>3, <2>5, <2>6
<1>3. QED
  BY <1>1, <1>2

\* Groups and memberships change by a commit, a save, a destroy, an INSERT or a DELETE.
LEMMA GroupChanges ==
  ASSUME CallTypes, NEW r \in Calls, G!Statement(r)
  PROVE  /\ group' \in [GroupIds -> GroupRow \cup {Gone}]
         /\ G!Commit(r) => /\ op[r] = "create"
                         /\ group' = [group EXCEPT ![whose[r]] =
                                         [f \in Fields |-> CHOOSE t \in Texts : TRUE]]
                         /\ members' = members \cup {G!Row(r)} /\ left' = left
         /\ G!Save(r) => UNCHANGED <<members, left>>
         /\ G!Destroy(r) => /\ group' = [group EXCEPT ![whose[r]] = Gone]
                          /\ members' = {m \in members : m[2] # whose[r]} /\ left' = left
         /\ G!Insert(r) => /\ UNCHANGED <<group, left>>
                         /\ \/ members' = members
                            \/ /\ members' = members \cup {G!Row(r)}
                               /\ who[r] \in people /\ group[whose[r]] # Gone
         /\ G!Remove(r) => /\ group' = group /\ members' = members \ {G!Row(r)}
                         /\ left' = left \cup {whose[r]}
         /\ ~(G!Commit(r) \/ G!Save(r) \/ G!Destroy(r) \/ G!Insert(r) \/ G!Remove(r)) =>
               UNCHANGED <<group, members, left>>
<1>1. CASE G!Commit(r)
  <2>1. op[r] = "create"
    BY <1>1 DEF G!Commit, CallTypes, CallOf
  <2>2. at[r] = "commit"
    BY <1>1 DEF G!Commit
  <2>3. [f \in Fields |-> CHOOSE t \in Texts : TRUE] \in GroupRow
    BY DEF GroupRow, CallTypes
  <2>4. group' = [group EXCEPT ![whose[r]] = [f \in Fields |-> CHOOSE t \in Texts : TRUE]]
    BY <1>1 DEF G!Commit
  <2>5. group' \in [GroupIds -> GroupRow \cup {Gone}]
    BY <2>3, <2>4 DEF CallTypes
  <2>6. QED
    BY <1>1, <2>1, <2>2, <2>5 DEF G!Commit, G!Save, G!Destroy, G!Insert, G!Remove
<1>2. CASE G!Save(r)
  BY <1>2, SavedGroup DEF G!Commit, G!Save, G!Destroy, G!Insert, G!Remove, CallTypes
<1>3. CASE G!Destroy(r)
  BY <1>3 DEF G!Commit, G!Save, G!Destroy, G!Insert, G!Remove, CallTypes
<1>4. CASE G!Insert(r)
  BY <1>4 DEF G!Commit, G!Save, G!Destroy, G!Insert, G!Remove, CallTypes
<1>5. CASE G!Remove(r)
  BY <1>5 DEF G!Commit, G!Save, G!Destroy, G!Insert, G!Remove, CallTypes
<1>6. CASE ~(G!Commit(r) \/ G!Save(r) \/ G!Destroy(r) \/ G!Insert(r) \/ G!Remove(r))
  <2>1. UNCHANGED <<group, members, left>>
    BY <1>6 DEF G!Statement, G!FindGroup, G!FindUser, G!Find, G!Check, G!InsertGroup, G!InsertFirst, G!Select,
                G!Count, G!Rows, G!groupDb
  <2>2. QED
    BY <1>6, <2>1 DEF CallTypes
<1>7. QED
  BY <1>1, <1>2, <1>3, <1>4, <1>5, <1>6

-----------------------------------------------------------------------------
(* Each step keeps the invariant. *)

LEMMA GroupsInit ==
  ASSUME G!Init
  PROVE  GroupsInv
<1>1. CallTypes
  <2>1. PICK there \in SUBSET GroupIds, text \in Texts :
          group = [g \in GroupIds |-> IF g \in there THEN [f \in Fields |-> text] ELSE Gone]
    BY DEF G!Init
  <2>2. group \in [GroupIds -> GroupRow \cup {Gone}] /\ Texts # {}
    BY <2>1 DEF GroupRow
  <2>3. QED
    BY <2>2 DEF G!Init, CallTypes, CallLabels, CallOf
<1>2. Members
  <2>1. PICK there \in SUBSET GroupIds, text \in Texts :
          /\ group = [g \in GroupIds |-> IF g \in there THEN [f \in Fields |-> text] ELSE Gone]
          /\ members \in SUBSET (People \X there)
    BY DEF G!Init
  <2>2. people = People /\ \A r \in Calls : at[r] = "start"
    BY DEF G!Init
  <2>3. [f \in Fields |-> text] # Gone
    BY NoRowIsNone DEF GroupRow
  <2>4. QED
    BY <2>1, <2>2, <2>3 DEF Members
<1>3. Creating
  BY DEF G!Init, Creating
<1>4. QED
  BY <1>1, <1>2, <1>3 DEF GroupsInv

\* A statement of r, and a group nobody may have but its creator.
LEMMA StatementInv ==
  ASSUME GroupsInv, NEW r \in Calls, G!Statement(r)
  PROVE  GroupsInv'
<1>0. CallTypes /\ Members /\ Creating
  BY DEF GroupsInv
<1>1. /\ UNCHANGED <<op, who, whose, body, people>>
      /\ at[r] # "done" /\ at'[r] # "start"
      /\ \A s \in Calls \ {r} : at'[s] = at[s] /\ status'[s] = status[s]
  BY <1>0, Going DEF G!callInputs
<1>2. CallTypes'
  <2>1. \A s \in Calls : op'[s] \in CallOf(at'[s])
    BY <1>0, <1>1, Going DEF CallTypes
  <2>2. QED
    BY <1>0, <1>1, <2>1, Going, GroupChanges DEF CallTypes
<1>3. Members'
  <2>1. \A s \in Calls : at'[s] = "commit" => who'[s] \in people'
    BY <1>0, <1>1, Going DEF Members
  <2> DEFINE Held == /\ members' \subseteq people \X GroupIds
                     /\ \A g \in GroupIds : group'[g] = Gone =>
                            \A u \in people : <<u, g>> \notin members'
  <2>a. /\ who[r] \in People /\ whose[r] \in GroupIds /\ DOMAIN group = GroupIds
        /\ G!Row(r) = <<who[r], whose[r]>>
    BY <1>0 DEF CallTypes, G!Row
  <2>2. CASE G!Commit(r)
    <3>1. who[r] \in people
      BY <1>0, <2>2 DEF Members, G!Commit
    <3>2. /\ group' = [group EXCEPT ![whose[r]] = [f \in Fields |-> CHOOSE t \in Texts : TRUE]]
          /\ members' = members \cup {G!Row(r)}
      BY <1>0, <2>2, GroupChanges
    <3>3. group'[whose[r]] # Gone /\ \A g \in GroupIds \ {whose[r]} : group'[g] = group[g]
      <4>1. group'[whose[r]] = [f \in Fields |-> CHOOSE t \in Texts : TRUE]
        BY <2>a, <3>2
      <4>2. [f \in Fields |-> CHOOSE t \in Texts : TRUE] \in GroupRow
        BY <1>0 DEF CallTypes, GroupRow
      <4>3. group'[whose[r]] # Gone
        BY <4>1, <4>2, NoRowIsNone
      <4>4. QED
        BY <2>a, <3>2, <4>3
    <3>5. Held
      <4>1. members \subseteq people \X GroupIds
        BY <1>0 DEF Members
      <4>2. members' \subseteq people \X GroupIds
        BY <2>a, <3>1, <3>2, <4>1
      <4>3. ASSUME NEW g \in GroupIds, group'[g] = Gone, NEW u \in people
            PROVE  <<u, g>> \notin members'
        BY <1>0, <2>a, <3>2, <3>3, <4>3 DEF Members
      <4>4. QED
        BY <4>2, <4>3
    <3>4. QED
      BY <1>1, <2>1, <3>5 DEF Members
  <2>3. CASE G!Save(r)
    BY <1>0, <1>1, <2>1, <2>3, GroupChanges, SavedGroup DEF Members
  <2>4. CASE G!Destroy(r)
    <3>0. /\ group' = [group EXCEPT ![whose[r]] = Gone]
          /\ members' = {m \in members : m[2] # whose[r]}
      BY <1>0, <2>4, GroupChanges
    <3>1. \A g \in GroupIds \ {whose[r]} : group'[g] = group[g]
      BY <2>a, <3>0
    <3>2. Held
      <4>1. members' \subseteq people \X GroupIds
        BY <1>0, <3>0 DEF Members
      <4>2. ASSUME NEW g \in GroupIds, group'[g] = Gone, NEW u \in people
            PROVE  <<u, g>> \notin members'
        BY <1>0, <3>0, <3>1, <4>2 DEF Members
      <4>3. QED
        BY <4>1, <4>2
    <3>3. QED
      BY <1>1, <2>1, <3>2 DEF Members
  <2>5. CASE G!Insert(r)
    <3>0. /\ group' = group
          /\ \/ members' = members
             \/ /\ members' = members \cup {G!Row(r)}
                /\ who[r] \in people /\ group[whose[r]] # Gone
      BY <1>0, <2>5, GroupChanges
    <3>1. Held
      <4>1. members' \subseteq people \X GroupIds
        BY <1>0, <2>a, <3>0 DEF Members
      <4>2. ASSUME NEW g \in GroupIds, group'[g] = Gone, NEW u \in people
            PROVE  <<u, g>> \notin members'
        BY <1>0, <2>a, <3>0, <4>2 DEF Members
      <4>3. QED
        BY <4>1, <4>2
    <3>2. QED
      BY <1>1, <2>1, <3>1 DEF Members
  <2>6. CASE G!Remove(r)
    BY <1>0, <1>1, <2>1, <2>6, GroupChanges DEF Members
  <2>7. CASE ~(G!Commit(r) \/ G!Save(r) \/ G!Destroy(r) \/ G!Insert(r) \/ G!Remove(r))
    BY <1>0, <1>1, <2>1, <2>7, GroupChanges DEF Members
  <2>8. QED
    BY <2>2, <2>3, <2>4, <2>5, <2>6, <2>7
<1>4. Creating'
  <2> SUFFICES ASSUME NEW c \in Calls, NEW s \in Calls, op[c] = "create"
               PROVE  /\ at'[c] # "done" => group'[whose[c]] = Gone
                      /\ op[s] = "create" /\ s # c => whose[s] # whose[c]
                      /\ at'[c] # "done" /\ op[s] = "delete" /\ whose[s] = whose[c] =>
                            at'[s] = "start" \/ G!Done(s, {404})'
    BY <1>1 DEF Creating
  <2>1. op[s] = "create" /\ s # c => whose[s] # whose[c]
    BY <1>0 DEF Creating
  <2>2. at'[c] # "done" => at[c] # "done" /\ group[whose[c]] = Gone
    BY <1>0, <1>1 DEF Creating
  <2>3. at'[c] # "done" => group'[whose[c]] = Gone
    <3> SUFFICES ASSUME at'[c] # "done" PROVE group'[whose[c]] = Gone
      OBVIOUS
    <3>a. whose[c] \in GroupIds /\ DOMAIN group = GroupIds
      BY <1>0 DEF CallTypes
    <3>1. CASE G!Commit(r)
      <4>1. op[r] = "create" /\ r # c
        BY <1>0, <3>1, GroupChanges DEF G!Commit, G!Answer, CallTypes
      <4>2. whose[r] # whose[c]
        BY <1>0, <4>1 DEF Creating
      <4>3. QED
        BY <1>0, <2>2, <3>1, <3>a, <4>2, GroupChanges
    <3>2. CASE G!Save(r)
      BY <1>0, <2>2, <3>2, <3>a, SavedGroup
    <3>3. CASE G!Destroy(r)
      BY <1>0, <2>2, <3>3, <3>a, GroupChanges
    <3>4. CASE ~(G!Commit(r) \/ G!Save(r) \/ G!Destroy(r))
      BY <1>0, <2>2, <3>4, GroupChanges
    <3>5. QED
      BY <3>1, <3>2, <3>3, <3>4
  <2>4. ASSUME at'[c] # "done", op[s] = "delete", whose[s] = whose[c]
        PROVE  at'[s] = "start" \/ G!Done(s, {404})'
    <3>1. at[s] = "start" \/ G!Done(s, {404})
      BY <1>0, <2>2, <2>4 DEF Creating
    <3>2. CASE s # r
      BY <1>1, <3>1, <3>2 DEF G!Done
    <3>3. CASE s = r
      <4>1. at[r] = "start"
        BY <1>1, <3>1, <3>3 DEF G!Done
      <4>2. G!FindGroup(r)
        BY <2>4, <3>3, <4>1 DEF G!Statement, G!FindUser, G!Find, G!Check, G!InsertGroup, G!InsertFirst, G!Commit,
               G!Select, G!Insert, G!Remove, G!Save, G!Destroy, G!Count, G!Rows
      <4>3. G!Answer(r, 404)
        BY <2>2, <2>4, <3>3, <4>2 DEF G!FindGroup
      <4>4. QED
        BY <1>0, <3>3, <4>3 DEF G!Answer, G!Done, CallTypes
    <3>4. QED
      BY <3>2, <3>3
  <2>5. QED
    BY <2>1, <2>3, <2>4
<1>5. QED
  BY <1>2, <1>3, <1>4 DEF GroupsInv

LEMMA DeleteMeInv ==
  ASSUME GroupsInv, NEW u \in People, G!DeleteMe(u)
  PROVE  GroupsInv'
<1>1. CallTypes'
  BY DEF GroupsInv, CallTypes, G!DeleteMe, G!callInputs
<1>2. Members'
  BY DEF GroupsInv, CallTypes, Members, G!DeleteMe, G!callInputs
<1>3. Creating'
  BY DEF GroupsInv, Creating, G!DeleteMe, G!callInputs, G!Done
<1>4. QED
  BY <1>1, <1>2, <1>3 DEF GroupsInv

LEMMA GroupsStep ==
  ASSUME GroupsInv, [G!Next]_(G!groupVars)
  PROVE  GroupsInv'
<1>1. CASE G!Next
  BY <1>1, StatementInv, DeleteMeInv DEF G!Next
<1>2. CASE UNCHANGED G!groupVars
  BY <1>2 DEF G!groupVars, GroupsInv, CallTypes, Members, Creating, G!Done
<1>3. QED
  BY <1>1, <1>2

\* Memberships are of accounts in groups, all there, and the group of a create that has
\* not committed is nobody's: not there, and found by no other call.
THEOREM GroupsTyped == G!Spec => []GroupsInv
<1>1. G!Init => GroupsInv
  BY GroupsInit
<1>2. GroupsInv /\ [G!Next]_(G!groupVars) => GroupsInv'
  BY GroupsStep
<1>3. QED
  BY <1>1, <1>2, PTL DEF G!Spec

-----------------------------------------------------------------------------
(* Nobody is left with a group they cannot leave or remove. *)

LEMMA StatementBorn ==
  ASSUME GroupsInv, G!BornWithMember, NEW q \in Calls, G!Statement(q)
  PROVE  G!BornWithMember'
<1>0. CallTypes /\ Members /\ Creating
  BY DEF GroupsInv
<1>1. UNCHANGED <<op, who, whose, people>>
  BY <1>0, Going DEF G!callInputs
<1> SUFFICES ASSUME NEW r \in Calls, op[r] = "create", group'[whose[r]] # Gone,
                    whose[r] \notin left'
             PROVE  \E u \in people : <<u, whose[r]>> \in members'
  BY <1>1 DEF G!BornWithMember
<1>2. /\ whose[r] \in GroupIds /\ whose[q] \in GroupIds /\ DOMAIN group = GroupIds
      /\ G!Row(q) = <<who[q], whose[q]>>
  BY <1>0 DEF CallTypes, G!Row
<1>3. group[whose[r]] # Gone /\ whose[r] \notin left =>
          \E u \in people : <<u, whose[r]>> \in members
  BY DEF G!BornWithMember
<1>4. CASE G!Commit(q)
  <2>1. /\ group' = [group EXCEPT ![whose[q]] = [f \in Fields |-> CHOOSE t \in Texts : TRUE]]
        /\ members' = members \cup {G!Row(q)} /\ left' = left
    BY <1>0, <1>4, GroupChanges
  <2>2. who[q] \in people
    BY <1>0, <1>4 DEF Members, G!Commit
  <2>3. CASE whose[q] = whose[r]
    BY <1>2, <2>1, <2>2, <2>3
  <2>4. CASE whose[q] # whose[r]
    BY <1>2, <1>3, <2>1, <2>4
  <2>5. QED
    BY <2>3, <2>4
<1>5. CASE G!Save(q)
  <2>1. UNCHANGED <<members, left>>
    BY <1>0, <1>5, GroupChanges
  <2>2. group[whose[r]] # Gone
    BY <1>0, <1>2, <1>5, SavedGroup
  <2>3. QED
    BY <1>3, <2>1, <2>2
<1>6. CASE G!Destroy(q)
  <2>1. /\ group' = [group EXCEPT ![whose[q]] = Gone]
        /\ members' = {m \in members : m[2] # whose[q]} /\ left' = left
    BY <1>0, <1>6, GroupChanges
  <2>2. whose[q] # whose[r] /\ group'[whose[r]] = group[whose[r]]
    BY <1>2, <2>1
  <2>3. QED
    BY <1>3, <2>1, <2>2
<1>7. CASE G!Insert(q)
  BY <1>0, <1>3, <1>7, GroupChanges
<1>8. CASE G!Remove(q)
  <2>1. /\ group' = group /\ members' = members \ {G!Row(q)}
        /\ left' = left \cup {whose[q]}
    BY <1>0, <1>8, GroupChanges
  <2>2. PICK u \in people : <<u, whose[r]>> \in members
    BY <1>3, <2>1
  <2>3. <<u, whose[r]>> # G!Row(q)
    BY <1>2, <2>1
  <2>4. QED
    BY <2>1, <2>2, <2>3
<1>9. CASE ~(G!Commit(q) \/ G!Save(q) \/ G!Destroy(q) \/ G!Insert(q) \/ G!Remove(q))
  BY <1>0, <1>3, <1>9, GroupChanges
<1>10. QED
  BY <1>4, <1>5, <1>6, <1>7, <1>8, <1>9

LEMMA DeleteMeBorn ==
  ASSUME GroupsInv, G!BornWithMember, NEW u \in People, G!DeleteMe(u)
  PROVE  G!BornWithMember'
<1> SUFFICES ASSUME NEW r \in Calls, op[r] = "create", group[whose[r]] # Gone,
                    whose[r] \notin left'
             PROVE  \E v \in people' : <<v, whose[r]>> \in members'
  BY DEF G!BornWithMember, G!DeleteMe, G!callInputs
<1>1. whose[r] \in GroupIds
  BY DEF GroupsInv, CallTypes
<1>2. PICK v \in people : <<v, whose[r]>> \in members
  BY DEF G!BornWithMember, G!DeleteMe
<1>3. v # u
  BY <1>1, <1>2 DEF G!DeleteMe
<1>4. QED
  BY <1>2, <1>3 DEF G!DeleteMe

\* A group is inserted with its first member in one transaction, and its members are
\* the only ones who can rename or delete it: one that nobody has left has a member,
\* whoever deletes an account while the group is being created.
THEOREM GroupsBornWithMember == G!Spec => []G!BornWithMember
<1> DEFINE Inv == GroupsInv /\ G!BornWithMember
<1>1. G!Init => Inv
  <2>1. G!Init => G!BornWithMember
    BY DEF G!Init, G!BornWithMember
  <2>2. QED
    BY <2>1, GroupsInit
<1>2. Inv /\ [G!Next]_(G!groupVars) => Inv'
  <2> SUFFICES ASSUME Inv, [G!Next]_(G!groupVars) PROVE Inv'
    OBVIOUS
  <2>1. CASE G!Next
    BY <2>1, GroupsStep, StatementBorn, DeleteMeBorn DEF G!Next
  <2>2. CASE UNCHANGED G!groupVars
    BY <2>2, GroupsStep DEF G!groupVars, G!BornWithMember
  <2>3. QED
    BY <2>1, <2>2
<1>3. QED
  BY <1>1, <1>2, PTL DEF G!Spec

-----------------------------------------------------------------------------
(* Two renames. *)

\* A rename writes the columns its own body names and no other: what another member
\* wrote since the group was loaded stays.
THEOREM GroupsOthersTextKept == G!Spec => G!OthersTextKept
<1> DEFINE Renamed ==
      \A g \in GroupIds, f \in Fields :
          (group[g] # Gone /\ group'[g] # Gone /\ group'[g][f] # group[g][f]) =>
              \E r \in Calls : at[r] = "save" /\ at'[r] = "done" /\ whose[r] = g
                               /\ f \in DOMAIN body[r] /\ group'[g][f] = body[r][f]
<1>1. GroupsInv /\ [G!Next]_(G!groupVars) => Renamed
  <2> SUFFICES ASSUME GroupsInv, [G!Next]_(G!groupVars) PROVE Renamed
    OBVIOUS
  <2> SUFFICES ASSUME NEW g \in GroupIds, NEW f \in Fields, group[g] # Gone, group'[g] # Gone,
                      group'[g][f] # group[g][f]
               PROVE  \E r \in Calls : at[r] = "save" /\ at'[r] = "done" /\ whose[r] = g
                               /\ f \in DOMAIN body[r] /\ group'[g][f] = body[r][f]
    OBVIOUS
  <2>0. CallTypes /\ Creating /\ DOMAIN group = GroupIds
    BY DEF GroupsInv, CallTypes
  <2>1. PICK r \in Calls : G!Statement(r)
    BY DEF G!Next, G!DeleteMe, G!groupVars
  <2>2. CASE G!Save(r)
    <3>1. at[r] = "save" /\ at'[r] = "done"
      BY <2>0, <2>2 DEF G!Save, G!Answer, CallTypes
    <3>2. QED
      BY <2>0, <2>2, <3>1, SavedGroup
  <2>3. CASE G!Commit(r)
    <3>1. group[whose[r]] = Gone
      BY <2>0, <2>1, <2>3, GroupChanges DEF Creating, G!Commit
    <3>2. group' = [group EXCEPT ![whose[r]] = [x \in Fields |-> CHOOSE t \in Texts : TRUE]]
      BY <2>0, <2>1, <2>3, GroupChanges
    <3>3. QED
      BY <2>0, <3>1, <3>2
  <2>4. CASE G!Destroy(r)
    <3>1. group' = [group EXCEPT ![whose[r]] = Gone]
      BY <2>0, <2>1, <2>4, GroupChanges
    <3>2. QED
      BY <2>0, <3>1
  <2>5. CASE ~(G!Save(r) \/ G!Commit(r) \/ G!Destroy(r))
    BY <2>0, <2>1, <2>5, GroupChanges
  <2>6. QED
    BY <2>2, <2>3, <2>4, <2>5
<1>2. G!Spec => []GroupsInv
  BY GroupsTyped
<1>3. QED
  BY <1>1, <1>2, PTL DEF G!Spec, G!OthersTextKept

-----------------------------------------------------------------------------
(* Answers that were true. *)

\* What a call has seen by the statement it runs next, and what its answer says.
Seen(r) ==
    /\ op[r] \in {"patch", "delete"} /\ at[r] \in {"user", "check", "save", "destroy"} => wasThere[r]
    /\ at[r] \in {"save", "destroy", "remove"} => wasIn[r]
    /\ at[r] \in {"select", "insert"} => wasOut[r]
    /\ at[r] = "rows" => total[r].count \in counted[r]

Told(r) ==
    /\ op[r] \in {"patch", "delete"} =>
          (G!Done(r, {200}) => wasIn[r] /\ wasThere[r]) /\ (G!Done(r, {403}) => wasOut[r])
    /\ op[r] = "join" => (G!Done(r, {204, 409}) => wasIn[r]) /\ (G!Done(r, {204}) => wasOut[r])
    /\ op[r] = "leave" => (G!Done(r, {204}) => wasIn[r]) /\ (G!Done(r, {204, 404}) => wasOut[r])
    /\ op[r] = "list" /\ G!Done(r, {200}) => {total[r].count, total[r].rows} \subseteq counted[r]

Deleted == \A r \in Calls : op[r] = "delete" /\ G!Done(r, {200}) => group[whose[r]] = Gone

SeenInv == \A r \in Calls : Seen(r) /\ Told(r)

\* What a call in flight could have seen is never forgotten, and takes in the states on
\* both sides of each of its statements.
LEMMA Watched ==
  ASSUME G!Watch, UNCHANGED <<who, whose>>, NEW r \in Calls
  PROVE  /\ wasIn[r] => wasIn'[r]
         /\ wasOut[r] => wasOut'[r]
         /\ wasThere[r] => wasThere'[r]
         /\ counted[r] \subseteq counted'[r]
         /\ at[r] # "done" /\ at'[r] # "start" =>
               /\ G!Row(r) \in members \/ G!Row(r) \in members' => wasIn'[r]
               /\ G!Row(r) \notin members \/ G!Row(r) \notin members' => wasOut'[r]
               /\ Gone \notin {group[whose[r]], group'[whose[r]]} => wasThere'[r]
               /\ G!MineNow(r) \in counted'[r]
<1>1. /\ wasIn[r] => wasIn'[r]
      /\ wasOut[r] => wasOut'[r]
      /\ wasThere[r] => wasThere'[r]
      /\ counted[r] \subseteq counted'[r]
  BY DEF G!Watch
<1>2. ASSUME at[r] # "done", at'[r] # "start"
      PROVE  /\ G!Row(r) \in members \/ G!Row(r) \in members' => wasIn'[r]
             /\ G!Row(r) \notin members \/ G!Row(r) \notin members' => wasOut'[r]
             /\ Gone \notin {group[whose[r]], group'[whose[r]]} => wasThere'[r]
             /\ G!MineNow(r) \in counted'[r]
  <2>1. G!Row(r)' = G!Row(r)
    BY DEF G!Row
  <2>2. QED
    BY <1>2, <2>1 DEF G!Watch, G!IsMember
<1>3. QED
  BY <1>1, <1>2

\* A call that does nothing keeps what it has seen.
LEMMA StillSeen ==
  ASSUME SeenInv, G!Watch, UNCHANGED <<op, who, whose>>, NEW r \in Calls,
         at'[r] = at[r], status'[r] = status[r], total'[r] = total[r]
  PROVE  Seen(r)' /\ Told(r)'
<1>1. Seen(r) /\ Told(r)
  BY DEF SeenInv
<1>2. Seen(r)'
  BY <1>1, Watched DEF Seen
<1>3. Told(r)'
  BY <1>1, Watched DEF Told, G!Done
<1>4. QED
  BY <1>2, <1>3

\* The call whose statement runs: what it was found to be, it was during the call.
LEMMA NowSeen ==
  ASSUME GroupsInv, SeenInv, G!Watch, NEW r \in Calls, G!Statement(r)
  PROVE  Seen(r)' /\ Told(r)'
<1>0. CallTypes /\ Members
  BY DEF GroupsInv
<1>1. /\ UNCHANGED <<op, who, whose, body, people>>
      /\ at[r] # "done" /\ at'[r] # "start" /\ DOMAIN at = Calls /\ DOMAIN status = Calls
      /\ DOMAIN total = Calls /\ DOMAIN total[r] = {"count", "rows"} /\ DOMAIN group = GroupIds
      /\ op[r] \in CallOf(at[r]) /\ whose[r] \in GroupIds
  BY <1>0, Going DEF G!callInputs, CallTypes
<1>2. Seen(r)
  BY DEF SeenInv
<1>3. /\ G!Row(r) \in members \/ G!Row(r) \in members' => wasIn'[r]
      /\ G!Row(r) \notin members \/ G!Row(r) \notin members' => wasOut'[r]
      /\ Gone \notin {group[whose[r]], group'[whose[r]]} => wasThere'[r]
      /\ G!MineNow(r) \in counted'[r] /\ counted[r] \subseteq counted'[r]
      /\ (wasIn[r] => wasIn'[r]) /\ (wasOut[r] => wasOut'[r]) /\ (wasThere[r] => wasThere'[r])
  BY <1>1, Watched
<1>5. (who[r] \notin people \/ group[whose[r]] = Gone) => G!Row(r) \notin members
  BY <1>0, <1>1 DEF Members, G!Row
<1>6. CASE G!FindGroup(r)
  <2>1. /\ at[r] = "start" /\ op[r] \in {"patch", "delete"} /\ group' = group
        /\ \/ at'[r] = "done" /\ status'[r] = 404
           \/ at'[r] = "user" /\ group[whose[r]] # Gone
    BY <1>1, <1>6 DEF G!FindGroup, G!Answer, G!GoTo, G!groupDb
  <2>2. QED
    BY <1>1, <1>3, <2>1 DEF Seen, Told, G!Done
<1>7. CASE G!FindUser(r)
  <2>1. /\ at[r] = "user"
        /\ \/ at'[r] = "done" /\ status'[r] = 403 /\ who[r] \notin people
           \/ at'[r] = "check"
    BY <1>1, <1>7 DEF G!FindUser, G!Answer, G!GoTo
  <2>2. op[r] \in {"patch", "delete"}
    BY <1>1, <2>1 DEF CallOf
  <2>3. QED
    BY <1>1, <1>2, <1>3, <1>5, <2>1, <2>2 DEF Seen, Told, G!Done
<1>8. CASE G!Find(r)
  <2>1. /\ op[r] \in {"join", "leave", "create", "list"}
        /\ \/ /\ at'[r] = "done" /\ status'[r] \in {403, 404}
              /\ op[r] = "leave" => who[r] \notin people \/ group[whose[r]] = Gone
           \/ at'[r] = "check" /\ op[r] \in {"join", "leave"}
           \/ at'[r] \in {"insertGroup", "count"}
    BY <1>1, <1>8 DEF G!Find, G!Answer, G!GoTo
  <2>2. QED
    BY <1>1, <1>3, <1>5, <2>1 DEF Seen, Told, G!Done
<1>9. CASE G!Check(r)
  <2>1. op[r] \in {"patch", "delete", "join", "leave"}
    BY <1>1, <1>9 DEF G!Check, CallOf
  <2>2. /\ at[r] = "check"
        /\ \/ at'[r] = "done" /\ status'[r] = G!Refusal(r) /\ G!Refusal(r) # 0
           \/ /\ G!Refusal(r) = 0
              /\ at'[r] = CASE op[r] = "join" -> "select"
                            [] op[r] = "leave" -> "remove"
                            [] op[r] = "patch" -> "save"
                            [] OTHER -> "destroy"
    BY <1>1, <1>9 DEF G!Check, G!Answer, G!GoTo
  <2>3. CASE op[r] \in {"patch", "delete"}
    <3>1. \/ at'[r] = "done" /\ status'[r] = 403 /\ G!Row(r) \notin members
          \/ at'[r] \in {"save", "destroy"} /\ G!Row(r) \in members
      BY <2>2, <2>3 DEF G!Refusal, G!IsMember
    <3>2. wasThere[r]
      BY <1>2, <2>2, <2>3 DEF Seen
    <3>3. QED
      BY <1>1, <1>3, <2>3, <3>1, <3>2 DEF Seen, Told, G!Done
  <2>4. CASE op[r] = "join"
    <3>1. \/ at'[r] = "done" /\ status'[r] = 409 /\ G!Row(r) \in members
          \/ at'[r] = "select" /\ G!Row(r) \notin members
      BY <2>2, <2>4 DEF G!Refusal, G!IsMember
    <3>2. QED
      BY <1>1, <1>3, <2>4, <3>1 DEF Seen, Told, G!Done
  <2>5. CASE op[r] = "leave"
    <3>1. \/ at'[r] = "done" /\ status'[r] = 404 /\ G!Row(r) \notin members
          \/ at'[r] = "remove" /\ G!Row(r) \in members
      BY <2>2, <2>5 DEF G!Refusal, G!IsMember
    <3>2. QED
      BY <1>1, <1>3, <2>5, <3>1 DEF Seen, Told, G!Done
  <2>6. QED
    BY <2>1, <2>3, <2>4, <2>5
<1>10. CASE G!InsertGroup(r) \/ G!InsertFirst(r) \/ G!Commit(r)
  <2>1. op[r] = "create"
    BY <1>1, <1>10 DEF G!InsertGroup, G!InsertFirst, G!Commit, CallOf
  <2>2. at'[r] \in {"insertFirst", "commit", "done"}
    BY <1>1, <1>10 DEF G!InsertGroup, G!InsertFirst, G!Commit, G!Answer, G!GoTo
  <2>3. QED
    BY <1>1, <2>1, <2>2 DEF Seen, Told, G!Done
<1>11. CASE G!Select(r) \/ G!Insert(r)
  <2>1. op[r] = "join" /\ at[r] \in {"select", "insert"}
    BY <1>1, <1>11 DEF G!Select, G!Insert, CallOf
  <2>2. \/ at'[r] = "insert"
        \/ at'[r] = "done" /\ status'[r] = 400
        \/ /\ at'[r] = "done" /\ status'[r] = 204
           /\ G!Row(r) \in members \/ G!Row(r) \in members'
    BY <1>1, <1>11 DEF G!Select, G!Insert, G!Answer, G!GoTo, G!IsMember
  <2>3. wasOut'[r]
    BY <1>2, <1>3, <2>1 DEF Seen
  <2>4. QED
    BY <1>1, <1>3, <2>1, <2>2, <2>3 DEF Seen, Told, G!Done
<1>12. CASE G!Remove(r)
  <2>1. /\ op[r] = "leave" /\ at[r] = "remove" /\ G!Row(r) \notin members'
        /\ at'[r] = "done" /\ status'[r] = 204
    BY <1>1, <1>12 DEF G!Remove, G!Answer, CallOf
  <2>2. wasIn'[r]
    BY <1>2, <1>3, <2>1 DEF Seen
  <2>3. QED
    BY <1>1, <1>3, <2>1, <2>2 DEF Seen, Told, G!Done
<1>13. CASE G!Save(r) \/ G!Destroy(r)
  <2>1. /\ at[r] \in {"save", "destroy"} /\ op[r] \in {"patch", "delete"}
        /\ at'[r] = "done" /\ status'[r] = 200
    BY <1>1, <1>13 DEF G!Save, G!Destroy, G!Answer, CallOf
  <2>2. wasIn'[r] /\ wasThere'[r]
    BY <1>2, <1>3, <2>1 DEF Seen
  <2>3. QED
    BY <1>1, <2>1, <2>2 DEF Seen, Told, G!Done
<1>14. CASE G!Count(r)
  <2>1. op[r] = "list" /\ at'[r] = "rows" /\ total'[r].count = G!MineNow(r)
    BY <1>1, <1>14 DEF G!Count, G!GoTo, CallOf, G!Counted
  <2>2. QED
    BY <1>1, <1>3, <2>1 DEF Seen, Told, G!Done
<1>15. CASE G!Rows(r)
  <2>1. /\ op[r] = "list" /\ at[r] = "rows" /\ at'[r] = "done"
        /\ total'[r].count = total[r].count /\ total'[r].rows = G!MineNow(r)
    BY <1>1, <1>15 DEF G!Rows, G!Answer, CallOf, G!Counted
  <2>2. total[r].count \in counted[r]
    BY <1>2, <2>1 DEF Seen
  <2>3. QED
    BY <1>1, <1>3, <2>1, <2>2 DEF Seen, Told, G!Done
<1>16. QED
  BY <1>6, <1>7, <1>8, <1>9, <1>10, <1>11, <1>12, <1>13, <1>14, <1>15 DEF G!Statement

\* A group that was deleted stays deleted: nobody creates it again.
LEMMA StaysDeleted ==
  ASSUME GroupsInv, Deleted, [G!Next]_(G!groupVars)
  PROVE  Deleted'
<1>0. CallTypes /\ Creating
  BY DEF GroupsInv
<1> SUFFICES ASSUME NEW s \in Calls, op'[s] = "delete", G!Done(s, {200})'
             PROVE  group'[whose'[s]] = Gone
  BY DEF Deleted
<1>1. ASSUME NEW r \in Calls, G!Statement(r)
      PROVE  group'[whose'[s]] = Gone
  <2>1. /\ UNCHANGED <<op, who, whose>> /\ whose[s] \in GroupIds /\ DOMAIN group = GroupIds
        /\ op[s] = "delete" /\ at'[s] = "done" /\ status'[s] = 200
        /\ s # r => at'[s] = at[s] /\ status'[s] = status[s]
    BY <1>0, <1>1, Going DEF G!callInputs, CallTypes, G!Done
  <2>2. CASE G!Destroy(r) /\ s = r
    <3>1. group' = [group EXCEPT ![whose[r]] = Gone]
      BY <1>0, <1>1, <2>2, GroupChanges
    <3>2. QED
      BY <2>1, <2>2, <3>1
  <2>3. CASE s = r /\ ~G!Destroy(r)
    <3>1. op[r] \in CallOf(at[r]) /\ DOMAIN at = Calls /\ DOMAIN status = Calls
      BY <1>0 DEF CallTypes
    <3>2. G!FindGroup(r) \/ G!FindUser(r) \/ G!Check(r)
      BY <1>1, <2>1, <2>3, <3>1 DEF G!Statement, CallOf, G!Find, G!InsertGroup, G!InsertFirst, G!Commit, G!Select,
         G!Insert, G!Remove, G!Save, G!Count, G!Rows
    <3>3. status'[r] # 200
      <4>1. G!Answer(r, 404) \/ G!Answer(r, 403) \/ at'[r] \in {"user", "check", "save", "destroy"}
        <5>1. CASE G!FindGroup(r) \/ G!FindUser(r)
          BY <3>1, <5>1 DEF G!FindGroup, G!FindUser, G!GoTo
        <5>2. CASE G!Check(r)
          <6>1. G!Refusal(r) \in {0, 403}
            BY <2>1, <2>3 DEF G!Refusal
          <6>2. QED
            BY <2>1, <2>3, <3>1, <5>2, <6>1 DEF G!Check, G!GoTo
        <5>3. QED
          BY <3>2, <5>1, <5>2
      <4>2. QED
        BY <2>1, <2>3, <3>1, <4>1 DEF G!Answer
    <3>4. QED
      BY <2>1, <2>3, <3>3
  <2>4. CASE s # r
    <3>1. group[whose[s]] = Gone
      BY <2>1, <2>4 DEF Deleted, G!Done
    <3>2. CASE G!Commit(r)
      <4>1. op[r] = "create" /\ at[r] # "done"
        BY <1>0, <1>1, <3>2, Going, GroupChanges
      <4>2. whose[s] # whose[r]
        BY <1>0, <2>1, <2>4, <4>1 DEF Creating, G!Done
      <4>3. group' = [group EXCEPT ![whose[r]] = [f \in Fields |-> CHOOSE t \in Texts : TRUE]]
        BY <1>0, <1>1, <3>2, GroupChanges
      <4>4. QED
        BY <2>1, <3>1, <4>2, <4>3
    <3>3. CASE G!Save(r)
      BY <1>0, <2>1, <3>1, <3>3, SavedGroup
    <3>4. CASE G!Destroy(r)
      <4>1. group' = [group EXCEPT ![whose[r]] = Gone]
        BY <1>0, <1>1, <3>4, GroupChanges
      <4>2. QED
        BY <2>1, <3>1, <4>1
    <3>5. CASE ~(G!Commit(r) \/ G!Save(r) \/ G!Destroy(r))
      BY <1>0, <1>1, <2>1, <3>1, <3>5, GroupChanges
    <3>6. QED
      BY <3>2, <3>3, <3>4, <3>5
  <2>5. QED
    BY <2>2, <2>3, <2>4
<1>2. ASSUME NEW u \in People, G!DeleteMe(u)
      PROVE  group'[whose'[s]] = Gone
  BY <1>2 DEF G!DeleteMe, G!callInputs, Deleted, G!Done
<1>3. CASE UNCHANGED G!groupVars
  BY <1>3 DEF G!groupVars, Deleted, G!Done
<1>4. QED
  BY <1>1, <1>2, <1>3 DEF G!Next

\* Every answer about a group was true at some moment of its call, although the query it
\* rests on is over when the call writes or answers, and other calls write in between.
THEOREM GroupsAnswersHeld == G!Spec => []G!AnswersHeld
<1> DEFINE Inv == GroupsInv /\ SeenInv /\ Deleted
<1>1. G!Init => Inv
  <2>1. G!Init => SeenInv
    BY DEF G!Init, SeenInv, Seen, Told, G!Done
  <2>2. G!Init => Deleted
    BY DEF G!Init, Deleted, G!Done
  <2>3. QED
    BY <2>1, <2>2, GroupsInit
<1>2. Inv /\ [G!Next]_(G!groupVars) => Inv'
  <2> SUFFICES ASSUME Inv, [G!Next]_(G!groupVars) PROVE SeenInv'
    BY GroupsStep, StaysDeleted
  <2>1. ASSUME NEW r \in Calls, G!Statement(r), G!Watch
        PROVE  SeenInv'
    <3>1. UNCHANGED <<op, who, whose>>
      BY <2>1, Going DEF G!callInputs, GroupsInv
    <3>2. ASSUME NEW s \in Calls
          PROVE  Seen(s)' /\ Told(s)'
      <4>1. CASE s = r
        BY <2>1, <4>1, NowSeen
      <4>2. CASE s # r
        <5>1. at'[s] = at[s] /\ status'[s] = status[s] /\ total'[s] = total[s]
          BY <2>1, <4>2, Going DEF GroupsInv
        <5>2. QED
          BY <2>1, <3>1, <5>1, StillSeen
      <4>3. QED
        BY <4>1, <4>2
    <3>3. QED
      BY <3>2 DEF SeenInv
  <2>2. ASSUME NEW u \in People, G!DeleteMe(u), G!Watch
        PROVE  SeenInv'
    <3>1. UNCHANGED <<op, who, whose, at, status, total>>
      BY <2>2 DEF G!DeleteMe, G!callInputs
    <3>2. QED
      BY <2>2, <3>1, StillSeen DEF SeenInv
  <2>3. CASE UNCHANGED G!groupVars
    BY <2>3 DEF G!groupVars, SeenInv, Seen, Told, G!Done
  <2>4. QED
    BY <2>1, <2>2, <2>3 DEF G!Next
<1>3. Inv => G!AnswersHeld
  <2> SUFFICES ASSUME Inv PROVE G!AnswersHeld
    OBVIOUS
  <2>1. ASSUME NEW r \in Calls, op[r] = "list", G!Done(r, {200}), \A m, n \in counted[r] : m = n
        PROVE  total[r].count = total[r].rows
    BY <2>1 DEF SeenInv, Told
  <2>2. ASSUME NEW r \in Calls
        PROVE  /\ op[r] \in {"patch", "delete"} =>
                     /\ G!Done(r, {200}) => wasIn[r] /\ wasThere[r]
                     /\ G!Done(r, {403}) => wasOut[r]
               /\ op[r] = "join" => /\ G!Done(r, {204, 409}) => wasIn[r]
                                    /\ G!Done(r, {204}) => wasOut[r]
               /\ op[r] = "leave" => /\ G!Done(r, {204}) => wasIn[r]
                                     /\ G!Done(r, {204, 404}) => wasOut[r]
               /\ op[r] = "list" => (G!Done(r, {200}) =>
                     {total[r].count, total[r].rows} \subseteq counted[r])
    BY DEF SeenInv, Told
  <2>3. \A r \in Calls : op[r] = "delete" => (G!Done(r, {200}) => group[whose[r]] = Gone)
    BY DEF Deleted
  <2>4. QED
    BY <2>1, <2>2, <2>3 DEF G!AnswersHeld
<1>4. QED
  BY <1>1, <1>2, <1>3, PTL DEF G!Spec

-----------------------------------------------------------------------------
(* Both. *)

\* The network is its two parts side by side.
LEMMA NetworkParts == NetworkSpec => Spec /\ G!Spec
<1>1. NetworkInit => Init /\ G!Init
  BY DEF NetworkInit
<1>2. [NetworkNext]_networkVars => [Next]_vars /\ [G!Next]_(G!groupVars)
  BY DEF NetworkNext, ConnectionsStep, networkVars, groupsVars, G!groupVars
<1>3. QED
  BY <1>1, <1>2, PTL DEF NetworkSpec, Spec, G!Spec

\* The answers of the network: a 204 about a connection is true when it is sent, every
\* answer about groups was true at some moment of its call, no group is created without its
\* creator, and no rename puts another member's text back.
THEOREM NetworkAnswersHeld == NetworkSpec => AnswersHeld
BY NetworkParts, ConnectionsConfirmed, GroupsAnswersHeld, GroupsBornWithMember,
   GroupsOthersTextKept, PTL DEF AnswersHeld
=============================================================================
