---------------------------- MODULE Conditions ------------------------------
(***************************************************************************)
(* What the evaluator answers for a rule's condition: the expression tree  *)
(* the visitor builds, evaluated over a typed value domain in which every  *)
(* operator refuses what it is not defined for.  A value is its type and   *)
(* its payload; payloads are numbers, or sequences of atoms for a set.     *)
(***************************************************************************)
EXTENDS Integers, Sequences, Functions

Value(type, payload) == [type |-> type, payload |-> payload]

Atoms == {"Boolean", "Double", "Long", "String"}

IsAtom(v) == v.type \in Atoms
IsSet(v)  == v.type = "set"

Error    == Value("error", 0)
IsError(v) == v.type = "error"
Bool(b)  == Value("Boolean", IF b THEN 1 ELSE 0)

\* Records and lists compare type first: a Long is never a Double.
Equal(a, b) == a.type = b.type /\ a.payload = b.payload

\* BartValue.of, at the border with the engine: a collection of anything but
\* atoms has no type here.
Typed(raw) == IF IsSet(raw) /\ \E k \in DOMAIN raw.payload : ~IsAtom(raw.payload[k])
              THEN Error ELSE raw

-----------------------------------------------------------------------------
(* Expressions: the list of an expression's parts in the order the visitor *)
(* builds them, itself last.  A part is [op, left, right, rel, value], of  *)
(* which each op uses its own; left and right are places in the list.      *)

Lit(v)          == [op |-> "lit", value |-> v]
Name(v)         == [op |-> "name", value |-> v]
Not(l)          == [op |-> "not", left |-> l]
Join(op, l, r)  == [op |-> op, left |-> l, right |-> r]
Cmp(rel, l, r)  == [op |-> "cmp", rel |-> rel, left |-> l, right |-> r]

\* Equality spans the whole domain; an ordering wants two atoms of one type,
\* and a bug would answer false for any others. (mutant)
Holds_Lenient(rel, a, b) ==
    IF rel = "=" THEN Bool(Equal(a, b))
    ELSE IF rel = "!=" THEN Bool(~Equal(a, b))
    ELSE IF ~ (IsAtom(a) /\ IsAtom(b) /\ a.type = b.type) THEN Bool(FALSE)
    ELSE Bool(CASE rel = "<" -> a.payload < b.payload [] rel = ">" -> a.payload > b.payload
                [] rel = "<=" -> a.payload <= b.payload [] rel = ">=" -> a.payload >= b.payload)

Holds(rel, a, b) ==
    IF rel = "=" THEN Bool(Equal(a, b))
    ELSE IF rel = "!=" THEN Bool(~Equal(a, b))
    ELSE IF ~ (IsAtom(a) /\ IsAtom(b) /\ a.type = b.type) THEN Error
    ELSE Bool(CASE rel = "<" -> a.payload < b.payload [] rel = ">" -> a.payload > b.payload
                [] rel = "<=" -> a.payload <= b.payload [] rel = ">=" -> a.payload >= b.payload)

\* The set is looked up before the element is evaluated.
Member(element, set) ==
    IF IsError(set) \/ ~IsSet(set) THEN Error
    ELSE IF ~IsAtom(element) THEN Error
    ELSE Bool(\E k \in DOMAIN set.payload : Equal(set.payload[k], element))

\* A value that is no Boolean is no condition.
AsCondition(v) == IF v.type = "Boolean" THEN v ELSE Error

\* What a part comes to, given its left and right.  From left to right, an error
\* being the end of it; 'and' and 'or' leave the right alone when the left decides.
Evaluated(e, left, right) ==
    LET test == AsCondition(left)
    IN  CASE e.op = "lit"  -> e.value
          [] e.op = "name" -> Typed(e.value)
          [] e.op = "not"  -> IF IsError(test) THEN Error ELSE Bool(test.payload = 0)
          [] e.op = "and"  -> IF IsError(test) \/ test.payload = 0 THEN test ELSE AsCondition(right)
          [] e.op = "or"   -> IF IsError(test) \/ test.payload = 1 THEN test ELSE AsCondition(right)
          [] e.op = "cmp"  -> IF IsError(left) \/ IsError(right) THEN Error
                              ELSE Holds(e.rel, left, right)
          [] e.op = "in"   -> Member(left, right)

Eval(expr) ==
    LET value[n \in DOMAIN expr] == Evaluated(expr[n], value[expr[n].left], value[expr[n].right])
    IN  value[Len(expr)]

EvalCondition(expr) == AsCondition(Eval(expr))

-----------------------------------------------------------------------------
(* What the answer must not rest on: every answer a part could have, were  *)
(* each ill-typed part to answer true or false at will, nothing being      *)
(* skipped.                                                                *)

Whims == {Bool(TRUE), Bool(FALSE)}

Truth(v) == v.payload = 1
AsTests(vs) == UNION {IF v.type = "Boolean" THEN {v} ELSE Whims : v \in vs}

WellTyped(e, l, r) ==
    CASE e.op = "cmp" -> e.rel \in {"=", "!="} \/ (IsAtom(l) /\ l.type = r.type)
      [] e.op = "in"  -> IsAtom(l) /\ IsSet(r)

Answered(e, lefts, rights) ==
    CASE e.op = "lit"  -> {e.value}
      [] e.op = "name" -> IF IsError(Typed(e.value)) THEN Whims ELSE {e.value}
      [] e.op = "not"  -> {Bool(~Truth(v)) : v \in AsTests(lefts)}
      [] e.op = "and"  -> {Bool(Truth(v) /\ Truth(w)) : v \in AsTests(lefts), w \in AsTests(rights)}
      [] e.op = "or"   -> {Bool(Truth(v) \/ Truth(w)) : v \in AsTests(lefts), w \in AsTests(rights)}
      [] e.op \in {"cmp", "in"} ->
            UNION {IF ~WellTyped(e, l, r) THEN Whims
                   ELSE IF e.op = "in" THEN {Member(l, r)} ELSE {Holds(e.rel, l, r)} :
                     l \in lefts, r \in rights}

Answers(expr) ==
    LET answers[n \in DOMAIN expr] == Answered(expr[n], answers[expr[n].left], answers[expr[n].right])
    IN  answers[Len(expr)]

\* A condition that answers does so whatever its ill-typed parts might have
\* answered: no type error is negated into a permit.
NoErrorDecides(expr) ==
    ~IsError(EvalCondition(expr)) => AsTests(Answers(expr)) = {EvalCondition(expr)}

=============================================================================
