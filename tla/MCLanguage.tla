----------------------------- MODULE MCLanguage -----------------------------
(***************************************************************************)
(* What is written, read and shown.  A rule is typed mark by mark into one *)
(* of three places: the exchange of a rule, its condition (with an         *)
(* exchange to follow), or its clauses.  Policies are built rule by rule   *)
(* for a trace; expressions, parties, rows and corpora are enumerated.     *)
(***************************************************************************)
EXTENDS RuleGrammar, Language

Tr == INSTANCE Trace

CONSTANTS Places, MaxExchange, MaxCondition, MaxClauses, MaxRules

VARIABLES typed, broken

vars == <<place, typed, broken, data, blockVars>>

\* Blocks of a rule that asks for nothing, for one thing and for either of two.
Describing(kind, ats) == [kind |-> kind, attrs |-> ats]
OneTerm == [to |-> Describing("any", <<"(a:1)">>), resource |-> <<"(a:1)">>,
            from |-> Describing("requester", <<>>)]
TwoTerm == [to |-> Describing("me", <<>>), resource |-> <<"(a:2)">>,
            from |-> Describing("all", <<"(userId:1)">>)]
MCOpened == {[resource |-> <<"(a:1)">>, condition |-> <<>>, exchange |-> x] :
               x \in {<<>>, <<[op |-> "and", terms |-> <<OneTerm>>]>>,
                      <<[op |-> "or", terms |-> <<OneTerm, TwoTerm>>]>>}}

MCPicked == {<<"(b:1)", "(a:1)">>, <<"(constructor:1)">>}
MCTypedConditions == {<<>>, <<"x">>, <<"(", "x", ")">>, <<"x", ")">>}

MCRowKey == Keys @@ ("(userId:1)" :> "userId") @@ ("(userId:2)" :> "userId")

TermOf(n) == <<"(", "to", CASE n = 1 -> "me" [] n = 2 -> "(any:)" [] n = 3 -> "(all:(a:1))", ",",
               "resource", CASE n = 1 -> "(a:1)" [] n = 2 -> "(b:1)" [] n = 3 -> "(c:1)", ",",
               "from", IF n = 1 THEN "(any:)" ELSE "requester", ")">>

TermLeaves == {<<TermOf(n)[3], <<TermOf(n)[6]>>, TermOf(n)[9]>> : n \in 1 .. 3}

Marks(s) == FlattenSeq([k \in DOMAIN s |->
    CASE s[k] = "T1" -> TermOf(1) [] s[k] = "T2" -> TermOf(2) [] s[k] = "T3" -> TermOf(3)
      [] s[k] = "P"  -> <<"(">> \o TermOf(1) \o <<"or">> \o TermOf(2) \o <<")">>
      [] s[k] = "C"  -> <<",", "condition", "(", "x", ")">>
      [] s[k] = "C0" -> <<",", "condition", "(", ")">>
      [] s[k] = "E"  -> <<",", "exchange">> \o TermOf(1)
      [] s[k] = "E2" -> <<",", "exchange">> \o TermOf(1) \o <<"and">> \o TermOf(2) \o <<"or">> \o TermOf(3)
      [] s[k] = "ED" -> <<",", "exchange", "(", "to", "me", ",", "resource", "(a:1.0)", "(a:1)", ",", "from", "requester", ")">>
      [] OTHER -> <<s[k]>>])

Alphabet == [exchange  |-> {"(", ")", "and", "or", "T1", "T2", "T3", "P"},
             condition |-> {"(", ")", "and", "or", "x", "y", "#", "nl", ","},
             clauses   |-> Attributes \cup {"C", "C0", "E", "E2", "ED", "?", ","}]

Limit == [exchange |-> MaxExchange, condition |-> MaxCondition, clauses |-> MaxClauses]

Text == CASE place = "exchange"  -> <<"(", "resource", "(a:1)", ",", "exchange">> \o Marks(typed) \o <<")">>
          [] place = "condition" -> <<"(", "resource", "(a:1)", ",", "condition">> \o Marks(typed)
                                    \o <<",", "exchange">> \o TermOf(1) \o <<")">>
          [] place = "clauses"   -> <<"(", "resource">> \o Marks(typed) \o <<")">>


Given == {Bool(TRUE), Bool(FALSE), Value("Long", 7), Value("Double", 7), Value("null", 0),
          Value("set", <<Value("Long", 7), Value("String", 1)>>), Value("set", <<Value("null", 0)>>)}

Seven == Lit(Value("Long", 7))
Leaf0 == {Name(v) : v \in Given} \cup {Seven}

\* One operator more around an expression, with a leaf on its other side.
Around == {[op |-> "none"], [op |-> "not"]}
          \cup [op : {"and", "or"}, side : {"left", "right"}, leaf : Leaf0]
          \cup [op : {"in"}, side : {"right"}, leaf : Leaf0 \ {Seven}]
          \cup [op : {"=", "!=", "<", "<="}, side : {"left"}, leaf : Leaf0]
          \cup [op : {">", ">=", "="}, side : {"right"}, leaf : Leaf0]

With(expr, a) ==
    LET n == Len(expr)
        l == IF a.side = "left" THEN n + 1 ELSE n
        r == IF a.side = "left" THEN n ELSE n + 1
    IN  IF a.op = "none" THEN expr
        ELSE IF a.op = "not" THEN Append(expr, Not(n))
        ELSE expr \o <<a.leaf, IF a.op \in {"and", "or", "in"} THEN Join(a.op, l, r) ELSE Cmp(a.op, l, r)>>

MCExpressions == {With(With(<<l>>, a), b) : l \in Leaf0, a, b \in Around}

\* A text of each class that Number() tells apart; attributes as stored, and the
\* values of a rule.
MCNumber == [t \in {"7", "7.0", "0x7", "7.5", "2^53", "1e21"} |-> IF t \in {"7.0", "0x7"} THEN "7" ELSE t]

S(text) == Scalar("string", text)
N(text) == Scalar("number", text)
Single  == {S("7"), N("7"), N("7.5"), N("2^53"), Scalar("boolean", "true"), S("true"),
            S("quote"), Scalar("object", "{}")}
Stored  == {One(s) : s \in Single} \cup {List(<<>>)} \cup {List(<<s>>) : s \in Single}
           \cup {List(<<s, t>>) : s, t \in {S("7"), N("7"), N("7.5")}}
Written == {One(s) : s \in {N("7"), N("7.0"), S("7"), N("7.5"), Scalar("boolean", "true")}}
           \cup {List(<<>>)} \cup {List(<<s, t>>) : s, t \in {S("7"), N("7"), N("7.0")}}

Only(k, v) == k :> v
Odd == {Only(k, One(N("7"))) : k \in {"connections", "userId", "in", "1k", "constructor"}}

Some == {One(N("7")), One(N("7.5"))}
Pairs == [{} -> Some] \cup [{"a"} -> Some] \cup [{"b"} -> Some] \cup [{"a", "b"} -> Some]
         \cup {Only("constructor", One(N("7")))}
Row(id, attrs) == [id |-> id, attrs |-> attrs]
Rows == {<<>>} \cup {<<Row(1, a)>> : a \in Pairs}
        \cup {<<Row(1, a), Row(2, b)>> : a, b \in Pairs} \cup {<<Row(2, a), Row(1, b)>> : a, b \in Pairs}

Shown == {<<>>} \cup {Only("k", v) : v \in {One(S("7")), One(N("7")), One(S("true")),
              One(Scalar("boolean", "true")), One(S("0x7")), List(<<>>), List(<<N("7")>>),
              List(<<S("7"), N("7.5")>>), List(<<N("7.5"), N("7.5")>>)}}
MCParties == [id : {"u1"},
              pattern : {Only(k, v) : k \in {"k", "constructor"}, v \in Written} \cup Odd,
              attrs : {Only(k, v) : k \in {"k", "constructor"}, v \in Stored} \cup Odd \cup {<<>>}]
MCCoverages == [rows : Rows, pattern : Pairs]

Resources == [owner : {"u1", "u2", "nobody"}, attrs : Shown]
MCListings == [corpus : {{r, s} : r, s \in Resources} \cup {{}}, exclude : {"", "u1"},
               chips : {{}} \cup {{<<"k", t>>} : t \in {"7", "7.5", "true", "0x7", "[]"}}]

Rule(applies, cond, op, of) == [applies |-> applies, cond |-> cond, op |-> op, of |-> of]
Operands == {<<"requester", {}>>, <<"any", {}>>, <<"any", {1, 3}>>, <<"any", {3}>>, <<"all", {1, 3}>>}
PolicyRules ==
    {Rule(FALSE, "true", "none", <<>>), Rule(TRUE, "false", "none", <<>>), Rule(TRUE, "error", "none", <<>>),
     Rule(TRUE, "true", "none", <<>>), Rule(TRUE, "true", "noTo", <<>>)}
    \cup {Rule(TRUE, "true", "single", <<o>>) : o \in Operands}
    \cup {Rule(TRUE, "true", op, <<<<"requester", {}>>, <<"any", {1, 3}>>>>) : op \in {"and", "or"}}
    \cup {Rule(TRUE, "true", "or", <<<<"any", {1, 3}>>, <<"requester", {}>>>>)}

MCInit ==
    /\ place \in Places
    /\ typed = <<>>
    /\ \/ broken = TRUE /\ Opening
       \/ place \in DOMAIN Alphabet /\ broken \in BOOLEAN /\ data = <<>> /\ NoBlocks
       \/ broken = FALSE /\ Asked /\ NoBlocks
       \/ broken = FALSE /\ place = "trace" /\ data = [policies |-> <<<<>>, <<>>, <<>>>>] /\ NoBlocks

\* Terms are typed in their order, and no more parentheses closed than one
\* beyond what was opened.
Type ==
    /\ place \in DOMAIN Alphabet
    /\ Len(typed) < Limit[place]
    /\ \E mark \in Alphabet[place] :
         /\ mark = "T2" => "T1" \in Range(typed)
         /\ mark = "T3" => {"T2", "P"} \cap Range(typed) # {}
         /\ mark = "y"  => "x" \in Range(typed)
         /\ mark = ")"  => Depth(typed, 1, Len(typed), {"("}, {")"}) >= 0
         /\ typed' = Append(typed, mark)
    /\ UNCHANGED <<place, broken, data, blockVars>>

\* The policy asked first may get two rules, the others one.
AddRule ==
         /\ place = "trace" /\ Len(FlattenSeq(data.policies)) < MaxRules
         /\ \E p \in 1 .. 3 : \E r \in PolicyRules :
              /\ Len(data.policies[p]) < (IF p = 2 THEN 2 ELSE 1)
              /\ data' = [data EXCEPT !.policies[p] = Append(@, r)]
         /\ UNCHANGED <<place, typed, broken, blockVars>>

Build == Editing /\ UNCHANGED <<typed, broken>>

MCSpec == MCInit /\ [][Type \/ AddRule \/ Build]_vars

Typing == place \in DOMAIN Alphabet

\* Formatting a rule that is typed, or opening it in blocks, keeps what the
\* evaluator's parser makes of it; blocks come back from the text they are saved as.
TypedMeaningKept  ==
    /\ place = "blocks" => ComesBack(ast, broken, Derived)
    /\ Typing => MeaningKept(Text, broken, IF place = "condition" THEN {<<"x">>, <<"y">>} ELSE TermLeaves \cup {<<"x">>})

\* A rule the frontend refuses as bad syntax is one the evaluator refuses.
TypedRefusedRight == Typing => RefusedRight(Text, broken)

Traced(P(_, _)) == place = "trace" =>
    \A named \in {{2}, {2, 3}} : P(data.policies, named)

\* The arrows of the diagram are the requests the engine made, with its answers, but
\* where an exchange names its own policy and no other.  Its frames are the engine's
\* exchanges, with their answers; its roster tells who asked, who matched and who did
\* neither; its chips name what happened.
DiagramTold ==
    /\ place = "trace" => Tr!OwnOnly(data.policies) \/ Traced(Tr!ArrowsTrue)
    /\ Traced(Tr!FramesTrue) /\ Traced(Tr!RosterTrue) /\ Traced(Tr!CausesTrue)
=============================================================================
