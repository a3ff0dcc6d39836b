------------------------------ MODULE RuleText ------------------------------
(***************************************************************************)
(* The frontend's third reading of the grammar: rule text to tree          *)
(* (parseSyntax), tree to blocks (toBlocks), and back to text (printTree), *)
(* each behind its own fixed-point guard, beside what the evaluator's      *)
(* parser makes of the same text (Bart.g4 and its visitors).               *)
(*                                                                         *)
(* A text is a sequence of marks.  A mark is a bracket, a comma, a word    *)
(* with its colon ("resource", "condition", "exchange", "to", "from"), a   *)
(* whole attribute, a whole participant, an atom of an expression, "#"     *)
(* (the start of a comment), "nl" (the newline that ends one) or "?" (a    *)
(* character no token starts with).  Attributes carry what can go wrong    *)
(* with one: written otherwise than it is printed, a number that does not  *)
(* survive JavaScript, a keyword or an inherited property as its key.      *)
(***************************************************************************)
EXTENDS Integers, Sequences, SequencesExt, FiniteSets, FiniteSetsExt

Attributes == {"(a:1)", "(b:1)", "(c:1)", "(a:2)", "(a:{1,2})", "(a:1,2)",
               "(a:1.0)", "(in:1)", "(constructor:1)"}

Keys == [at \in Attributes |->
           CASE at = "(b:1)" -> "b" [] at = "(c:1)" -> "c" [] at = "(in:1)" -> "in"
             [] at = "(constructor:1)" -> "constructor" [] OTHER -> "a"]

\* A bare comma list and a braced one are the same value, printed with braces.
Printed(at) == IF at = "(a:1,2)" THEN "(a:{1,2})" ELSE at

\* A party described by a quantifier and attributes, as one mark.
Others(quantifier, ats) ==
    LET Join1(said, at) == said \o at
    IN  FoldLeft(Join1, "(" \o quantifier \o ":", ats) \o ")"

Described == {Others(q, ats) : q \in {"any", "all"},
                ats \in SeqOf({"(a:1)", "(a:2)", "(userId:1)", "(userId:2)"}, 2)}

To   == {"me"} \cup Described
From == {"requester"} \cup Described

-----------------------------------------------------------------------------
(* lex.ts: comments run to the end of their line; the rest are tokens at   *)
(* places of the text, ended by one that says so.                          *)

Lexed(text) ==
    LET commented(n) == "#" \in Range(text) /\
          \E m \in 1 .. n : text[m] = "#" /\ \A k \in m .. n : text[k] # "nl"
        Kept(n) == text[n] # "nl" /\ ~commented(n)
    IN  SelectSeq([n \in DOMAIN text |-> n], Kept)

Tokens(text) == LET at == Lexed(text) IN [n \in DOMAIN at |-> text[at[n]]] \o <<"eof">>

Refuses(text) == "?" \in Range(Tokens(text))

Peek(p, i) == p[IF i < Len(p) THEN i ELSE Len(p)]

\* What a parsing function returns: an error ("syntax" with a position, or
\* "blocks" for Bart the block model has no shape for), or a value and the
\* place of the next token.
Fail(kind)  == [e |-> kind, v |-> <<>>, i |-> 0]
Got(v, i)   == [e |-> "", v |-> v, i |-> i]

\* An error ends the parse; a value is what the rest goes on from.
Then(so, Rest(_)) == IF so.e # "" THEN so ELSE Rest(so)

-----------------------------------------------------------------------------
(* parse.ts *)

\* The object the attributes are gathered in is a plain one: every key it
\* inherits counts as already given.
Attrs(p, i, atLeastOne) ==
    LET end  == CHOOSE j \in i .. Len(p) :
                  p[j] \notin Attributes /\ \A k \in i .. (j - 1) : p[k] \in Attributes
        Twice(j) == \/ Keys[p[j]] = "constructor"
                    \/ \E k \in i .. (j - 1) : Keys[p[k]] = Keys[p[j]]
        bad  == {j \in i .. (end - 1) : Twice(j) \/ p[j] = "(a:1.0)"}
    IN  IF i > Len(p) THEN Fail("syntax")
        ELSE IF bad # {} THEN Fail(IF Twice(Min(bad)) THEN "syntax" ELSE "blocks")
        ELSE IF atLeastOne /\ end = i THEN Fail("syntax")
        ELSE Got([k \in 1 .. (end - i) |-> Printed(p[i + k - 1])], end)

TermNode(to, resource, from) ==
    [op |-> "term", kids |-> <<>>, to |-> to, resource |-> resource, from |-> from]

Term(p, i) ==
    IF ~ (Peek(p, i + 2) \in To /\ Peek(p, i + 3) = "," /\ Peek(p, i + 4) = "resource")
    THEN Fail("syntax")
    ELSE Then(Attrs(p, i + 5, TRUE), LAMBDA resource :
           LET j == resource.i IN
           IF /\ Peek(p, j) = "," /\ Peek(p, j + 1) = "from"
              /\ Peek(p, j + 2) \in From /\ Peek(p, j + 3) = ")"
           THEN Got(TermNode(Peek(p, i + 2), resource.v, Peek(p, j + 2)), j + 4)
           ELSE Fail("syntax"))

\* The only way to build a group: children of the same connector are taken in,
\* a lone child stays bare.  A bug would take every group in. (mutant)
GroupNode_Any(op, kids) ==
    LET flat == FlattenSeq([k \in DOMAIN kids |->
                  IF kids[k].op # "term" THEN kids[k].kids ELSE <<kids[k]>>])
    IN  IF Len(flat) = 1 THEN flat[1] ELSE [op |-> op, kids |-> flat]

GroupNode(op, kids) ==
    LET flat == FlattenSeq([k \in DOMAIN kids |->
                  IF kids[k].op = op THEN kids[k].kids ELSE <<kids[k]>>])
    IN  IF Len(flat) = 1 THEN flat[1] ELSE [op |-> op, kids |-> flat]

\* One operand, then one more for each connector that follows.
Chain(p, i, op, Operand(_, _)) ==
    LET RECURSIVE More(_)
        More(so) == IF so.e # "" \/ Peek(p, so.i) # op THEN so
                    ELSE More(Then(Operand(p, so.i + 1), LAMBDA next :
                                Got(Append(so.v, next.v), next.i)))
    IN  Then(More(Then(Operand(p, i), LAMBDA first : Got(<<first.v>>, first.i))),
             LAMBDA kids : Got(GroupNode(op, kids.v), kids.i))

RECURSIVE Exchange(_, _)

Primary(p, i) ==
    IF Peek(p, i) # "(" THEN Fail("syntax")
    ELSE IF Peek(p, i + 1) = "to" THEN Term(p, i)
    ELSE Then(Exchange(p, i + 1), LAMBDA inner :
           IF Peek(p, inner.i) = ")" THEN Got(inner.v, inner.i + 1) ELSE Fail("syntax"))

Conjunction(p, i) == Chain(p, i, "and", Primary)
Exchange(p, i)    == Chain(p, i, "or", Conjunction)

\* Brackets opened and not closed among the marks i to j of p.
Depth(p, i, j, opens, closes) ==
    Cardinality({k \in i .. j : p[k] \in opens}) - Cardinality({k \in i .. j : p[k] \in closes})

TrimmedEnds(s) ==
    LET kept == {k \in DOMAIN s : s[k] # "nl"}
    IN  IF kept = {} THEN <<>> ELSE SubSeq(s, Min(kept), Max(kept))

\* One layer of parentheses, when it wraps the whole of the expression.
StripOuterParens(s) ==
    LET p == Tokens(s)
        early == \E k \in 1 .. (Len(p) - 2) :
                    p[k] = ")" /\ Depth(p, 1, k, {"("}, {")"}) = 0
    IN  IF s[1] # "(" \/ s[Len(s)] # ")" \/ Refuses(s) \/ early THEN s
        ELSE TrimmedEnds(SubSeq(s, 2, Len(s) - 1))

\* The condition's own text, up to the first comma or closing parenthesis that
\* no bracket of its own encloses; a bug forgets to count them. (mutant)
ConditionSpan_Flat(text, p, i) ==
    LET end == Min({j \in i .. Len(p) : p[j] \in {"eof", ",", ")"}})
        at  == Lexed(text)
    IN  IF i > Len(p) \/ p[end] = "eof" \/ end = i THEN Fail("syntax")
        ELSE Got(StripOuterParens(SubSeq(text, at[i], at[end - 1])), end)

ConditionSpan(text, p, i) ==
    LET Bare(j) == p[j] \in {",", ")"} /\ Depth(p, i, j - 1, {"(", "{"}, {")", "}"}) = 0
        end == Min({j \in i .. Len(p) : p[j] = "eof" \/ Bare(j)})
        at  == Lexed(text)
    IN  IF i > Len(p) \/ p[end] = "eof" \/ end = i THEN Fail("syntax")
        ELSE Got(StripOuterParens(SubSeq(text, at[i], at[end - 1])), end)

\* Each clause at most once, the condition before the exchange.
Clauses(text, p, i) ==
    LET RECURSIVE From1(_, _)
        From1(tree, at) ==
          LET word == Peek(p, at + 1)
          IN  IF Peek(p, at) # "," THEN Got(tree, at)
              ELSE IF word = "condition" /\ tree.condition = <<>> /\ tree.exchange = <<>>
              THEN Then(ConditionSpan(text, p, at + 2), LAMBDA c :
                     From1([tree EXCEPT !.condition = <<c.v>>], c.i))
              ELSE IF word = "exchange" /\ tree.exchange = <<>>
              THEN Then(Exchange(p, at + 2), LAMBDA x :
                     From1([tree EXCEPT !.exchange = <<x.v>>], x.i))
              ELSE Fail("syntax")
    IN  From1([condition |-> <<>>, exchange |-> <<>>], i)

TreeOf(text, p) ==
    IF Peek(p, 1) # "(" \/ Peek(p, 2) # "resource" THEN Fail("syntax")
    ELSE Then(Attrs(p, 3, TRUE), LAMBDA resource :
         Then(Clauses(text, p, resource.i), LAMBDA clauses :
           IF Peek(p, clauses.i) # ")" \/ Peek(p, clauses.i + 1) # "eof" THEN Fail("syntax")
           ELSE Got([resource  |-> resource.v, condition |-> clauses.v.condition,
                     exchange  |-> clauses.v.exchange], 0)))

Tree(text) == IF Refuses(text) THEN Fail("syntax") ELSE TreeOf(text, Tokens(text))

-----------------------------------------------------------------------------
(* rule.ts: the one printer.  An empty condition is dropped, as is the     *)
(* clause of none; a line too long is broken after the clauses' commas.    *)

RECURSIVE NodeMarks(_)
NodeMarks(node) ==
    IF node.op = "term"
    THEN <<"(", "to", node.to, ",", "resource">> \o node.resource
           \o <<",", "from", node.from, ")">>
    ELSE <<"(">> \o FlattenSeq([k \in DOMAIN node.kids |->
            IF k = 1 THEN NodeMarks(node.kids[k]) ELSE <<node.op>> \o NodeMarks(node.kids[k])])
         \o <<")">>

Said(condition) == IF condition = <<>> THEN <<>> ELSE condition[1]

PrintTree(tree, broken) ==
    LET comma == IF broken THEN <<",", "nl">> ELSE <<",">>
    IN  <<"(", "resource">> \o tree.resource
        \o (IF Said(tree.condition) = <<>> THEN <<>>
            ELSE comma \o <<"condition", "(">> \o Said(tree.condition) \o <<")">>)
        \o (IF tree.exchange = <<>> THEN <<>>
            ELSE comma \o <<"exchange">> \o NodeMarks(tree.exchange[1]))
        \o <<")">>

RECURSIVE TermsOf(_)
TermsOf(node) == IF node.op = "term" THEN {node}
                 ELSE UNION {TermsOf(node.kids[k]) : k \in DOMAIN node.kids}

\* emitAttrs refuses a keyword as a key, though the lexer reads it as a name.
Printable(tree) ==
    "(in:1)" \notin Range(tree.resource) \cup
        (IF tree.exchange = <<>> THEN {}
         ELSE UNION {Range(t.resource) : t \in TermsOf(tree.exchange[1])})

SameTree(a, b) ==
    a.resource = b.resource /\ a.exchange = b.exchange /\ Said(a.condition) = Said(b.condition)

Survives(tree, again) == again.e = "" /\ SameTree(again.v, tree)

\* Stage one, behind its guard: the tree survives its own printer.
ParseSyntax(text, broken) ==
    Then(Tree(text), LAMBDA parsed :
        IF Printable(parsed.v) /\ Survives(parsed.v, Tree(PrintTree(parsed.v, broken)))
        THEN parsed ELSE Fail("blocks"))

\* One connector over a flat list; one term always says "and".
Flattened(node) ==
    IF node.op = "term" THEN [op |-> "and", terms |-> <<node>>]
    ELSE [op |-> IF Len(node.kids) = 1 THEN "and" ELSE node.op, terms |-> node.kids]

Blocks(tree) ==
    IF \E n \in DOMAIN tree.exchange : \E k \in DOMAIN tree.exchange[n].kids :
          tree.exchange[n].kids[k].op # "term"
    THEN Fail("blocks")
    ELSE Got([tree EXCEPT !.exchange = [n \in DOMAIN tree.exchange |-> Flattened(tree.exchange[n])]], 0)

ToTree(ast) ==
    [ast EXCEPT !.exchange = [n \in DOMAIN ast.exchange |->
                                GroupNode(ast.exchange[n].op, ast.exchange[n].terms)]]

\* Stage two, behind its own guard.
ToBlocks(tree, broken) ==
    Then(Blocks(tree), LAMBDA ast :
        IF /\ Printable(ToTree(ast.v))
           /\ Survives(ast.v, Then(Tree(PrintTree(ToTree(ast.v), broken)),
                                  LAMBDA again : Blocks(again.v)))
        THEN ast ELSE Fail("blocks"))

ParseRule(text, broken) ==
    Then(ParseSyntax(text, broken), LAMBDA syntax : ToBlocks(syntax.v, broken))

-----------------------------------------------------------------------------
(* The text of blocks that are edited *)

PartyMark(p) == IF p.kind \in {"any", "all"} THEN Others(p.kind, p.attrs) ELSE p.kind

AsRule(blocks) ==
    [blocks EXCEPT !.exchange = [n \in DOMAIN blocks.exchange |->
        [op |-> blocks.exchange[n].op,
         terms |-> [k \in DOMAIN blocks.exchange[n].terms |->
            LET term == blocks.exchange[n].terms[k]
            IN  TermNode(PartyMark(term.to), term.resource, PartyMark(term.from))]]]]

\* Every pattern of a resource says something.
SimpleReady(blocks) ==
    /\ blocks.resource # <<>>
    /\ \A n \in DOMAIN blocks.exchange : \A k \in DOMAIN blocks.exchange[n].terms :
          blocks.exchange[n].terms[k].resource # <<>>
    /\ Printable(ToTree(AsRule(blocks)))

\* Blocks that can be saved come back from their text as they were, and the
\* evaluator reads it; a text that does not come back is one the evaluator refuses,
\* or has an inherited name for a key.
ComesBack(blocks, broken, derives(_)) ==
    LET text  == PrintTree(ToTree(AsRule(blocks)), broken)
        again == ParseRule(text, broken)
    IN  SimpleReady(blocks) =>
            \/ again.e = "" /\ derives(text) /\ SameTree(again.v, AsRule(blocks))
            \/ again.e # "" /\ (derives(text) => "(constructor:1)" \in Range(text))
=============================================================================
