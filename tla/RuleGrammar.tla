---------------------------- MODULE RuleGrammar -----------------------------
(***************************************************************************)
(* The same texts as the evaluator's parser takes them: Bart.g4's          *)
(* policyRule with the visitors that build the engine's rule.  A text is   *)
(* read by what its clauses say when a given set of leaves holds, so two   *)
(* texts that read alike for every set of leaves mean the same.            *)
(***************************************************************************)
EXTENDS RuleText

\* attribute+ : a keyword is never a NAME, and building rejects a repeated key.
AttributesRead(s) ==
    /\ s # <<>>
    /\ Range(s) \subseteq Attributes \ {"(in:1)"}
    /\ \A j, k \in DOMAIN s : Keys[s[j]] = Keys[s[k]] => j = k

Built(s) == [k \in DOMAIN s |-> Printed(s[k])]

\* '(' 'to' ':' to ',' 'resource' ':' attribute+ ',' 'from' ':' from ')', as the
\* single exchange it builds; an atom of a condition stands for itself.
Leaf(clause, s) ==
    LET n == Len(s) IN
    IF clause = "condition" THEN {a \in {<<"x">>, <<"y">>} : s = a}
    ELSE IF /\ n >= 10
            /\ SubSeq(s, 1, 2) = <<"(", "to">> /\ SubSeq(s, 4, 5) = <<",", "resource">>
            /\ SubSeq(s, n - 3, n - 2) = <<",", "from">> /\ s[n] = ")"
            /\ s[3] \in To /\ s[n - 1] \in From /\ AttributesRead(SubSeq(s, 6, n - 4))
         THEN {<<s[3], Built(SubSeq(s, 6, n - 4)), s[n - 1]>>}
         ELSE {}

\* What a clause says when the leaves of holds do, as the set of its readings:
\* empty when the grammar has none.  'and' binds tighter than 'or', both to the
\* left, and parentheses override.
RECURSIVE Reading(_, _, _, _)
Reading(clause, s, level, holds) ==
    LET n    == Len(s)
        cuts == {k \in 2 .. (n - 1) : s[k] = level /\ Depth(s, 1, k - 1, {"("}, {")"}) = 0}
        next == IF level = "or" THEN "and" ELSE "primary"
        Left(k)  == Reading(clause, SubSeq(s, 1, k - 1), level, holds)
        Right(k) == Reading(clause, SubSeq(s, k + 1, n), next, holds)
    IN  IF level # "primary"
        THEN Reading(clause, s, next, holds) \cup
             UNION {{IF level = "or" THEN l \/ r ELSE l /\ r : l \in Left(k), r \in Right(k)} : k \in cuts}
        ELSE (IF Leaf(clause, s) # {} THEN {Leaf(clause, s) \subseteq holds} ELSE {}) \cup
             (IF n > 2 /\ s[1] = "(" /\ s[n] = ")" THEN Reading(clause, SubSeq(s, 2, n - 1), "or", holds)
              ELSE {})

\* The rule a text is, when the grammar derives it.
Reads(text, holds) ==
    LET p      == Front(Tokens(text))
        n      == Len(p)
        Ends(k) == /\ 3 <= k /\ k < n /\ p[k] = "," /\ p[k + 1] \in {"condition", "exchange"}
                   /\ Depth(p, 3, k - 1, {"("}, {")"}) = 0
        commas == SelectSeq([k \in 1 .. n |-> k], Ends)
        ends   == Append(commas, n)
        words  == [k \in DOMAIN commas |-> p[commas[k] + 1]]
        Said1(k) == Reading(words[k], SubSeq(p, commas[k] + 2, ends[k + 1] - 1), "or", holds)
        resource == SubSeq(p, 3, ends[1] - 1)
    IN  IF \/ Refuses(text) \/ n < 4
           \/ SubSeq(p, 1, 2) # <<"(", "resource">> \/ p[n] # ")"
           \/ words \notin {<<>>, <<"condition">>, <<"exchange">>, <<"condition", "exchange">>}
           \/ ~AttributesRead(resource) \/ \E k \in DOMAIN words : Said1(k) = {}
        THEN {}
        ELSE {<<Built(resource), words, [k \in DOMAIN words |-> Said1(k)]>>}

\* Whether the evaluator's parser takes the text at all.
Derived(text) == Reads(text, {}) # {}

\* Whether two texts mean the same, whatever set of the leaves holds.
SameMeaning(a, b, leaves) == \A holds \in SUBSET leaves : Reads(a, holds) = Reads(b, holds)

-----------------------------------------------------------------------------
(* Properties, of one text *)

\* Formatting a rule and opening it in blocks keep what it means: the reprinted
\* text is one the evaluator's parser reads as it read the text.
MeaningKept(text, broken, leaves) ==
    LET tree == ParseSyntax(text, broken)
        ast  == ParseRule(text, broken)
    IN  Derived(text) =>
            /\ tree.e = "" => SameMeaning(text, PrintTree(tree.v, broken), leaves)
            /\ ast.e = ""  => SameMeaning(text, PrintTree(ToTree(ast.v), broken), leaves)

\* A rule is refused for what it is: as a syntax error only when the evaluator
\* would refuse it too (an inherited name as a key excepted), as beyond the
\* frontend only for a decimal or a comment, as beyond the blocks only for
\* mixing connectors; and printing makes no rule of a text that is none, unless
\* its condition is an empty pair of parentheses, which it drops.
RefusedRight(text, broken) ==
    LET p     == Tokens(text)
        tree  == ParseSyntax(text, broken)
        ast   == ParseRule(text, broken)
        asked == {p[k] : k \in {m \in DOMAIN p : \E n \in 1 .. m : p[n] = "exchange"}}
    IN  IF Derived(text)
        THEN /\ tree.e = "syntax" => "(constructor:1)" \in Range(p)
             /\ tree.e = "blocks" => "(a:1.0)" \in Range(p) \/ "#" \in Range(text)
             /\ tree.e = "" => (ast.e = "" <=> ~({"and", "or"} \subseteq asked))
        ELSE tree.e = "" /\ Derived(PrintTree(tree.v, broken)) =>
                \E k \in 1 .. (Len(p) - 2) : SubSeq(p, k, k + 2) = <<"condition", "(", ")">>

=============================================================================
