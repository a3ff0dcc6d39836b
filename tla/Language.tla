------------------------------ MODULE Language ------------------------------
(***************************************************************************)
(* What the backend and the evaluator read of attributes and conditions:   *)
(* a party beside a rule's pattern, the rows a pattern may cover, a list   *)
(* with its filter, a condition.  Nothing is kept between two readings, so *)
(* a behaviour is one of them; or it is a rule being edited as blocks,     *)
(* before anything is written that could be read.                          *)
(***************************************************************************)
EXTENDS Matching, Conditions, BlockEditor

CONSTANTS Parties, Coverages, Listings, Expressions

VARIABLES place, data

\* A truth value is one of two; a name may stand for any value, or fail.
IsTyped(v) == v.type = "Boolean" => v \in Whims

\* An expression of the grammar: parts before the whole, the right of 'in' a name.
IsExpression(expr) ==
    /\ expr \in Seq(Range(expr)) /\ expr # <<>>
    /\ \A n \in DOMAIN expr :
          LET e == expr[n]
          IN  \/ e.op = "lit" /\ IsAtom(e.value) /\ IsTyped(e.value)
              \/ e.op = "name" /\ IsTyped(e.value)
              \/ e.op = "not" /\ e.left \in 1 .. (n - 1)
              \/ /\ e.op \in {"and", "or", "cmp", "in"}
                 /\ e.left \in 1 .. (n - 1) /\ e.right \in 1 .. (n - 1)
                 /\ e.op = "cmp" => e.rel \in {"=", "!=", "<", ">", "<=", ">="}
                 /\ e.op = "in" => expr[e.right].op = "name"

\* Stored attributes have been accepted; rows have ids of their own.
ASSUME QuestionsAssumption ==
    /\ \A q \in Parties : IsAttrs(q.pattern) /\ FromJson(q.attrs)
    /\ \A q \in Coverages :
          /\ q.rows \in Seq(Range(q.rows)) /\ FromJson(q.pattern)
          /\ \A n \in DOMAIN q.rows : FromJson(q.rows[n].attrs) /\ q.rows[n].id \in Int
          /\ \A m, n \in DOMAIN q.rows : q.rows[m].id = q.rows[n].id => m = n
    /\ \A q \in Listings : \A r \in q.corpus :
          FromJson(r.attrs) /\ \A k \in DOMAIN r.attrs \ Reserved : ~BadAttr(r.attrs, k)
    /\ \A expr \in Expressions : IsExpression(expr)

Asked ==
    \/ place = "party" /\ data \in Parties
    \/ place = "coverage" /\ data \in Coverages
    \/ place = "facets" /\ data \in Listings
    \/ place = "expression" /\ data \in Expressions

NoBlocks ==
    /\ ast = <<>> /\ ids = <<>> /\ nextId = 0 /\ drafts = <<>> /\ invalid = {}
    /\ blocksValid = TRUE /\ tab = "simple" /\ edits = 0

Opening == place = "blocks" /\ data = <<>> /\ InitBlocks

Editing == place = "blocks" /\ NextBlocks /\ UNCHANGED <<place, data>>

LanguageInit == (Asked /\ NoBlocks) \/ Opening

LanguageSpec == LanguageInit /\ [][Editing]_<<place, data, blockVars>>

-----------------------------------------------------------------------------
(* Properties *)

\* A party accepted at the door can be written, and is matched by the closure as
\* the engine will match it; a coverage answer is what the engine would give row
\* by row, its nearest gap the first by all four criteria.
MatchedAsTheEngine ==
    /\ place = "party" =>
          PartyMatched(data.id, data.pattern, data.attrs) /\ PatternWritten(data.attrs)
    /\ place = "coverage" => CoverageTold(data.rows, data.pattern)

\* The list and its facets filter alike.
FacetsTrue == place = "facets" => FacetsAgree(data.corpus, data.exclude, data.chips)

\* A condition is not decided by an error of its own.
ConditionDecided == place = "expression" => NoErrorDecides(data)

\* Save is held exactly while a row of the blocks does not parse.
SaveGated == place = "blocks" => RowsShown
=============================================================================
