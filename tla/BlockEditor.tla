---------------------------- MODULE BlockEditor -----------------------------
(***************************************************************************)
(* The rule as blocks: the editor of its pattern, its condition and its    *)
(* exchange, whose terms have an editor of rows for their resource and for *)
(* each party they describe.  A row whose text does not parse keeps the    *)
(* last value that did; the editors report such rows upwards under the     *)
(* identity of their term, and the sheet holds Save by what they report.   *)
(***************************************************************************)
EXTENDS Integers, SequencesExt

CONSTANTS
    RowTexts,           \* attributes as written
    RowKey,             \* the key of each
    RowsTyped,              \* those that can be typed into a row
    NewRows, NewRowsOfTerm, \* those a row may be added with, in a term too
    PickedUser,         \* the attribute that names a user picked
    Opened,             \* blocks a rule is opened with
    Picked,             \* patterns of resources to pick from
    TypedConditions,
    MaxRows, MaxTerms, MaxEdits     \* bounds

BlockParty == [kind : {"me", "requester", "any", "all"}, attrs : Seq(RowTexts)]
BlockTerm  == [to : BlockParty, resource : Seq(RowTexts), from : BlockParty]

\* At most one exchange, of at least one term.
IsBlocks(b) ==
    /\ b \in [resource  : Seq(RowTexts),
              condition : {<<>>} \cup {<<said>> : said \in TypedConditions},
              exchange  : Seq([op : {"and", "or"}, terms : Seq(BlockTerm) \ {<<>>}])]
    /\ Len(b.exchange) <= 1

\* A row that does not parse shows no attribute.
ASSUME BlocksAssumption ==
    /\ RowKey \in [RowTexts -> Range(RowKey)] /\ "?" \notin RowTexts
    /\ RowsTyped \cup NewRows \cup NewRowsOfTerm \cup {PickedUser} \subseteq RowTexts
    /\ RowKey[PickedUser] = "userId"
    /\ \A b \in Opened : IsBlocks(b)
    /\ Picked \subseteq Seq(RowTexts)

VARIABLES
    ast,                \* pattern, condition, exchange
    ids, nextId,        \* the synthetic identity of each term
    drafts,             \* what the rows typed into show, "?" if it does not parse
    invalid,            \* the editors that reported such a row
    blocksValid,        \* what the sheet was told
    tab, edits

reports == <<invalid, blocksValid>>
blockVars == <<ast, ids, nextId, drafts, reports, tab, edits>>

Me        == [kind |-> "me", attrs |-> <<>>]
Requester == [kind |-> "requester", attrs |-> <<>>]
NewTerm   == [to |-> Me, resource |-> <<>>, from |-> Requester]

Terms  == IF ast.exchange = <<>> THEN <<>> ELSE ast.exchange[1].terms

RowKeys(ats) == {RowKey[ats[n]] : n \in DOMAIN ats}
Values(key)  == {at \in RowsTyped : RowKey[at] = key}

\* An editor of rows is named by its term's identity and its side; 0 is the rule.
OwnPattern == <<0, "resource">>
Quantifies(p) == p.kind \in {"any", "all"}

Party(term, side) == IF side = "to" THEN term.to ELSE term.from

WithParty(term, side, p) ==
    IF side = "to" THEN [term EXCEPT !.to = p] ELSE [term EXCEPT !.from = p]

\* The sides of a term that have an editor, and the pattern it is of.
Edited(term) == {"resource"} \cup {side \in {"to", "from"} : Quantifies(Party(term, side))}

Pattern(term, side) == IF side = "resource" THEN term.resource ELSE Party(term, side).attrs

WithPattern(term, side, ats) ==
    IF side = "resource" THEN [term EXCEPT !.resource = ats]
    ELSE WithParty(term, side, [Party(term, side) EXCEPT !.attrs = ats])

Editors == {OwnPattern} \cup UNION {{<<ids[k], side>> : side \in Edited(Terms[k])} : k \in DOMAIN Terms}

PlaceOf(editor) == CHOOSE k \in DOMAIN ids : ids[k] = editor[1]

AttrsOf(editor) ==
    IF editor = OwnPattern THEN ast.resource ELSE Pattern(Terms[PlaceOf(editor)], editor[2])

\* One term always says "and".
NormalizeExchange(op, terms) == <<[op |-> IF Len(terms) = 1 THEN "and" ELSE op, terms |-> terms]>>

WithTerms(terms)   == [ast EXCEPT !.exchange = NormalizeExchange(ast.exchange[1].op, terms)]
UpdateTerm(k, term) == WithTerms([Terms EXCEPT ![k] = term])

WithAttrs(editor, ats) ==
    IF editor = OwnPattern THEN [ast EXCEPT !.resource = ats]
    ELSE LET k == PlaceOf(editor) IN UpdateTerm(k, WithPattern(Terms[k], editor[2], ats))

Broken(editor, rows) == \E row \in DOMAIN rows : row[1] = editor /\ rows[row] = "?"

Report(editors, valid) ==
    /\ invalid' = IF valid THEN invalid \ editors ELSE invalid \cup editors
    /\ blocksValid' = (invalid' = {})

Put(row, shown) == [r \in DOMAIN drafts \cup {row} |-> IF r = row THEN shown ELSE drafts[r]]
Forget(editors) == Restrict(drafts, {r \in DOMAIN drafts : r[1] \notin editors})

-----------------------------------------------------------------------------
(* AttributeEditor *)

UpdateRow(editor) ==
    /\ \E n \in DOMAIN AttrsOf(editor) : \E shown \in Values(RowKey[AttrsOf(editor)[n]]) \cup {"?"} :
         /\ drafts' = Put(<<editor, RowKey[AttrsOf(editor)[n]]>>, shown)
         /\ Report({editor}, ~Broken(editor, drafts'))
         /\ ast' = IF shown = "?" THEN ast
                   ELSE WithAttrs(editor, [AttrsOf(editor) EXCEPT ![n] = shown])
    /\ UNCHANGED <<ids, nextId, tab>>

RemoveRow(editor) ==
    /\ \E n \in DOMAIN AttrsOf(editor) :
         /\ drafts' = Restrict(drafts, DOMAIN drafts \ {<<editor, RowKey[AttrsOf(editor)[n]]>>})
         /\ Report({editor}, ~Broken(editor, drafts'))
         /\ ast' = WithAttrs(editor, RemoveAt(AttrsOf(editor), n))
    /\ UNCHANGED <<ids, nextId, tab>>

\* A reserved key only where it is allowed: userId, of a party.
AddRow(editor) ==
    /\ \E at \in IF editor = OwnPattern THEN NewRows ELSE NewRowsOfTerm :
         /\ RowKey[at] \notin RowKeys(AttrsOf(editor))
         /\ Len(AttrsOf(editor)) < MaxRows
         /\ RowKey[at] = "userId" => editor[2] # "resource"
         /\ ast' = WithAttrs(editor, Append(AttrsOf(editor), at))
    /\ UNCHANGED <<ids, nextId, drafts, reports, tab>>

-----------------------------------------------------------------------------
(* SimpleRuleEditor, ExchangeBuilder, ParticipantPicker *)

\* Replaces the pattern beneath an editor that is mounted afresh.
PickResource ==
    /\ \E ats \in Picked : ast' = [ast EXCEPT !.resource = ats]
    /\ drafts' = Forget({OwnPattern}) /\ Report({OwnPattern}, TRUE)
    /\ UNCHANGED <<ids, nextId, tab>>

SetCondition ==
    /\ \E said \in TypedConditions :
         ast' = [ast EXCEPT !.condition = IF said = <<>> THEN <<>> ELSE <<said>>]
    /\ UNCHANGED <<ids, nextId, drafts, reports, tab>>

AskExchange ==
    /\ ast.exchange = <<>>
    /\ ast' = [ast EXCEPT !.exchange = <<[op |-> "and", terms |-> <<NewTerm>>]>>]
    /\ ids' = <<nextId>> /\ nextId' = nextId + 1
    /\ UNCHANGED <<drafts, reports, tab>>

AddTerm ==
    /\ Terms # <<>> /\ Len(Terms) < MaxTerms
    /\ ast' = WithTerms(Append(Terms, NewTerm))
    /\ ids' = Append(ids, nextId) /\ nextId' = nextId + 1
    /\ UNCHANGED <<drafts, reports, tab>>

Without(k) == IF Len(Terms) = 1 THEN [ast EXCEPT !.exchange = <<>>] ELSE WithTerms(RemoveAt(Terms, k))

\* What the editors of the term had reported stays. (mutant)
RemoveTerm_Latched ==
    /\ \E k \in DOMAIN Terms :
         /\ drafts' = Forget({<<ids[k], side>> : side \in {"resource", "to", "from"}})
         /\ ids' = RemoveAt(ids, k) /\ ast' = Without(k)
    /\ UNCHANGED <<nextId, reports, tab>>

\* A removed term can no longer be corrected: its three editors are retracted.
RemoveTerm ==
    /\ \E k \in DOMAIN Terms :
         LET gone == {<<ids[k], side>> : side \in {"resource", "to", "from"}} IN
         /\ drafts' = Forget(gone) /\ Report(gone, TRUE)
         /\ ids' = RemoveAt(ids, k) /\ ast' = Without(k)
    /\ UNCHANGED <<nextId, tab>>

SetConnector ==
    /\ Len(Terms) > 1
    /\ \E op \in {"and", "or"} \ {ast.exchange[1].op} : ast' = [ast EXCEPT !.exchange[1].op = op]
    /\ UNCHANGED <<ids, nextId, drafts, reports, tab>>

\* any and all carry the pattern across; the fixed party unmounts its editor.
PickKind ==
    /\ \E k \in DOMAIN Terms, side \in {"to", "from"}, kind \in {"fixed", "any", "all"} :
         LET was   == Party(Terms[k], side)
             fixed == IF side = "to" THEN Me ELSE Requester
         IN  IF kind = "fixed"
             THEN /\ Quantifies(was)
                  /\ ast' = UpdateTerm(k, WithParty(Terms[k], side, fixed))
                  /\ drafts' = Forget({<<ids[k], side>>}) /\ Report({<<ids[k], side>>}, TRUE)
             ELSE /\ kind # was.kind
                  /\ ast' = UpdateTerm(k, WithParty(Terms[k], side, [kind |-> kind, attrs |-> was.attrs]))
                  /\ UNCHANGED <<drafts, reports>>
    /\ UNCHANGED <<ids, nextId, tab>>

\* Written beneath a mounted editor, whose row keeps showing what was typed.
PickParty ==
    /\ \E k \in DOMAIN Terms, side \in {"to", "from"} :
         LET ats == Party(Terms[k], side).attrs
         IN  /\ Quantifies(Party(Terms[k], side))
             /\ ast' = UpdateTerm(k, WithPattern(Terms[k], side,
                          IF "userId" \in RowKeys(ats)
                          THEN [n \in DOMAIN ats |-> IF RowKey[ats[n]] = "userId" THEN PickedUser ELSE ats[n]]
                          ELSE Append(ats, PickedUser)))
    /\ UNCHANGED <<ids, nextId, drafts, reports, tab>>

-----------------------------------------------------------------------------

\* The tab that is left is unmounted, and what its editors reported forgotten.
ChangeTab ==
    /\ tab' = IF tab = "simple" THEN "advanced" ELSE "simple"
    /\ drafts' = <<>> /\ invalid' = {} /\ blocksValid' = TRUE
    /\ ids' = [k \in DOMAIN Terms |-> nextId + k - 1] /\ nextId' = nextId + Len(Terms)
    /\ UNCHANGED ast

\* A text is typed that the blocks can hold.
ChangeSource ==
    /\ tab = "advanced" /\ ast' \in Opened
    /\ UNCHANGED <<ids, nextId, drafts, reports, tab>>

InitBlocks ==
    /\ ast \in Opened
    /\ ids = [k \in DOMAIN Terms |-> k] /\ nextId = Len(Terms) + 1
    /\ drafts = <<>> /\ invalid = {} /\ blocksValid = TRUE
    /\ tab = "simple" /\ edits = 0

InBlocks ==
    \/ \E editor \in Editors : UpdateRow(editor) \/ RemoveRow(editor) \/ AddRow(editor)
    \/ PickResource \/ SetCondition \/ AskExchange \/ AddTerm \/ RemoveTerm
    \/ SetConnector \/ PickKind \/ PickParty

NextBlocks ==
    /\ edits < MaxEdits /\ edits' = edits + 1
    /\ \/ tab = "simple" /\ InBlocks
       \/ ChangeTab
       \/ ChangeSource

-----------------------------------------------------------------------------
(* Properties *)

\* Save is held exactly while a row on screen does not parse, and a row that does
\* shows what would be saved, unless a party was picked beneath it; each term keeps
\* its own rows when others come and go.
RowsShown ==
    /\ blocksValid <=> "?" \notin Range(drafts)
    /\ tab = "simple" => IsInjective(ids) /\ Len(ids) = Len(Terms)
    /\ \A row \in DOMAIN drafts :
         /\ row[1] \in Editors /\ row[2] \in RowKeys(AttrsOf(row[1]))
         /\ drafts[row] \in Range(AttrsOf(row[1])) \cup {"?"} \/ row[2] = "userId"
=============================================================================
