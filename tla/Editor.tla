------------------------------- MODULE Editor -------------------------------
(***************************************************************************)
(* The rules on the policy screen of one browser tab: their list, with the *)
(* sheet that edits one of them in blocks or as text, over one copy of     *)
(* GET /me that any answer may refresh.  A rule is its position in the     *)
(* list and its text.                                                      *)
(***************************************************************************)
EXTENDS Naturals, SequencesExt

CONSTANTS
    None,
    Texts, Blank,       \* texts of a rule, the empty one among them
    Asts, EmptyAst,     \* what the blocks hold
    AstOf, PrintOf,     \* parseRule and tryPrintRule; None where they fail
    Foreign,            \* texts that come from elsewhere only, or were stored before
    Invalid,            \* the texts the evaluator refuses
    MaxRules, MaxElsewhere

\* What the blocks are printed as parses to the same blocks again; what does not
\* parse, or cannot be printed, is told apart.
ASSUME EditorAssumption ==
    /\ Blank \in Texts /\ Foreign \subseteq Texts /\ EmptyAst \in Asts
    /\ None \notin Texts \cup Asts
    /\ AstOf \in [Texts -> Asts \cup {None}] /\ PrintOf \in [Asts -> Texts \cup {None}]
    /\ \A a \in Asts : PrintOf[a] # None => AstOf[PrintOf[a]] = a

VARIABLES
    server,     \* the rules stored
    me,         \* this tab's copy of them
    editing,    \* RulesList: the rule whose sheet was opened last
    open, ast, source, tab, confirming,    \* RuleEditorSheet
    write,      \* the list's write under way, or <<>>
    elsewhere,  \* writes of the policy made elsewhere so far
    crossed, late
    \* crossed: the rules on screen when the sheet was opened or a delete clicked
    \*          are no longer, or were not, the server's
    \* late:    the rule was edited while it was being saved

sheet == <<editing, open, ast, source, tab, confirming>>
vars  == <<server, me, sheet, write, elsewhere, crossed, late>>

NewRule   == [id |-> 0, source |-> Blank]
RuleAt(i) == [id |-> i, source |-> me[i]]

\* The empty text of a new rule is a draft, not a mistake.
IsBlankDraft(rule, text)    == rule.id = 0 /\ text = Blank
BlocksAvailable(rule, text) == IsBlankDraft(rule, text) \/ AstOf[text] # None

Dirty == source # editing.source

Init ==
    /\ server \in {<<>>} \cup {<<t>> : t \in Foreign}
    /\ me = server
    /\ editing = NewRule /\ open = FALSE /\ ast = EmptyAst /\ source = Blank
    /\ tab = "simple" /\ confirming = FALSE
    /\ write = <<>>
    /\ elsewhere = 0
    /\ crossed = FALSE /\ late = FALSE

-----------------------------------------------------------------------------
(* The sheet.  It and its question are modal: the rest waits.              *)

OpenEditor ==
    /\ ~open /\ ~confirming /\ write = <<>>
    /\ \E rule \in {NewRule} \cup {RuleAt(i) : i \in DOMAIN me} :
         /\ editing' = rule /\ source' = rule.source
         /\ ast' = IF AstOf[rule.source] = None THEN EmptyAst ELSE AstOf[rule.source]
         /\ tab' = IF BlocksAvailable(rule, rule.source) THEN "simple" ELSE "advanced"
    /\ open' = TRUE /\ confirming' = FALSE
    /\ crossed' = (me # server) /\ late' = FALSE
    /\ UNCHANGED <<server, me, write, elsewhere>>

InSheet == open /\ ~confirming

\* A bug would leave the text to be printed on saving. (mutant)
ChangeAst_Lazy ==
    /\ InSheet /\ tab = "simple"
    /\ ast' \in Asts \ {ast}
    /\ UNCHANGED source
    /\ late' = (late \/ write # <<>>)
    /\ UNCHANGED <<server, me, editing, open, tab, confirming, write, elsewhere, crossed>>

\* The blocks write through to the text when they can be printed.
ChangeAst ==
    /\ InSheet /\ tab = "simple"
    /\ ast' \in Asts \ {ast}
    /\ source' = IF PrintOf[ast'] = None THEN source ELSE PrintOf[ast']
    /\ late' = (late \/ write # <<>>)
    /\ UNCHANGED <<server, me, editing, open, tab, confirming, write, elsewhere, crossed>>

ChangeSource ==
    /\ InSheet /\ tab = "advanced"
    /\ source' \in Texts \ (Foreign \cup {source})
    /\ ast' = IF AstOf[source'] = None THEN ast ELSE AstOf[source']
    /\ late' = (late \/ write # <<>>)
    /\ UNCHANGED <<server, me, editing, open, tab, confirming, write, elsewhere, crossed>>

ChangeTab ==
    /\ InSheet
    /\ IF tab = "simple" THEN tab' = "advanced"
       ELSE tab' = "simple" /\ BlocksAvailable(editing, source)
    /\ UNCHANGED <<server, me, editing, open, ast, source, confirming, write, elsewhere, crossed, late>>

\* What a closed sheet holds is never used again.
Shut == IF open' THEN UNCHANGED <<ast, source, tab, late>>
        ELSE ast' = EmptyAst /\ source' = Blank /\ tab' = "simple" /\ late' = FALSE

RequestClose ==
    /\ InSheet
    /\ confirming' = Dirty /\ open' = Dirty /\ Shut
    /\ UNCHANGED <<server, me, editing, write, elsewhere, crossed>>

\* The question outlives a sheet that a save closes beneath it.
Confirm ==
    /\ confirming
    /\ confirming' = FALSE /\ open' \in {open, FALSE} /\ Shut
    /\ UNCHANGED <<server, me, editing, write, elsewhere, crossed>>

-----------------------------------------------------------------------------
(* The writes: PATCH /me with the whole list, then GET /me again.          *)

Submit(rules, text) ==
    write' = <<[rules |-> rules, text |-> text, phase |-> "patch"]>>

\* What else may disable the button, a row of the blocks that does not parse, is
\* left out.
Save ==
    /\ InSheet /\ write = <<>>
    /\ tab = "simple" => PrintOf[ast] # None
    /\ LET text == IF tab = "simple" THEN PrintOf[ast] ELSE source
       IN  IF editing.id \in DOMAIN me
           THEN Submit([me EXCEPT ![editing.id] = text], text)
           ELSE Len(me) < MaxRules /\ Submit(Append(me, text), text)
    /\ late' = FALSE
    /\ UNCHANGED <<server, me, sheet, elsewhere, crossed>>

\* A bug would drop every rule with that text. (mutant)
Destroy_ByText ==
    /\ ~open /\ ~confirming /\ write = <<>>
    /\ \E i \in DOMAIN me :
         Submit(SelectSeq(me, LAMBDA t : t # me[i]), None) /\ editing' = RuleAt(i)
    /\ crossed' = (me # server)
    /\ UNCHANGED <<server, me, open, ast, source, tab, confirming, elsewhere, late>>

\* The rule named as the one being edited is this module's, to tell what is meant.
Destroy ==
    /\ ~open /\ ~confirming /\ write = <<>>
    /\ \E i \in DOMAIN me : Submit(RemoveAt(me, i), None) /\ editing' = RuleAt(i)
    /\ crossed' = (me # server)
    /\ UNCHANGED <<server, me, open, ast, source, tab, confirming, elsewhere, late>>

Accept ==
    /\ write # <<>> /\ write[1].phase = "patch"
    /\ Range(write[1].rules) \cap (Invalid \cup {Blank}) = {}
    /\ server' = write[1].rules
    /\ write' = <<[write[1] EXCEPT !.phase = "read"]>>
    /\ UNCHANGED <<me, sheet, elsewhere, crossed, late>>

\* By the evaluator, or for want of it: the sheet stays.
Refuse ==
    /\ write # <<>> /\ write[1].phase = "patch"
    /\ write' = <<>>
    /\ UNCHANGED <<server, me, sheet, elsewhere, crossed, late>>

\* The write is done whether or not the copy could be refreshed.
ReadBack ==
    /\ write # <<>> /\ write[1].phase = "read"
    /\ me' \in {me, server}
    /\ write' = <<>>
    /\ open' = (open /\ write[1].text = None) /\ Shut
    /\ UNCHANGED <<server, editing, confirming, elsewhere, crossed>>

-----------------------------------------------------------------------------
(* Another tab, and a copy refreshed for a reason of its own.              *)

Elsewhere ==
    /\ elsewhere < MaxElsewhere /\ elsewhere' = elsewhere + 1
    /\ \/ \E i \in DOMAIN server : server' = RemoveAt(server, i)
       \/ /\ Len(server) < MaxRules
          /\ \E t \in Foreign : server' = <<t>> \o server
    /\ crossed' = TRUE
    /\ UNCHANGED <<me, sheet, write, late>>

Revalidate ==
    /\ me # server /\ me' = server
    /\ UNCHANGED <<server, sheet, write, elsewhere, crossed, late>>

Next ==
    \/ OpenEditor \/ ChangeAst \/ ChangeSource \/ ChangeTab \/ RequestClose \/ Confirm
    \/ Save \/ Destroy \/ Accept \/ Refuse \/ ReadBack
    \/ Elsewhere \/ Revalidate

Spec == Init /\ [][Next]_vars

-----------------------------------------------------------------------------
(* Properties *)

\* The blocks on screen are the text's: whichever tab is left, the other shows
\* what it held; but for a new rule whose text was deleted again.
BlocksShowText ==
    open /\ tab = "simple" /\ PrintOf[ast] # None /\ ~IsBlankDraft(editing, source)
    => AstOf[source] = ast

\* A write changes the one rule it is about, as the list stood when the rule was
\* opened; unless the policy was written elsewhere meanwhile.
OnlyItsRule ==
    [][write # <<>> /\ write' # write /\ server' # server /\ ~crossed =>
          server' = IF write[1].text = None THEN RemoveAt(server, editing.id)
                          ELSE IF editing.id = 0 THEN Append(server, write[1].text)
                          ELSE [server EXCEPT ![editing.id] = write[1].text]]_vars

\* The sheet closes on a rule that is as it was, on one whose text was accepted,
\* or on a confirmed discard; unless it was edited while it was being saved.
ClosedKeepsEdits ==
    [][open /\ ~open' =>
          \/ ~Dirty \/ confirming \/ late
          \/ /\ write # <<>> /\ write[1].phase = "read"
             /\ write[1].text = source \/ AstOf[write[1].text] = AstOf[source]]_vars
=============================================================================
