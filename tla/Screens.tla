------------------------------ MODULE Screens ------------------------------
(***************************************************************************)
(* What one browser tab keeps for its screens, the parts side by side: the *)
(* rules and their sheet, the card of the attributes, the session, a list, *)
(* the dialogs that store something and the screens that show a verdict.   *)
(* They share nothing; any of them may be the next to take a step.         *)
(***************************************************************************)
EXTENDS Editor

CONSTANTS
    Keys, Reserved, Typed, Kinds, Numbers, Booleans, Initial, MaxAttrs,
    Users, PageSize, WalkSize, MaxWalked, MaxWrites, MaxWalks,
    Filter, MaxPages, MaxSteps,
    Gone, Names, MaxOpenings, MaxRows, Patterns, MaxPatterns

VARIABLES
    attrs, myAttrs, draft, edits, kinds, errors, editorValid, saving, attrsElsewhere, drifted,
    users, mine, cookie, data, acting, asked, task, walks, cache, writes, started, tabCrossed,
    filters, applied, timer, pages, fetching, cached, failed, shown, steps, stray,
    kind, dialogOpen, opening, fields, createdId, fieldErrors, busy, rowBusy, table, saves, wrote,
    unread, formCrossed,
    isOpen, count, runId, result, runFailed, runs, pattern, verdict, problem, pending, patternCrossed

Card == INSTANCE AttributeCard WITH server <- attrs, me <- myAttrs, elsewhere <- attrsElsewhere
Tab  == INSTANCE Session WITH crossed <- tabCrossed
List == INSTANCE ListQuery
Form == INSTANCE Forms WITH open <- dialogOpen, errors <- fieldErrors, crossed <- formCrossed
Asks == INSTANCE Verdicts WITH failed <- runFailed, asked <- pending, crossed <- patternCrossed

\* What stands for nothing is no number of an opening and no filter, and the lists
\* begin unfiltered.
ASSUME NoneIsNoOpening == None \notin Nat
ASSUME FilterAssumption == List!NoFilter \in Filter /\ None \notin Filter

\* A dialog is opened a number of times.
ASSUME OpeningsAssumption == MaxOpenings \in Nat

\* Ids of users are numbers; a page of a walk holds something, and a walk has pages.
ASSUME SessionAssumption ==
    /\ Users \subseteq Int /\ IsFiniteSet(Users)
    /\ WalkSize \in Nat \ {0} /\ MaxWalked \in Nat \ {0}

ruleVars    == vars
attrVars    == <<attrs, myAttrs, draft, edits, kinds, errors, editorValid, saving, attrsElsewhere, drifted>>
sessionVars == <<users, mine, cookie, data, acting, asked, task, walks, cache, writes, started, tabCrossed>>
listVars    == <<filters, applied, timer, pages, fetching, cached, failed, shown, steps, stray>>
formVars    == <<kind, dialogOpen, opening, fields, createdId, fieldErrors, busy, rowBusy, table, saves,
                 wrote, unread, formCrossed>>
verdictVars == <<isOpen, count, runId, result, runFailed, runs, pattern, verdict, problem, pending,
                 patternCrossed>>
screensVars == <<ruleVars, attrVars, sessionVars, listVars, formVars, verdictVars>>

ScreensInit ==
    /\ Init /\ Card!Init /\ Tab!Init /\ List!Init /\ Form!InitForm /\ Asks!InitVerdicts

ScreensStep(part) ==
    \/ part = "rules" /\ Next /\ UNCHANGED <<attrVars, sessionVars, listVars, formVars, verdictVars>>
    \/ part = "attributes" /\ Card!Next /\ UNCHANGED <<ruleVars, sessionVars, listVars, formVars, verdictVars>>
    \/ part = "session" /\ Tab!Next /\ UNCHANGED <<ruleVars, attrVars, listVars, formVars, verdictVars>>
    \/ part = "list" /\ List!Next /\ UNCHANGED <<ruleVars, attrVars, sessionVars, formVars, verdictVars>>
    \/ part = "form" /\ Form!NextForm /\ UNCHANGED <<ruleVars, attrVars, sessionVars, listVars, verdictVars>>
    \/ part = "verdict" /\ Asks!NextVerdicts /\ UNCHANGED <<ruleVars, attrVars, sessionVars, listVars, formVars>>

ScreensParts == {"rules", "attributes", "session", "list", "form", "verdict"}

ScreensNext == \E part \in ScreensParts : ScreensStep(part)

ScreensSpec == ScreensInit /\ [][ScreensNext]_screensVars

-----------------------------------------------------------------------------
(* Properties *)

\* What is shown is what a save would store: the blocks of a rule, and the rows of
\* the attributes' card.
ShownIsSaved == BlocksShowText /\ Card!SavesWhatIsShown

\* The user a tab shows itself to act as is the one its requests are from, unless
\* another tab wrote the cookie.
ActingIsCookie == Tab!ActingIsCookie

\* A walk that nothing shifted ends with the whole list, or says that it does not.
WalkExactUnlessShifted == Tab!WalkExactUnlessShifted

\* A list that waits for nothing shows the rows of what its inputs show.
SettledShowsTyped == List!SettledShowsTyped

\* An opening of a dialog stores one row, however often its save is tried again.
SavedOnce == Form!SavedOnce

\* A dialog closes when all that it shows is stored.
ClosedStored == Form!ClosedStored

\* What a screen shows as judged is what was judged: the verdict on a request, and
\* the errors of a form.
VerdictShown == Asks!VerdictShown /\ Form!ErrorsOfFields

\* What is being edited is neither lost nor stored over another rule: a save and a
\* deletion change the one rule they are about, and the sheet closes on a clean draft
\* or on the user's word.
EditsKept == OnlyItsRule /\ ClosedKeepsEdits
=============================================================================
