--------------------------- MODULE AttributeCard ---------------------------
(***************************************************************************)
(* The card of the party attributes on the policy screen, with the editor  *)
(* of its rows.  A row shows a text under a kind; what is saved is the     *)
(* values those texts parse to.  A text is the sequence of what stands     *)
(* between its commas.                                                     *)
(***************************************************************************)
EXTENDS Naturals, SequencesExt

CONSTANTS
    None,
    Keys, Reserved,     \* keys that can be typed; the ones refused
    Typed,              \* texts that can be typed
    Kinds,              \* kinds a row offers
    Numbers, Booleans,  \* the parts of a text that read as a number, as a boolean
    Initial,            \* attributes stored at the start, and written elsewhere
    MaxAttrs, MaxElsewhere

AttrKind == [list : BOOLEAN, of : {"text", "number", "boolean"}]

\* A value: its items, each with its type; what is not a list has one.
Item(type, text) == [type |-> type, text |-> text]
Value(list, items) == [list |-> list, items |-> items]

ScalarKindOf(item) == item.type

\* By the first element; a list of nothing is one of text.
KindOf(value) ==
    [list |-> value.list, of |-> IF value.items = <<>> THEN "text" ELSE ScalarKindOf(value.items[1])]

ToText(value) == FlattenSeq([i \in DOMAIN value.items |-> value.items[i].text])

ParsesAs(text, type) ==
    \/ type = "text"
    \/ Len(text) = 1 /\ text[1] \in (IF type = "number" THEN Numbers ELSE Booleans)

\* The value, or None.
ParseAttrValue(text, kind) ==
    LET elements == IF kind.list THEN [i \in DOMAIN text |-> <<text[i]>>] ELSE <<text>>
    IN  IF \A e \in Range(elements) : ParsesAs(e, kind.of)
        THEN Value(kind.list, [i \in DOMAIN elements |-> Item(kind.of, elements[i])])
        ELSE None

-----------------------------------------------------------------------------

VARIABLES
    server, me,         \* the attributes stored, and this tab's copy
    draft,              \* what was edited, or None to follow the copy
    edits, kinds,       \* of the rows touched: the text and the kind they show
    errors,             \* the rows that do not parse
    editorValid,        \* what the card was told of them
    saving,             \* the draft being saved, or None
    elsewhere, drifted
    \* drifted: a row was typed into while it was being saved, or what it shows
    \*          was changed elsewhere or not read back

rows == <<edits, kinds, errors, editorValid>>
vars == <<server, me, draft, rows, saving, elsewhere, drifted>>

Nothing == <<>>
Put(f, key, x)  == [k \in DOMAIN f \cup {key} |-> IF k = key THEN x ELSE f[k]]
Omit(f, key)    == [k \in DOMAIN f \ {key} |-> f[k]]

Shown == IF draft = None THEN me ELSE draft
TextShown(key) == IF key \in DOMAIN edits THEN edits[key] ELSE ToText(Shown[key])
KindShown(key) == IF key \in DOMAIN kinds THEN kinds[key] ELSE KindOf(Shown[key])

Init ==
    /\ server \in Initial /\ me = server
    /\ draft = None /\ saving = None
    /\ edits = Nothing /\ kinds = Nothing /\ errors = {} /\ editorValid = TRUE
    /\ elsewhere = 0 /\ drifted = FALSE

WriteErrors(next) == errors' = next /\ editorValid' = (next = {})
OnChange(attrs)   == draft' = attrs /\ drifted' = (drifted \/ saving # None)

\* Only a text that parses is written through.
UpdateRow ==
    /\ \E key \in DOMAIN Shown :
       \E text \in Typed \cup {TextShown(key)}, kind \in Kinds \cap AttrKind :
         /\ \/ text # TextShown(key) /\ kind = KindShown(key)
            \/ text = TextShown(key) /\ kind # KindShown(key)
         /\ edits' = Put(edits, key, text) /\ kinds' = Put(kinds, key, kind)
         /\ LET value == ParseAttrValue(text, kind)
            IN  IF value = None THEN WriteErrors(errors \cup {key}) /\ UNCHANGED <<draft, drifted>>
                ELSE WriteErrors(errors \ {key}) /\ OnChange(Put(Shown, key, value))
    /\ UNCHANGED <<server, me, saving, elsewhere>>

RemoveRow ==
    /\ \E key \in DOMAIN Shown :
         /\ OnChange(Omit(Shown, key)) /\ WriteErrors(errors \ {key})
         /\ edits' = Omit(edits, key) /\ kinds' = Omit(kinds, key)
    /\ UNCHANGED <<server, me, saving, elsewhere>>

AddRow ==
    /\ Cardinality(DOMAIN Shown) < MaxAttrs
    /\ \E key \in (Keys \ Reserved) \ DOMAIN Shown, text \in Typed, kind \in Kinds \cap AttrKind :
         /\ ParseAttrValue(text, kind) # None
         /\ OnChange(Put(Shown, key, ParseAttrValue(text, kind)))
    /\ UNCHANGED <<server, me, rows, saving, elsewhere>>

Save ==
    /\ draft # None /\ saving = None /\ editorValid
    /\ saving' = draft
    /\ UNCHANGED <<server, me, draft, rows, elsewhere, drifted>>

\* The draft goes, also what was typed into it meanwhile; the copy may not be
\* refreshed.
Saved ==
    /\ saving # None
    /\ server' = saving /\ me' \in {me, server'}
    /\ draft' = None /\ saving' = None
    /\ drifted' = (drifted \/ me' # saving)
    /\ UNCHANGED <<rows, elsewhere>>

\* The draft is the only copy of what was typed.
Refused ==
    /\ saving # None /\ saving' = None
    /\ UNCHANGED <<server, me, draft, rows, elsewhere, drifted>>

\* The rows are mounted afresh.
Revert ==
    /\ saving = None /\ (draft # None \/ ~editorValid)
    /\ draft' = None
    /\ edits' = Nothing /\ kinds' = Nothing /\ errors' = {} /\ editorValid' = TRUE
    /\ drifted' = FALSE
    /\ UNCHANGED <<server, me, saving, elsewhere>>

Elsewhere ==
    /\ elsewhere < MaxElsewhere /\ elsewhere' = elsewhere + 1
    /\ server' \in Initial \ {server}
    /\ drifted' = TRUE
    /\ UNCHANGED <<me, draft, rows, saving>>

Revalidate ==
    /\ me # server /\ me' = server
    /\ UNCHANGED <<server, draft, rows, saving, elsewhere, drifted>>

Next == UpdateRow \/ RemoveRow \/ AddRow \/ Save \/ Saved \/ Refused \/ Revert \/ Elsewhere \/ Revalidate

Spec == Init /\ [][Next]_vars

-----------------------------------------------------------------------------
(* Properties *)

\* What a row shows, once touched, is what a save would store and what was
\* stored, unless it drifted; and a text that does not parse is never passed
\* over by a save.
SavesWhatIsShown ==
    /\ saving = None /\ editorValid /\ ~drifted =>
         \A key \in DOMAIN edits \cap DOMAIN Shown :
            ParseAttrValue(TextShown(key), KindShown(key)) = Shown[key]
    /\ \A key \in DOMAIN edits \cap DOMAIN Shown :
            ParseAttrValue(edits[key], kinds[key]) = None => ~editorValid
=============================================================================
