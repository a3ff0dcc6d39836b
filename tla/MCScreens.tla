----------------------------- MODULE MCScreens -----------------------------
(***************************************************************************)
(* What one browser tab keeps for its screens, and one call it makes of    *)
(* the backend: a behaviour is about one of the parts, and the others      *)
(* stand still.                                                            *)
(***************************************************************************)
EXTENDS Screens

VARIABLES part, at, call, sent, known, route, got, answered, reply, received

Wire == INSTANCE Wire WITH result <- received

callVars == <<at, call, sent, known, route, got, answered, reply, received>>
mcVars   == <<part, screensVars, callVars>>

\* Two texts for one rule in blocks, one for another, and one they cannot hold.
MCTexts   == {"", "p", "p again", "q", "text only"}
MCAsts    == {"empty", "P", "Q"}
MCAstOf   == [t \in MCTexts |-> CASE t \in {"p", "p again"} -> "P" [] t = "q" -> "Q" [] OTHER -> None]
MCPrintOf == [a \in MCAsts |-> CASE a = "P" -> "p" [] a = "Q" -> "q" [] OTHER -> None]

MCTyped   == {<<"7">>, <<"x">>}
MCKinds   == {[list |-> FALSE, of |-> "number"]}
MCItem(type, text) == [type |-> type, text |-> text]
MCInitial == {[a |-> [list |-> FALSE, items |-> <<MCItem("text", <<"7", "x">>)>>]], <<>>,
              [a |-> [list |-> TRUE, items |-> <<MCItem("text", <<"7">>), MCItem("number", <<"7">>)>>]]}

MCUsers  == 1 .. 4
MCFilter == {[name |-> "", attr |-> ""], [name |-> "a", attr |-> ""], [name |-> "", attr |-> "k"]}

MCInit ==
    /\ part \in ScreensParts \cup {"call"}
    /\ ScreensInit /\ Wire!InitWire
    /\ part # "rules" => server = <<>>
    /\ part # "attributes" => attrs = <<>>
    /\ users \in {<<>>, <<1>>, <<2, 1>>, <<4, 3, 2, 1>>} /\ cookie \in {None, 1, 4}
    /\ part # "session" => users = <<>> /\ cookie = None
    /\ \A f \in Filter : pages[f] = IF f.name = "" THEN MaxPages ELSE 1
    /\ part # "form" => kind = "new user"
    /\ pattern = (CHOOSE p \in Patterns : TRUE)
    /\ part # "call" => known

MCNext ==
    /\ \/ ScreensStep(part) /\ UNCHANGED callVars
       \/ part = "call" /\ Wire!NextWire /\ UNCHANGED screensVars
    /\ UNCHANGED part

MCSpec == MCInit /\ [][MCNext]_mcVars

-----------------------------------------------------------------------------
\* A call to the backend reaches its handler with all that was sent, and hands back
\* all that was answered.
CallsCarried == Wire!CallsCarried
=============================================================================
