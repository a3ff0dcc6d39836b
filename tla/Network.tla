------------------------------ MODULE Network ------------------------------
(***************************************************************************)
(* The two parts of the network, connections and groups.  They share no    *)
(* state beyond accounts being deleted, so a behaviour is about one of     *)
(* them and the other stands still.                                        *)
(***************************************************************************)
EXTENDS Connections

CONSTANTS People, GroupIds, Calls, Fields, Texts, Bodies, Gone

VARIABLES part, people, group, members, op, who, whose, body, at, loaded, total,
          status, wasIn, wasOut, wasThere, counted, left

G == INSTANCE Groups

\* A body sets columns of a group to texts, and no such row stands for none.
ASSUME NetworkAssumption ==
    /\ Bodies \subseteq UNION {[F -> Texts] : F \in SUBSET Fields}
    /\ Gone \notin [Fields -> Texts]

groupsVars == <<people, group, members, op, who, whose, body, at, loaded, total,
                status, wasIn, wasOut, wasThere, counted, left>>
networkVars == <<part, vars, groupsVars>>

NetworkInit ==
    /\ part \in {"connections", "groups"}
    /\ Init
    /\ G!Init

ConnectionsStep(A) == part = "connections" /\ A /\ UNCHANGED <<part, groupsVars>>

NetworkNext ==
    \/ ConnectionsStep(Next)
    \/ part = "groups" /\ G!Next /\ UNCHANGED <<part, vars>>

NetworkSpec == NetworkInit /\ [][NetworkNext]_networkVars

\* Some request that can go on does: no request has infinitely many statements, so
\* this weaker fairness is enough.
Progress == ConnectionsStep(\E r \in Requests : Statement(r) \/ Deadlock(r))

NetworkFairness == WF_networkVars(Progress)
-----------------------------------------------------------------------------
(* Properties *)

\* Every answer was true at some moment of its call, no group is created without its
\* creator in it, and no rename puts another member's old text back.
AnswersHeld == Confirmed /\ [](G!AnswersHeld /\ G!BornWithMember) /\ G!OthersTextKept

\* Connections: every request is answered.
ConnectionsAnswered == part = "connections" => Answered
=============================================================================
