------------------------- MODULE MCPolicyAssembly -------------------------
(***************************************************************************)
(* A decision, or one call to the evaluator.                               *)
(*                                                                         *)
(* A decision is over four users, the requester (3) and the owner (1) as   *)
(* the seed: users 2 and 4 are only in when a policy names p1 or p2, one   *)
(* perhaps for the other; at first 4 does not name itself.  It takes a     *)
(* call for one step with any outcome; the other part looks inside.        *)
(***************************************************************************)
EXTENDS Decision

CONSTANTS p1, p2

VARIABLE part

MCUsers == 1 .. 4
MCSeed == <<3, 1>>
MCMatching == (p1 :> {2}) @@ (p2 :> {1, 4})

mcVars == <<part, allVars, moments, callVars>>

MCInit ==
    /\ \/ part = "decision" /\ endpoint = "health"
       \/ part = "call" /\ policy = [u \in Users |-> {}]
    /\ DecisionInit
    /\ policy[4] \subseteq {p1}

DecisionStep(A) == part = "decision" /\ A /\ Remember /\ UNCHANGED <<part, callVars>>
CallStep(A)     == part = "call" /\ A /\ UNCHANGED <<part, allVars, moments>>

MCSpec ==
    /\ MCInit
    /\ [][DecisionStep(NextAssembly) \/ CallStep(Call!NextCall)]_mcVars
    /\ WF_mcVars(DecisionStep(Decide) \/ CallStep(Call!Settling))
-----------------------------------------------------------------------------
\* A decision is answered ("it terminates because the set only grows", closure.ts),
\* a call to the evaluator settles, and the status is told even if the database
\* never answers ("cannot hang the request", dev.controller.ts).
AccessSettles == part = "call" \/ AccessAnswered
CallsSettle   == part = "decision" \/ Call!CallSettles
AllAnswered   == AccessSettles /\ CallsSettle
=============================================================================
