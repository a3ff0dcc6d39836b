------------------------------ MODULE Decision ------------------------------
(***************************************************************************)
(* An access decision and, beside it, one call to the evaluator with the   *)
(* inside of it.  A decision takes a call for one step with any outcome.   *)
(***************************************************************************)
EXTENDS PolicyAssembly

CONSTANTS
    None,
    MaxPolicies     \* bound: policies of a body

VARIABLES
    moments,        \* history: the policies stored at each moment of the decision
    endpoint, body, wire, response, outcome, database, probes, replied

Call == INSTANCE EvaluatorCall

callVars == <<endpoint, body, wire, response, outcome, database, probes, replied>>

\* Where nothing is said, no kind of error and no place is.
ASSUME CallAssumption ==
    /\ MaxPolicies \in Nat
    /\ None \notin {"bart-syntax", "bart-model", "empty-policies", "missing-context", "missing-request",
                    "context-arity", "invalid-requester", "unknown"}
    /\ None \notin {<<"context">>, <<"request">>} \cup {<<"policy", k>> : k \in 1 .. MaxPolicies + 1}

DecisionInit == InitAssembly /\ moments = {policy} /\ Call!InitCall

Remember == moments' = moments \cup {policy'}

DecisionNext ==
    \/ NextAssembly /\ Remember /\ UNCHANGED callVars
    \/ Call!NextCall /\ UNCHANGED <<allVars, moments>>

DecisionSpec == DecisionInit /\ [][DecisionNext]_<<allVars, moments, callVars>>

-----------------------------------------------------------------------------
(* Properties *)

\* What a call is taken for is what happened: an outage, a bad input and where it
\* is, or an answer; and a probe says what it heard in time.
EvaluatorTold == Call!OutcomeTold /\ Call!StatusTold

\* A decision implements one that is taken at once.  What it is taken on is the
\* parties and the texts that were sent when a verdict comes back.
Decided == reply.status = 200

AtOnce == INSTANCE OneDecision WITH
    parties <- IF Decided THEN parties ELSE <<>>,
    texts   <- IF Decided THEN [i \in DOMAIN policies |-> policies[i].policy] ELSE <<>>

\* The closure keeps its promise and the decision its own, whatever is stored between
\* the queries: the texts are of one moment, and the parties those that the policies
\* force ("Exact in both directions", closure.ts).
DecidesAsPromised == ImplementsPromise /\ AtOnce!Spec
=============================================================================
