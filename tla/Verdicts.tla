----------------------------- MODULE Verdicts ------------------------------
(***************************************************************************)
(* The two screens that ask for a decision and show it: the dialog of one  *)
(* resource, which asks when it is opened, and the builder, which asks     *)
(* about the pattern that was put together.  No verdict is stored.         *)
(***************************************************************************)
EXTENDS Naturals

CONSTANTS
    None,
    Patterns,       \* what can be put together in the builder
    MaxOpenings     \* bound: how often the dialog is opened

VARIABLES
    isOpen, count, runId, result, failed, runs,    \* the dialog; count is its opening
    pattern, verdict, problem, asked,              \* the builder; asked is pending if not None
    crossed                                        \* history: edited while pending

verdictVars == <<isOpen, count, runId, result, failed, runs, pattern, verdict, problem, asked, crossed>>
dialogVars  == <<isOpen, count, runId, result, failed, runs>>
builderVars == <<pattern, verdict, problem, asked, crossed>>

InitVerdicts ==
    /\ isOpen = FALSE /\ count = 0 /\ runId = 0 /\ result = None /\ failed = FALSE /\ runs = {}
    /\ pattern \in Patterns /\ verdict = None /\ problem = None /\ asked = None /\ crossed = FALSE

\* A run is known by the id of its start; of is the opening that wants it.
Run(o) == failed' = FALSE /\ runs' = runs \cup {[id |-> runId, of |-> o]}

\* Opening asks, by an effect that runs once per opening.
OpenDialog ==
    /\ ~isOpen /\ count < MaxOpenings
    /\ isOpen' = TRUE /\ count' = count + 1
    /\ Run(count')
    /\ UNCHANGED <<runId, result, builderVars>>

CloseDialog ==
    /\ isOpen
    /\ isOpen' = FALSE /\ runId' = runId + 1 /\ result' = None /\ failed' = FALSE
    /\ UNCHANGED <<count, runs, builderVars>>

\* (mutant) A late answer is not told from its own.
Owns_Any(r) == isOpen

Owns(r) == r.id = runId

Settle ==
    \E r \in runs :
        /\ runs' = runs \ {r}
        /\ \/ result' = (IF Owns(r) THEN r.of ELSE result) /\ UNCHANGED failed
           \/ failed' = (IF Owns(r) THEN TRUE ELSE failed) /\ UNCHANGED result
        /\ UNCHANGED <<isOpen, count, runId, builderVars>>

Retry ==
    /\ isOpen /\ result = None /\ failed
    /\ Run(count)
    /\ UNCHANGED <<isOpen, count, runId, result, builderVars>>

\* Any edit makes the errors and the verdict stale: both are cleared.
EditPattern ==
    /\ \E p \in Patterns : p # pattern /\ pattern' = p
    /\ verdict' = None /\ problem' = None
    /\ crossed' = (asked # None)
    /\ UNCHANGED <<asked, dialogVars>>

Submit ==
    /\ asked = None
    /\ asked' = pattern /\ verdict' = None /\ problem' = None /\ crossed' = FALSE
    /\ UNCHANGED <<pattern, dialogVars>>

\* customRequest answers, or fails.
Judged ==
    /\ asked # None
    /\ \/ verdict' = asked /\ UNCHANGED problem
       \/ problem' = asked /\ UNCHANGED verdict
    /\ asked' = None
    /\ UNCHANGED <<pattern, crossed, dialogVars>>

NextVerdicts == OpenDialog \/ CloseDialog \/ Settle \/ Retry \/ EditPattern \/ Submit \/ Judged

VerdictsSpec == InitVerdicts /\ [][NextVerdicts]_verdictVars

-----------------------------------------------------------------------------
\* A verdict on screen was asked for in this opening ("reopening re-evaluates,
\* which is the point"), about the pattern on screen unless that was edited while
\* the question was out; and an open dialog has an answer, a failure or a question.
VerdictShown ==
    /\ result # None \/ failed => isOpen
    /\ result # None => result = count
    /\ isOpen => result # None \/ failed \/ \E r \in runs : Owns(r)
    /\ ~crossed => {verdict, problem} \subseteq {None, pattern}
=============================================================================
