--------------------------- MODULE LeastClosure ---------------------------
(***************************************************************************)
(* What the party closure promises its callers, without rounds: sample the *)
(* policies of users the answer is already known to need, each once, and   *)
(* answer with the least set that holds the seed and is closed under the   *)
(* samples: "exact in both directions, never a sample and never a          *)
(* superset" (closure.ts:18-24).  Policies may change at any time, so      *)
(* exactness is relative to what was sampled.                              *)
(***************************************************************************)
EXTENDS SequencesExt

CONSTANTS Users, Seed, Patterns, Matching

VARIABLES
    policy,     \* the stored policies
    sampled,    \* the users whose policy has been read
    sample,     \* what it was
    outcome,    \* "open", "answered" or "gaveUp"
    answer      \* the party list, once answered

vars == <<policy, sampled, sample, outcome, answer>>

ClosedUnderSamples(S) ==
    /\ Range(Seed) \subseteq S
    /\ \A u \in S \cap sampled : \A p \in sample[u] : Matching[p] \subseteq S

\* The users every closed set contains.
Needed == {u \in Users : \A S \in SUBSET Users : ClosedUnderSamples(S) => u \in S}

\* A party list of S: the seed first, then the others in ascending order.
Lists(s, S) ==
    /\ IsPrefix(Seed, s)
    /\ Range(s) = S
    /\ IsInjective(s)
    /\ \A i, j \in Len(Seed) + 1 .. Len(s) : i < j => s[i] < s[j]

Init ==
    /\ policy \in [Users -> SUBSET Patterns]
    /\ sampled = {}
    /\ sample = [u \in Users |-> {}]
    /\ outcome = "open"
    /\ answer = <<>>

Sample(u) ==
    /\ outcome = "open"
    /\ u \in Needed \ sampled
    /\ sampled' = sampled \cup {u}
    /\ sample' = [sample EXCEPT ![u] = policy[u]]
    /\ UNCHANGED <<policy, outcome, answer>>

Answer ==
    /\ outcome = "open"
    /\ Needed \subseteq sampled
    /\ outcome' = "answered"
    /\ Lists(answer', Needed)
    /\ UNCHANGED <<policy, sampled, sample>>

GiveUp ==
    /\ outcome = "open"
    /\ outcome' = "gaveUp"
    /\ UNCHANGED <<policy, sampled, sample, answer>>

Write ==
    /\ policy' \in [Users -> SUBSET Patterns]
    /\ UNCHANGED <<sampled, sample, outcome, answer>>

Next == (\E u \in Users : Sample(u)) \/ Answer \/ GiveUp \/ Write

Spec == Init /\ [][Next]_vars
=============================================================================
