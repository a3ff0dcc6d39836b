---------------------------- MODULE OneDecision ----------------------------
(***************************************************************************)
(* What an access decision promises whoever asks for it, without rounds,   *)
(* queries or calls: it is taken at once, on a system that the policies    *)
(* stored since the request came in account for.  The texts of the system  *)
(* are those of a single moment; its parties are the ones that policies    *)
(* force, each policy as it was at some moment.  If no policy changes, the *)
(* decision is on the policies as they are.                                *)
(***************************************************************************)
EXTENDS SequencesExt

CONSTANTS Users, Seed, Patterns, Matching, Nobody

VARIABLES
    policy,     \* the stored policies
    moments,    \* all that have been stored since the request came in
    parties,    \* the parties of the system decided on, in order
    texts,      \* the policy of each
    reply       \* status, the user blamed, the user a permit is from

vars == <<policy, moments, parties, texts, reply>>

Stored == [Users -> SUBSET Patterns]

\* What somebody's reads of the policies, each at a moment of its own, may have seen.
Samples == {sample \in Stored : \A u \in Users : \E m \in moments : sample[u] = m[u]}

\* The users that every set with the seed holds if it is closed under the sample.
Forced(sample) ==
    {u \in Users : \A S \in SUBSET Users :
        Range(Seed) \subseteq S /\ (\A v \in S : \A p \in sample[v] : Matching[p] \subseteq S) => u \in S}

\* The seed first, the requester ahead, then the others in ascending order.
Numbered(s, S) ==
    /\ IsPrefix(Seed, s)
    /\ Range(s) = S
    /\ IsInjective(s)
    /\ \A i, j \in Len(Seed) + 1 .. Len(s) : i < j => s[i] < s[j]

Says(status, blamed, from) == [status |-> status, blamed |-> blamed, from |-> from]

Unanswered == Says(0, Nobody, Nobody)

Init ==
    /\ policy \in Stored
    /\ moments = {policy}
    /\ parties = <<>> /\ texts = <<>>
    /\ reply = Unanswered

\* Somebody else stores a policy or is deleted.
Write ==
    /\ policy' \in Stored
    /\ moments' = moments \cup {policy'}
    /\ UNCHANGED <<parties, texts, reply>>

\* A deny, or a permit from one of the parties.
Decides ==
    /\ reply = Unanswered
    /\ \E sample \in Samples : Numbered(parties', Forced(sample))
    /\ \E m \in moments : texts' = [i \in DOMAIN parties' |-> m[parties'[i]]]
    /\ \E from \in Range(parties') \cup {Nobody} : reply' = Says(200, Nobody, from)
    /\ UNCHANGED <<policy, moments>>

\* A stored policy is refused: whoever is blamed for it is somebody the policies force.
Refuses ==
    /\ reply = Unanswered
    /\ \E sample \in Samples : \E u \in Forced(sample) \cup {Nobody} : reply' = Says(500, u, Nobody)
    /\ UNCHANGED <<policy, moments, parties, texts>>

\* A query or the evaluator failed.
Fails ==
    /\ reply = Unanswered
    /\ \E status \in {400, 500, 503} : reply' = Says(status, Nobody, Nobody)
    /\ UNCHANGED <<policy, moments, parties, texts>>

Next == Write \/ Decides \/ Refuses \/ Fails

Spec == Init /\ [][Next]_vars
=============================================================================
