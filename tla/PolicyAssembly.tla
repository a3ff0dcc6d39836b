-------------------------- MODULE PolicyAssembly --------------------------
(***************************************************************************)
(* One access decision from end to end: assemblePolicySystem and           *)
(* evaluateAssembled of bart/assembly.ts, decideAccess and toDecision of   *)
(* bart/access.service.ts, and the answer of the handlers.  It extends the *)
(* party closure: after it come one query for the rows of all parties, one *)
(* per context provider, and the evaluation.  Nothing holds the database   *)
(* still between them ("No transaction, deliberately"), so a policy may be *)
(* another one in the evaluated system than it was in the closure.         *)
(*                                                                         *)
(* The evaluator knows parties only by number and blames a policy only by  *)
(* its place in what it was sent.  A policy text names its owner, so no    *)
(* two texts are equal: a text is the pair of both here.  A party that has *)
(* vanished has the empty policy.                                          *)
(***************************************************************************)
EXTENDS PartyClosure

CONSTANTS
    Providers,  \* the context providers that query the database
    Nobody      \* no user

ASSUME AssemblyAssumption == Nobody \notin Users

VARIABLES
    stage,      \* "closure", "rows", "context", "evaluate" or "answered"
    policies,   \* the policy texts, in party order
    context,    \* the context tuple: one attribute list per party
    culprit,    \* history: the user whose text a rejection is about
    reply       \* the answer: status, the user blamed, the user a permit is from

assemblyVars == <<stage, policies, context, culprit, reply>>
systemVars == <<policies, context>>
allVars == <<policy, writes, phase, members, analysed, discovered, frontier,
             unread, read, parties, stage, policies, context, culprit, reply>>

Text(u, pats) == [owner |-> u, policy |-> pats]

\* textOwners: the texts of the closure's reads.
TextOwners == {Text(u, read[u]) : u \in analysed \cup (frontier \ unread)}

\* (mutant) Locations are taken to count from zero.
UserForLocation_Zero(k, texts) ==
    IF k + 1 \in DOMAIN texts /\ texts[k + 1] \in TextOwners THEN texts[k + 1].owner ELSE Nobody

\* The user whose text is the k-th of those sent, if the closure read that text.
UserForLocation(k, texts) ==
    IF k \in DOMAIN texts /\ texts[k] \in TextOwners THEN texts[k].owner ELSE Nobody

-----------------------------------------------------------------------------
InitAssembly ==
    /\ Init
    /\ stage = "closure"
    /\ policies = <<>>
    /\ context = <<>>
    /\ culprit = Nobody
    /\ reply = [status |-> 0, blamed |-> Nobody, from |-> Nobody]

Answer(status, blamed, from) ==
    /\ stage' = "answered"
    /\ reply' = [status |-> status, blamed |-> blamed, from |-> from]

\* A database error answers 400, an evaluator out of reach 503, a stored row
\* that cannot be written as a policy 500.
Breaks(statuses) ==
    /\ \E status \in statuses : Answer(status, Nobody, Nobody)
    /\ UNCHANGED <<systemVars, culprit>>

\* The evaluator rejects the k-th of the texts it was sent, or something that is
\* no policy text (k = 0): a 500 that names whom callBlaming can blame.
Rejects(texts) ==
    /\ \E k \in 0 .. Len(texts) :
          /\ culprit' = IF k = 0 THEN Nobody ELSE texts[k].owner
          /\ Answer(500, UserForLocation(k, texts), Nobody)
    /\ UNCHANGED <<systemVars>>

\* The texts of a round in the order of the frontier.
Batches == {[i \in DOMAIN order |-> Text(order[i], read[order[i]])] : order \in SetToSeqs(frontier)}

\* A step of the closure; when a round fails, so does the request.
ClosureGoesOn ==
    /\ StartRound \/ (\E u \in Users : ReadPolicy(u)) \/ ExpandRound
    /\ stage = "closure"
    /\ UNCHANGED assemblyVars

ClosureBreaks ==
    /\ RoundFails
    /\ stage = "closure"
    /\ \/ Breaks({400, 500, 503})
       \/ TextsIn /\ \E batch \in Batches : Rejects(batch)

ClosureDone ==
    /\ Finish
    /\ stage = "closure"
    /\ stage' = "rows"
    /\ UNCHANGED <<systemVars, culprit, reply>>

\* (mutant) A party that has vanished is left out.
Policies_Found ==
    LET there == SelectSeq(parties, LAMBDA u : policy[u] # {})
    IN  [i \in DOMAIN there |-> Text(there[i], policy[there[i]])]

\* One text per party, in party order.
Policies == [i \in DOMAIN parties |-> Text(parties[i], policy[parties[i]])]

\* User.findAll of the parties.
LoadRows ==
    /\ stage = "rows"
    /\ \/ /\ policies' = Policies
          /\ stage' = "context"
          /\ UNCHANGED <<context, culprit, reply>>
       \/ Breaks({400, 500})
    /\ UNCHANGED vars

\* (mutant) A party that no provider found has no slot.
Slots_Found(found) ==
    LET known == SelectSeq(parties, LAMBDA u : \E p \in Providers : u \in found[p])
    IN  [i \in DOMAIN known |-> [party |-> known[i], by |-> {p \in Providers : known[i] \in found[p]}]]

\* One slot per party, in party order, empty where no provider found the user.
Slots(found) ==
    [i \in DOMAIN parties |->
        [party |-> parties[i], by |-> {p \in Providers : parties[i] \in found[p]}]]

\* buildContextTuple: every provider queries at its own moment, and may miss any
\* party that has vanished by then.
BuildContext ==
    /\ stage = "context"
    /\ \/ /\ \E found \in [Providers -> SUBSET Range(parties)] :
                /\ \A p \in Providers : {u \in Range(parties) : policy[u] # {}} \subseteq found[p]
                /\ context' = Slots(found)
          /\ stage' = "evaluate"
          /\ UNCHANGED <<policies, culprit, reply>>
       \/ Breaks({400, 500})
    /\ UNCHANGED vars

\* toDecision: a party number back to an id.
PartyOf(k) == parties[k]

\* /evaluate answers: a permit from the policy numbered k, a deny (k = 0), a
\* rejection, or nothing at all.
Evaluate ==
    /\ stage = "evaluate"
    /\ \/ \E k \in 0 .. Len(policies) :
             /\ Answer(200, Nobody, IF k = 0 THEN Nobody ELSE PartyOf(k))
             /\ UNCHANGED <<systemVars, culprit>>
       \/ Rejects(policies)
       \/ Breaks({503})
    /\ UNCHANGED vars

\* PATCH /me or DELETE /me of another user, at any moment before the answer.
OtherWrites ==
    /\ stage # "answered"
    /\ \E u \in Users : WritePolicy(u)
    /\ UNCHANGED assemblyVars

Decide == ClosureGoesOn \/ ClosureBreaks \/ ClosureDone \/ LoadRows \/ BuildContext \/ Evaluate

NextAssembly == Decide \/ OtherWrites

AssemblySpec == InitAssembly /\ [][NextAssembly]_allVars

\* Node resumes every settled await, and both clients bound their calls.
FairAssembly == AssemblySpec /\ WF_allVars(Decide)
-----------------------------------------------------------------------------
(* Properties *)

\* The evaluated system is aligned: policy k, context slot k and party k are one
\* user's, and the requester is party 1, also when parties have vanished since
\* the closure ("omitting one degrades into a silent deny", assembly.ts; "a
\* padded short tuple would shift every later party's attributes", context).
Aligned ==
    stage = "evaluate" =>
        /\ Len(policies) = Len(parties)
        /\ Len(context) = Len(parties)
        /\ \A i \in DOMAIN parties : /\ policies[i].owner = parties[i]
                                     /\ context[i].party = parties[i]
        /\ parties[1] = Seed[1]

\* A party that is missing from the evaluated system is missing only because a
\* policy changed after the closure had read it: what an unchanged policy names
\* is there ("A missing party can turn an `all:` denial into a permit").
CompleteAsRead ==
    stage = "evaluate" =>
        \A i \in DOMAIN policies :
            writes = 0 \/ policies[i].policy = read[policies[i].owner]
            => Named(policies[i].policy) \subseteq Range(parties)

\* What is evaluated is the closure as it was read: numbered without gap or repeat,
\* aligned from the policies to the context, and with nobody missing.
PartiesAsRead == PartyNumbers /\ Aligned /\ CompleteAsRead

\* Nobody is blamed for a policy that is not theirs, and when no policy changed,
\* the user whose text was rejected is named.
BlameTrue ==
    /\ reply.blamed # Nobody => reply.blamed = culprit
    /\ (stage = "answered" /\ writes = 0) => reply.blamed = culprit

\* Every request is answered: the closure ends whatever the writers do ("it
\* terminates because the set only grows and `index` bounds it", closure.ts).
AccessAnswered == <>(stage = "answered")
=============================================================================
