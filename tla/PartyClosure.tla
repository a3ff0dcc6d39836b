--------------------------- MODULE PartyClosure ---------------------------
(***************************************************************************)
(* The party closure of src/app/backend/src/bart/closure.ts: which parties *)
(* belong in the policy system of one request.  Each round reads the       *)
(* policies of the members not yet inspected (one query per member, in any *)
(* order), sends them to the evaluator's /analyze/policies, and adds every *)
(* indexed user matching a pattern found there, until a round adds nobody. *)
(*                                                                         *)
(* Between two awaits any user may change a policy (PATCH /me) or vanish   *)
(* (DELETE /me); a vanished user is read as an empty policy.  The index of *)
(* party attributes is a snapshot the caller took once, so which patterns  *)
(* match whom is constant here.                                            *)
(***************************************************************************)
EXTENDS Integers, SequencesExt

CONSTANTS
    Users,      \* user ids; integers, because discovered parties are sorted by id
    Index,      \* the users in the index snapshot
    Seed,       \* the seed parties, the requester first
    Patterns,   \* the party patterns a policy may contain
    Matching,   \* Matching[p]: the indexed users whose attributes match p
    MaxWrites   \* bound: policy changes while the closure runs

ASSUME ClosureAssumption ==
    /\ Users \subseteq Int
    /\ IsFiniteSet(Users)
    /\ Index \subseteq Users
    /\ Seed \in Seq(Users)
    /\ Seed # <<>>
    /\ IsInjective(Seed)        \* the callers never repeat an id
    /\ Matching \in [Patterns -> SUBSET Index]
    /\ MaxWrites \in Nat

VARIABLES
    policy,     \* the stored policy of each user, as the patterns it contains
    writes,     \* policy changes so far
    phase,      \* where partyClosure is: "round", "texts", "done" or "failed"
    members,    \* the set of that name
    analysed,   \* the set of that name
    discovered, \* the array of that name, in insertion order
    frontier,   \* the members inspected in the current round
    unread,     \* the part of the frontier whose policy query is still out
    read,       \* the policy each inspected member was read with
    parties     \* the returned array

dbVars == <<policy, writes>>
runVars == <<phase, members, analysed, discovered, frontier, unread, read, parties>>
vars == <<policy, writes, phase, members, analysed, discovered, frontier,
          unread, read, parties>>

SeedSet == Range(Seed)

\* Array.prototype.sort on ids: the rearrangement of s in ascending order.
Ascending(s) ==
    CHOOSE t \in [1 .. Len(s) -> Range(s)] :
        /\ \E place \in Bijection(1 .. Len(s), 1 .. Len(s)) :
               \A i \in 1 .. Len(s) : t[i] = s[place[i]]
        /\ \A i, j \in 1 .. Len(s) : i < j => t[i] <= t[j]

\* The indexed users a policy names: every pattern of it against the whole index.
Named(pats) == UNION {Matching[p] : p \in pats}

-----------------------------------------------------------------------------
Init ==
    /\ policy \in [Users -> SUBSET Patterns]
    /\ writes = 0
    /\ phase = "round"
    /\ members = SeedSet
    /\ analysed = {}
    /\ discovered = <<>>
    /\ frontier = {}
    /\ unread = {}
    /\ read = [u \in Users |-> {}]
    /\ parties = <<>>

\* The frontier of the next round.
Uninspected == members \ analysed

\* The loop head: the frontier's policy queries go out together.
StartRound ==
    /\ phase = "round"
    /\ members \ analysed # {}
    /\ phase' = "texts"
    /\ frontier' = Uninspected
    /\ unread' = Uninspected
    /\ UNCHANGED <<dbVars, members, analysed, discovered, read, parties>>

\* One policy query answers, with the policy stored at that moment.
ReadPolicy(u) ==
    /\ phase = "texts"
    /\ u \in unread
    /\ read' = [read EXCEPT ![u] = policy[u]]
    /\ unread' = unread \ {u}
    /\ UNCHANGED <<dbVars, phase, members, analysed, discovered, frontier, parties>>

\* (mutants) The round analyses everyone's policy; the members just found count as
\* analysed; the frontier is never marked.
Found_Everyone == (UNION {Named(policy[u]) : u \in Users}) \ members

\* Every text of the round has been read.
TextsIn == unread = {}

\* The users this round's texts name that are not members yet.
Found == (UNION {Named(read[u]) : u \in frontier}) \ members

Inspected_Found == members \cup Found
Inspected_Never == analysed

\* Who has been inspected once this round's analysis is in.
Inspected == analysed \cup frontier

\* The analysis answers for every text at once; the rest of the round runs
\* without an await.
ExpandRound ==
    /\ phase = "texts"
    /\ TextsIn
    /\ phase' = "round"
    /\ analysed' = Inspected
    /\ members' = members \cup Found
    /\ discovered' = discovered \o SetToSeq(Found)
    /\ frontier' = {}
    /\ UNCHANGED <<dbVars, unread, read, parties>>

\* A query or the analysis throws: the evaluator is down, or rejects a text.
RoundFails ==
    /\ phase = "texts"
    /\ phase' = "failed"
    /\ UNCHANGED <<dbVars, members, analysed, discovered, frontier, unread,
                   read, parties>>

\* The seed, then the rest sorted by id.
PartyList == Seed \o Ascending(discovered)

\* A round with nobody left to inspect.
Finish ==
    /\ phase = "round"
    /\ members \ analysed = {}
    /\ phase' = "done"
    /\ parties' = PartyList
    /\ UNCHANGED <<dbVars, members, analysed, discovered, frontier, unread, read>>

\* Another request stores a new policy for u, or deletes u (the empty policy).
WritePolicy(u) ==
    /\ writes < MaxWrites
    /\ \E pats \in SUBSET Patterns : policy' = [policy EXCEPT ![u] = pats]
    /\ writes' = writes + 1
    /\ UNCHANGED runVars

Closure ==
    \/ StartRound
    \/ \E u \in Users : ReadPolicy(u)
    \/ ExpandRound
    \/ RoundFails
    \/ Finish

Next == Closure \/ \E u \in Users : WritePolicy(u)

Spec == Init /\ [][Next]_vars
-----------------------------------------------------------------------------
(* Properties *)

TypeOK ==
    /\ policy \in [Users -> SUBSET Patterns]
    /\ writes \in 0 .. MaxWrites
    /\ phase \in {"round", "texts", "done", "failed"}
    /\ members \subseteq Users
    /\ analysed \subseteq members
    /\ discovered \in Seq(Users)
    /\ frontier \subseteq members
    /\ unread \subseteq frontier
    /\ read \in [Users -> SUBSET Patterns]
    /\ parties \in Seq(Users)

\* S holds the seed and everyone named by an analysed policy of S.
ClosedUnder(S) ==
    /\ SeedSet \subseteq S
    /\ \A u \in S \cap analysed : Named(read[u]) \subseteq S

\* No party is ever loaded that the analysed policies do not force: the members
\* lie in every closed set, in every round and however policies change meanwhile
\* (closure.ts: an extra party that sorts earlier captures findFirst()).
NeverExtra == \A S \in SUBSET Users : ClosedUnder(S) => members \subseteq S

\* When the closure returns, everyone its members' policies named is in: the
\* policies as they were read and, if none changed meanwhile, as they are stored
\* (closure.ts: a missing party can turn an `all:` denial into a permit).
NeverMissing ==
    phase = "done" =>
        /\ analysed = members
        /\ ClosedUnder(members)
        /\ writes = 0 => \A u \in members : Named(policy[u]) \subseteq members

\* Party numbers: the seed keeps positions 1.., the discovered follow in id
\* order, nobody appears twice and nobody is left out, although members are
\* found in different rounds and by several patterns.
PartyNumbers ==
    phase = "done" =>
        /\ IsPrefix(Seed, parties)
        /\ IsInjective(parties)
        /\ Range(parties) = members
        /\ \A i, j \in Len(Seed) + 1 .. Len(parties) : i < j => parties[i] < parties[j]

\* A member is inspected once: once its policy has been read it is not read again,
\* however many later rounds name it and however often it changes.
ReadOnce ==
    [][\A u \in analysed \cup (frontier \ unread) : read'[u] = read[u]]_vars

\* The closure implements what it promises.
Promise == INSTANCE LeastClosure WITH
    sampled <- analysed \cup (frontier \ unread),
    sample  <- read,
    outcome <- CASE phase = "done" -> "answered"
                 [] phase = "failed" -> "gaveUp"
                 [] OTHER -> "open",
    answer  <- parties

\* Every behaviour of the rounds is one of the promise.
ImplementsPromise == Promise!Spec
=============================================================================
