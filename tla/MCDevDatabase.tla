--------------------------- MODULE MCDevDatabase ---------------------------
(* Three requests, not all of one kind and at most one of them a POST /users  *)
(* or POST /groups: two resets and a writer between them, two seeds and a     *)
(* reset.  The requests differ in nothing but their kind, so one initial      *)
(* state stands for every permutation of it: they come in the order of kinds. *)
EXTENDS DevDatabase

Order == <<"seed", "seedGroups", "reset", "user", "group">>
Rank(k) == CHOOSE i \in DOMAIN Order : Order[i] = k

MCInit ==
    /\ Init
    /\ Cardinality({kind[r] : r \in Requests}) > 1
    /\ Cardinality({r \in Requests : kind[r] \in {"user", "group"}}) <= 1
    /\ \A r, s \in Requests : r < s => Rank(kind[r]) <= Rank(kind[s])

MCSpec == MCInit /\ [][Next]_vars
MCFairSpec == MCSpec /\ Fairness
=============================================================================
