------------------------------- MODULE Trace -------------------------------
(***************************************************************************)
(* The trace of an evaluation and the sequence diagram the frontend draws  *)
(* from it.  The engine prints a decision to a line, indented by nesting;  *)
(* trace.ts, diagram.ts and causes.ts know only those lines.  The engine   *)
(* is modelled as the captured traces of trace.fixture.ts show it, for one *)
(* resource: a request is then who asks whom.                              *)
(*                                                                         *)
(* A policy is a sequence of rules [applies, cond, op, of]: whether the    *)
(* rule's pattern matches, what its condition answers, and the exchange it *)
(* demands, of none, one or two operands <<quantifier, parties>>.          *)
(***************************************************************************)
EXTENDS Integers, Sequences, SequencesExt, FiniteSets, FiniteSetsExt

\* A line: its depth, kind and outcome, the rule <<policy, number>> or policy it
\* speaks of, who asks whom, and, on the first line of a request, what the
\* engine came to, which the frontend does not see.
Blank == [depth |-> 0, kind |-> "", outcome |-> "none", rule |-> <<0, 0>>,
          from |-> 0, to |-> 0, quant |-> "", truth |-> <<>>]

Said(b) == IF b THEN "true" ELSE "false"

-----------------------------------------------------------------------------
(* The engine.  Each evaluation returns its lines and its answer.          *)

RECURSIVE Attempts(_, _, _, _, _, _)

With(evaluated, Rest(_)) == Rest(evaluated)

\* A request of one party: one already pending complies.
Ask(pol, asker, p, depth, pending) ==
    LET line == [Blank EXCEPT !.depth = depth, !.from = asker, !.to = p]
    IN  IF <<asker, p>> \in pending
        THEN [lines |-> <<[line EXCEPT !.kind = "cycle"]>>, answer |-> TRUE]
        ELSE With(Attempts(pol, asker, p, 1, depth + 1, pending \cup {<<asker, p>>}), LAMBDA a :
               [lines |-> <<[line EXCEPT !.kind = "request", !.truth = <<a.answer, a.rule>>]>> \o a.lines \o
                          <<[Blank EXCEPT !.depth = depth, !.kind = "result", !.outcome = Said(a.answer)]>>,
                answer |-> a.answer])

Candidates(pol, among, who, depth) ==
    [n \in 1 .. Len(among) |->
        [Blank EXCEPT !.depth = depth, !.kind = "candidate", !.to = among[n], !.outcome = Said(among[n] \in who)]]

\* One operand of an exchange: every party is weighed, the others that match are
\* asked in order until the quantifier is decided.
Operand(pol, asker, rule, o, depth, pending) ==
    LET me   == rule[1]
        asked == IF o[1] = "requester" THEN <<asker>>
                 ELSE SelectSeq([n \in DOMAIN pol |-> n], LAMBDA p : p \in o[2] \ {me})
        RECURSIVE Each(_)
        Each(n) ==
            With(Ask(pol, me, asked[n], depth, pending), LAMBDA a :
                IF n = Len(asked) \/ a.answer = (o[1] # "all") THEN a
                ELSE [Each(n + 1) EXCEPT !.lines = a.lines \o @])
        head == <<[Blank EXCEPT !.depth = depth, !.kind = "single", !.rule = rule, !.quant = o[1]]>> \o
                (IF o[1] = "requester" THEN <<>>
                 ELSE Candidates(pol, [n \in DOMAIN pol |-> n], o[2], depth))
    IN  IF asked = <<>>
        THEN [lines |-> head \o <<[Blank EXCEPT !.depth = depth, !.kind = "noFrom", !.rule = rule]>>, answer |-> FALSE]
        ELSE [Each(1) EXCEPT !.lines = head \o @]

\* The second operand is asked only when the first does not decide.
Exchanged(pol, asker, rule, r, depth, pending) ==
    LET mark(kind) == [Blank EXCEPT !.depth = depth, !.kind = kind, !.rule = rule, !.quant = r.op]
        Composite(inner) ==
            [inner EXCEPT !.lines = <<[mark("open") EXCEPT !.truth = <<inner.answer>>]>> \o @ \o
                                    <<[mark("close") EXCEPT !.outcome = Said(inner.answer)]>>]
    IN  CASE r.op = "none"   -> [lines |-> <<>>, answer |-> TRUE]
          [] r.op = "noTo"   -> [lines |-> <<mark("noTo")>>, answer |-> TRUE]
          [] r.op = "single" -> With(Operand(pol, asker, rule, r.of[1], depth, pending), LAMBDA alone :
                                  [alone EXCEPT !.lines[1].truth = <<alone.answer>>])
          [] OTHER -> Composite(With(Operand(pol, asker, rule, r.of[1], depth + 1, pending), LAMBDA first :
                          IF first.answer # (r.op = "and") THEN first
                          ELSE [Operand(pol, asker, rule, r.of[2], depth + 1, pending)
                                    EXCEPT !.lines = first.lines \o <<mark("separator")>> \o @]))

\* The rules of a policy, the k-th on, until one grants; the request is restated
\* before each.
Attempts(pol, asker, p, k, depth, pending) ==
    LET r    == pol[p][k]
        rule == <<p, k>>
        met  == r.applies /\ r.cond = "true"
        line(kind, outcome) == [Blank EXCEPT !.depth = depth + 1, !.kind = kind, !.rule = rule, !.outcome = outcome]
        tried == <<[Blank EXCEPT !.depth = depth, !.kind = "policy", !.from = asker, !.to = p],
                   line("resource", Said(r.applies))>>
                 \o (IF r.applies THEN <<line("condition", r.cond)>> ELSE <<>>)
    IN  IF k > Len(pol[p]) THEN [lines |-> <<>>, answer |-> FALSE, rule |-> <<>>]
        ELSE With(IF met THEN Exchanged(pol, asker, rule, r, depth + 1, pending)
                  ELSE [lines |-> <<>>, answer |-> FALSE], LAMBDA exch :
               IF exch.answer THEN [lines |-> tried \o exch.lines, answer |-> TRUE, rule |-> rule]
               ELSE [Attempts(pol, asker, p, k + 1, depth, pending) EXCEPT !.lines = tried \o exch.lines \o @])

\* The request of party 1, of any of those it names.
Evaluated(pol, named) ==
    LET asked == SelectSeq([n \in DOMAIN pol |-> n], LAMBDA p : p \in named)
        others == [n \in 1 .. (Len(pol) - 1) |-> n + 1]
        Told(a) == IF a.lines = <<>> THEN <<>> ELSE [a.lines EXCEPT ![1].truth = <<a.answer, a.rule>>]
        RECURSIVE Each(_)
        Each(n) ==
            IF n > Len(asked) THEN [lines |-> <<>>, answer |-> FALSE]
            ELSE With(Attempts(pol, 1, asked[n], 1, 1, {<<1, asked[n]>>}), LAMBDA a :
                    IF a.answer THEN [lines |-> Told(a), answer |-> TRUE]
                    ELSE [Each(n + 1) EXCEPT !.lines = Told(a) \o @])
        Whole(body) ==
            [body EXCEPT !.lines =
                <<[Blank EXCEPT !.kind = "request", !.from = 1, !.quant = "any"],
                  [Blank EXCEPT !.depth = 1, !.kind = "finding"]>>
                \o Candidates(pol, others, named, 2) \o @
                \o <<[Blank EXCEPT !.kind = "result", !.outcome = Said(body.answer)]>>]
    IN  Whole(Each(1))

-----------------------------------------------------------------------------
(* trace.ts and causes.ts: the tree, as the places of the lines in it.     *)

\* The first line from the k-th on that is no deeper than d, or the end.
RECURSIVE Leaves(_, _, _)
Leaves(flat, k, d) == IF k > Len(flat) \/ flat[k].depth <= d THEN k ELSE Leaves(flat, k + 1, d)

\* The lines beneath the i-th.
Beneath(flat, i) == (i + 1) .. (Leaves(flat, i + 1, flat[i].depth) - 1)

ParentOf(flat, i) == LET above == {k \in 1 .. (i - 1) : flat[k].depth < flat[i].depth}
                     IN  IF above = {} THEN <<>> ELSE <<flat[Max(above)]>>

TraceVerdict(flat) ==
    LET results == {i \in DOMAIN flat : flat[i].depth = 0 /\ flat[i].kind = "result"}
    IN  IF results = {} THEN "none" ELSE flat[Max(results)].outcome

\* The request an exchange makes is another arrow's: its own line is evidence,
\* what is beneath it is not.
Evidence(flat, i) ==
    LET below == Beneath(flat, i)
    IN  {i} \cup (below \ UNION {Beneath(flat, k) : k \in {k \in below : flat[k].kind = "request"}})

CauseOf(flat, nodes) ==
    LET lines == {flat[j] : j \in UNION {Evidence(flat, i) : i \in nodes}}
        resources == {l \in lines : l.kind = "resource"}
    IN  IF \E l \in lines : l.outcome = "error" THEN "errored"
        ELSE IF \E l \in lines : l.kind = "condition" /\ l.outcome = "false" THEN "condition"
        ELSE IF resources # {} /\ \A l \in resources : l.outcome = "false" THEN "no rule"
        ELSE IF \E l \in lines : l.kind = "noFrom" THEN "no party"
        ELSE IF \E l \in lines : l.kind = "noTo" THEN "vacuous"
        ELSE "none"

-----------------------------------------------------------------------------
(* diagram.ts: what it reads off the lines ...                             *)

SiblingResult(flat, i) ==
    LET next == Leaves(flat, i + 1, flat[i].depth)
    IN  IF next <= Len(flat) /\ flat[next].depth = flat[i].depth /\ flat[next].kind = "result"
        THEN flat[next].outcome ELSE "none"

\* A bug would pass an errored condition over. (mutant)
SubtreeOutcome_Boolean(flat, i) ==
    LET stated == {j \in Beneath(flat, i) : flat[j].outcome \in {"true", "false"}}
    IN  IF stated = {} THEN "none" ELSE flat[Max(stated)].outcome

SubtreeOutcome(flat, i) ==
    LET stated == {j \in Beneath(flat, i) : flat[j].outcome # "none"}
    IN  IF stated = {} THEN "none"
        ELSE IF flat[Max(stated)].outcome = "error" THEN "false" ELSE flat[Max(stated)].outcome

CauseFor(flat, nodes, outcome) ==
    LET cause == CauseOf(flat, nodes)
    IN  IF outcome = "false" \/ (outcome = "true" /\ cause = "vacuous") THEN cause ELSE "none"

\* Who issues the requests of a quantified exchange: the next request tells.
RequesterAhead(flat, i) ==
    LET stops == {k \in (i + 1) .. Len(flat) :
                    flat[k].depth < flat[i].depth \/ flat[k].kind \in {"request", "policy"}}
    IN  IF stops = {} \/ flat[Min(stops)].depth < flat[i].depth THEN <<>> ELSE <<flat[Min(stops)].from>>

AttemptedRule(flat, i) ==
    LET rules == {j \in Beneath(flat, i) : flat[j].depth = flat[i].depth + 1 /\ flat[j].rule # <<0, 0>>}
    IN  IF rules = {} THEN <<>> ELSE flat[Min(rules)].rule

GrantedRuleOf(flat, i) ==
    LET tries == {j \in Beneath(flat, i) : flat[j].depth = flat[i].depth + 1 /\ flat[j].kind = "policy"}
    IN  IF tries = {} THEN <<>> ELSE AttemptedRule(flat, Max(tries))

(* ... and the walk over them.                                             *)

Arrow(flat, i, nodes, outcome, granted) ==
    [kind |-> "request", from |-> flat[i].from, to |-> flat[i].to, outcome |-> outcome,
     cause |-> CauseFor(flat, nodes, outcome), grantedBy |-> IF outcome = "true" THEN granted ELSE <<>>]

Marker(kind, rule, op, outcome) == [kind |-> kind, rule |-> rule, op |-> op, outcome |-> outcome]

\* A single exchange states no end: leaving its scope closes its frame.
RECURSIVE CloseSingles(_, _)
CloseSingles(st, node) ==
    LET top == Last(st.frames)
    IN  IF st.frames = <<>> THEN st
        ELSE IF top.composite \/ node.depth >= top.depth THEN st
        ELSE CloseSingles([st EXCEPT !.frames = Front(@),
                !.steps = Append(@, Marker("frame-close", top.rule, "single",
                    IF top.last # "none" THEN top.last
                    ELSE IF node.kind = "result" THEN node.outcome ELSE "none"))], node)

NoteResult(st, node) ==
    IF node.kind = "result" /\ st.frames # <<>> /\ ~Last(st.frames).composite
    THEN [st EXCEPT !.frames[Len(st.frames)].last = node.outcome] ELSE st

OpenFrame(st, node, composite) ==
    [st EXCEPT !.frames = Append(@, [rule |-> node.rule, depth |-> node.depth,
                                     composite |-> composite, last |-> "none"]),
               !.steps = Append(@, Marker("frame-open", node.rule,
                                          IF composite THEN node.quant ELSE "single", "none"))]

\* A quantifier outside the fan's scope ends the fan.
Weighing(st, node, from) ==
    [st EXCEPT !.quantified = from,
               !.fan = IF @ = <<>> \/ @[1].depth >= node.depth THEN <<>> ELSE @]

\* The arrow of a policy asked by a quantified request; its next rules are tried
\* under the same arrow.
FanArrow(st, flat, i) ==
    LET node == flat[i]
        again == st.fan # <<>> /\ st.fan[1].policy = node.to /\ st.fan[1].depth = node.depth
        nodes == IF again THEN st.fan[1].nodes \cup {i} ELSE {i}
        at    == IF again THEN st.fan[1].step ELSE Len(st.steps) + 1
        arrow == Arrow(flat, i, nodes, SubtreeOutcome(flat, i), AttemptedRule(flat, i))
    IN  [st EXCEPT !.fan = <<[policy |-> node.to, depth |-> node.depth, step |-> at, nodes |-> nodes]>>,
                   !.steps = IF again THEN [@ EXCEPT ![at] = arrow] ELSE Append(@, arrow)]

\* One line; returns the state and the next place.
Draw(before, flat, i) ==
    LET node == flat[i]
        st   == NoteResult(CloseSingles(before, node), node)
        framed == IF node.kind = "single" /\ (st.frames = <<>> \/ Last(st.frames).rule # node.rule)
                  THEN OpenFrame(st, node, FALSE) ELSE st
        run  == {k \in i .. Len(flat) : \A j \in i .. k : flat[j].depth = node.depth /\ flat[j].kind = "candidate"}
        parent == ParentOf(flat, i)
        ofFan  == parent # <<>> /\ parent[1].kind = "request" /\ parent[1].quant # ""
    IN  CASE node.kind = "close" ->
               <<[st EXCEPT !.steps = Append(@, Marker("frame-close", node.rule, "", node.outcome)),
                            !.frames = IF @ = <<>> THEN @ ELSE Front(@)], i + 1>>
          [] node.kind = "separator" /\ st.frames # <<>> ->
               <<[st EXCEPT !.steps = Append(@, Marker("frame-separator", node.rule, "", "none"))], i + 1>>
          [] node.kind = "open" -> <<OpenFrame(st, node, TRUE), i + 1>>
          [] node.kind = "candidate" ->
               <<[st EXCEPT !.steps = IF st.quantified = <<>> THEN @
                                      ELSE Append(@, [kind |-> "candidates", from |-> st.quantified[1],
                                                      matched |-> {flat[k].to : k \in {k \in run : flat[k].outcome = "true"}}]),
                            !.quantified = <<>>], Max(run) + 1>>
          [] node.kind = "cycle" ->
               <<[st EXCEPT !.steps = Append(@, [kind |-> "cycle", from |-> node.from, to |-> node.to])], i + 1>>
          [] node.kind = "single" /\ node.quant # "requester" -> <<Weighing(framed, node, RequesterAhead(flat, i)), i + 1>>
          [] node.kind = "single" -> <<framed, i + 1>>
          [] node.kind = "request" /\ node.quant # "" -> <<Weighing(st, node, <<node.from>>), i + 1>>
          [] node.kind = "policy" /\ ofFan -> <<FanArrow(st, flat, i), i + 1>>
          [] node.kind = "request" ->
               <<[st EXCEPT !.steps = Append(@, Arrow(flat, i, {i}, SiblingResult(flat, i), GrantedRuleOf(flat, i)))], i + 1>>
          [] OTHER -> <<st, i + 1>>

BuildDiagram(flat) ==
    LET RECURSIVE From(_, _)
        From(st, i) == IF i > Len(flat) THEN st.steps
                       ELSE LET next == Draw(st, flat, i) IN From(next[1], next[2])
    IN  From([quantified |-> <<>>, fan |-> <<>>, frames |-> <<>>, steps |-> <<>>], 1)

(* frames.ts pairs the markers, and the roster tells of each party.        *)

\* Each frame, in the order they open, with the outcome it closes with.
Nest(steps) ==
    LET Open(a, b) == Cardinality({n \in a .. b : steps[n].kind = "frame-open"})
                      - Cardinality({n \in a .. b : steps[n].kind = "frame-close"})
        Ends(a) == {b \in a .. Len(steps) : Open(a, b) = 0}
        opens == SelectSeq([n \in DOMAIN steps |-> n], LAMBDA n : steps[n].kind = "frame-open")
    IN  [n \in DOMAIN opens |-> <<steps[opens[n]].rule,
            IF Ends(opens[n]) = {} THEN "open" ELSE steps[Min(Ends(opens[n]))].outcome>>]

InvolvedParties(steps) ==
    UNION {CASE steps[n].kind \in {"request", "cycle"} -> {steps[n].from, steps[n].to}
             [] steps[n].kind = "candidates" -> {steps[n].from}
             [] steps[n].kind = "frame-open" -> {steps[n].rule[1]}
             [] OTHER -> {} : n \in DOMAIN steps}

MatchedParties(steps) == UNION {steps[n].matched : n \in {n \in DOMAIN steps : steps[n].kind = "candidates"}}

PartyStatus(steps, p) == IF p = 1 THEN "requester"
                         ELSE IF p \in InvolvedParties(steps) THEN "involved"
                         ELSE IF p \in MatchedParties(steps) THEN "candidate" ELSE "absent"

-----------------------------------------------------------------------------
(* Properties, of one evaluation                                           *)

OfKind(steps, kind) == SelectSeq(steps, LAMBDA s : s.kind = kind)
Truths(flat, kinds) == SelectSeq(flat, LAMBDA l : l.truth # <<>> /\ l.kind \in kinds)

\* The requests the engine made, in order: who asked whom, what came of it, and
\* the rule that granted it; and the exchanges.
Asked(flat) == LET told == Truths(flat, {"request", "policy"})
               IN  [n \in DOMAIN told |-> <<told[n].from, told[n].to, Said(told[n].truth[1]), told[n].truth[2]>>]
Exchanges(flat) == LET told == Truths(flat, {"open", "single"})
                   IN  [n \in DOMAIN told |-> <<told[n].rule, Said(told[n].truth[1])>>]

Drawn(steps) == LET arrows == OfKind(steps, "request")
                IN  [n \in DOMAIN arrows |-> <<arrows[n].from, arrows[n].to, arrows[n].outcome, arrows[n].grantedBy>>]

\* The arrows are the requests that were made, each with its answer and the rule
\* that gave it.
ArrowsTrue(pol, named) ==
    LET flat == Evaluated(pol, named).lines IN Drawn(BuildDiagram(flat)) = Asked(flat)

\* A policy with an exchange that names its own party and no other.
OwnOnly(pol) == \E p \in DOMAIN pol : \E k \in DOMAIN pol[p] :
                   \E n \in DOMAIN pol[p][k].of : pol[p][k].of[n][2] = {p}

Broken(flat) == \E n \in DOMAIN flat : flat[n].kind = "cycle"

\* There is a frame for every exchange, in their order, and one that states an
\* outcome states what the exchange came to; but where a cycle granted it.
FramesTrue(pol, named) ==
    LET flat  == Evaluated(pol, named).lines
        drawn == Nest(BuildDiagram(flat))
        told  == Exchanges(flat)
    IN  /\ Len(drawn) = Len(told)
        /\ \A n \in DOMAIN told : /\ drawn[n][1] = told[n][1]
                                  /\ \/ drawn[n][2] \in {told[n][2], "none"}
                                     \/ Broken(flat) /\ told[n][2] = "true"

\* The chip of an arrow names something that happened among the rules the asked
\* policy tried, and a denial no exchange explains has one.
CausesTrue(pol, named) ==
    LET flat   == Evaluated(pol, named).lines
        arrows == OfKind(BuildDiagram(flat), "request")
        Met(a) == {pol[a.to][k] : k \in {k \in DOMAIN pol[a.to] :
                      pol[a.to][k].applies /\ (a.grantedBy = <<>> \/ k <= a.grantedBy[2])}}
        Bare(a, r) == \E n \in DOMAIN r.of : r.of[n][1] # "requester" /\ r.of[n][2] \subseteq {a.to}
    IN  \A a \in Range(arrows) :
          /\ a.cause = "errored"   => \E r \in Met(a) : r.cond = "error"
          /\ a.cause = "condition" => \E r \in Met(a) : r.cond = "false"
          /\ a.cause = "no rule"   => Met(a) = {}
          /\ a.cause = "no party"  => \E r \in Met(a) : r.cond = "true" /\ Bare(a, r)
          /\ a.cause = "vacuous"   => a.outcome = "true" /\ \E r \in Met(a) : r.op = "noTo"
          /\ a.outcome = "false" /\ a.cause = "none" =>
                pol[a.to] = <<>> \/ \E r \in Met(a) : r.cond = "true" /\ r.of # <<>>

\* A party is shown as involved just when it asked or was asked, and one shown as
\* absent matched no pattern; but where a cycle ended the exchange that weighed it.
RosterTrue(pol, named) ==
    LET flat  == Evaluated(pol, named).lines
        steps == BuildDiagram(flat)
        asks  == {n \in DOMAIN flat : flat[n].kind = "cycle" \/ (flat[n].truth # <<>> /\ flat[n].to # 0)}
    IN  \A p \in DOMAIN pol \ {1} :
          /\ PartyStatus(steps, p) = "involved" <=> \E n \in asks : p \in {flat[n].from, flat[n].to}
          /\ PartyStatus(steps, p) = "absent" =>
                \/ Broken(flat)
                \/ \A n \in DOMAIN flat : ~(flat[n].kind = "candidate" /\ flat[n].to = p /\ flat[n].outcome = "true")
=============================================================================
