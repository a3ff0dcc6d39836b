--------------------------- MODULE EvaluatorCall ---------------------------
(***************************************************************************)
(* One call of the backend to the evaluator: what the service makes of the *)
(* body, and how bart/evaluator.client.ts tells an evaluator that refuses  *)
(* what it was sent from one that is out of reach.  The caller of /health  *)
(* is GET /dev/status, which probes the database at the same time, each    *)
(* probe against a deadline of its own.                                    *)
(***************************************************************************)
EXTENDS Naturals, SequencesExt

CONSTANTS
    None,
    MaxPolicies     \* bound: policies of a body

VARIABLES
    endpoint, body,     \* what is asked of the evaluator
    wire,               \* "asked", "headers" or "settled"
    response,           \* what came back, from the service or from between
    outcome,            \* how the call settled
    database,           \* the answer to authenticate(): "pending", "up" or "down"
    probes,             \* of the database and the evaluator: what is said, its timer
    replied             \* GET /dev/status is answered

callVars == <<endpoint, body, wire, response, outcome, database, probes, replied>>

\* A text: one that can be read, a blank one, one that does not parse, one that
\* does not build, and one on which the reader fails itself.
Text == {"good", "blank", "syntax", "model", "crash"}

Policies(e) ==
    CASE e = "validate" -> [1 .. 1 -> Text]
      [] e = "health"   -> {<<>>}
      [] OTHER          -> UNION {[1 .. n -> Text] : n \in 0 .. MaxPolicies}

\* What each endpoint may be sent; only /evaluate takes a context and a request.
Bodies(e) ==
    LET If(S, one) == IF e = "evaluate" THEN S ELSE {one} IN
    [policies : Policies(e), context : If(Text, "good"), lists : If(0 .. MaxPolicies, 0),
     request : If(Text, "good"), requester : If(0 .. MaxPolicies + 1, 1)]

-----------------------------------------------------------------------------
(* The service.  What it finds wrong has a slug and a place.               *)

Answer(status, slug, at, valid) == [status |-> status, slug |-> slug, at |-> at, valid |-> valid]
Fine          == Answer(200, None, None, TRUE)
Bad(slug, at) == Answer(400, slug, at, FALSE)
Failure       == Answer(500, None, None, FALSE)

\* Authoring errors are tagged with their place; anything else is a failure here.
Tagging(at, text) ==
    CASE text \in {"syntax", "blank"} -> Bad("bart-syntax", at)
      [] text = "model"  -> Bad("bart-model", at)
      [] text = "crash"  -> Failure
      [] OTHER           -> Fine

Require(policies) ==
    IF policies = <<>> \/ "blank" \in Range(policies) THEN Bad("empty-policies", None) ELSE Fine

RequireText(text, slug) == IF text = "blank" THEN Bad(slug, None) ELSE Fine

\* A policy's place is its party's number.
Each(policies) == [i \in DOMAIN policies |-> Tagging(<<"policy", i>>, policies[i])]

\* The tuple is counted between being parsed and being built.
Context(b) ==
    <<Tagging(<<"context">>, IF b.context = "model" THEN "good" ELSE b.context),
      IF b.lists # Len(b.policies) THEN Bad("context-arity", <<"context">>) ELSE Fine,
      Tagging(<<"context">>, b.context)>>

Request(b) ==
    <<Tagging(<<"request">>, IF b.request = "good" /\ b.requester < 1 THEN "syntax" ELSE b.request),
      IF b.requester > Len(b.policies) THEN Bad("invalid-requester", <<"request">>) ELSE Fine>>

\* Checked in a fixed order, the first that is not fine is the answer.
Evaluate(b) ==
    <<Require(b.policies), RequireText(b.context, "missing-context"), RequireText(b.request, "missing-request")>>
    \o Each(b.policies) \o Context(b) \o Request(b)

Analyze(b) == <<Require(b.policies)>> \o Each(b.policies)

\* A refusal is what was asked for.
Validate(text) == LET found == Tagging(None, text)
                  IN  IF found.status = 400 THEN [found EXCEPT !.status = 200] ELSE found

First(checks) == LET bad == {i \in DOMAIN checks : checks[i] # Fine}
                 IN  IF bad = {} THEN Fine ELSE checks[Min(bad)]

Served ==
    CASE endpoint = "evaluate" -> First(Evaluate(body))
      [] endpoint = "analyze"  -> First(Analyze(body))
      [] endpoint = "validate" -> Validate(body.policies[1])
      [] endpoint = "health"   -> Fine

-----------------------------------------------------------------------------
(* The client.                                                             *)

Outcome(kind, slug, at, valid) == [kind |-> kind, slug |-> slug, at |-> at, valid |-> valid]
Unavailable == Outcome("unavailable", None, None, FALSE)

\* (mutant) Whatever is not 2xx is a rejection.
Concluded_NoOutage(read) ==
    IF response.status < 300 THEN IF read THEN Outcome("done", None, None, response.valid) ELSE Unavailable
    ELSE IF read /\ response.slug # None THEN Outcome("rejected", response.slug, response.at, FALSE)
    ELSE Outcome("rejected", "unknown", None, FALSE)

\* Whether its body could be read tells the two shapes of an error apart.
Concluded(read) ==
    IF response.status < 300 THEN IF read THEN Outcome("done", None, None, response.valid) ELSE Unavailable
    ELSE IF response.status >= 500 THEN Unavailable
    ELSE IF read /\ response.slug # None THEN Outcome("rejected", response.slug, response.at, FALSE)
    ELSE Outcome("rejected", "unknown", None, FALSE)

\* mapEvaluatorError: the answer to the caller's own client.
Mapped == CASE outcome.kind = "unavailable" -> 503 [] outcome.kind = "rejected" -> 500 [] OTHER -> 200

-----------------------------------------------------------------------------

Services == {"database", "evaluator"}

InitCall ==
    /\ endpoint \in {"evaluate", "analyze", "validate", "health"}
    /\ body \in Bodies(endpoint)
    /\ wire = "asked" /\ response = Fine /\ outcome = Unavailable
    /\ database = "pending" /\ replied = FALSE
    /\ probes = [s \in Services |-> [said |-> "asked", timer |-> "set"]]

\* What a probe's promise settles to counts unless its deadline passed.
Heard(p, up) ==
    IF p.said = "asked" THEN [said |-> IF up THEN "up" ELSE "down", timer |-> "cleared"] ELSE p

Conclude(o) ==
    /\ wire' = "settled" /\ outcome' = o
    /\ probes' = IF endpoint = "health" THEN [probes EXCEPT !.evaluator = Heard(@, o.kind = "done")] ELSE probes
    /\ UNCHANGED <<endpoint, body, response, database, replied>>

\* The service answers, fails, or something in between answers in its place.
Respond ==
    /\ wire = "asked" /\ wire' = "headers"
    /\ response' \in {Served, Failure, Answer(404, None, None, FALSE)}
    /\ UNCHANGED <<endpoint, body, outcome, database, probes, replied>>

\* No connection, a dropped one, or the time is up: before the headers, ...
Lost == wire = "asked" /\ Conclude(Unavailable)

\* ... or before the end of the body.
ReadBody == wire = "headers" /\ \E read \in BOOLEAN : Conclude(Concluded(read))

\* It may also never be heard of again.
DatabaseAnswers ==
    /\ endpoint = "health" /\ database = "pending"
    /\ database' \in {"up", "down"}
    /\ probes' = [probes EXCEPT !.database = Heard(@, database' = "up")]
    /\ UNCHANGED <<endpoint, body, wire, response, outcome, replied>>

DeadlinePasses ==
    /\ endpoint = "health"
    /\ \E s \in Services : probes[s].timer = "set" /\ probes' = [probes EXCEPT ![s] =
           [said |-> IF @.said = "asked" THEN "down" ELSE @.said, timer |-> "fired"]]
    /\ UNCHANGED <<endpoint, body, wire, response, outcome, database, replied>>

Reply ==
    /\ endpoint = "health" /\ ~replied /\ \A s \in Services : probes[s].said # "asked"
    /\ replied' = TRUE
    /\ UNCHANGED <<endpoint, body, wire, response, outcome, database, probes>>

\* What must happen; a database need not answer.
Settling == Respond \/ Lost \/ ReadBody \/ DeadlinePasses \/ Reply

NextCall == Settling \/ DatabaseAnswers

CallSpec == InitCall /\ [][NextCall]_callVars /\ WF_callVars(Settling)

-----------------------------------------------------------------------------
(* Properties *)

Parts == [policy |-> Range(body.policies), context |-> {body.context}, request |-> {body.request}]
Written == body.policies # <<>> /\ UNION {Parts[p] : p \in DOMAIN Parts} = {"good"}
           /\ (endpoint = "evaluate" => body.lists = Len(body.policies) /\ body.requester \in DOMAIN body.policies)

\* A caller is told that its input is bad only if it is, by the place where it is,
\* with every policy before that place a good one; an outage is never taken for a
\* rejection, nor a bad input for an answer.  What stands between may reject
\* anything, and is not believed to know where.
OutcomeTold ==
    wire = "settled" /\ endpoint # "health" =>
        /\ outcome.kind = "rejected" /\ outcome.slug # "unknown" => ~Written /\ endpoint # "validate"
        /\ outcome.kind = "done" => outcome.valid <=> Written
        /\ outcome.kind = "rejected" => (outcome.slug = "unknown" => outcome.at = None)
        /\ response.status >= 500 => Mapped = 503
        /\ \A k \in DOMAIN body.policies : outcome.at = <<"policy", k>> =>
             body.policies[k] \notin {"good", "crash"} /\ \A i \in 1 .. k - 1 : body.policies[i] = "good"
        /\ outcome.at = <<"context">> => body.context # "good" \/ body.lists # Len(body.policies)
        /\ outcome.at = <<"request">> => body.request # "good" \/ body.requester \notin DOMAIN body.policies

\* A probe says up only of a service that answered within its deadline, neither
\* hides the other, and the answer leaves no timer behind.
StatusTold ==
    /\ probes.database.said = "up"  => database = "up"
    /\ probes.evaluator.said = "up" => outcome.kind = "done"
    /\ \A s \in Services : probes[s].said = "down" /\ probes[s].timer # "fired" =>
           IF s = "database" THEN database = "down" ELSE wire = "settled" /\ outcome.kind # "done"
    /\ replied => \A s \in Services : probes[s].timer # "set"

\* Every call ends, and the status is told even if the database never answers.
CallSettles == <>(IF endpoint = "health" THEN replied ELSE wire = "settled")
=============================================================================
