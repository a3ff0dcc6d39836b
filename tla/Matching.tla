----------------------------- MODULE Matching ------------------------------
(***************************************************************************)
(* What the backend makes of attributes outside the evaluator: the check   *)
(* at the door, the port of the engine's matcher, the coverage answer and  *)
(* the facets with their filter, beside what the evaluator reads in the    *)
(* text it is sent.                                                        *)
(*                                                                         *)
(* A scalar is its JavaScript type and its text, which for a number is     *)
(* what String() renders; a value is a list of scalars or a single one.    *)
(* A number of a rule's text may be written otherwise ("7.0").             *)
(***************************************************************************)
EXTENDS Integers, Sequences, FiniteSets, Functions

Scalar(type, text) == [type |-> type, text |-> text]
One(s)   == [list |-> FALSE, items |-> <<s>>]
List(s)  == [list |-> TRUE, items |-> s]

CONSTANTS
    Number,         \* what Number() makes of a text that denotes a number, as String() renders it
    Fractions,      \* those texts that denote no integer
    Decimals,       \* those that a rule writes with a point though they denote one ("7.0")
    Unwritable,     \* numbers that are neither a safe integer nor a plain decimal
    Unquotable,     \* strings that no text of a rule can hold
    BadNames,       \* keys that are no NAME
    Inherited       \* keys that every object inherits

\* What is rendered denotes the same number and has a point only before a fraction.
ASSUME MatchingAssumption ==
    /\ \A t \in DOMAIN Number :
          /\ Number[t] \in DOMAIN Number \ Decimals
          /\ Number[Number[t]] = Number[t]
          /\ t \in Fractions <=> Number[t] \in Fractions
    /\ Decimals \subseteq DOMAIN Number \ Fractions
    /\ {"true", "false"} \cap DOMAIN Number = {}
    /\ "userId" \notin BadNames

Integral(text) == text \notin Fractions
IsWritableNumber(text) == text \notin Unwritable

Keywords == {"in"}
Reserved == {"userId", "connections"}

EmitsScalar(s) == s.type = "number" => IsWritableNumber(s.text)

\* emitAttrs throws, or writes every attribute.
Emits(attrs) ==
    \A k \in DOMAIN attrs : /\ k \notin BadNames \cup Keywords
                            /\ \A n \in DOMAIN attrs[k].items : EmitsScalar(attrs[k].items[n])

BadScalar(s) == s.type = "object" \/ (s.type = "string" /\ s.text \in Unquotable) \/ ~EmitsScalar(s)

BadAttr(attrs, k) ==
    \/ k \in BadNames \cup Keywords
    \/ \E n \in DOMAIN attrs[k].items : BadScalar(attrs[k].items[n])

\* The keys complained of.
ValidateAttrs(attrs)        == {k \in DOMAIN attrs : k \in Reserved \/ BadAttr(attrs, k)}
ValidatePartyPattern(attrs) == {k \in DOMAIN attrs : k \in Reserved \ {"userId"} \/ BadAttr(attrs, k)}

PartyAttrsOf(id, attrs) ==
    [k \in DOMAIN attrs \cup {"userId"} |-> IF k = "userId" THEN One(Scalar("string", id)) ELSE attrs[k]]

-----------------------------------------------------------------------------
(* Attributes as a rule writes them, and as JSON brings them.              *)

IsScalar(s) ==
    /\ s = Scalar(s.type, s.text)
    /\ s.type \in {"string", "number", "boolean", "object"}
    /\ s.type = "number" => s.text \in DOMAIN Number
    /\ s.type = "boolean" => s.text \in {"true", "false"}

IsValue(v) ==
    /\ v = [list |-> v.list, items |-> v.items]
    /\ v.list \in BOOLEAN /\ v.items \in Seq(Range(v.items))
    /\ ~v.list => Len(v.items) = 1
    /\ \A n \in DOMAIN v.items : IsScalar(v.items[n])

IsAttrs(attrs) == IsFiniteSet(DOMAIN attrs) /\ \A k \in DOMAIN attrs : IsValue(attrs[k])

\* JSON's numbers are written as String() renders them.
Rendered(v) == \A n \in DOMAIN v.items :
    v.items[n].type = "number" => Number[v.items[n].text] = v.items[n].text
FromJson(attrs) == IsAttrs(attrs) /\ \A k \in DOMAIN attrs : Rendered(attrs[k])

-----------------------------------------------------------------------------
(* matcher.ts, and its copy in the frontend                                *)

SortKey(s) == <<s.type, s.text>>

\* Sorted by their keys and compared element by element.
SameBag(a, b, Key(_)) ==
    LET Times(x, s) == Cardinality({n \in DOMAIN s : Key(s[n]) = x})
    IN  /\ Len(a) = Len(b)
        /\ \A n \in DOMAIN a : Times(Key(a[n]), a) = Times(Key(a[n]), b)

ValuesEqual(a, b) ==
    /\ a.list = b.list
    /\ IF a.list THEN SameBag(a.items, b.items, SortKey) ELSE a.items = b.items

\* An inherited property is found in any object, and equals no value.
Has(attrs, k) == k \in DOMAIN attrs \cup Inherited

Agrees(attrs, k, value) == k \in DOMAIN attrs /\ ValuesEqual(value, attrs[k])

Matches(pattern, attrs) == \A k \in DOMAIN pattern : Has(attrs, k) /\ Agrees(attrs, k, pattern[k])

-----------------------------------------------------------------------------
(* The evaluator: what it reads is typed by how it is written, its lists   *)
(* are put in canonical order and compared as Java values.                 *)

ReadScalar(s) == IF s.type # "number" THEN <<s.type, s.text>>
                 ELSE <<IF s.text \in Decimals \/ ~Integral(s.text) THEN "Double" ELSE "Long", Number[s.text]>>

EngineMatches(pattern, attrs) ==
    \A k \in DOMAIN pattern :
        /\ k \in DOMAIN attrs /\ pattern[k].list = attrs[k].list
        /\ SameBag(pattern[k].items, attrs[k].items, ReadScalar)

\* A value read by the evaluator, as the JSON it is sent back as.
JsValue(v)  == [v EXCEPT !.items = [n \in DOMAIN v.items |->
                  IF v.items[n].type = "number" THEN Scalar("number", Number[v.items[n].text])
                  ELSE v.items[n]]]
JsAttrs(attrs) == [k \in DOMAIN attrs |-> JsValue(attrs[k])]

-----------------------------------------------------------------------------
(* coverage.ts: rows are [id, attrs], ids in their order.                  *)

GapAgainst(row, pattern) ==
    LET named == {k \in DOMAIN row.attrs : Has(pattern, k)}
        agreeing == {k \in named : Agrees(pattern, k, row.attrs[k])}
    IN  [missing |-> DOMAIN row.attrs \ named, conflicting |-> named \ agreeing,
         agreeing |-> Cardinality(agreeing), overlap |-> Cardinality(named),
         blocking |-> Cardinality(DOMAIN row.attrs \ agreeing), id |-> row.id]

\* A bug would keep the later of two rows that tie. (mutant)
Better_Later(c, best) ==
    IF c.overlap # best.overlap THEN c.overlap > best.overlap
    ELSE IF c.agreeing # best.agreeing THEN c.agreeing > best.agreeing
    ELSE c.blocking <= best.blocking

Better(c, best) ==
    IF c.overlap # best.overlap THEN c.overlap > best.overlap
    ELSE IF c.agreeing # best.agreeing THEN c.agreeing > best.agreeing
    ELSE IF c.blocking # best.blocking THEN c.blocking < best.blocking
    ELSE c.id < best.id

\* The best so far of the first n rows that are not covered, or none.
NearestGap(rows, pattern) ==
    LET best[n \in 0 .. Len(rows)] ==
          LET sofar == best[n - 1]
              c     == GapAgainst(rows[n], pattern)
          IN  IF n = 0 THEN <<>>
              ELSE IF c.blocking = 0 THEN sofar
              ELSE IF sofar = <<>> \/ Better(c, sofar[1]) THEN <<c>> ELSE sofar
    IN  best[Len(rows)]

RuleCoverage(rows, pattern) ==
    LET covered == {n \in DOMAIN rows : Matches(rows[n].attrs, pattern)}
    IN  [count |-> Cardinality(covered),
         nearest |-> IF covered = {} THEN NearestGap(rows, pattern) ELSE <<>>]

-----------------------------------------------------------------------------
(* controllers.utils.ts and facets.utils.ts: a resource is [owner, attrs], *)
(* a chip <<key, text>>.                                                    *)

TextOf(v) == IF v.list /\ v.items = <<>> THEN {"[]"} ELSE {v.items[n].text : n \in DOMAIN v.items}

\* The typed readings of a query value. A bug would leave them out. (mutant)
TypedProbe_None(text) == {}
TypedProbe(text) ==
    IF text \in {"true", "false"} THEN {Scalar("boolean", text)}
    ELSE IF text \in DOMAIN Number THEN {Scalar("number", Number[text])} ELSE {}

AttrProbes(text) ==
    LET forms == {Scalar("string", text)} \cup TypedProbe(text)
    IN  {One(s) : s \in forms} \cup {List(<<s>>) : s \in forms}

\* jsonb containment, under one key.
JsonbContains(value, probe) ==
    /\ value.list = probe.list
    /\ Range(probe.items) \subseteq Range(value.items)

WhereAttrContains(attrs, chip) ==
    chip[1] \in DOMAIN attrs /\ \E probe \in AttrProbes(chip[2]) : JsonbContains(attrs[chip[1]], probe)

\* The list joins the owner, the facets do not; neither shows whom it excludes.
Filtered(corpus, exclude, chips) ==
    {r \in corpus : /\ \A chip \in chips : WhereAttrContains(r.attrs, chip)
                    /\ exclude # "" => r.owner \notin {exclude, "nobody"}}

Listed(corpus, exclude, chips) == {r \in Filtered(corpus, exclude, chips) : r.owner # "nobody"}

Facets(corpus, exclude, chips) ==
    UNION {UNION {{k} \X TextOf(r.attrs[k]) : k \in DOMAIN r.attrs \ Reserved} :
              r \in Filtered(corpus, exclude, chips)}

-----------------------------------------------------------------------------
(* Properties *)

\* A party is matched by the closure as the engine will match it, its attributes
\* once accepted being written and read back as they are; a whole decimal of a
\* rule, which JSON cannot tell from an integer, excepted.
PartyMatched(id, pattern, attrs) ==
    ValidateAttrs(attrs) = {} =>
        LET party == PartyAttrsOf(id, attrs)
            whole == \E k \in DOMAIN pattern : \E n \in DOMAIN pattern[k].items :
                        pattern[k].items[n].type = "number" /\ pattern[k].items[n].text \in Decimals
        IN  /\ Emits(party)
            /\ ~whole => (Matches(JsAttrs(pattern), party) <=> EngineMatches(pattern, party))
            /\ EngineMatches(pattern, party) => Matches(JsAttrs(pattern), party)

\* A pattern of an access request that is accepted can be written.
PatternWritten(pattern) == ValidatePartyPattern(pattern) = {} => Emits(pattern)

\* Row n of those a pattern is compared with: its keys, those the pattern names,
\* those of them the engine would match, and its place by the four criteria.
KeysOf(rows, n) == DOMAIN rows[n].attrs
Named(rows, pattern, n) == KeysOf(rows, n) \cap DOMAIN pattern
Agreed(rows, pattern, n) ==
    {k \in Named(rows, pattern, n) : EngineMatches([j \in {k} |-> rows[n].attrs[j]], pattern)}
Open(rows, pattern) == {n \in DOMAIN rows : Agreed(rows, pattern, n) # KeysOf(rows, n)}
Rank(rows, pattern, n) ==
    <<-Cardinality(Named(rows, pattern, n)), -Cardinality(Agreed(rows, pattern, n)),
      Cardinality(KeysOf(rows, n) \ Agreed(rows, pattern, n)), rows[n].id>>
Before(r, s) == \E c \in 1 .. 4 : r[c] < s[c] /\ \A d \in 1 .. (c - 1) : r[d] = s[d]

\* The coverage answer is the one the engine would give row by row, and the gap
\* told is of the row that comes first by all four criteria, whatever the order
\* the rows come in; a key every object inherits excepted.
CoverageTold(rows, pattern) ==
    LET answer == RuleCoverage(rows, pattern)
        open   == Open(rows, pattern)
    IN  /\ answer.count = Len(rows) - Cardinality(open)
        /\ answer.nearest = <<>> <=> answer.count > 0 \/ rows = <<>>
        /\ answer.nearest # <<>> /\ (\A n \in DOMAIN rows : KeysOf(rows, n) \cap Inherited = {}) =>
              \E n \in open :
                 /\ answer.nearest[1].missing = KeysOf(rows, n) \ DOMAIN pattern
                 /\ answer.nearest[1].conflicting = Named(rows, pattern, n) \ Agreed(rows, pattern, n)
                 /\ \A o \in open \ {n} : Before(Rank(rows, pattern, n), Rank(rows, pattern, o))

\* A chip of the facets lists something, and a listed resource is found under
\* each of its own chips; but for a collection that is empty, and a resource
\* nobody owns.
FacetsAgree(corpus, exclude, chips) ==
    /\ \A chip \in Facets(corpus, exclude, chips) :
          \/ Listed(corpus, exclude, chips \cup {chip}) # {}
          \/ \E r \in corpus : chip[1] \in DOMAIN r.attrs /\ (r.owner = "nobody" \/ chip[2] = "[]")
    /\ \A r \in Listed(corpus, exclude, chips) : \A k \in DOMAIN r.attrs \ Reserved :
          \A text \in TextOf(r.attrs[k]) :
             /\ <<k, text>> \in Facets(corpus, exclude, chips)
             /\ text # "[]" => r \in Listed(corpus, exclude, chips \cup {<<k, text>>})

=============================================================================
