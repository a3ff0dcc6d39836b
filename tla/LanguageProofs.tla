--------------------------- MODULE LanguageProofs ---------------------------
(***************************************************************************)
(* What is read of attributes and conditions, for every key, value, number *)
(* and list of rows, and every expression: the port of the matcher agrees  *)
(* with the engine, the coverage answer is the one the engine would give   *)
(* row by row, a chip finds what it counts, and no error of a condition    *)
(* decides it.                                                             *)
(***************************************************************************)
EXTENDS Language, ListLemmas

\* A scalar read by the evaluator, as the JSON it is sent back as.
JsScalar(s) == IF s.type = "number" THEN Scalar("number", Number[s.text]) ELSE s

\* Not a number that is whole but written with a point.
Plain(s) == s.type = "number" => s.text \notin Decimals

RenderedScalar(s) == s.type = "number" => Number[s.text] = s.text

-----------------------------------------------------------------------------
(* Scalars *)

\* The keys the matcher sorts by are equal exactly when the engine reads alike.
LEMMA KeysAlike ==
  ASSUME NEW s, NEW t, IsScalar(s), IsScalar(t), Plain(s), Plain(t)
  PROVE  SortKey(JsScalar(s)) = SortKey(JsScalar(t)) <=> ReadScalar(s) = ReadScalar(t)
<1>1. ASSUME NEW x, IsScalar(x), Plain(x), x.type = "number"
      PROVE  /\ SortKey(JsScalar(x)) = <<"number", Number[x.text]>>
             /\ ReadScalar(x) = <<IF Number[x.text] \in Fractions THEN "Double" ELSE "Long", Number[x.text]>>
  <2>1. x.text \in DOMAIN Number /\ x.text \notin Decimals
    BY <1>1 DEF IsScalar, Plain
  <2>2. x.text \in Fractions <=> Number[x.text] \in Fractions
    BY <2>1, MatchingAssumption DEF MatchingAssumption
  <2>3. QED
    BY <1>1, <2>1, <2>2 DEF SortKey, JsScalar, Scalar, ReadScalar, Integral
<1>2. ASSUME NEW x, IsScalar(x), x.type # "number"
      PROVE  /\ SortKey(JsScalar(x)) = <<x.type, x.text>>
             /\ ReadScalar(x) = <<x.type, x.text>>
             /\ x.type # "Double" /\ x.type # "Long"
  <2>1. x.type \in {"string", "number", "boolean", "object"}
    BY <1>2 DEF IsScalar
  <2>2. QED
    BY <1>2, <2>1 DEF SortKey, JsScalar, ReadScalar
<1>3. CASE s.type = "number" /\ t.type = "number"
  BY <1>1, <1>3
<1>4. CASE s.type # "number" /\ t.type # "number"
  BY <1>2, <1>4
<1>5. CASE s.type = "number" /\ t.type # "number"
  BY <1>1, <1>2, <1>5
<1>6. CASE s.type # "number" /\ t.type = "number"
  BY <1>1, <1>2, <1>6
<1>7. QED
  BY <1>3, <1>4, <1>5, <1>6

\* What JSON renders is rendered already, and has no needless point.
LEMMA RenderedPlain ==
  ASSUME NEW t, IsScalar(t), RenderedScalar(t)
  PROVE  JsScalar(t) = t /\ Plain(t)
<1>1. CASE t.type = "number"
  <2>1. t.text \in DOMAIN Number /\ Number[t.text] = t.text /\ t = Scalar(t.type, t.text)
    BY <1>1 DEF IsScalar, RenderedScalar
  <2>2. Number[t.text] \notin Decimals
    BY <2>1, MatchingAssumption DEF MatchingAssumption
  <2>3. QED
    BY <1>1, <2>1, <2>2 DEF JsScalar, Plain, Scalar
<1>2. CASE t.type # "number"
  BY <1>2 DEF JsScalar, Plain
<1>3. QED
  BY <1>1, <1>2

\* The engine reads a needless point as no rendered number.
LEMMA PointsApart ==
  ASSUME NEW s, NEW t, IsScalar(s), IsScalar(t), RenderedScalar(t), ReadScalar(s) = ReadScalar(t)
  PROVE  Plain(s)
<1>1. SUFFICES ASSUME s.type = "number", s.text \in Decimals PROVE FALSE
  BY DEF Plain
<1>2. s.text \in DOMAIN Number /\ s.text \notin Fractions /\ Number[s.text] \notin Fractions
  BY <1>1, MatchingAssumption DEF MatchingAssumption
<1>3. ReadScalar(s)[1] = "Double" /\ ReadScalar(s)[2] = Number[s.text]
  BY <1>1 DEF ReadScalar
<1>4. CASE t.type # "number"
  <2>1. ReadScalar(t)[1] = t.type /\ t.type # "Double"
    BY <1>4 DEF ReadScalar, IsScalar
  <2>2. QED
    BY <1>3, <2>1
<1>5. CASE t.type = "number"
  <2>1. Number[t.text] = t.text /\ Plain(t)
    BY <1>5, RenderedPlain DEF RenderedScalar
  <2>2. ReadScalar(t)[1] = "Double" => t.text \in Fractions
    BY <1>5, <2>1 DEF ReadScalar, Plain, Integral
  <2>3. ReadScalar(t)[2] = Number[t.text]
    BY <1>5 DEF ReadScalar
  <2>4. QED
    BY <1>2, <1>3, <2>1, <2>2, <2>3
<1>6. QED
  BY <1>4, <1>5

-----------------------------------------------------------------------------
(* Values *)

PlainValue(v) == \A n \in DOMAIN v.items : Plain(v.items[n])

LEMMA ValueShape ==
  ASSUME NEW v, IsValue(v)
  PROVE  /\ Len(v.items) \in Nat /\ DOMAIN v.items = 1 .. Len(v.items)
         /\ v.list \in BOOLEAN /\ v = [list |-> v.list, items |-> v.items]
         /\ ~v.list => Len(v.items) = 1
         /\ \A n \in DOMAIN v.items : IsScalar(v.items[n])
<1>1. v.items \in Seq(Range(v.items))
  BY DEF IsValue
<1>2. Len(v.items) \in Nat /\ DOMAIN v.items = 1 .. Len(v.items)
  BY <1>1
<1>3. QED
  BY <1>2 DEF IsValue

LEMMA JsShape ==
  ASSUME NEW v, IsValue(v)
  PROVE  /\ JsValue(v).list = v.list
         /\ Len(JsValue(v).items) = Len(v.items)
         /\ DOMAIN JsValue(v).items = DOMAIN v.items
         /\ \A n \in DOMAIN v.items : JsValue(v).items[n] = JsScalar(v.items[n])
<1>1. Len(v.items) \in Nat /\ DOMAIN v.items = 1 .. Len(v.items)
      /\ v = [list |-> v.list, items |-> v.items]
  BY ValueShape
<1>2. JsValue(v) = [list |-> v.list, items |-> [n \in 1 .. Len(v.items) |-> JsScalar(v.items[n])]]
  BY <1>1 DEF JsValue, JsScalar
<1>3. QED
  BY <1>1, <1>2

\* Compared as bags, what JSON makes of a value is what the engine makes of it.
LEMMA BagsAlike ==
  ASSUME NEW v, NEW w, IsValue(v), IsValue(w), PlainValue(v), Rendered(w)
  PROVE  SameBag(JsValue(v).items, w.items, SortKey) <=> SameBag(v.items, w.items, ReadScalar)
<1> DEFINE js == JsValue(v).items
           a  == v.items
           b  == w.items
<1>1. /\ Len(js) = Len(a) /\ DOMAIN js = DOMAIN a
      /\ \A n \in DOMAIN a : js[n] = JsScalar(a[n]) /\ IsScalar(a[n]) /\ Plain(a[n])
      /\ \A n \in DOMAIN b : b[n] = JsScalar(b[n]) /\ IsScalar(b[n]) /\ Plain(b[n])
  <2>1. \A n \in DOMAIN b : IsScalar(b[n]) /\ RenderedScalar(b[n])
    BY ValueShape DEF Rendered, RenderedScalar
  <2>2. QED
    BY <2>1, JsShape, ValueShape, RenderedPlain DEF PlainValue
<1> HIDE DEF js, a, b
<1>2. \A m, n \in DOMAIN a : SortKey(js[m]) = SortKey(js[n]) <=> ReadScalar(a[m]) = ReadScalar(a[n])
  BY <1>1, KeysAlike
<1>3. \A m \in DOMAIN b, n \in DOMAIN a :
         SortKey(b[m]) = SortKey(js[n]) <=> ReadScalar(b[m]) = ReadScalar(a[n])
  BY <1>1, KeysAlike
<1>4. ASSUME NEW n \in DOMAIN a
      PROVE  /\ {m \in DOMAIN js : SortKey(js[m]) = SortKey(js[n])}
                  = {m \in DOMAIN a : ReadScalar(a[m]) = ReadScalar(a[n])}
             /\ {m \in DOMAIN b : SortKey(b[m]) = SortKey(js[n])}
                  = {m \in DOMAIN b : ReadScalar(b[m]) = ReadScalar(a[n])}
  BY <1>1, <1>2, <1>3
<1>5. SameBag(js, b, SortKey) <=> SameBag(a, b, ReadScalar)
  BY <1>1, <1>4 DEF SameBag
<1>6. QED
  BY <1>5 DEF js, a, b

\* A bag of one is its element.
LEMMA BagOfOne ==
  ASSUME NEW a, NEW b, DOMAIN a = {1}, DOMAIN b = {1}, Len(a) = 1, Len(b) = 1,
         IsScalar(a[1]), IsScalar(b[1]), a \in Seq(Range(a)), b \in Seq(Range(b))
  PROVE  SameBag(a, b, SortKey) <=> a = b
<1>1. a = b <=> a[1] = b[1]
  BY DEF Range
<1>2. a[1] = b[1] <=> SortKey(a[1]) = SortKey(b[1])
  <2>1. a[1] = Scalar(a[1].type, a[1].text) /\ b[1] = Scalar(b[1].type, b[1].text)
    BY DEF IsScalar
  <2>2. QED
    BY <2>1 DEF SortKey
<1> DEFINE A == {m \in {1} : SortKey(a[m]) = SortKey(a[1])}
           B == {m \in {1} : SortKey(b[m]) = SortKey(a[1])}
<1>3. /\ A = {1}
      /\ SortKey(a[1]) = SortKey(b[1]) => B = {1}
      /\ SortKey(a[1]) # SortKey(b[1]) => B = {}
  OBVIOUS
<1>4. Cardinality({1}) = 1 /\ Cardinality({}) = 0
  BY FS_Singleton, FS_EmptySet
<1>5. SameBag(a, b, SortKey) <=> Cardinality(A) = Cardinality(B)
  BY DEF SameBag
<1> HIDE DEF A, B
<1>6. /\ Cardinality(A) = 1
      /\ SortKey(a[1]) = SortKey(b[1]) => Cardinality(B) = 1
      /\ SortKey(a[1]) # SortKey(b[1]) => Cardinality(B) = 0
  BY <1>3, <1>4, Zenon
<1>7. Cardinality(A) = Cardinality(B) <=> a = b
  BY <1>1, <1>2, <1>6
<1>8. QED
  BY <1>5, <1>7

\* The port equates the values that the engine does.
LEMMA EqualAlike ==
  ASSUME NEW v, NEW w, IsValue(v), IsValue(w), PlainValue(v), Rendered(w)
  PROVE  ValuesEqual(JsValue(v), w)
            <=> v.list = w.list /\ SameBag(v.items, w.items, ReadScalar)
<1>1. CASE v.list
  BY <1>1, BagsAlike, JsShape DEF ValuesEqual
<1>2. CASE ~v.list /\ ~w.list
  <2> DEFINE js == JsValue(v).items
  <2>1. /\ js \in Seq(Range(js)) /\ w.items \in Seq(Range(w.items))
        /\ DOMAIN js = {1} /\ DOMAIN w.items = {1} /\ Len(js) = 1 /\ Len(w.items) = 1
    <3>1. w.items \in Seq(Range(w.items)) /\ DOMAIN w.items = {1} /\ Len(w.items) = 1
      <4>1. 1 .. 1 = {1}
        OBVIOUS
      <4>2. QED
        BY <1>2, <4>1, ValueShape DEF IsValue
    <3>2. DOMAIN js = 1 .. 1 /\ Len(js) = 1
      BY <1>2, ValueShape, JsShape
    <3>3. js = [n \in 1 .. 1 |-> JsScalar(v.items[n])]
      BY <1>2, ValueShape DEF JsValue, JsScalar
    <3>4. js \in Seq(Range(js))
      BY <3>3 DEF Range
    <3>5. QED
      BY <3>1, <3>2, <3>4
  <2>2. IsScalar(js[1]) /\ IsScalar(w.items[1])
    <3>1. 1 \in DOMAIN v.items /\ IsScalar(v.items[1]) /\ js[1] = JsScalar(v.items[1])
      BY <1>2, ValueShape, JsShape
    <3>2. v.items[1].type = "number" => Number[v.items[1].text] \in DOMAIN Number
      BY <3>1, MatchingAssumption DEF IsScalar, MatchingAssumption
    <3>3. QED
      BY <2>1, <3>1, <3>2, ValueShape DEF IsScalar, JsScalar, Scalar
  <2>3. SameBag(js, w.items, SortKey) <=> js = w.items
    BY <2>1, <2>2, BagOfOne
  <2>4. QED
    BY <1>2, <2>3, BagsAlike, JsShape DEF ValuesEqual
<1>3. CASE ~v.list /\ w.list
  BY <1>3, JsShape DEF ValuesEqual
<1>4. QED
  BY <1>1, <1>2, <1>3, ValueShape

-----------------------------------------------------------------------------
(* Parties *)

\* Whatever the engine compares a value with occurs there.
LEMMA BagMembers ==
  ASSUME NEW v, NEW w, IsValue(v), IsValue(w), SameBag(v.items, w.items, ReadScalar),
         NEW n \in DOMAIN v.items
  PROVE  \E m \in DOMAIN w.items : ReadScalar(w.items[m]) = ReadScalar(v.items[n])
<1> DEFINE A == {m \in DOMAIN v.items : ReadScalar(v.items[m]) = ReadScalar(v.items[n])}
           B == {m \in DOMAIN w.items : ReadScalar(w.items[m]) = ReadScalar(v.items[n])}
<1>1. Cardinality(A) = Cardinality(B)
  BY DEF SameBag
<1>2. n \in A /\ A \subseteq 1 .. Len(v.items) /\ Len(v.items) \in Nat
  BY ValueShape
<1>3. IsFiniteSet(A)
  BY <1>2, FS_Interval, FS_Subset
<1> HIDE DEF A
<1>4. Cardinality(A) # 0
  BY <1>2, <1>3, FS_EmptySet
<1> HIDE DEF B
<1>5. B # {}
  BY <1>1, <1>4, FS_EmptySet
<1>6. QED
  BY <1>5 DEF B

\* A pattern that the engine matches writes no needless point.
LEMMA EnginePlain ==
  ASSUME NEW pattern, NEW attrs, IsAttrs(pattern), IsAttrs(attrs),
         \A k \in DOMAIN attrs : Rendered(attrs[k]), EngineMatches(pattern, attrs)
  PROVE  \A k \in DOMAIN pattern : PlainValue(pattern[k])
<1> SUFFICES ASSUME NEW k \in DOMAIN pattern, NEW n \in DOMAIN pattern[k].items
             PROVE  Plain(pattern[k].items[n])
  BY DEF PlainValue
<1>1. /\ IsValue(pattern[k]) /\ k \in DOMAIN attrs /\ IsValue(attrs[k]) /\ Rendered(attrs[k])
      /\ SameBag(pattern[k].items, attrs[k].items, ReadScalar)
  BY DEF IsAttrs, EngineMatches
<1>2. PICK m \in DOMAIN attrs[k].items :
         ReadScalar(attrs[k].items[m]) = ReadScalar(pattern[k].items[n])
  BY <1>1, BagMembers
<1>3. /\ IsScalar(pattern[k].items[n]) /\ IsScalar(attrs[k].items[m])
      /\ RenderedScalar(attrs[k].items[m])
  BY <1>1, ValueShape DEF Rendered, RenderedScalar
<1>4. QED
  BY <1>2, <1>3, PointsApart

\* On a pattern without needless points the port and the engine agree.
LEMMA MatchAlike ==
  ASSUME NEW pattern, NEW attrs, IsAttrs(pattern), IsAttrs(attrs),
         \A k \in DOMAIN attrs : Rendered(attrs[k]),
         \A k \in DOMAIN pattern : PlainValue(pattern[k])
  PROVE  Matches(JsAttrs(pattern), attrs) <=> EngineMatches(pattern, attrs)
<1>1. DOMAIN JsAttrs(pattern) = DOMAIN pattern
      /\ \A k \in DOMAIN pattern : JsAttrs(pattern)[k] = JsValue(pattern[k])
  BY DEF JsAttrs
<1>2. ASSUME NEW k \in DOMAIN pattern, k \in DOMAIN attrs
      PROVE  ValuesEqual(JsValue(pattern[k]), attrs[k])
                <=> /\ pattern[k].list = attrs[k].list
                    /\ SameBag(pattern[k].items, attrs[k].items, ReadScalar)
  BY <1>2, EqualAlike DEF IsAttrs
<1>3. Matches(JsAttrs(pattern), attrs)
         <=> \A k \in DOMAIN pattern : k \in DOMAIN attrs /\ ValuesEqual(JsValue(pattern[k]), attrs[k])
  BY <1>1 DEF Matches, Has, Agrees
<1>4. QED
  BY <1>2, <1>3 DEF EngineMatches

\* The attributes of a party are those stored for the user, and its id.
LEMMA PartyShape ==
  ASSUME NEW id, NEW attrs, FromJson(attrs)
  PROVE  LET party == PartyAttrsOf(id, attrs)
         IN  IsAttrs(party) /\ \A k \in DOMAIN party : Rendered(party[k])
<1> DEFINE party == PartyAttrsOf(id, attrs)
           me    == One(Scalar("string", id))
<1>1. DOMAIN party = DOMAIN attrs \cup {"userId"}
      /\ \A k \in DOMAIN party : party[k] = IF k = "userId" THEN me ELSE attrs[k]
  BY DEF PartyAttrsOf
<1>2. IsFiniteSet(DOMAIN attrs) /\ \A k \in DOMAIN attrs : IsValue(attrs[k]) /\ Rendered(attrs[k])
  BY DEF FromJson, IsAttrs
<1>3. IsFiniteSet(DOMAIN party)
  BY <1>1, <1>2, FS_AddElement
<1>4. IsValue(me) /\ Rendered(me)
  <2>1. me = [list |-> FALSE, items |-> <<[type |-> "string", text |-> id]>>]
    BY DEF One, Scalar
  <2>2. me.items \in Seq(Range(me.items)) /\ Len(me.items) = 1
    <3> DEFINE x == [type |-> "string", text |-> id]
    <3> HIDE DEF x
    <3>1. <<x>> \in Seq({x}) /\ Len(<<x>>) = 1
      OBVIOUS
    <3>2. Range(<<x>>) = {x}
      BY DEF Range
    <3>3. <<x>> \in Seq(Range(<<x>>))
      BY <3>1, <3>2, Zenon
    <3>4. me.items = <<x>>
      BY <2>1 DEF x
    <3>5. QED
      BY <3>1, <3>3, <3>4, Zenon
  <2>3. \A n \in DOMAIN me.items : IsScalar(me.items[n]) /\ me.items[n].type = "string"
    BY <2>1 DEF IsScalar, Scalar
  <2>4. me = [list |-> me.list, items |-> me.items] /\ me.list = FALSE
    BY <2>1
  <2>5. QED
    BY <2>2, <2>3, <2>4 DEF IsValue, Rendered
<1> HIDE DEF party, me
<1>5. IsAttrs(party) /\ \A k \in DOMAIN party : Rendered(party[k])
  BY <1>1, <1>2, <1>3, <1>4 DEF IsAttrs
<1>6. QED
  BY <1>5 DEF party

\* An accepted party can be written, and is matched as the engine will match it.
LEMMA PartiesMatched ==
  ASSUME NEW id, NEW pattern, NEW attrs, IsAttrs(pattern), FromJson(attrs)
  PROVE  PartyMatched(id, pattern, attrs)
<1> SUFFICES ASSUME ValidateAttrs(attrs) = {} PROVE PartyMatched(id, pattern, attrs)
  BY DEF PartyMatched
<1> DEFINE party == PartyAttrsOf(id, attrs)
<1>1. Emits(party)
  <2>1. \A k \in DOMAIN attrs : k \notin BadNames \cup Keywords
                                /\ \A n \in DOMAIN attrs[k].items : EmitsScalar(attrs[k].items[n])
    BY DEF ValidateAttrs, BadAttr, BadScalar
  <2>2. "userId" \notin BadNames \cup Keywords
    BY MatchingAssumption DEF MatchingAssumption, Keywords
  <2>3. \A n \in DOMAIN One(Scalar("string", id)).items : EmitsScalar(One(Scalar("string", id)).items[n])
    BY DEF One, Scalar, EmitsScalar
  <2>4. QED
    BY <2>1, <2>2, <2>3 DEF Emits, PartyAttrsOf
<1>2. IsAttrs(party) /\ \A k \in DOMAIN party : Rendered(party[k])
  BY PartyShape
<1> HIDE DEF party
<1> DEFINE whole == \E k \in DOMAIN pattern : \E n \in DOMAIN pattern[k].items :
                       pattern[k].items[n].type = "number" /\ pattern[k].items[n].text \in Decimals
           PlainPattern == \A k \in DOMAIN pattern : PlainValue(pattern[k])
<1>3. ~whole <=> PlainPattern
  BY DEF PlainValue, Plain
<1>4. PlainPattern => (Matches(JsAttrs(pattern), party) <=> EngineMatches(pattern, party))
  BY <1>2, MatchAlike
<1>5. EngineMatches(pattern, party) => PlainPattern
  BY <1>2, EnginePlain
<1> HIDE DEF whole, PlainPattern
<1>6. /\ Emits(party)
      /\ ~whole => (Matches(JsAttrs(pattern), party) <=> EngineMatches(pattern, party))
      /\ EngineMatches(pattern, party) => Matches(JsAttrs(pattern), party)
  BY <1>1, <1>3, <1>4, <1>5
<1>7. QED
  BY <1>6 DEF PartyMatched, party, whole

\* An accepted pattern of a request can be written.
LEMMA PatternsWritten ==
  ASSUME NEW pattern
  PROVE  PatternWritten(pattern)
BY DEF PatternWritten, ValidatePartyPattern, BadAttr, BadScalar, Emits

-----------------------------------------------------------------------------
(* Facets *)

\* A text shown of a value is found in it, but for that of an empty collection.
LEMMA TextFound ==
  ASSUME NEW attrs, NEW k \in DOMAIN attrs, IsValue(attrs[k]), Rendered(attrs[k]), ~BadAttr(attrs, k),
         NEW text \in TextOf(attrs[k]), text # "[]"
  PROVE  WhereAttrContains(attrs, <<k, text>>)
<1> DEFINE v == attrs[k]
<1>1. PICK n \in DOMAIN v.items : v.items[n].text = text
  BY DEF TextOf
<1> DEFINE s == v.items[n]
<1>2. IsScalar(s) /\ s.type # "object" /\ (s.type = "number" => Number[text] = text)
  BY <1>1, ValueShape DEF BadAttr, BadScalar, Rendered
<1>3. s \in {Scalar("string", text)} \cup TypedProbe(text)
  <2>1. s = Scalar(s.type, text) /\ s.type \in {"string", "number", "boolean"}
    BY <1>1, <1>2 DEF IsScalar
  <2>2. CASE s.type = "string"
    BY <2>1, <2>2
  <2>3. CASE s.type = "boolean"
    BY <1>1, <1>2, <2>1, <2>3 DEF IsScalar, TypedProbe
  <2>4. CASE s.type = "number"
    <3>1. text \in DOMAIN Number /\ text \notin {"true", "false"}
      BY <1>1, <1>2, <2>4, MatchingAssumption DEF IsScalar, MatchingAssumption
    <3>2. QED
      BY <1>2, <2>1, <2>4, <3>1 DEF TypedProbe
  <2>5. QED
    BY <2>1, <2>2, <2>3, <2>4
<1>4. One(s) \in AttrProbes(text) /\ List(<<s>>) \in AttrProbes(text)
  BY <1>3 DEF AttrProbes
<1>5. s \in Range(v.items)
  BY <1>1 DEF Range
<1> HIDE DEF s
<1>6. Range(<<s>>) = {s}
  BY DEF Range
<1>7. \E probe \in AttrProbes(text) : JsonbContains(v, probe)
  <2>1. CASE v.list
    <3>1. List(<<s>>).list = TRUE /\ List(<<s>>).items = <<s>>
      BY DEF List
    <3>2. v.list = TRUE
      BY <2>1, ValueShape
    <3>3. JsonbContains(v, List(<<s>>))
      BY <1>5, <1>6, <3>1, <3>2 DEF JsonbContains
    <3>4. QED
      BY <1>4, <3>3
  <2>2. CASE ~v.list
    <3>1. One(s).list = FALSE /\ One(s).items = <<s>>
      BY DEF One
    <3>2. QED
      BY <1>4, <1>5, <1>6, <2>2, <3>1, ValueShape DEF JsonbContains
  <2>3. QED
    BY <2>1, <2>2
<1>8. QED
  BY <1>7 DEF WhereAttrContains

\* A chip finds what it counts.
LEMMA FacetsFound ==
  ASSUME NEW corpus, NEW exclude, NEW chips,
         \A r \in corpus : FromJson(r.attrs) /\ \A k \in DOMAIN r.attrs \ Reserved : ~BadAttr(r.attrs, k)
  PROVE  FacetsAgree(corpus, exclude, chips)
<1>1. ASSUME NEW r \in corpus, NEW k \in DOMAIN r.attrs \ Reserved, NEW text \in TextOf(r.attrs[k]),
             text # "[]", r \in Filtered(corpus, exclude, chips)
      PROVE  r \in Filtered(corpus, exclude, chips \cup {<<k, text>>})
  <2>1. WhereAttrContains(r.attrs, <<k, text>>)
    BY <1>1, TextFound DEF FromJson, IsAttrs
  <2>2. QED
    BY <1>1, <2>1 DEF Filtered
<1>2. ASSUME NEW chip \in Facets(corpus, exclude, chips)
      PROVE  \/ Listed(corpus, exclude, chips \cup {chip}) # {}
             \/ \E r \in corpus : chip[1] \in DOMAIN r.attrs /\ (r.owner = "nobody" \/ chip[2] = "[]")
  <2>1. PICK r \in Filtered(corpus, exclude, chips) : \E k \in DOMAIN r.attrs \ Reserved :
           chip \in {k} \X TextOf(r.attrs[k])
    BY DEF Facets
  <2>2. PICK k \in DOMAIN r.attrs \ Reserved : chip \in {k} \X TextOf(r.attrs[k])
    BY <2>1
  <2>3. chip = <<k, chip[2]>> /\ chip[1] = k /\ chip[2] \in TextOf(r.attrs[k]) /\ r \in corpus
    <3>1. PICK text \in TextOf(r.attrs[k]) : chip = <<k, text>>
      BY <2>2
    <3>2. r \in corpus
      BY DEF Filtered
    <3>3. QED
      BY <3>1, <3>2
  <2>4. CASE r.owner = "nobody" \/ chip[2] = "[]"
    BY <2>3, <2>4
  <2>5. CASE r.owner # "nobody" /\ chip[2] # "[]"
    <3>1. r \in Filtered(corpus, exclude, chips \cup {chip})
      BY <1>1, <2>1, <2>3, <2>5
    <3>2. QED
      BY <2>5, <3>1 DEF Listed
  <2>6. QED
    BY <2>4, <2>5
<1>3. ASSUME NEW r \in Listed(corpus, exclude, chips), NEW k \in DOMAIN r.attrs \ Reserved,
             NEW text \in TextOf(r.attrs[k])
      PROVE  /\ <<k, text>> \in Facets(corpus, exclude, chips)
             /\ text # "[]" => r \in Listed(corpus, exclude, chips \cup {<<k, text>>})
  <2>1. r \in Filtered(corpus, exclude, chips) /\ r \in corpus /\ r.owner # "nobody"
    BY DEF Listed, Filtered
  <2>2. <<k, text>> \in {k} \X TextOf(r.attrs[k])
    OBVIOUS
  <2>3. <<k, text>> \in Facets(corpus, exclude, chips)
    BY <2>1, <2>2 DEF Facets
  <2>4. text # "[]" => r \in Listed(corpus, exclude, chips \cup {<<k, text>>})
    BY <1>1, <2>1 DEF Listed
  <2>5. QED
    BY <2>3, <2>4
<1>4. QED
  BY <1>2, <1>3 DEF FacetsAgree

-----------------------------------------------------------------------------
(* Coverage: one row                                                       *)

IsRow(r, pattern) == FromJson(r.attrs) /\ FromJson(pattern) /\ r.id \in Int

Agreeing(r, pattern) == {k \in DOMAIN r.attrs : Agrees(pattern, k, r.attrs[k])}

\* A value that JSON rendered is sent back as it is.
LEMMA RenderedSame ==
  ASSUME NEW v, IsValue(v), Rendered(v)
  PROVE  JsValue(v) = v /\ PlainValue(v)
<1>1. \A n \in DOMAIN v.items : JsScalar(v.items[n]) = v.items[n] /\ Plain(v.items[n])
  BY ValueShape, RenderedPlain DEF Rendered, RenderedScalar
<1>2. JsValue(v) = [list |-> v.list, items |-> [n \in DOMAIN v.items |-> JsScalar(v.items[n])]]
  <2>1. v = [list |-> v.list, items |-> v.items]
    BY ValueShape
  <2>2. QED
    BY <2>1 DEF JsValue, JsScalar
<1>3. v.items = [n \in DOMAIN v.items |-> v.items[n]]
  BY DEF IsValue
<1>4. [n \in DOMAIN v.items |-> JsScalar(v.items[n])] = v.items
  BY <1>1, <1>3
<1>5. JsValue(v) = v
  BY <1>2, <1>4, ValueShape
<1>6. QED
  BY <1>1, <1>5 DEF PlainValue

\* The keys that agree are those the engine would match.
LEMMA AgreedAlike ==
  ASSUME NEW rows, NEW pattern, NEW n \in DOMAIN rows, IsRow(rows[n], pattern)
  PROVE  Agreeing(rows[n], pattern) = Agreed(rows, pattern, n)
<1> DEFINE attrs == rows[n].attrs
<1>1. ASSUME NEW k \in DOMAIN attrs
      PROVE  Agrees(pattern, k, attrs[k])
                <=> k \in DOMAIN pattern /\ EngineMatches([j \in {k} |-> attrs[j]], pattern)
  <2>1. CASE k \notin DOMAIN pattern
    BY <2>1 DEF Agrees
  <2>2. CASE k \in DOMAIN pattern
    <3>1. IsValue(attrs[k]) /\ Rendered(attrs[k]) /\ IsValue(pattern[k]) /\ Rendered(pattern[k])
      BY <2>2 DEF IsRow, FromJson, IsAttrs
    <3>2. ValuesEqual(attrs[k], pattern[k])
             <=> attrs[k].list = pattern[k].list /\ SameBag(attrs[k].items, pattern[k].items, ReadScalar)
      BY <3>1, RenderedSame, EqualAlike
    <3> DEFINE single == [j \in {k} |-> attrs[j]]
    <3>3. DOMAIN single = {k} /\ single[k] = attrs[k]
      OBVIOUS
    <3> HIDE DEF single
    <3>4. EngineMatches(single, pattern)
             <=> attrs[k].list = pattern[k].list /\ SameBag(attrs[k].items, pattern[k].items, ReadScalar)
      BY <2>2, <3>3 DEF EngineMatches
    <3>5. QED
      BY <2>2, <3>2, <3>4 DEF Agrees, single
  <2>3. QED
    BY <2>1, <2>2
<1>2. QED
  BY <1>1 DEF Agreeing, Agreed, Named, KeysOf

\* What is told of a row, and its numbers.
LEMMA GapShape ==
  ASSUME NEW r, NEW pattern, IsRow(r, pattern)
  PROVE  LET c     == GapAgainst(r, pattern)
             named == {k \in DOMAIN r.attrs : Has(pattern, k)}
         IN  /\ c.missing = DOMAIN r.attrs \ named
             /\ c.conflicting = named \ Agreeing(r, pattern)
             /\ c.overlap = Cardinality(named)
             /\ c.agreeing = Cardinality(Agreeing(r, pattern))
             /\ c.blocking = Cardinality(DOMAIN r.attrs \ Agreeing(r, pattern))
             /\ c.id = r.id
             /\ c.overlap \in Nat /\ c.agreeing \in Nat /\ c.blocking \in Nat /\ c.id \in Int
             /\ c.blocking = 0 <=> Agreeing(r, pattern) = DOMAIN r.attrs
<1> DEFINE c        == GapAgainst(r, pattern)
           named    == {k \in DOMAIN r.attrs : Has(pattern, k)}
           agreeing == Agreeing(r, pattern)
           blocked  == DOMAIN r.attrs \ agreeing
<1>1. {k \in named : Agrees(pattern, k, r.attrs[k])} = agreeing
  BY DEF Agreeing, Has, Agrees
<1>2. c = [missing |-> DOMAIN r.attrs \ named, conflicting |-> named \ agreeing,
           agreeing |-> Cardinality(agreeing), overlap |-> Cardinality(named),
           blocking |-> Cardinality(blocked), id |-> r.id]
  BY <1>1, Zenon DEF GapAgainst
<1>3. IsFiniteSet(DOMAIN r.attrs) /\ r.id \in Int
  BY DEF IsRow, FromJson, IsAttrs
<1>4. /\ named \subseteq DOMAIN r.attrs /\ agreeing \subseteq DOMAIN r.attrs
      /\ blocked \subseteq DOMAIN r.attrs
      /\ blocked = {} <=> agreeing = DOMAIN r.attrs
  BY DEF Agreeing
<1> HIDE DEF c, named, agreeing, blocked
<1>5. /\ Cardinality(named) \in Nat /\ Cardinality(agreeing) \in Nat /\ Cardinality(blocked) \in Nat
      /\ Cardinality(blocked) = 0 <=> blocked = {}
  BY <1>3, <1>4, FS_Subset, FS_CardinalityType, FS_EmptySet
<1>6. /\ c.missing = DOMAIN r.attrs \ named /\ c.conflicting = named \ agreeing
      /\ c.overlap = Cardinality(named) /\ c.agreeing = Cardinality(agreeing)
      /\ c.blocking = Cardinality(blocked) /\ c.id = r.id
  BY <1>2
<1>7. QED
  BY <1>3, <1>4, <1>5, <1>6 DEF c, named, agreeing, blocked

-----------------------------------------------------------------------------
(* Coverage: the nearest row                                               *)

IsGap(c) == c.overlap \in Nat /\ c.agreeing \in Nat /\ c.blocking \in Nat /\ c.id \in Int

\* Of two rows one is the better, and the better of the better is better.
LEMMA BetterOrders ==
  ASSUME NEW c, NEW d, NEW e, IsGap(c), IsGap(d), IsGap(e)
  PROVE  /\ c.id # d.id => Better(c, d) \/ Better(d, c)
         /\ Better(c, d) /\ Better(d, e) => Better(c, e)
BY DEF IsGap, Better

\* The loop's body: the best after row n, given the best before it.
Considered(rows, pattern, sofar, n) ==
    LET c == GapAgainst(rows[n], pattern)
    IN  IF c.blocking = 0 THEN sofar
        ELSE IF sofar = <<>> \/ Better(c, sofar[1]) THEN <<c>> ELSE sofar

Loops(rows, pattern, best, m) ==
    best = [n \in 0 .. m |-> IF n = 0 THEN <<>> ELSE Considered(rows, pattern, best[n - 1], n)]

\* The loop can be run to any length.
LEMMA LoopRuns ==
  ASSUME NEW rows, NEW pattern, NEW m \in Nat
  PROVE  \E best : Loops(rows, pattern, best, m)
<1> DEFINE G == {k \in Nat : \E best : Loops(rows, pattern, best, k)}
<1>1. 0 \in G
  <2>1. Loops(rows, pattern, [n \in 0 .. 0 |-> <<>>], 0)
    BY DEF Loops
  <2>2. QED
    BY <2>1
<1>2. ASSUME NEW k \in G PROVE k + 1 \in G
  <2>1. k \in Nat /\ k + 1 \in Nat
    OBVIOUS
  <2>2. PICK best : Loops(rows, pattern, best, k)
    OBVIOUS
  <2> DEFINE more == [n \in 0 .. k + 1 |-> IF n = k + 1 THEN Considered(rows, pattern, best[k], k + 1)
                                           ELSE best[n]]
  <2>3. /\ DOMAIN more = 0 .. k + 1
        /\ more[k + 1] = Considered(rows, pattern, best[k], k + 1)
        /\ \A n \in 0 .. k : more[n] = best[n]
    BY <2>1
  <2>4. \A n \in 0 .. k : best[n] = IF n = 0 THEN <<>> ELSE Considered(rows, pattern, best[n - 1], n)
    BY <2>2 DEF Loops
  <2>5. ASSUME NEW n \in 0 .. k + 1
        PROVE  more[n] = IF n = 0 THEN <<>> ELSE Considered(rows, pattern, more[n - 1], n)
    <3> HIDE DEF more
    <3>1. CASE n = k + 1
      <4>1. n - 1 = k /\ k \in 0 .. k /\ n # 0
        BY <2>1, <3>1
      <4>2. QED
        BY <2>3, <3>1, <4>1
    <3>2. CASE n = 0
      <4>1. 0 \in 0 .. k
        BY <2>1
      <4>2. QED
        BY <2>3, <2>4, <3>2, <4>1
    <3>3. CASE n # k + 1 /\ n # 0
      <4>1. n \in 0 .. k /\ n - 1 \in 0 .. k
        BY <2>1, <3>3
      <4>2. QED
        BY <2>3, <2>4, <3>3, <4>1
    <3>4. QED
      BY <3>1, <3>2, <3>3
  <2>6. more = [n \in 0 .. k + 1 |-> more[n]]
    OBVIOUS
  <2> HIDE DEF more
  <2>7. Loops(rows, pattern, more, k + 1)
    BY <2>5, <2>6 DEF Loops
  <2>8. QED
    BY <2>1, <2>7
<1>3. G = Nat
  <2>1. G \in SUBSET Nat
    OBVIOUS
  <2> HIDE DEF G
  <2>2. QED
    BY <1>1, <1>2, <2>1, InductiveSet
<1>4. QED
  BY <1>3

LEMMA NearestLoops ==
  ASSUME NEW rows, NEW pattern, Len(rows) \in Nat
  PROVE  \E best : Loops(rows, pattern, best, Len(rows)) /\ NearestGap(rows, pattern) = best[Len(rows)]
<1> DEFINE f == CHOOSE best : best = [n \in 0 .. Len(rows) |->
                   LET sofar == best[n - 1]
                       c     == GapAgainst(rows[n], pattern)
                   IN  IF n = 0 THEN <<>>
                       ELSE IF c.blocking = 0 THEN sofar
                       ELSE IF sofar = <<>> \/ Better(c, sofar[1]) THEN <<c>> ELSE sofar]
<1>1. \E best : Loops(rows, pattern, best, Len(rows))
  BY LoopRuns
<1>2. Loops(rows, pattern, f, Len(rows))
  BY <1>1 DEF Loops, Considered
<1>3. NearestGap(rows, pattern) = f[Len(rows)]
  BY DEF NearestGap
<1>4. QED
  BY <1>2, <1>3

IsRows(rows, pattern) ==
    /\ Len(rows) \in Nat /\ DOMAIN rows = 1 .. Len(rows)
    /\ \A n \in DOMAIN rows : IsRow(rows[n], pattern)
    /\ \A m, n \in DOMAIN rows : rows[m].id = rows[n].id => m = n

Gap(rows, pattern, n) == GapAgainst(rows[n], pattern)

\* After row n the best is the gap of an open row up to n, better than all others there.
BestSoFar(rows, pattern, b, n) ==
    \/ b = <<>> /\ \A o \in Open(rows, pattern) : o > n
    \/ \E m \in Open(rows, pattern) :
          /\ m <= n /\ b = <<Gap(rows, pattern, m)>>
          /\ \A o \in Open(rows, pattern) \ {m} :
                o <= n => Better(Gap(rows, pattern, m), Gap(rows, pattern, o))

\* Rows are gaps with ids of their own, and the open ones are those blocked.
LEMMA RowGaps ==
  ASSUME NEW rows, NEW pattern, IsRows(rows, pattern)
  PROVE  /\ \A n \in DOMAIN rows : IsGap(Gap(rows, pattern, n))
         /\ \A n \in DOMAIN rows : n \in Open(rows, pattern) <=> Gap(rows, pattern, n).blocking # 0
         /\ \A m, n \in DOMAIN rows : m # n => Gap(rows, pattern, m).id # Gap(rows, pattern, n).id
<1>1. ASSUME NEW n \in DOMAIN rows
      PROVE  /\ IsGap(Gap(rows, pattern, n)) /\ Gap(rows, pattern, n).id = rows[n].id
             /\ Gap(rows, pattern, n).blocking = 0 <=> Agreed(rows, pattern, n) = DOMAIN rows[n].attrs
  <2>1. IsRow(rows[n], pattern)
    BY DEF IsRows
  <2>2. Agreeing(rows[n], pattern) = Agreed(rows, pattern, n)
    BY <2>1, AgreedAlike
  <2> DEFINE c == GapAgainst(rows[n], pattern)
  <2>3. /\ c.overlap \in Nat /\ c.agreeing \in Nat /\ c.blocking \in Nat /\ c.id \in Int
        /\ c.id = rows[n].id
        /\ c.blocking = 0 <=> Agreeing(rows[n], pattern) = DOMAIN rows[n].attrs
    BY <2>1, GapShape
  <2>4. QED
    BY <2>2, <2>3 DEF IsGap, Gap
<1>2. QED
  BY <1>1 DEF Open, KeysOf, IsRows

LEMMA BestKept ==
  ASSUME NEW rows, NEW pattern, IsRows(rows, pattern), NEW n \in DOMAIN rows, NEW b,
         BestSoFar(rows, pattern, b, n - 1)
  PROVE  BestSoFar(rows, pattern, Considered(rows, pattern, b, n), n)
<1> DEFINE open   == Open(rows, pattern)
           gap(o) == Gap(rows, pattern, o)
           after  == Considered(rows, pattern, b, n)
<1>1. n \in Int /\ open \subseteq DOMAIN rows /\ \A o \in open : o \in Int
  BY DEF Open, IsRows
<1>2. /\ \A o \in DOMAIN rows : IsGap(gap(o))
      /\ n \in open <=> gap(n).blocking # 0
      /\ \A o \in open : o # n => gap(o).id # gap(n).id
  BY <1>1, RowGaps
<1>3. /\ \A o \in open : o > n - 1 => o = n \/ o > n
      /\ \A o \in open : o <= n => o = n \/ o <= n - 1
      /\ \A o \in open : o <= n - 1 => o <= n /\ o # n
  BY <1>1
<1>4. after = IF gap(n).blocking = 0 THEN b
              ELSE IF b = <<>> \/ Better(gap(n), b[1]) THEN <<gap(n)>> ELSE b
  BY DEF Considered, Gap
<1> HIDE DEF open, gap, after
<1> DEFINE Kept == \/ after = <<>> /\ \A o \in open : o > n
                   \/ \E m \in open : /\ m <= n /\ after = <<gap(m)>>
                                      /\ \A o \in open \ {m} : o <= n => Better(gap(m), gap(o))
<1>5. \/ b = <<>> /\ \A o \in open : o > n - 1
      \/ \E m \in open : /\ m <= n - 1 /\ b = <<gap(m)>>
                         /\ \A o \in open \ {m} : o <= n - 1 => Better(gap(m), gap(o))
  BY DEF BestSoFar, open, gap
<1>6. CASE n \notin open
  <2>1. after = b
    BY <1>2, <1>4, <1>6
  <2>2. Kept
    BY <1>3, <1>5, <1>6, <2>1
  <2>3. QED
    BY <2>2 DEF BestSoFar, open, gap, after
<1>7. CASE n \in open /\ b = <<>> /\ \A o \in open : o > n - 1
  <2>1. after = <<gap(n)>>
    BY <1>2, <1>4, <1>7
  <2>2. \A o \in open \ {n} : ~ (o <= n)
    BY <1>1, <1>3, <1>7
  <2>3. Kept
    BY <1>1, <1>7, <2>1, <2>2
  <2>4. QED
    BY <2>3 DEF BestSoFar, open, gap, after
<1>8. CASE n \in open /\ \E m \in open : /\ m <= n - 1 /\ b = <<gap(m)>>
                                       /\ \A o \in open \ {m} : o <= n - 1 => Better(gap(m), gap(o))
  <2>1. PICK m \in open : /\ m <= n - 1 /\ b = <<gap(m)>>
                          /\ \A o \in open \ {m} : o <= n - 1 => Better(gap(m), gap(o))
    BY <1>8
  <2>2. b # <<>> /\ b[1] = gap(m) /\ m # n /\ m <= n /\ n <= n
    BY <1>1, <2>1
  <2>3. IsGap(gap(m)) /\ IsGap(gap(n)) /\ gap(m).id # gap(n).id /\ \A o \in open : IsGap(gap(o))
    BY <1>1, <1>2, <2>2
  <2>4. CASE Better(gap(n), gap(m))
    <3>1. after = <<gap(n)>>
      BY <1>2, <1>4, <1>8, <2>2, <2>4
    <3>2. ASSUME NEW o \in open \ {n}, o <= n PROVE Better(gap(n), gap(o))
      <4>1. o = m \/ Better(gap(m), gap(o))
        BY <1>3, <2>1, <3>2
      <4>2. QED
        BY <2>3, <2>4, <4>1, BetterOrders
    <3>3. Kept
      BY <1>8, <2>2, <3>1, <3>2
    <3>4. QED
      BY <3>3 DEF BestSoFar, open, gap, after
  <2>5. CASE ~Better(gap(n), gap(m))
    <3>1. after = <<gap(m)>>
      BY <1>2, <1>4, <1>8, <2>1, <2>2, <2>5
    <3>2. ASSUME NEW o \in open \ {m}, o <= n PROVE Better(gap(m), gap(o))
      <4>1. CASE o = n
        BY <2>3, <2>5, <4>1, BetterOrders
      <4>2. CASE o # n
        BY <1>3, <2>1, <3>2, <4>2
      <4>3. QED
        BY <4>1, <4>2
    <3>3. Kept
      BY <2>2, <3>1, <3>2
    <3>4. QED
      BY <3>3 DEF BestSoFar, open, gap, after
  <2>6. QED
    BY <2>4, <2>5
<1>9. QED
  BY <1>5, <1>6, <1>7, <1>8

\* The nearest gap is that of the open row which is better than all others.
LEMMA NearestBest ==
  ASSUME NEW rows, NEW pattern, IsRows(rows, pattern)
  PROVE  BestSoFar(rows, pattern, NearestGap(rows, pattern), Len(rows))
<1>1. Len(rows) \in Nat /\ DOMAIN rows = 1 .. Len(rows)
  BY DEF IsRows
<1>2. PICK best : Loops(rows, pattern, best, Len(rows)) /\ NearestGap(rows, pattern) = best[Len(rows)]
  BY <1>1, NearestLoops
<1> DEFINE G == {n \in Nat : n <= Len(rows) => BestSoFar(rows, pattern, best[n], n)}
<1>3. \A n \in 0 .. Len(rows) :
         best[n] = IF n = 0 THEN <<>> ELSE Considered(rows, pattern, best[n - 1], n)
  BY <1>2 DEF Loops
<1>4. 0 \in G
  <2>1. 0 \in 0 .. Len(rows) /\ best[0] = <<>>
    BY <1>1, <1>3
  <2>2. \A o \in Open(rows, pattern) : o > 0
    BY <1>1 DEF Open
  <2>3. QED
    BY <2>1, <2>2 DEF BestSoFar
<1>5. ASSUME NEW n \in G PROVE n + 1 \in G
  <2>1. CASE n + 1 <= Len(rows)
    <3>1. /\ n \in Nat /\ n + 1 \in Nat /\ n + 1 \in DOMAIN rows /\ n + 1 \in 0 .. Len(rows)
          /\ n + 1 # 0 /\ (n + 1) - 1 = n /\ n <= Len(rows)
      BY <1>1, <2>1
    <3>2. BestSoFar(rows, pattern, best[n], n)
      BY <1>5, <3>1
    <3>3. best[n + 1] = Considered(rows, pattern, best[n], n + 1)
      BY <1>3, <3>1
    <3>4. BestSoFar(rows, pattern, best[n + 1], n + 1)
      <4>1. BestSoFar(rows, pattern, best[n], (n + 1) - 1)
        BY <3>1, <3>2
      <4>2. QED
        BY <3>1, <3>3, <4>1, BestKept
    <3>5. QED
      BY <3>1, <3>4
  <2>2. QED
    BY <2>1
<1>6. G = Nat
  <2>1. G \in SUBSET Nat
    OBVIOUS
  <2> HIDE DEF G
  <2>2. QED
    BY <1>4, <1>5, <2>1, InductiveSet
<1>7. QED
  BY <1>1, <1>2, <1>6

Told(rows, pattern, n) ==
    LET c == Gap(rows, pattern, n)
    IN  /\ c.missing = KeysOf(rows, n) \ DOMAIN pattern
        /\ c.conflicting = Named(rows, pattern, n) \ Agreed(rows, pattern, n)
        /\ c.overlap = Cardinality(Named(rows, pattern, n))
        /\ c.agreeing = Cardinality(Agreed(rows, pattern, n))
        /\ c.blocking = Cardinality(KeysOf(rows, n) \ Agreed(rows, pattern, n))
        /\ c.id = rows[n].id

\* Without inherited keys the gap tells the engine's reading of its row.
LEMMA GapTold ==
  ASSUME NEW rows, NEW pattern, IsRows(rows, pattern), NEW n \in DOMAIN rows,
         KeysOf(rows, n) \cap Inherited = {}
  PROVE  Told(rows, pattern, n)
<1> DEFINE r == rows[n]
           c == GapAgainst(r, pattern)
           named == {k \in DOMAIN r.attrs : Has(pattern, k)}
<1>1. IsRow(r, pattern)
  BY DEF IsRows
<1>2. Agreeing(r, pattern) = Agreed(rows, pattern, n)
  BY <1>1, AgreedAlike
<1>3. named = Named(rows, pattern, n) /\ DOMAIN r.attrs \ named = KeysOf(rows, n) \ DOMAIN pattern
  BY DEF Has, Named, KeysOf
<1>4. /\ c.missing = DOMAIN r.attrs \ named
      /\ c.conflicting = named \ Agreeing(r, pattern)
      /\ c.overlap = Cardinality(named)
      /\ c.agreeing = Cardinality(Agreeing(r, pattern))
      /\ c.blocking = Cardinality(DOMAIN r.attrs \ Agreeing(r, pattern))
      /\ c.id = r.id
  <2> HIDE DEF r
  <2>1. QED
    BY <1>1, GapShape, Zenon
<1>5. c = Gap(rows, pattern, n) /\ DOMAIN r.attrs = KeysOf(rows, n)
  BY DEF Gap, KeysOf
<1> HIDE DEF r, c, named
<1>6. /\ c.missing = KeysOf(rows, n) \ DOMAIN pattern
      /\ c.conflicting = Named(rows, pattern, n) \ Agreed(rows, pattern, n)
      /\ c.overlap = Cardinality(Named(rows, pattern, n))
      /\ c.agreeing = Cardinality(Agreed(rows, pattern, n))
      /\ c.blocking = Cardinality(KeysOf(rows, n) \ Agreed(rows, pattern, n))
      /\ c.id = r.id
  BY <1>2, <1>3, <1>4, <1>5
<1>7. QED
  BY <1>5, <1>6 DEF r, Told

\* Better by the loop is before by the four criteria.
LEMMA BetterBefore ==
  ASSUME NEW c, NEW d, IsGap(c), IsGap(d), Better(c, d)
  PROVE  Before(<<-c.overlap, -c.agreeing, c.blocking, c.id>>, <<-d.overlap, -d.agreeing, d.blocking, d.id>>)
<1> DEFINE r == <<-c.overlap, -c.agreeing, c.blocking, c.id>>
           s == <<-d.overlap, -d.agreeing, d.blocking, d.id>>
<1>1. /\ r[1] = -c.overlap /\ r[2] = -c.agreeing /\ r[3] = c.blocking /\ r[4] = c.id
      /\ s[1] = -d.overlap /\ s[2] = -d.agreeing /\ s[3] = d.blocking /\ s[4] = d.id
  OBVIOUS
<1> HIDE DEF r, s
<1>2. \/ r[1] < s[1]
      \/ r[1] = s[1] /\ r[2] < s[2]
      \/ r[1] = s[1] /\ r[2] = s[2] /\ r[3] < s[3]
      \/ r[1] = s[1] /\ r[2] = s[2] /\ r[3] = s[3] /\ r[4] < s[4]
  BY <1>1 DEF IsGap, Better
<1>3. /\ 1 .. 4 = {1, 2, 3, 4}
      /\ 1 .. (1 - 1) = {} /\ 1 .. (2 - 1) = {1} /\ 1 .. (3 - 1) = {1, 2} /\ 1 .. (4 - 1) = {1, 2, 3}
  OBVIOUS
<1>4. \E n \in 1 .. 4 : r[n] < s[n] /\ \A o \in 1 .. (n - 1) : r[o] = s[o]
  <2>1. CASE r[1] < s[1]
    BY <1>3, <2>1
  <2>2. CASE r[1] = s[1] /\ r[2] < s[2]
    BY <1>3, <2>2
  <2>3. CASE r[1] = s[1] /\ r[2] = s[2] /\ r[3] < s[3]
    BY <1>3, <2>3
  <2>4. CASE r[1] = s[1] /\ r[2] = s[2] /\ r[3] = s[3] /\ r[4] < s[4]
    BY <1>3, <2>4
  <2>5. QED
    BY <1>2, <2>1, <2>2, <2>3, <2>4
<1>5. QED
  BY <1>4 DEF Before, r, s

\* A rule covers the rows the engine would match entirely.
LEMMA CoveredAlike ==
  ASSUME NEW rows, NEW pattern, IsRows(rows, pattern)
  PROVE  {n \in DOMAIN rows : Matches(rows[n].attrs, pattern)} = DOMAIN rows \ Open(rows, pattern)
<1>1. ASSUME NEW n \in DOMAIN rows
      PROVE  Matches(rows[n].attrs, pattern) <=> n \notin Open(rows, pattern)
  <2>1. IsRow(rows[n], pattern)
    BY DEF IsRows
  <2>2. Agreeing(rows[n], pattern) = Agreed(rows, pattern, n)
    BY <2>1, AgreedAlike
  <2>3. Matches(rows[n].attrs, pattern) <=> Agreeing(rows[n], pattern) = DOMAIN rows[n].attrs
    BY DEF Matches, Agreeing, Has, Agrees
  <2>4. QED
    BY <2>2, <2>3 DEF Open, KeysOf
<1>2. QED
  BY <1>1

\* The coverage answer is the one the engine would give.
LEMMA CoverageTrue ==
  ASSUME NEW rows, NEW pattern, IsRows(rows, pattern)
  PROVE  CoverageTold(rows, pattern)
<1> DEFINE covered == {n \in DOMAIN rows : Matches(rows[n].attrs, pattern)}
           open    == Open(rows, pattern)
           nearest == IF covered = {} THEN NearestGap(rows, pattern) ELSE <<>>
           answer  == RuleCoverage(rows, pattern)
<1>1. answer.count = Cardinality(covered) /\ answer.nearest = nearest
  BY DEF RuleCoverage
<1>2. Len(rows) \in Nat /\ DOMAIN rows = 1 .. Len(rows) /\ open \subseteq DOMAIN rows
  BY DEF IsRows, Open
<1>3. covered = DOMAIN rows \ open
  BY CoveredAlike
<1>4. BestSoFar(rows, pattern, NearestGap(rows, pattern), Len(rows))
  BY NearestBest
<1> HIDE DEF covered, open, nearest, answer
<1>5. /\ IsFiniteSet(DOMAIN rows) /\ Cardinality(DOMAIN rows) = Len(rows)
      /\ IsFiniteSet(covered) /\ Cardinality(covered) \in Nat
      /\ Cardinality(covered) = 0 <=> covered = {}
  <2>1. 1 \in Int /\ Len(rows) \in Int
    BY <1>2
  <2>2. IsFiniteSet(1 .. Len(rows)) /\ Cardinality(1 .. Len(rows)) = Len(rows)
    BY <1>2, <2>1, FS_Interval
  <2>3. IsFiniteSet(covered)
    BY <1>2, <1>3, <2>2, FS_Subset
  <2>4. QED
    BY <1>2, <2>2, <2>3, FS_CardinalityType, FS_EmptySet
<1>6. Cardinality(covered) = Len(rows) - Cardinality(open)
  <2>1. DOMAIN rows \cap open = open
    BY <1>2
  <2>2. Cardinality(DOMAIN rows \ open) = Cardinality(DOMAIN rows) - Cardinality(DOMAIN rows \cap open)
    BY <1>5, FS_Difference
  <2>3. QED
    BY <1>3, <1>5, <2>1, <2>2
<1>7. CASE covered # {}
  <2>1. nearest = <<>> /\ answer.count > 0
    BY <1>1, <1>5, <1>7 DEF nearest
  <2>2. QED
    BY <1>1, <1>6, <2>1 DEF CoverageTold, answer, open
<1>8. CASE covered = {}
  <2>1. open = DOMAIN rows /\ nearest = NearestGap(rows, pattern) /\ answer.count = 0
    BY <1>1, <1>2, <1>3, <1>5, <1>8 DEF nearest
  <2>2. CASE nearest = <<>>
    <3>1. \A o \in open : o > Len(rows)
      BY <1>4, <2>1, <2>2 DEF BestSoFar, open
    <3>2. DOMAIN rows = {} /\ rows = <<>>
      BY <1>2, <2>1, <3>1
    <3>3. QED
      BY <1>1, <1>6, <2>2, <3>2 DEF CoverageTold, answer, open
  <2>3. CASE nearest # <<>>
    <3>1. PICK m \in open :
             /\ nearest = <<Gap(rows, pattern, m)>>
             /\ \A o \in open \ {m} :
                   o <= Len(rows) => Better(Gap(rows, pattern, m), Gap(rows, pattern, o))
      BY <1>4, <2>1, <2>3 DEF BestSoFar, open
    <3>2. m \in DOMAIN rows /\ rows # <<>> /\ nearest[1] = Gap(rows, pattern, m)
      BY <2>1, <3>1
    <3>3. ASSUME \A n \in DOMAIN rows : KeysOf(rows, n) \cap Inherited = {}
          PROVE  /\ nearest[1].missing = KeysOf(rows, m) \ DOMAIN pattern
                 /\ nearest[1].conflicting = Named(rows, pattern, m) \ Agreed(rows, pattern, m)
                 /\ \A o \in open \ {m} : Before(Rank(rows, pattern, m), Rank(rows, pattern, o))
      <4>1. ASSUME NEW o \in open \ {m} PROVE Before(Rank(rows, pattern, m), Rank(rows, pattern, o))
        <5>1. o \in DOMAIN rows /\ Better(Gap(rows, pattern, m), Gap(rows, pattern, o))
          BY <1>2, <3>1
        <5>2. IsGap(Gap(rows, pattern, m)) /\ IsGap(Gap(rows, pattern, o))
          BY <3>2, <5>1, RowGaps
        <5>3. ASSUME NEW n \in DOMAIN rows
              PROVE  LET c == Gap(rows, pattern, n)
                     IN  Rank(rows, pattern, n) = <<-c.overlap, -c.agreeing, c.blocking, c.id>>
          <6>1. Told(rows, pattern, n)
            BY <3>3, GapTold
          <6>2. QED
            BY <6>1 DEF Told, Rank
        <5>4. QED
          BY <3>2, <5>1, <5>2, <5>3, BetterBefore
      <4>2. Told(rows, pattern, m)
        BY <3>2, <3>3, GapTold
      <4>3. QED
        BY <3>2, <4>1, <4>2 DEF Told
    <3>4. QED
      BY <1>1, <1>6, <2>1, <2>3, <3>2, <3>3 DEF CoverageTold, answer, open
  <2>4. QED
    BY <2>2, <2>3
<1>9. QED
  BY <1>7, <1>8

-----------------------------------------------------------------------------
(* Conditions: one part                                                    *)

\* What a part comes to beside what it could come to: it is the only answer, unless
\* the part is in error.
Faithful(v, vs) ==
    /\ ~IsError(v) => vs = {v}
    /\ vs # {} /\ IsTyped(v) /\ \A w \in vs : IsTyped(w)

LEMMA TruthValues ==
  /\ \A b : Bool(b) \in Whims
  /\ \A v \in Whims : v.type = "Boolean" /\ ~IsError(v) /\ IsTyped(v)
  /\ \A v \in Whims : v.payload = 0 \/ v.payload = 1
  /\ \A v \in Whims : v.payload = 0 => v = Bool(FALSE)
  /\ \A v \in Whims : v.payload = 1 => v = Bool(TRUE)
BY DEF Bool, Whims, Value, IsError, IsTyped

LEMMA ErrorTyped == IsError(Error) /\ IsTyped(Error)
BY DEF IsError, IsTyped, Error, Value

\* What a part comes to as a condition.
LEMMA TestsFaithful ==
  ASSUME NEW v, NEW vs, Faithful(v, vs)
  PROVE  /\ AsTests(vs) # {} /\ AsTests(vs) \subseteq Whims
         /\ IsTyped(AsCondition(v))
         /\ ~IsError(AsCondition(v)) => /\ AsCondition(v) = v /\ v \in Whims
                                        /\ AsTests(vs) = {v}
<1>1. \A w \in vs : w.type = "Boolean" => w \in Whims
  BY DEF Faithful, IsTyped
<1>2. Whims # {}
  BY DEF Whims
<1>3. AsTests(vs) # {} /\ AsTests(vs) \subseteq Whims
  BY <1>1, <1>2 DEF AsTests, Faithful
<1>4. IsTyped(AsCondition(v))
  BY ErrorTyped DEF AsCondition, Faithful
<1>5. ASSUME ~IsError(AsCondition(v))
      PROVE  AsCondition(v) = v /\ v \in Whims /\ AsTests(vs) = {v}
  <2>1. v.type = "Boolean" /\ AsCondition(v) = v
    BY <1>5, ErrorTyped DEF AsCondition
  <2>2. v \in Whims /\ vs = {v}
    BY <1>5, <2>1 DEF Faithful, IsTyped
  <2>3. AsTests({v}) = {v}
    BY <2>1 DEF AsTests
  <2>4. QED
    BY <2>1, <2>2, <2>3
<1>6. QED
  BY <1>3, <1>4, <1>5

LEMMA LeafFaithful ==
  ASSUME NEW e, NEW left, NEW right, NEW lefts, NEW rights,
         \/ e.op = "lit" /\ IsAtom(e.value) /\ IsTyped(e.value)
         \/ e.op = "name" /\ IsTyped(e.value)
  PROVE  Faithful(Evaluated(e, left, right), Answered(e, lefts, rights))
<1>1. CASE e.op = "lit"
  <2>1. Evaluated(e, left, right) = e.value /\ Answered(e, lefts, rights) = {e.value}
    BY <1>1 DEF Evaluated, Answered
  <2>2. QED
    BY <1>1, <2>1 DEF Faithful
<1>2. CASE e.op = "name"
  <2>1. Evaluated(e, left, right) = Typed(e.value)
    BY <1>2 DEF Evaluated
  <2>2. Answered(e, lefts, rights) = IF IsError(Typed(e.value)) THEN Whims ELSE {e.value}
    BY <1>2 DEF Answered
  <2>3. Typed(e.value) = e.value \/ Typed(e.value) = Error
    BY DEF Typed
  <2>4. Whims # {}
    BY DEF Whims
  <2>5. QED
    BY <1>2, <2>1, <2>2, <2>3, <2>4, ErrorTyped, TruthValues DEF Faithful
<1>3. QED
  BY <1>1, <1>2

LEMMA NotFaithful ==
  ASSUME NEW e, NEW left, NEW right, NEW lefts, NEW rights, e.op = "not", Faithful(left, lefts)
  PROVE  Faithful(Evaluated(e, left, right), Answered(e, lefts, rights))
<1> DEFINE test  == AsCondition(left)
           tests == AsTests(lefts)
<1>1. Evaluated(e, left, right) = IF IsError(test) THEN Error ELSE Bool(test.payload = 0)
  BY DEF Evaluated
<1>2. Answered(e, lefts, rights) = {Bool(~Truth(v)) : v \in tests}
  BY DEF Answered
<1>3. tests # {} /\ (~IsError(test) => test \in Whims /\ tests = {test})
  BY TestsFaithful
<1> HIDE DEF test, tests
<1>4. /\ Answered(e, lefts, rights) # {}
      /\ \A w \in Answered(e, lefts, rights) : IsTyped(w)
  BY <1>2, <1>3, TruthValues
<1>5. CASE IsError(test)
  BY <1>1, <1>4, <1>5, ErrorTyped DEF Faithful
<1>6. CASE ~IsError(test)
  <2>1. Answered(e, lefts, rights) = {Bool(~Truth(test))}
    BY <1>2, <1>3, <1>6
  <2>2. ~Truth(test) <=> test.payload = 0
    BY <1>3, <1>6, TruthValues DEF Truth
  <2>3. Bool(~Truth(test)) = Bool(test.payload = 0)
    BY <2>2 DEF Bool
  <2>4. QED
    BY <1>1, <1>4, <1>6, <2>1, <2>3, TruthValues DEF Faithful
<1>7. QED
  BY <1>5, <1>6

\* 'and' and 'or' skip their right only where it has no say.
LEMMA JunctionFaithful ==
  ASSUME NEW e, NEW left, NEW right, NEW lefts, NEW rights, e.op \in {"and", "or"},
         Faithful(left, lefts), Faithful(right, rights)
  PROVE  Faithful(Evaluated(e, left, right), Answered(e, lefts, rights))
<1> DEFINE test   == AsCondition(left)
           tests  == AsTests(lefts)
           other  == AsCondition(right)
           others == AsTests(rights)
           Joined2(v, w) == IF e.op = "and" THEN Truth(v) /\ Truth(w) ELSE Truth(v) \/ Truth(w)
           decisive == IF e.op = "and" THEN 0 ELSE 1
<1>1. Evaluated(e, left, right) = IF IsError(test) \/ test.payload = decisive THEN test ELSE other
  BY DEF Evaluated
<1>2. Answered(e, lefts, rights) = {Bool(Joined2(v, w)) : v \in tests, w \in others}
  BY DEF Answered
<1>3. /\ tests # {} /\ tests \subseteq Whims /\ IsTyped(test)
      /\ ~IsError(test) => test \in Whims /\ tests = {test}
      /\ others # {} /\ others \subseteq Whims /\ IsTyped(other)
      /\ ~IsError(other) => other \in Whims /\ others = {other}
  BY TestsFaithful
<1> HIDE DEF test, tests, other, others
<1>4. /\ Answered(e, lefts, rights) # {}
      /\ \A w \in Answered(e, lefts, rights) : IsTyped(w)
  BY <1>2, <1>3, TruthValues
<1>5. CASE IsError(test)
  BY <1>1, <1>3, <1>4, <1>5 DEF Faithful
<1>6. CASE ~IsError(test) /\ test.payload = decisive
  <2>1. \A w \in Whims : Bool(Joined2(test, w)) = test
    BY <1>3, <1>6, TruthValues DEF Truth, Bool
  <2>2. Answered(e, lefts, rights) = {test}
    BY <1>2, <1>3, <1>6, <2>1
  <2>3. QED
    BY <1>1, <1>3, <1>4, <1>6, <2>2 DEF Faithful
<1>7. CASE ~IsError(test) /\ test.payload # decisive
  <2>1. Evaluated(e, left, right) = other
    BY <1>1, <1>7
  <2>2. ASSUME ~IsError(other) PROVE Answered(e, lefts, rights) = {other}
    <3>1. Bool(Joined2(test, other)) = other
      BY <1>3, <1>7, <2>2, TruthValues DEF Truth, Bool
    <3>2. QED
      BY <1>2, <1>3, <1>7, <2>2, <3>1
  <2>3. QED
    BY <1>3, <1>4, <2>1, <2>2 DEF Faithful
<1>8. QED
  BY <1>5, <1>6, <1>7

\* A comparison or a membership that answers is well-typed.
LEMMA RelationFaithful ==
  ASSUME NEW e, NEW left, NEW right, NEW lefts, NEW rights, e.op \in {"cmp", "in"},
         Faithful(left, lefts), Faithful(right, rights)
  PROVE  Faithful(Evaluated(e, left, right), Answered(e, lefts, rights))
<1> DEFINE Answer(l, r) == IF e.op = "in" THEN Member(l, r) ELSE Holds(e.rel, l, r)
           Reads(l, r)  == IF ~WellTyped(e, l, r) THEN Whims ELSE {Answer(l, r)}
           v == Evaluated(e, left, right)
           vs == Answered(e, lefts, rights)
<1>1. vs = UNION {Reads(l, r) : l \in lefts, r \in rights}
  BY DEF Answered
<1>2. v = Error \/ v = Answer(left, right)
  BY DEF Evaluated
<1>3. \A l, r : Answer(l, r) = Error \/ Answer(l, r) \in Whims
  BY TruthValues DEF Member, Holds
<1>4. \A l, r : Answer(l, r) # Error => ~IsError(l) \/ e.op = "cmp"
  BY DEF Member, IsAtom, Atoms, IsError
<1>5. ASSUME ~IsError(v)
      PROVE  v \in Whims /\ v = Answer(left, right) /\ WellTyped(e, left, right)
             /\ lefts = {left} /\ rights = {right}
  <2>1. v \in Whims /\ v = Answer(left, right)
    BY <1>2, <1>3, <1>5, ErrorTyped
  <2>2. ~IsError(left) /\ ~IsError(right) /\ WellTyped(e, left, right)
    <3>1. CASE e.op = "cmp"
      BY <1>5, <2>1, <3>1, ErrorTyped DEF Evaluated, WellTyped, Holds
    <3>2. CASE e.op = "in"
      BY <1>5, <2>1, <3>2, ErrorTyped DEF Evaluated, WellTyped, Member, IsAtom, Atoms, IsError
    <3>3. QED
      BY <3>1, <3>2
  <2>3. QED
    BY <2>1, <2>2 DEF Faithful
<1>6. \A l, r : Reads(l, r) # {} /\ \A w \in Reads(l, r) : IsTyped(w)
  BY <1>3, ErrorTyped, TruthValues DEF Whims
<1>7. vs # {} /\ \A w \in vs : IsTyped(w)
  <2> HIDE DEF Reads, vs
  <2>1. lefts # {} /\ rights # {}
    BY DEF Faithful
  <2>2. QED
    BY <1>1, <1>6, <2>1
<1>8. ASSUME ~IsError(v) PROVE vs = {v}
  <2>1. Reads(left, right) = {v}
    BY <1>5, <1>8
  <2> HIDE DEF Reads, v, vs
  <2>2. vs = Reads(left, right)
    BY <1>1, <1>5, <1>8
  <2>3. QED
    BY <2>1, <2>2
<1>9. IsTyped(v)
  BY <1>2, <1>3, ErrorTyped, TruthValues
<1> HIDE DEF v, vs
<1>10. QED
  BY <1>7, <1>8, <1>9 DEF Faithful, v, vs

-----------------------------------------------------------------------------
(* Conditions: all parts                                                   *)

IsPart(e, n) ==
    \/ e.op = "lit" /\ IsAtom(e.value) /\ IsTyped(e.value)
    \/ e.op = "name" /\ IsTyped(e.value)
    \/ e.op = "not" /\ e.left \in 1 .. (n - 1)
    \/ e.op \in {"and", "or", "cmp", "in"} /\ e.left \in 1 .. (n - 1) /\ e.right \in 1 .. (n - 1)

IsTree(expr) ==
    /\ Len(expr) \in Nat \ {0} /\ DOMAIN expr = 1 .. Len(expr)
    /\ \A n \in DOMAIN expr : IsPart(expr[n], n)

LEMMA ExpressionTree ==
  ASSUME NEW expr, IsExpression(expr)
  PROVE  IsTree(expr)
<1>1. expr \in Seq(Range(expr)) /\ expr # <<>>
  BY DEF IsExpression
<1>2. Len(expr) \in Nat \ {0} /\ DOMAIN expr = 1 .. Len(expr)
  BY <1>1
<1>3. \A n \in DOMAIN expr : IsPart(expr[n], n)
  BY DEF IsExpression, IsPart
<1>4. QED
  BY <1>2, <1>3 DEF IsTree

\* Only what the parts before it come to matters to a part.
LEMMA EarlierParts ==
  ASSUME NEW e, NEW n \in Nat, IsPart(e, n), NEW f, NEW g, \A m \in 1 .. (n - 1) : f[m] = g[m]
  PROVE  /\ Evaluated(e, f[e.left], f[e.right]) = Evaluated(e, g[e.left], g[e.right])
         /\ Answered(e, f[e.left], f[e.right]) = Answered(e, g[e.left], g[e.right])
<1>1. CASE e.op \in {"lit", "name"}
  BY <1>1 DEF Evaluated, Answered
<1>2. CASE e.op = "not"
  <2>1. f[e.left] = g[e.left]
    BY <1>2 DEF IsPart
  <2>2. \A l, r, q : Evaluated(e, l, r) = Evaluated(e, l, q) /\ Answered(e, l, r) = Answered(e, l, q)
    BY <1>2 DEF Evaluated, Answered
  <2>3. QED
    BY <2>1, <2>2
<1>3. CASE e.op \in {"and", "or", "cmp", "in"}
  <2>1. f[e.left] = g[e.left] /\ f[e.right] = g[e.right]
    BY <1>3 DEF IsPart
  <2>2. QED
    BY <2>1
<1>4. QED
  BY <1>1, <1>2, <1>3 DEF IsPart

Evaluates(expr, f, m) == f = [n \in 1 .. m |-> Evaluated(expr[n], f[expr[n].left], f[expr[n].right])]
Answering(expr, f, m) == f = [n \in 1 .. m |-> Answered(expr[n], f[expr[n].left], f[expr[n].right])]

\* The parts can be evaluated in their order.
LEMMA EvaluationRuns ==
  ASSUME NEW expr, IsTree(expr)
  PROVE  \E f : Evaluates(expr, f, Len(expr))
<1> DEFINE G == {k \in Nat : k <= Len(expr) => \E f : Evaluates(expr, f, k)}
<1>1. 0 \in G
  <2>1. Evaluates(expr, [n \in 1 .. 0 |-> 0], 0)
    BY DEF Evaluates
  <2>2. QED
    BY <2>1
<1>2. ASSUME NEW k \in G PROVE k + 1 \in G
  <2>1. k \in Nat /\ k + 1 \in Nat /\ Len(expr) \in Nat
    BY DEF IsTree
  <2>2. SUFFICES ASSUME k + 1 <= Len(expr) PROVE \E f : Evaluates(expr, f, k + 1)
    BY <2>1
  <2>3. PICK f : Evaluates(expr, f, k)
    BY <2>1, <2>2
  <2> DEFINE last == Evaluated(expr[k + 1], f[expr[k + 1].left], f[expr[k + 1].right])
             g == [n \in 1 .. k + 1 |-> IF n = k + 1 THEN last ELSE f[n]]
  <2>4. \A n \in 1 .. k : f[n] = Evaluated(expr[n], f[expr[n].left], f[expr[n].right])
    BY <2>3 DEF Evaluates
  <2>5. /\ \A n \in 1 .. k : g[n] = f[n]
        /\ g[k + 1] = last
        /\ g = [n \in 1 .. k + 1 |-> g[n]]
    BY <2>1
  <2> HIDE DEF g
  <2>6. ASSUME NEW n \in 1 .. k + 1
        PROVE  g[n] = Evaluated(expr[n], g[expr[n].left], g[expr[n].right])
    <3>1. n \in Nat /\ n \in 1 .. Len(expr) /\ \A m \in 1 .. (n - 1) : m \in 1 .. k
      BY <2>1, <2>2
    <3>2. IsPart(expr[n], n)
      BY <3>1 DEF IsTree
    <3>3. \A m \in 1 .. (n - 1) : f[m] = g[m]
      BY <3>1, <2>5
    <3>4. Evaluated(expr[n], f[expr[n].left], f[expr[n].right])
            = Evaluated(expr[n], g[expr[n].left], g[expr[n].right])
      BY <3>1, <3>2, <3>3, EarlierParts
    <3>5. n = k + 1 \/ n \in 1 .. k
      BY <2>1
    <3>6. QED
      BY <2>4, <2>5, <3>4, <3>5
  <2>7. Evaluates(expr, g, k + 1)
    BY <2>5, <2>6 DEF Evaluates
  <2>8. QED
    BY <2>7
<1>3. G = Nat
  <2>1. G \in SUBSET Nat
    OBVIOUS
  <2> HIDE DEF G
  <2>2. QED
    BY <1>1, <1>2, <2>1, InductiveSet
<1>4. QED
  BY <1>3 DEF IsTree

\* So can their answers.
LEMMA AnsweringRuns ==
  ASSUME NEW expr, IsTree(expr)
  PROVE  \E f : Answering(expr, f, Len(expr))
<1> DEFINE G == {k \in Nat : k <= Len(expr) => \E f : Answering(expr, f, k)}
<1>1. 0 \in G
  <2>1. Answering(expr, [n \in 1 .. 0 |-> 0], 0)
    BY DEF Answering
  <2>2. QED
    BY <2>1
<1>2. ASSUME NEW k \in G PROVE k + 1 \in G
  <2>1. k \in Nat /\ k + 1 \in Nat /\ Len(expr) \in Nat
    BY DEF IsTree
  <2>2. SUFFICES ASSUME k + 1 <= Len(expr) PROVE \E f : Answering(expr, f, k + 1)
    BY <2>1
  <2>3. PICK f : Answering(expr, f, k)
    BY <2>1, <2>2
  <2> DEFINE last == Answered(expr[k + 1], f[expr[k + 1].left], f[expr[k + 1].right])
             g == [n \in 1 .. k + 1 |-> IF n = k + 1 THEN last ELSE f[n]]
  <2>4. \A n \in 1 .. k : f[n] = Answered(expr[n], f[expr[n].left], f[expr[n].right])
    BY <2>3 DEF Answering
  <2>5. /\ \A n \in 1 .. k : g[n] = f[n]
        /\ g[k + 1] = last
        /\ g = [n \in 1 .. k + 1 |-> g[n]]
    BY <2>1
  <2> HIDE DEF g
  <2>6. ASSUME NEW n \in 1 .. k + 1
        PROVE  g[n] = Answered(expr[n], g[expr[n].left], g[expr[n].right])
    <3>1. n \in Nat /\ n \in 1 .. Len(expr) /\ \A m \in 1 .. (n - 1) : m \in 1 .. k
      BY <2>1, <2>2
    <3>2. IsPart(expr[n], n)
      BY <3>1 DEF IsTree
    <3>3. \A m \in 1 .. (n - 1) : f[m] = g[m]
      BY <3>1, <2>5
    <3>4. Answered(expr[n], f[expr[n].left], f[expr[n].right])
            = Answered(expr[n], g[expr[n].left], g[expr[n].right])
      BY <3>1, <3>2, <3>3, EarlierParts
    <3>5. n = k + 1 \/ n \in 1 .. k
      BY <2>1
    <3>6. QED
      BY <2>4, <2>5, <3>4, <3>5
  <2>7. Answering(expr, g, k + 1)
    BY <2>5, <2>6 DEF Answering
  <2>8. QED
    BY <2>7
<1>3. G = Nat
  <2>1. G \in SUBSET Nat
    OBVIOUS
  <2> HIDE DEF G
  <2>2. QED
    BY <1>1, <1>2, <2>1, InductiveSet
<1>4. QED
  BY <1>3 DEF IsTree

\* Every part is faithful, whichever way it is put together.
LEMMA PartsFaithful ==
  ASSUME NEW expr, IsTree(expr), NEW f, NEW g,
         Evaluates(expr, f, Len(expr)), Answering(expr, g, Len(expr))
  PROVE  \A n \in 1 .. Len(expr) : Faithful(f[n], g[n])
<1> DEFINE G == {k \in Nat : \A n \in 1 .. Len(expr) : n <= k => Faithful(f[n], g[n])}
<1>1. 0 \in G
  OBVIOUS
<1>2. ASSUME NEW k \in G PROVE k + 1 \in G
  <2>1. k \in Nat /\ k + 1 \in Nat /\ Len(expr) \in Nat
    BY DEF IsTree
  <2>2. ASSUME k + 1 \in 1 .. Len(expr) PROVE Faithful(f[k + 1], g[k + 1])
    <3> DEFINE e == expr[k + 1]
    <3>1. IsPart(e, k + 1)
      BY <2>2 DEF IsTree
    <3>2. /\ f[k + 1] = Evaluated(e, f[e.left], f[e.right])
          /\ g[k + 1] = Answered(e, g[e.left], g[e.right])
      BY <2>2 DEF Evaluates, Answering
    <3>3. \A m \in 1 .. ((k + 1) - 1) : Faithful(f[m], g[m])
      BY <1>2, <2>1, <2>2
    <3> HIDE DEF e
    <3>4. Faithful(Evaluated(e, f[e.left], f[e.right]), Answered(e, g[e.left], g[e.right]))
      <4>1. CASE \/ e.op = "lit" /\ IsAtom(e.value) /\ IsTyped(e.value)
                 \/ e.op = "name" /\ IsTyped(e.value)
        BY <4>1, LeafFaithful
      <4>2. CASE e.op = "not" /\ e.left \in 1 .. ((k + 1) - 1)
        BY <3>3, <4>2, NotFaithful
      <4>3. CASE /\ e.op \in {"and", "or", "cmp", "in"}
                 /\ e.left \in 1 .. ((k + 1) - 1) /\ e.right \in 1 .. ((k + 1) - 1)
        <5>1. Faithful(f[e.left], g[e.left]) /\ Faithful(f[e.right], g[e.right])
          BY <3>3, <4>3
        <5>2. CASE e.op \in {"and", "or"}
          BY <5>1, <5>2, JunctionFaithful
        <5>3. CASE e.op \in {"cmp", "in"}
          BY <5>1, <5>3, RelationFaithful
        <5>4. QED
          BY <4>3, <5>2, <5>3
      <4>4. QED
        BY <3>1, <4>1, <4>2, <4>3 DEF IsPart
    <3>5. QED
      BY <3>2, <3>4
  <2>3. \A n \in 1 .. Len(expr) : n <= k + 1 => n <= k \/ n = k + 1
    BY <2>1
  <2>4. QED
    BY <1>2, <2>1, <2>2, <2>3
<1>3. G = Nat
  <2>1. G \in SUBSET Nat
    OBVIOUS
  <2> HIDE DEF G
  <2>2. QED
    BY <1>1, <1>2, <2>1, InductiveSet
<1>4. QED
  BY <1>3 DEF IsTree

\* A condition that answers does not rest on an error.
LEMMA ConditionsDecided ==
  ASSUME NEW expr, IsExpression(expr)
  PROVE  NoErrorDecides(expr)
<1> DEFINE f == CHOOSE value : value = [n \in DOMAIN expr |->
                   Evaluated(expr[n], value[expr[n].left], value[expr[n].right])]
           g == CHOOSE answers : answers = [n \in DOMAIN expr |->
                   Answered(expr[n], answers[expr[n].left], answers[expr[n].right])]
<1>1. IsTree(expr) /\ Len(expr) \in Nat \ {0} /\ DOMAIN expr = 1 .. Len(expr)
  BY ExpressionTree DEF IsTree
<1>2. Evaluates(expr, f, Len(expr))
  <2>1. \E value : value = [n \in DOMAIN expr |->
                   Evaluated(expr[n], value[expr[n].left], value[expr[n].right])]
    BY <1>1, EvaluationRuns DEF Evaluates
  <2>2. QED
    BY <1>1, <2>1 DEF Evaluates
<1>3. Answering(expr, g, Len(expr))
  <2>1. \E answers : answers = [n \in DOMAIN expr |->
                   Answered(expr[n], answers[expr[n].left], answers[expr[n].right])]
    BY <1>1, AnsweringRuns DEF Answering
  <2>2. QED
    BY <1>1, <2>1 DEF Answering
<1>4. Eval(expr) = f[Len(expr)] /\ Answers(expr) = g[Len(expr)]
  BY DEF Eval, Answers
<1> HIDE DEF f, g
<1>5. Faithful(Eval(expr), Answers(expr))
  BY <1>1, <1>2, <1>3, <1>4, PartsFaithful
<1>6. QED
  BY <1>5, TestsFaithful DEF NoErrorDecides, EvalCondition

-----------------------------------------------------------------------------
(* The rows of the blocks: what they show, by blocks and identities *)

TermList(b) == IF b.exchange = <<>> THEN <<>> ELSE b.exchange[1].terms

Sides == {"resource", "to", "from"}

Mounted(b, is) ==
    {OwnPattern} \cup UNION {{<<is[k], side>> : side \in Edited(TermList(b)[k])} : k \in DOMAIN TermList(b)}

Beneath(b, is, editor) ==
    IF editor = OwnPattern THEN b.resource
    ELSE Pattern(TermList(b)[CHOOSE k \in DOMAIN is : is[k] = editor[1]], editor[2])

\* Each term has an identity of its own, and none that is still to be given.
Identified(b, is, next) ==
    /\ is \in Seq(Nat \ {0}) /\ Len(is) = Len(TermList(b)) /\ IsInjective(is)
    /\ \A k \in 1 .. Len(is) : is[k] < next

\* A row is of an attribute beneath its editor, and shows it under its own key.
RowsOf(b, is, d) ==
    \A row \in DOMAIN d :
        /\ row = <<row[1], row[2]>>
        /\ row[1] \in Mounted(b, is) /\ row[2] \in RowKeys(Beneath(b, is, row[1]))
        /\ \/ d[row] = "?" \/ row[2] = "userId"
           \/ d[row] \in Range(Beneath(b, is, row[1])) /\ RowKey[d[row]] = row[2]

Unparsed(d) == {row[1] : row \in {r \in DOMAIN d : d[r] = "?"}}

LEMMA BlockForms ==
  /\ Terms = TermList(ast) /\ Terms' = TermList(ast')
  /\ Editors = Mounted(ast, ids) /\ Editors' = Mounted(ast', ids')
  /\ \A e : AttrsOf(e) = Beneath(ast, ids, e)
BY DEF Terms, TermList, Editors, Mounted, AttrsOf, PlaceOf, Beneath

LEMMA BlockShape ==
  ASSUME NEW b, IsBlocks(b)
  PROVE  /\ TermList(b) \in Seq(BlockTerm) /\ b.resource \in Seq(RowTexts)
         /\ b.exchange = <<>> <=> TermList(b) = <<>>
         /\ b.exchange # <<>> => b.exchange[1].op \in {"and", "or"} /\ Len(b.exchange) = 1
<1> DEFINE X == [op : {"and", "or"}, terms : Seq(BlockTerm) \ {<<>>}]
<1>1. b.exchange \in Seq(X) /\ b.resource \in Seq(RowTexts) /\ Len(b.exchange) <= 1
  BY DEF IsBlocks
<1> HIDE DEF X
<1>2. CASE b.exchange = <<>>
  BY <1>1, <1>2 DEF TermList
<1>3. CASE b.exchange # <<>>
  <2>1. Len(b.exchange) = 1
    <3>1. Len(b.exchange) \in Nat
      BY <1>1, LenProperties
    <3>2. Len(b.exchange) # 0
      BY <1>1, <1>3, EmptySeq
    <3>3. Len(b.exchange) <= 1
      BY <1>1
    <3>4. \A n \in Nat : n # 0 /\ n <= 1 => n = 1
      OBVIOUS
    <3> HIDE DEF X
    <3>5. QED
      BY <3>1, <3>2, <3>3, <3>4, Zenon
  <2>2. b.exchange[1] \in X
    BY <1>1, <2>1, ElementOfSeq
  <2>3. QED
    BY <1>1, <1>3, <2>1, <2>2 DEF TermList, X
<1>4. QED
  BY <1>2, <1>3

\* What blocks are with other terms, and with another pattern.
LEMMA TermsReplaced ==
  ASSUME NEW b, IsBlocks(b), NEW ts \in Seq(BlockTerm), ts # <<>>, NEW op \in {"and", "or"},
         NEW c, c = [b EXCEPT !.exchange = <<[op |-> op, terms |-> ts]>>]
  PROVE  IsBlocks(c) /\ TermList(c) = ts /\ c.resource = b.resource
<1> DEFINE X == [op : {"and", "or"}, terms : Seq(BlockTerm) \ {<<>>}]
           C == {<<>>} \cup {<<said>> : said \in TypedConditions}
           x == [op |-> op, terms |-> ts]
<1>1. b \in [resource : Seq(RowTexts), condition : C, exchange : Seq(X)]
  BY DEF IsBlocks
<1>2. x \in X /\ x.terms = ts
  OBVIOUS
<1>3. <<x>> \in Seq(X) /\ Len(<<x>>) = 1 /\ <<x>>[1] = x /\ <<x>> # <<>>
  BY <1>2
<1> HIDE DEF X, C, x
<1>4. c.exchange = <<x>> /\ c.resource = b.resource /\ c \in [resource : Seq(RowTexts), condition : C, exchange : Seq(X)]
  BY <1>1, <1>3 DEF x
<1>5. IsBlocks(c)
  BY <1>3, <1>4 DEF IsBlocks, X, C
<1>6. QED
  BY <1>2, <1>3, <1>4, <1>5 DEF TermList

LEMMA PatternReplaced ==
  ASSUME NEW b, IsBlocks(b), NEW ats \in Seq(RowTexts), NEW c, c = [b EXCEPT !.resource = ats]
  PROVE  IsBlocks(c) /\ TermList(c) = TermList(b) /\ c.resource = ats
<1>1. c.exchange = b.exchange /\ c.resource = ats /\ IsBlocks(c)
  BY DEF IsBlocks
<1>2. QED
  BY <1>1 DEF TermList

\* An editor is the rule's own or on a side of one term, whose pattern is beneath it.
LEMMA EditorsNamed ==
  ASSUME NEW b, IsBlocks(b), NEW is, NEW next, Identified(b, is, next)
  PROVE  /\ \A k \in 1 .. Len(is), side \in Sides :
              /\ <<is[k], side>> # OwnPattern
              /\ Beneath(b, is, <<is[k], side>>) = Pattern(TermList(b)[k], side)
         /\ \A k \in 1 .. Len(is) : \A side \in Edited(TermList(b)[k]) :
              side \in Sides /\ <<is[k], side>> \in Mounted(b, is)
         /\ \A e \in Mounted(b, is) :
              \/ e = OwnPattern
              \/ \E k \in 1 .. Len(is) : \E side \in Edited(TermList(b)[k]) : e = <<is[k], side>>
<1>1. /\ is \in Seq(Nat \ {0}) /\ IsInjective(is)
      /\ DOMAIN is = 1 .. Len(is) /\ DOMAIN TermList(b) = 1 .. Len(is)
  BY BlockShape, LenProperties DEF Identified
<1>2. ASSUME NEW k \in 1 .. Len(is), NEW side \in Sides
      PROVE  /\ <<is[k], side>> # OwnPattern
             /\ Beneath(b, is, <<is[k], side>>) = Pattern(TermList(b)[k], side)
  <2>1. is[k] \in Nat \ {0}
    BY <1>1
  <2>2. <<is[k], side>> # OwnPattern
    BY <2>1 DEF OwnPattern
  <2>3. (CHOOSE j \in DOMAIN is : is[j] = is[k]) = k
    BY <1>1 DEF IsInjective
  <2>4. QED
    BY <2>2, <2>3 DEF Beneath
<1>3. \A k \in 1 .. Len(is) : \A side \in Edited(TermList(b)[k]) :
         side \in Sides /\ <<is[k], side>> \in Mounted(b, is)
  BY <1>1 DEF Edited, Sides, Mounted
<1>4. \A e \in Mounted(b, is) :
         \/ e = OwnPattern
         \/ \E k \in 1 .. Len(is) : \E side \in Edited(TermList(b)[k]) : e = <<is[k], side>>
  BY <1>1 DEF Mounted
<1>5. QED
  BY <1>2, <1>3, <1>4

\* The term of an identity stays as it is, wherever it comes to stand.
Stays(b, is, c, js, id) ==
    \A k \in 1 .. Len(is) : is[k] = id =>
        \E j \in 1 .. Len(js) : js[j] = is[k] /\ TermList(c)[j] = TermList(b)[k]

\* It keeps its editors and what is beneath them.
LEMMA EditorsCarried ==
  ASSUME NEW b, IsBlocks(b), NEW is, NEW next, Identified(b, is, next),
         NEW c, IsBlocks(c), NEW js, NEW then, Identified(c, js, then),
         NEW e \in Mounted(b, is),
         IF e = OwnPattern THEN c.resource = b.resource ELSE Stays(b, is, c, js, e[1])
  PROVE  e \in Mounted(c, js) /\ Beneath(c, js, e) = Beneath(b, is, e)
<1>1. CASE e = OwnPattern
  BY <1>1 DEF Mounted, Beneath
<1>2. CASE e # OwnPattern
  <2>0. PICK k \in 1 .. Len(is) : \E side \in Edited(TermList(b)[k]) : e = <<is[k], side>>
    BY <1>2, EditorsNamed
  <2>1. PICK side \in Edited(TermList(b)[k]) : e = <<is[k], side>>
    BY <2>0
  <2>2. PICK j \in 1 .. Len(js) : js[j] = is[k] /\ TermList(c)[j] = TermList(b)[k]
    BY <1>2, <2>1 DEF Stays
  <2>3. e = <<js[j], side>> /\ side \in Edited(TermList(c)[j]) /\ side \in Sides
    BY <2>1, <2>2 DEF Edited, Sides
  <2>4. e \in Mounted(c, js) /\ Beneath(c, js, e) = Pattern(TermList(c)[j], side)
    BY <2>3, EditorsNamed
  <2>5. Beneath(b, is, e) = Pattern(TermList(b)[k], side)
    BY <2>1, <2>3, EditorsNamed
  <2>6. QED
    BY <2>2, <2>4, <2>5
<1>3. QED
  BY <1>1, <1>2

\* A row that stays is right if what it is of stays under its key.
LEMMA RowsCarried ==
  ASSUME NEW b, NEW is, NEW d, RowsOf(b, is, d), NEW c, NEW js, NEW f,
         \A row \in DOMAIN f :
            /\ row \in DOMAIN d /\ f[row] = d[row]
            /\ row[1] \in Mounted(c, js)
            /\ row[2] \in RowKeys(Beneath(b, is, row[1])) => row[2] \in RowKeys(Beneath(c, js, row[1]))
            /\ \A at \in Range(Beneath(b, is, row[1])) :
                  RowKey[at] = row[2] /\ row[2] # "userId" => at \in Range(Beneath(c, js, row[1]))
  PROVE  RowsOf(c, js, f)
BY DEF RowsOf

\* What is reported of the rows that do not parse, when only those of some editors
\* have changed.
LEMMA UnparsedReported ==
  ASSUME NEW d, NEW f, NEW editors,
         \A row \in DOMAIN d : row[1] \notin editors => row \in DOMAIN f /\ f[row] = d[row],
         \A row \in DOMAIN f : row[1] \notin editors => row \in DOMAIN d /\ f[row] = d[row]
  PROVE  /\ (\A row \in DOMAIN f : row[1] \in editors => f[row] # "?")
              => Unparsed(f) = Unparsed(d) \ editors
         /\ (\A e \in editors : \E row \in DOMAIN f : row[1] = e /\ f[row] = "?")
              => Unparsed(f) = Unparsed(d) \cup editors
<1>1. \A e : e \in Unparsed(f) <=> \E row \in DOMAIN f : row[1] = e /\ f[row] = "?"
  BY DEF Unparsed
<1>2. \A e : e \in Unparsed(d) <=> \E row \in DOMAIN d : row[1] = e /\ d[row] = "?"
  BY DEF Unparsed
<1>3. ASSUME NEW e, e \notin editors PROVE e \in Unparsed(f) <=> e \in Unparsed(d)
  BY <1>1, <1>2, <1>3
<1>4. ASSUME \A row \in DOMAIN f : row[1] \in editors => f[row] # "?"
      PROVE  Unparsed(f) = Unparsed(d) \ editors
  <2>1. \A e \in editors : e \notin Unparsed(f)
    BY <1>1, <1>4
  <2>2. QED
    BY <1>3, <2>1
<1>5. ASSUME \A e \in editors : \E row \in DOMAIN f : row[1] = e /\ f[row] = "?"
      PROVE  Unparsed(f) = Unparsed(d) \cup editors
  <2>1. \A e \in editors : e \in Unparsed(f)
    BY <1>1, <1>5
  <2>2. QED
    BY <1>3, <2>1
<1>6. QED
  BY <1>4, <1>5

\* The inductive invariant: a row of one term is told from those of another only
\* because identities are never given twice, and a row that shows what would be
\* saved shows it under its own key.
BlocksInv ==
    /\ IsBlocks(ast)
    /\ nextId \in Nat \ {0}
    /\ invalid = Unparsed(drafts) /\ (blocksValid <=> invalid = {})
    /\ tab \in {"simple", "advanced"}
    /\ IF tab = "simple" THEN Identified(ast, ids, nextId) /\ RowsOf(ast, ids, drafts) ELSE drafts = <<>>

LEMMA BlocksShown ==
  ASSUME BlocksInv
  PROVE  RowsShown
<1>1. Terms = TermList(ast) /\ Editors = Mounted(ast, ids) /\ \A e : AttrsOf(e) = Beneath(ast, ids, e)
  BY BlockForms
<1>2. blocksValid <=> "?" \notin Range(drafts)
  BY DEF BlocksInv, Unparsed, Range
<1>3. CASE tab = "simple"
  BY <1>1, <1>2, <1>3 DEF BlocksInv, Identified, RowsOf, RowsShown
<1>4. CASE tab # "simple"
  BY <1>2, <1>4 DEF BlocksInv, RowsShown
<1>5. QED
  BY <1>3, <1>4

LEMMA BlocksOpened ==
  ASSUME Opening
  PROVE  BlocksInv
<1>1. IsBlocks(ast) /\ Terms = TermList(ast) /\ TermList(ast) \in Seq(BlockTerm)
  BY BlocksAssumption, BlockForms, BlockShape DEF Opening, InitBlocks, BlocksAssumption
<1> DEFINE n == Len(TermList(ast))
<1>2. n \in Nat /\ DOMAIN TermList(ast) = 1 .. n
  BY <1>1, LenProperties
<1>3. ids = [k \in 1 .. n |-> k] /\ nextId = n + 1 /\ drafts = <<>> /\ invalid = {} /\ blocksValid = TRUE /\ tab = "simple"
  BY <1>1, <1>2 DEF Opening, InitBlocks
<1> HIDE DEF n
<1>4. ids \in Seq(Nat \ {0}) /\ Len(ids) = n
  <2>1. ids \in [1 .. n -> Nat \ {0}]
    BY <1>2, <1>3
  <2>2. ids \in Seq(Nat \ {0})
    BY <1>2, <2>1, SeqDef
  <2>3. QED
    BY <1>2, <1>3, <2>2, LenProperties
<1>5. Identified(ast, ids, nextId)
  BY <1>2, <1>3, <1>4 DEF Identified, IsInjective, n
<1>6. Unparsed(drafts) = {} /\ RowsOf(ast, ids, drafts)
  BY <1>3 DEF Unparsed, RowsOf
<1>7. QED
  BY <1>1, <1>2, <1>3, <1>5, <1>6 DEF BlocksInv

\* A term that changes in its place leaves the editors of the others alone.
OnlyTerm(b, c, k) ==
    /\ Len(TermList(c)) = Len(TermList(b)) /\ c.resource = b.resource
    /\ \A j \in 1 .. Len(TermList(b)) : j # k => TermList(c)[j] = TermList(b)[j]

LEMMA TermSwapped ==
  ASSUME NEW b, IsBlocks(b), NEW is, NEW next, Identified(b, is, next), NEW k \in 1 .. Len(is),
         NEW c, IsBlocks(c), OnlyTerm(b, c, k)
  PROVE  /\ Identified(c, is, next)
         /\ \A e \in Mounted(b, is) : e[1] # is[k] => e \in Mounted(c, is) /\ Beneath(c, is, e) = Beneath(b, is, e)
<1>1. Len(is) = Len(TermList(b)) /\ Len(TermList(c)) = Len(is) /\ c.resource = b.resource
  BY DEF Identified, OnlyTerm
<1>2. Identified(c, is, next)
  BY <1>1 DEF Identified
<1>3. \A j \in 1 .. Len(is) : is[j] # is[k] => TermList(c)[j] = TermList(b)[j]
  BY <1>1 DEF OnlyTerm
<1>4. ASSUME NEW e \in Mounted(b, is), e[1] # is[k]
      PROVE  e \in Mounted(c, is) /\ Beneath(c, is, e) = Beneath(b, is, e)
  <2>1. Stays(b, is, c, is, e[1])
    BY <1>3, <1>4 DEF Stays
  <2>2. QED
    BY <1>1, <1>2, <2>1, EditorsCarried
<1>5. QED
  BY <1>2, <1>4

\* What blocks are once a list of terms is written.
LEMMA TermsWritten ==
  ASSUME NEW b, IsBlocks(b), TermList(b) # <<>>, NEW ts \in Seq(BlockTerm), ts # <<>>,
         NEW c, c = [b EXCEPT !.exchange = NormalizeExchange(b.exchange[1].op, ts)]
  PROVE  IsBlocks(c) /\ TermList(c) = ts /\ c.resource = b.resource
<1> DEFINE was == b.exchange[1].op
           op == IF Len(ts) = 1 THEN "and" ELSE was
<1>1. was \in {"and", "or"}
  BY BlockShape
<1>2. op \in {"and", "or"}
  BY <1>1
<1>3. c = [b EXCEPT !.exchange = <<[op |-> op, terms |-> ts]>>]
  BY Zenon DEF NormalizeExchange
<1> HIDE DEF op
<1>4. QED
  BY <1>2, <1>3, TermsReplaced

\* The patterns of a term, one of them or one of its parties replaced.
LEMMA TermPatterns ==
  ASSUME NEW term \in BlockTerm, NEW side \in Sides, NEW ats \in Seq(RowTexts)
  PROVE  /\ WithPattern(term, side, ats) \in BlockTerm
         /\ Pattern(WithPattern(term, side, ats), side) = ats
         /\ \A s \in Sides \ {side} : Pattern(WithPattern(term, side, ats), s) = Pattern(term, s)
         /\ Edited(WithPattern(term, side, ats)) = Edited(term)
         /\ Pattern(term, side) \in Seq(RowTexts)
<1> DEFINE P == [kind : {"me", "requester", "any", "all"}, attrs : Seq(RowTexts)]
           t == WithPattern(term, side, ats)
<1>1. term.to \in P /\ term.from \in P /\ term.resource \in Seq(RowTexts)
  BY DEF BlockTerm, BlockParty
<1>2. term \in [to : P, resource : Seq(RowTexts), from : P]
  BY DEF BlockTerm, BlockParty
<1>3. CASE side = "resource"
  <2>1. t = [term EXCEPT !.resource = ats]
    BY <1>3 DEF WithPattern
  <2>2. t.resource = ats /\ t.to = term.to /\ t.from = term.from /\ t \in BlockTerm
    BY <1>2, <2>1 DEF BlockTerm, BlockParty
  <2> HIDE DEF t
  <2>3. QED
    BY <1>1, <1>3, <2>2 DEF Pattern, Party, Edited, Quantifies, Sides, t
<1>4. CASE side = "to"
  <2> DEFINE p == [term.to EXCEPT !.attrs = ats]
  <2>1. p \in P /\ p.attrs = ats /\ p.kind = term.to.kind
    BY <1>1
  <2>2. t = [term EXCEPT !.to = p]
    BY <1>4 DEF WithPattern, WithParty, Party
  <2> HIDE DEF p, t
  <2>3. t.resource = term.resource /\ t.to = p /\ t.from = term.from /\ t \in BlockTerm
    BY <1>2, <2>1, <2>2 DEF BlockTerm, BlockParty
  <2>4. QED
    BY <1>1, <1>4, <2>1, <2>3 DEF Pattern, Party, Edited, Quantifies, Sides, t
<1>5. CASE side = "from"
  <2> DEFINE p == [term.from EXCEPT !.attrs = ats]
  <2>1. p \in P /\ p.attrs = ats /\ p.kind = term.from.kind
    BY <1>1
  <2>2. t = [term EXCEPT !.from = p]
    BY <1>5 DEF WithPattern, WithParty, Party
  <2> HIDE DEF p, t
  <2>3. t.resource = term.resource /\ t.to = term.to /\ t.from = p /\ t \in BlockTerm
    BY <1>2, <2>1, <2>2 DEF BlockTerm, BlockParty
  <2>4. QED
    BY <1>1, <1>5, <2>1, <2>3 DEF Pattern, Party, Edited, Quantifies, Sides, t
<1>6. QED
  BY <1>3, <1>4, <1>5 DEF Sides

LEMMA TermParties ==
  ASSUME NEW term \in BlockTerm, NEW side \in {"to", "from"}, NEW p \in BlockParty
  PROVE  /\ WithParty(term, side, p) \in BlockTerm
         /\ Party(WithParty(term, side, p), side) = p
         /\ \A s \in Sides \ {side} : /\ Pattern(WithParty(term, side, p), s) = Pattern(term, s)
                                      /\ s \in Edited(WithParty(term, side, p)) <=> s \in Edited(term)
<1> DEFINE t == WithParty(term, side, p)
<1>1. CASE side = "to"
  <2>1. t = [term EXCEPT !.to = p]
    BY <1>1 DEF WithParty
  <2> HIDE DEF t
  <2>2. t.resource = term.resource /\ t.to = p /\ t.from = term.from /\ t \in BlockTerm
    BY <2>1 DEF BlockTerm
  <2>3. QED
    BY <1>1, <2>2 DEF Pattern, Party, Edited, Quantifies, Sides, t
<1>2. CASE side = "from"
  <2>1. t = [term EXCEPT !.from = p]
    BY <1>2 DEF WithParty
  <2> HIDE DEF t
  <2>2. t.resource = term.resource /\ t.to = term.to /\ t.from = p /\ t \in BlockTerm
    BY <2>1 DEF BlockTerm
  <2>3. QED
    BY <1>2, <2>2 DEF Pattern, Party, Edited, Quantifies, Sides, t
<1>3. QED
  BY <1>1, <1>2

\* A term is updated.
LEMMA TermUpdated ==
  ASSUME IsBlocks(ast), Identified(ast, ids, nextId), NEW k \in 1 .. Len(ids), NEW term \in BlockTerm,
         NEW c, c = UpdateTerm(k, term)
  PROVE  /\ IsBlocks(c) /\ c.resource = ast.resource /\ Identified(c, ids, nextId)
         /\ \A e \in Mounted(ast, ids) : e[1] # ids[k] => e \in Mounted(c, ids) /\ Beneath(c, ids, e) = Beneath(ast, ids, e)
         /\ \A side \in Edited(term) : /\ <<ids[k], side>> \in Mounted(c, ids)
                                       /\ Beneath(c, ids, <<ids[k], side>>) = Pattern(term, side)
<1> DEFINE ts == [TermList(ast) EXCEPT ![k] = term]
<1>1. TermList(ast) \in Seq(BlockTerm) /\ Len(ids) = Len(TermList(ast)) /\ Len(ids) \in Nat
  BY BlockShape, LenProperties DEF Identified
<1>2. ts \in Seq(BlockTerm) /\ ts # <<>> /\ TermList(ast) # <<>>
  BY <1>1, ExceptSeq, EmptySeq
<1>3. c = [ast EXCEPT !.exchange = NormalizeExchange(ast.exchange[1].op, ts)]
  BY BlockForms, Zenon DEF UpdateTerm, WithTerms
<1>4. IsBlocks(c) /\ TermList(c) = ts /\ c.resource = ast.resource
  <2> HIDE DEF ts
  <2>1. QED
    BY <1>2, <1>3, TermsWritten
<1>5. /\ TermList(c)[k] = term /\ Identified(c, ids, nextId)
      /\ \A e \in Mounted(ast, ids) : e[1] # ids[k] => e \in Mounted(c, ids) /\ Beneath(c, ids, e) = Beneath(ast, ids, e)
  <2>1. /\ Len(ts) = Len(TermList(ast)) /\ ts[k] = term
        /\ \A j \in 1 .. Len(TermList(ast)) : j # k => ts[j] = TermList(ast)[j]
    BY <1>1, LenProperties, ExceptSeq
  <2> HIDE DEF ts
  <2>2. OnlyTerm(ast, c, k)
    BY <1>4, <2>1 DEF OnlyTerm
  <2>3. QED
    BY <1>4, <2>1, <2>2, TermSwapped
<1>6. \A side \in Edited(term) : side \in Sides /\ /\ <<ids[k], side>> \in Mounted(c, ids)
                                 /\ Beneath(c, ids, <<ids[k], side>>) = Pattern(term, side)
  <2> HIDE DEF ts
  <2>1. QED
    BY <1>4, <1>5, EditorsNamed
<1>7. QED
  BY <1>4, <1>5, <1>6

\* What a row's editor writes is beneath it, and beneath no other editor.
LEMMA AttrsWritten ==
  ASSUME IsBlocks(ast), Identified(ast, ids, nextId), NEW editor \in Mounted(ast, ids),
         NEW ats \in Seq(RowTexts), NEW c, c = WithAttrs(editor, ats)
  PROVE  /\ IsBlocks(c) /\ Identified(c, ids, nextId)
         /\ editor \in Mounted(c, ids) /\ Beneath(c, ids, editor) = ats
         /\ \A e \in Mounted(ast, ids) : e # editor => e \in Mounted(c, ids) /\ Beneath(c, ids, e) = Beneath(ast, ids, e)
<1>1. CASE editor = OwnPattern
  <2>1. c = [ast EXCEPT !.resource = ats]
    BY <1>1 DEF WithAttrs
  <2>2. IsBlocks(c) /\ TermList(c) = TermList(ast) /\ c.resource = ats
    BY <2>1, PatternReplaced
  <2>3. QED
    BY <1>1, <2>2 DEF Identified, Mounted, Beneath
<1>2. CASE editor # OwnPattern
  <2>1. PICK k \in 1 .. Len(ids) : \E side \in Edited(TermList(ast)[k]) : editor = <<ids[k], side>>
    BY <1>2, EditorsNamed
  <2>2. PICK side \in Edited(TermList(ast)[k]) : editor = <<ids[k], side>>
    BY <2>1
  <2>3. /\ side \in Sides /\ TermList(ast)[k] \in BlockTerm /\ IsInjective(ids) /\ DOMAIN ids = 1 .. Len(ids)
    BY BlockShape, EditorsNamed, LenProperties, ElementOfSeq DEF Identified
  <2> DEFINE was == TermList(ast)[k]
             term == WithPattern(was, side, ats)
  <2>4. c = UpdateTerm(k, term)
    <3>1. PlaceOf(editor) = k
      BY <2>2, <2>3 DEF PlaceOf, IsInjective
    <3>2. QED
      BY <1>2, <2>2, <3>1, BlockForms DEF WithAttrs
  <2>5. /\ term \in BlockTerm /\ Pattern(term, side) = ats /\ Edited(term) = Edited(was)
        /\ \A s \in Sides \ {side} : Pattern(term, s) = Pattern(was, s)
    BY <2>3, TermPatterns
  <2> HIDE DEF term
  <2>6. /\ IsBlocks(c) /\ c.resource = ast.resource /\ Identified(c, ids, nextId)
        /\ \A e \in Mounted(ast, ids) : e[1] # ids[k] => e \in Mounted(c, ids) /\ Beneath(c, ids, e) = Beneath(ast, ids, e)
        /\ \A s \in Edited(term) : /\ <<ids[k], s>> \in Mounted(c, ids)
                                   /\ Beneath(c, ids, <<ids[k], s>>) = Pattern(term, s)
    BY <2>4, <2>5, TermUpdated
  <2>7. ASSUME NEW e \in Mounted(ast, ids), e # editor
        PROVE  e \in Mounted(c, ids) /\ Beneath(c, ids, e) = Beneath(ast, ids, e)
    <3>1. CASE e[1] # ids[k]
      BY <2>6, <3>1
    <3>2. CASE e[1] = ids[k]
      <4>1. PICK s \in Edited(was) : e = <<ids[k], s>>
        <5>1. ids[k] # 0 /\ e # OwnPattern
          BY <2>3, <3>2 DEF OwnPattern, Identified
        <5>2. PICK j \in 1 .. Len(ids) : \E s \in Edited(TermList(ast)[j]) : e = <<ids[j], s>>
          BY <5>1, EditorsNamed
        <5>3. j = k
          BY <2>3, <3>2, <5>2 DEF IsInjective
        <5>4. QED
          BY <5>2, <5>3
      <4>2. s \in Sides \ {side}
        BY <2>2, <2>7, <4>1, EditorsNamed
      <4>3. Beneath(ast, ids, e) = Pattern(was, s)
        BY <4>1, <4>2, EditorsNamed
      <4>4. QED
        BY <2>5, <2>6, <4>1, <4>2, <4>3
    <3>3. QED
      BY <3>1, <3>2
  <2>8. QED
    BY <2>2, <2>5, <2>6, <2>7
<1>3. QED
  BY <1>1, <1>2

\* What an editor reports of its own rows.
LEMMA ReportedRight ==
  ASSUME NEW editor, invalid = Unparsed(drafts), Report({editor}, ~Broken(editor, drafts')),
         \A row \in DOMAIN drafts : row[1] \notin {editor} => row \in DOMAIN drafts' /\ drafts'[row] = drafts[row],
         \A row \in DOMAIN drafts' : row[1] \notin {editor} => row \in DOMAIN drafts /\ drafts'[row] = drafts[row]
  PROVE  invalid' = Unparsed(drafts') /\ (blocksValid' <=> invalid' = {})
<1> DEFINE editors == {editor}
<1>0. /\ \A row \in DOMAIN drafts : row[1] \notin editors => row \in DOMAIN drafts' /\ drafts'[row] = drafts[row]
      /\ \A row \in DOMAIN drafts' : row[1] \notin editors => row \in DOMAIN drafts /\ drafts'[row] = drafts[row]
  OBVIOUS
<1>1. CASE Broken(editor, drafts')
  <2>1. \A e \in editors : \E row \in DOMAIN drafts' : row[1] = e /\ drafts'[row] = "?"
    BY <1>1 DEF Broken
  <2> HIDE DEF editors
  <2>2. Unparsed(drafts') = Unparsed(drafts) \cup editors
    BY <1>0, <2>1, UnparsedReported
  <2>3. QED
    BY <1>1, <2>2 DEF Report, editors
<1>2. CASE ~Broken(editor, drafts')
  <2>1. \A row \in DOMAIN drafts' : row[1] \in editors => drafts'[row] # "?"
    BY <1>2 DEF Broken
  <2> HIDE DEF editors
  <2>2. Unparsed(drafts') = Unparsed(drafts) \ editors
    BY <1>0, <2>1, UnparsedReported
  <2>3. QED
    BY <1>2, <2>2 DEF Report, editors
<1>3. QED
  BY <1>1, <1>2

LEMMA BeneathTyped ==
  ASSUME NEW b, IsBlocks(b), NEW is, NEW next, Identified(b, is, next), NEW e \in Mounted(b, is)
  PROVE  Beneath(b, is, e) \in Seq(RowTexts)
<1>1. CASE e = OwnPattern
  BY <1>1, BlockShape DEF Beneath
<1>2. CASE e # OwnPattern
  <2>1. PICK k \in 1 .. Len(is) : \E side \in Edited(TermList(b)[k]) : e = <<is[k], side>>
    BY <1>2, EditorsNamed
  <2>2. PICK side \in Edited(TermList(b)[k]) : e = <<is[k], side>>
    BY <2>1
  <2>3. side \in Sides /\ TermList(b)[k] \in BlockTerm
    BY BlockShape, EditorsNamed, ElementOfSeq DEF Identified
  <2>4. Pattern(TermList(b)[k], side) \in Seq(RowTexts)
    <3>1. <<>> \in Seq(RowTexts)
      OBVIOUS
    <3>2. QED
      BY <2>3, <3>1, TermPatterns
  <2>5. Beneath(b, is, <<is[k], side>>) = Pattern(TermList(b)[k], side)
    BY <2>3, EditorsNamed
  <2>6. QED
    BY <2>2, <2>4, <2>5
<1>3. QED
  BY <1>1, <1>2

\* Every action comes to this: it leaves the pattern beneath each editor whose rows
\* it keeps, up to the attribute of a user.
LEMMA BlocksForgotten ==
  ASSUME BlocksInv, tab = "simple", tab' = tab, NEW gone,
         IsBlocks(ast'), nextId' \in Nat \ {0}, Identified(ast', ids', nextId'),
         \/ drafts' = Forget(gone) /\ Report(gone, TRUE)
         \/ gone = {} /\ UNCHANGED <<drafts, reports>>,
         \A e \in Mounted(ast, ids) \ gone :
            /\ e \in Mounted(ast', ids')
            /\ RowKeys(Beneath(ast, ids, e)) \subseteq RowKeys(Beneath(ast', ids', e))
            /\ \A at \in Range(Beneath(ast, ids, e)) :
                  RowKey[at] # "userId" => at \in Range(Beneath(ast', ids', e))
  PROVE  BlocksInv'
<1>1. RowsOf(ast, ids, drafts) /\ invalid = Unparsed(drafts) /\ (blocksValid <=> invalid = {})
  BY DEF BlocksInv
<1>2. \A row \in DOMAIN drafts' : row \in DOMAIN drafts /\ drafts'[row] = drafts[row] /\ row[1] \notin gone
  BY DEF Forget, Restrict, reports
<1>3. RowsOf(ast', ids', drafts')
  <2>1. \A row \in DOMAIN drafts : row[1] \in Mounted(ast, ids)
    BY <1>1 DEF RowsOf
  <2>2. QED
    BY <1>1, <1>2, <2>1, RowsCarried
<1>4. invalid' = Unparsed(drafts') /\ (blocksValid' <=> invalid' = {})
  <2>1. CASE drafts' = Forget(gone) /\ Report(gone, TRUE)
    <3>1. \A row \in DOMAIN drafts : row[1] \notin gone => row \in DOMAIN drafts' /\ drafts'[row] = drafts[row]
      BY <2>1 DEF Forget, Restrict
    <3>2. \A row \in DOMAIN drafts' : row[1] \notin gone => row \in DOMAIN drafts /\ drafts'[row] = drafts[row]
      BY <1>2
    <3>3. \A row \in DOMAIN drafts' : row[1] \in gone => drafts'[row] # "?"
      BY <1>2
    <3>4. Unparsed(drafts') = Unparsed(drafts) \ gone
      BY <3>1, <3>2, <3>3, UnparsedReported
    <3>5. QED
      BY <1>1, <2>1, <3>4 DEF Report
  <2>2. CASE gone = {} /\ UNCHANGED <<drafts, reports>>
    BY <1>1, <2>2 DEF reports
  <2>3. QED
    BY <2>1, <2>2
<1>5. QED
  BY <1>3, <1>4 DEF BlocksInv

\* A row is typed into.
LEMMA RowUpdated ==
  ASSUME BlocksInv, tab = "simple", NEW editor \in Editors, UpdateRow(editor)
  PROVE  BlocksInv'
<1> DEFINE ats == Beneath(ast, ids, editor)
<1>1. /\ IsBlocks(ast) /\ Identified(ast, ids, nextId) /\ RowsOf(ast, ids, drafts) /\ nextId \in Nat \ {0}
      /\ invalid = Unparsed(drafts) /\ editor \in Mounted(ast, ids) /\ AttrsOf(editor) = ats
  BY BlockForms DEF BlocksInv
<1>2. ats \in Seq(RowTexts)
  BY <1>1, BeneathTyped
<1>3. PICK n \in DOMAIN ats : \E shown \in Values(RowKey[ats[n]]) \cup {"?"} :
         /\ drafts' = Put(<<editor, RowKey[ats[n]]>>, shown)
         /\ Report({editor}, ~Broken(editor, drafts'))
         /\ ast' = IF shown = "?" THEN ast ELSE WithAttrs(editor, [ats EXCEPT ![n] = shown])
  BY <1>1 DEF UpdateRow
<1> DEFINE key == RowKey[ats[n]]
<1>4. PICK shown \in Values(key) \cup {"?"} :
         /\ drafts' = Put(<<editor, key>>, shown)
         /\ Report({editor}, ~Broken(editor, drafts'))
         /\ ast' = IF shown = "?" THEN ast ELSE WithAttrs(editor, [ats EXCEPT ![n] = shown])
  BY <1>3
<1>5. ids' = ids /\ nextId' = nextId /\ tab' = tab
  BY DEF UpdateRow
<1> DEFINE new == [ats EXCEPT ![n] = shown]
           row == <<editor, key>>
<1>6. /\ IsBlocks(ast') /\ Identified(ast', ids, nextId) /\ editor \in Mounted(ast', ids)
      /\ \A e \in Mounted(ast, ids) : e # editor => e \in Mounted(ast', ids) /\ Beneath(ast', ids, e) = Beneath(ast, ids, e)
      /\ Beneath(ast', ids, editor) = IF shown = "?" THEN ats ELSE new
      /\ shown # "?" => shown \in RowTexts /\ RowKey[shown] = key /\ new \in Seq(RowTexts)
  <2>1. CASE shown = "?"
    BY <1>1, <1>4, <2>1
  <2>2. CASE shown # "?"
    <3>1. shown \in RowTexts /\ RowKey[shown] = key
      BY <1>4, <2>2, BlocksAssumption DEF BlocksAssumption, Values
    <3>2. new \in Seq(RowTexts)
      BY <1>2, <3>1, ExceptSeq
    <3>3. ast' = WithAttrs(editor, new)
      BY <1>4, <2>2
    <3> HIDE DEF new, ats
    <3>4. QED
      BY <1>1, <2>2, <3>1, <3>2, <3>3, AttrsWritten
  <2>3. QED
    BY <2>1, <2>2
<1>7. /\ DOMAIN drafts' = DOMAIN drafts \cup {row} /\ drafts'[row] = shown
      /\ \A r \in DOMAIN drafts : r # row => drafts'[r] = drafts[r]
  BY <1>4 DEF Put
<1>8. /\ key \in RowKeys(Beneath(ast', ids, editor)) /\ RowKeys(ats) \subseteq RowKeys(Beneath(ast', ids, editor))
      /\ shown # "?" => shown \in Range(Beneath(ast', ids, editor))
      /\ \A at \in Range(ats) : RowKey[at] # key => at \in Range(Beneath(ast', ids, editor))
  <2>1. CASE shown = "?"
    BY <1>6, <2>1 DEF RowKeys
  <2>2. CASE shown # "?"
    <3>1. DOMAIN new = DOMAIN ats /\ new[n] = shown /\ \A m \in DOMAIN ats : m # n => new[m] = ats[m]
      BY <1>2
    <3>2. Beneath(ast', ids, editor) = new
      BY <1>6, <2>2
    <3> HIDE DEF new, ats
    <3>3. QED
      BY <1>6, <2>2, <3>1, <3>2 DEF RowKeys, Range
  <2>3. QED
    BY <2>1, <2>2
<1> HIDE DEF new, ats
<1>9. RowsOf(ast', ids, drafts')
  <2> SUFFICES ASSUME NEW r \in DOMAIN drafts'
               PROVE  /\ r = <<r[1], r[2]>>
                      /\ r[1] \in Mounted(ast', ids) /\ r[2] \in RowKeys(Beneath(ast', ids, r[1]))
                      /\ \/ drafts'[r] = "?" \/ r[2] = "userId"
                         \/ drafts'[r] \in Range(Beneath(ast', ids, r[1])) /\ RowKey[drafts'[r]] = r[2]
    BY DEF RowsOf
  <2>1. CASE r = row
    <3>1. r[1] = editor /\ r[2] = key
      BY <2>1
    <3>2. QED
      BY <1>6, <1>7, <1>8, <2>1, <3>1
  <2>2. CASE r # row /\ r[1] # editor
    BY <1>1, <1>6, <1>7, <2>2 DEF RowsOf
  <2>3. CASE r # row /\ r[1] = editor
    <3>1. /\ r \in DOMAIN drafts /\ drafts'[r] = drafts[r] /\ r = <<r[1], r[2]>> /\ r[2] \in RowKeys(ats)
          /\ \/ drafts[r] = "?" \/ r[2] = "userId"
             \/ drafts[r] \in Range(ats) /\ RowKey[drafts[r]] = r[2]
      BY <1>1, <1>7, <2>3 DEF RowsOf, ats
    <3>2. r[2] # key
      BY <2>3, <3>1
    <3>3. QED
      BY <1>6, <1>8, <2>3, <3>1, <3>2
  <2>4. QED
    BY <2>1, <2>2, <2>3
<1>10. invalid' = Unparsed(drafts') /\ (blocksValid' <=> invalid' = {})
  <2>1. \A r \in DOMAIN drafts : r[1] \notin {editor} => r \in DOMAIN drafts' /\ drafts'[r] = drafts[r]
    BY <1>7
  <2>2. \A r \in DOMAIN drafts' : r[1] \notin {editor} => r \in DOMAIN drafts /\ drafts'[r] = drafts[r]
    BY <1>7
  <2>3. QED
    BY <1>1, <1>4, <2>1, <2>2, ReportedRight
<1>11. QED
  BY <1>1, <1>5, <1>6, <1>9, <1>10 DEF BlocksInv

LEMMA Removed ==
  ASSUME NEW S, NEW s \in Seq(S), NEW n \in 1 .. Len(s), NEW t, t = RemoveAt(s, n)
  PROVE  /\ t \in Seq(S) /\ Len(t) = Len(s) - 1
         /\ \A j \in 1 .. Len(t) : t[j] = IF j < n THEN s[j] ELSE s[j + 1]
         /\ \A m \in 1 .. Len(s) : m # n => IF m < n THEN m \in 1 .. Len(t) /\ t[m] = s[m]
                                            ELSE m - 1 \in 1 .. Len(t) /\ t[m - 1] = s[m]
<1> DEFINE l == SubSeq(s, 1, n - 1)
           r == SubSeq(s, n + 1, Len(s))
<1>1. Len(s) \in Nat /\ n \in Int /\ \A j \in 1 .. Len(s) : s[j] \in S
  BY LenProperties, ElementOfSeq
<1>2. l \in Seq(S) /\ Len(l) = n - 1 /\ \A j \in 1 .. n - 1 : l[j] = s[j]
  BY <1>1
<1>3. r \in Seq(S) /\ Len(r) = Len(s) - n /\ \A j \in 1 .. Len(s) - n : r[j] = s[n + j]
  BY <1>1
<1>4. t = l \o r
  BY DEF RemoveAt
<1> HIDE DEF l, r
<1>5. t \in Seq(S) /\ Len(t) = Len(s) - 1
  BY <1>1, <1>2, <1>3, <1>4, ConcatProperties
<1>6. ASSUME NEW j \in 1 .. Len(t) PROVE t[j] = IF j < n THEN s[j] ELSE s[j + 1]
  <2>1. t[j] = IF j <= n - 1 THEN l[j] ELSE r[j - (n - 1)]
    BY <1>1, <1>2, <1>3, <1>4, <1>5, ConcatProperties
  <2>2. CASE j < n
    BY <1>1, <1>2, <1>5, <2>1, <2>2
  <2>3. CASE j >= n
    <3>1. j - (n - 1) \in 1 .. Len(s) - n /\ n + (j - (n - 1)) = j + 1
      BY <1>1, <1>5, <2>3
    <3>2. QED
      BY <1>1, <1>3, <2>1, <2>3, <3>1
  <2>4. QED
    BY <1>1, <1>5, <2>2, <2>3
<1>7. ASSUME NEW m \in 1 .. Len(s), m # n
      PROVE  IF m < n THEN m \in 1 .. Len(t) /\ t[m] = s[m] ELSE m - 1 \in 1 .. Len(t) /\ t[m - 1] = s[m]
  BY <1>1, <1>5, <1>6, <1>7
<1>8. QED
  BY <1>5, <1>6, <1>7

\* A row is removed.
LEMMA RowRemoved ==
  ASSUME BlocksInv, tab = "simple", NEW editor \in Editors, RemoveRow(editor)
  PROVE  BlocksInv'
<1> DEFINE ats == Beneath(ast, ids, editor)
<1>1. /\ IsBlocks(ast) /\ Identified(ast, ids, nextId) /\ RowsOf(ast, ids, drafts) /\ nextId \in Nat \ {0}
      /\ invalid = Unparsed(drafts) /\ editor \in Mounted(ast, ids) /\ AttrsOf(editor) = ats
  BY BlockForms DEF BlocksInv
<1>2. ats \in Seq(RowTexts)
  BY <1>1, BeneathTyped
<1>3. PICK n \in DOMAIN ats :
         /\ drafts' = Restrict(drafts, DOMAIN drafts \ {<<editor, RowKey[ats[n]]>>})
         /\ Report({editor}, ~Broken(editor, drafts'))
         /\ ast' = WithAttrs(editor, RemoveAt(ats, n))
  BY <1>1 DEF RemoveRow
<1> DEFINE key == RowKey[ats[n]]
           new == RemoveAt(ats, n)
<1>4. ids' = ids /\ nextId' = nextId /\ tab' = tab
  BY DEF RemoveRow
<1>5. /\ new \in Seq(RowTexts)
      /\ \A m \in DOMAIN ats : m # n => ats[m] \in Range(new) /\ RowKey[ats[m]] \in RowKeys(new)
  <2>1. n \in 1 .. Len(ats) /\ DOMAIN ats = 1 .. Len(ats) /\ Len(ats) \in Nat
    BY <1>2, LenProperties
  <2> HIDE DEF ats
  <2>2. /\ new \in Seq(RowTexts)
        /\ \A m \in 1 .. Len(ats) : m # n => IF m < n THEN m \in 1 .. Len(new) /\ new[m] = ats[m]
                                              ELSE m - 1 \in 1 .. Len(new) /\ new[m - 1] = ats[m]
    BY <1>2, <2>1, Removed
  <2> HIDE DEF new
  <2>3. DOMAIN new = 1 .. Len(new)
    BY <2>2, LenProperties
  <2>4. QED
    BY <2>1, <2>2, <2>3 DEF Range, RowKeys
<1> HIDE DEF new
<1>6. /\ IsBlocks(ast') /\ Identified(ast', ids, nextId) /\ editor \in Mounted(ast', ids)
      /\ \A e \in Mounted(ast, ids) : e # editor => e \in Mounted(ast', ids) /\ Beneath(ast', ids, e) = Beneath(ast, ids, e)
      /\ Beneath(ast', ids, editor) = new
  BY <1>1, <1>3, <1>5, AttrsWritten DEF new
<1>7. \A row \in DOMAIN drafts' : row \in DOMAIN drafts /\ drafts'[row] = drafts[row] /\ row # <<editor, key>>
  BY <1>3 DEF Restrict
<1>8. \A row \in DOMAIN drafts : row # <<editor, key>> => row \in DOMAIN drafts' /\ drafts'[row] = drafts[row]
  BY <1>3 DEF Restrict
<1>9. RowsOf(ast', ids, drafts')
  <2>1. ASSUME NEW row \in DOMAIN drafts'
        PROVE  /\ row \in DOMAIN drafts /\ drafts'[row] = drafts[row]
               /\ row[1] \in Mounted(ast', ids)
               /\ row[2] \in RowKeys(Beneath(ast, ids, row[1])) => row[2] \in RowKeys(Beneath(ast', ids, row[1]))
               /\ \A at \in Range(Beneath(ast, ids, row[1])) :
                     RowKey[at] = row[2] /\ row[2] # "userId" => at \in Range(Beneath(ast', ids, row[1]))
    <3>1. row \in DOMAIN drafts /\ drafts'[row] = drafts[row] /\ row # <<editor, key>>
          /\ row[1] \in Mounted(ast, ids) /\ row = <<row[1], row[2]>>
      BY <1>1, <1>7 DEF RowsOf
    <3>2. CASE row[1] # editor
      BY <1>6, <3>1, <3>2
    <3>3. CASE row[1] = editor
      <4>1. row[2] # key
        BY <3>1, <3>3
      <4>2. \A m \in DOMAIN ats : RowKey[ats[m]] = row[2] => ats[m] \in Range(new) /\ row[2] \in RowKeys(new)
        BY <1>5, <4>1
      <4> HIDE DEF ats
      <4>3. row[2] \in RowKeys(ats) => row[2] \in RowKeys(new)
        BY <4>2 DEF RowKeys
      <4>4. \A at \in Range(ats) : RowKey[at] = row[2] => at \in Range(new)
        BY <4>2 DEF Range
      <4>5. QED
        BY <1>6, <3>1, <3>3, <4>3, <4>4 DEF ats
    <3>4. QED
      BY <3>2, <3>3
  <2>2. QED
    BY <1>1, <2>1, RowsCarried
<1>10. invalid' = Unparsed(drafts') /\ (blocksValid' <=> invalid' = {})
  <2>1. \A row : row[1] \notin {editor} => row # <<editor, key>>
    OBVIOUS
  <2>2. \A row \in DOMAIN drafts : row[1] \notin {editor} => row \in DOMAIN drafts' /\ drafts'[row] = drafts[row]
    BY <1>8, <2>1
  <2>3. \A row \in DOMAIN drafts' : row[1] \notin {editor} => row \in DOMAIN drafts /\ drafts'[row] = drafts[row]
    BY <1>7
  <2>4. QED
    BY <1>1, <1>3, <2>2, <2>3, ReportedRight
<1>11. QED
  BY <1>1, <1>4, <1>6, <1>9, <1>10 DEF BlocksInv

\* A row is added.
LEMMA RowAdded ==
  ASSUME BlocksInv, tab = "simple", NEW editor \in Editors, AddRow(editor)
  PROVE  BlocksInv'
<1> DEFINE ats == Beneath(ast, ids, editor)
<1>1. /\ IsBlocks(ast) /\ Identified(ast, ids, nextId) /\ nextId \in Nat \ {0}
      /\ editor \in Mounted(ast, ids) /\ AttrsOf(editor) = ats
  BY BlockForms DEF BlocksInv
<1>2. ats \in Seq(RowTexts)
  BY <1>1, BeneathTyped
<1>3. PICK at \in RowTexts : ast' = WithAttrs(editor, Append(ats, at))
  BY <1>1, BlocksAssumption DEF AddRow, BlocksAssumption
<1> DEFINE new == Append(ats, at)
<1>4. new \in Seq(RowTexts) /\ \A m \in DOMAIN ats : m \in DOMAIN new /\ new[m] = ats[m]
  BY <1>2, AppendProperties, LenProperties
<1>0. ast' = WithAttrs(editor, new)
  BY <1>3
<1> HIDE DEF new
<1>5. /\ IsBlocks(ast') /\ Identified(ast', ids, nextId) /\ editor \in Mounted(ast', ids)
      /\ \A e \in Mounted(ast, ids) : e # editor => e \in Mounted(ast', ids) /\ Beneath(ast', ids, e) = Beneath(ast, ids, e)
      /\ Beneath(ast', ids, editor) = new
  BY <1>0, <1>1, <1>4, AttrsWritten
<1> HIDE DEF ats
<1>6. RowKeys(ats) \subseteq RowKeys(new) /\ \A a \in Range(ats) : a \in Range(new)
  BY <1>4 DEF RowKeys, Range
<1>7. ids' = ids /\ nextId' = nextId /\ tab' = tab /\ UNCHANGED <<drafts, reports>>
  BY DEF AddRow
<1>8. \A e \in Mounted(ast, ids) \ {} :
            /\ e \in Mounted(ast', ids')
            /\ RowKeys(Beneath(ast, ids, e)) \subseteq RowKeys(Beneath(ast', ids', e))
            /\ \A a \in Range(Beneath(ast, ids, e)) :
                  RowKey[a] # "userId" => a \in Range(Beneath(ast', ids', e))
  BY <1>5, <1>6, <1>7 DEF ats
<1>9. QED
  BY <1>1, <1>5, <1>7, <1>8, BlocksForgotten

\* The pattern is picked, under an editor mounted afresh.
LEMMA ResourcePicked ==
  ASSUME BlocksInv, tab = "simple", PickResource
  PROVE  BlocksInv'
<1>1. IsBlocks(ast) /\ Identified(ast, ids, nextId) /\ nextId \in Nat \ {0}
  BY DEF BlocksInv
<1>2. PICK ats \in Seq(RowTexts) : ast' = [ast EXCEPT !.resource = ats]
  BY BlocksAssumption DEF PickResource, BlocksAssumption
<1>3. ids' = ids /\ nextId' = nextId /\ tab' = tab /\ drafts' = Forget({OwnPattern}) /\ Report({OwnPattern}, TRUE)
  BY DEF PickResource
<1>4. IsBlocks(ast') /\ TermList(ast') = TermList(ast)
  BY <1>1, <1>2, PatternReplaced
<1>5. Identified(ast', ids', nextId')
  BY <1>1, <1>3, <1>4 DEF Identified
<1>6. \A e \in Mounted(ast, ids) \ {OwnPattern} : e \in Mounted(ast', ids') /\ Beneath(ast', ids', e) = Beneath(ast, ids, e)
  BY <1>3, <1>4 DEF Mounted, Beneath
<1>7. QED
  BY <1>1, <1>3, <1>4, <1>5, <1>6, BlocksForgotten

\* A condition is written.
LEMMA ConditionSet ==
  ASSUME BlocksInv, tab = "simple", SetCondition
  PROVE  BlocksInv'
<1>1. IsBlocks(ast) /\ Identified(ast, ids, nextId) /\ nextId \in Nat \ {0}
  BY DEF BlocksInv
<1>2. PICK said \in {<<>>} \cup {<<s>> : s \in TypedConditions} : ast' = [ast EXCEPT !.condition = said]
  BY DEF SetCondition
<1>3. ids' = ids /\ nextId' = nextId /\ tab' = tab /\ UNCHANGED <<drafts, reports>>
  BY DEF SetCondition
<1>4. IsBlocks(ast') /\ ast'.exchange = ast.exchange /\ ast'.resource = ast.resource
  BY <1>1, <1>2 DEF IsBlocks
<1>5. TermList(ast') = TermList(ast)
  BY <1>4 DEF TermList
<1>6. Identified(ast', ids', nextId')
  BY <1>1, <1>3, <1>5 DEF Identified
<1>7. \A e \in Mounted(ast, ids) : e \in Mounted(ast', ids') /\ Beneath(ast', ids', e) = Beneath(ast, ids, e)
  BY <1>3, <1>4, <1>5 DEF Mounted, Beneath
<1>8. QED
  BY <1>1, <1>3, <1>4, <1>6, <1>7, BlocksForgotten

LEMMA NewTermShape == NewTerm \in BlockTerm /\ Me \in BlockParty /\ Requester \in BlockParty
<1>1. <<>> \in Seq(RowTexts)
  OBVIOUS
<1>2. Me \in BlockParty /\ Requester \in BlockParty
  BY <1>1 DEF Me, Requester, BlockParty
<1>3. QED
  BY <1>1, <1>2 DEF NewTerm, BlockTerm

\* A rule comes to ask for something.
LEMMA ExchangeAsked ==
  ASSUME BlocksInv, tab = "simple", AskExchange
  PROVE  BlocksInv'
<1> DEFINE ts == <<NewTerm>>
<1>1. IsBlocks(ast) /\ Identified(ast, ids, nextId) /\ nextId \in Nat \ {0}
  BY DEF BlocksInv
<1>2. ts \in Seq(BlockTerm) /\ ts # <<>> /\ Len(ts) = 1
  BY NewTermShape
<1>3. /\ ast' = [ast EXCEPT !.exchange = <<[op |-> "and", terms |-> ts]>>] /\ ast.exchange = <<>>
      /\ ids' = <<nextId>> /\ nextId' = nextId + 1 /\ tab' = tab /\ UNCHANGED <<drafts, reports>>
  BY DEF AskExchange
<1> HIDE DEF ts
<1>4. IsBlocks(ast') /\ TermList(ast') = ts /\ ast'.resource = ast.resource
  BY <1>1, <1>2, <1>3, TermsReplaced
<1>5. Identified(ast', ids', nextId')
  <2>1. ids' \in Seq(Nat \ {0}) /\ Len(ids') = 1 /\ ids'[1] = nextId
    BY <1>1, <1>3
  <2>2. DOMAIN ids' = {1}
    BY <2>1, LenProperties
  <2>3. QED
    BY <1>1, <1>2, <1>3, <1>4, <2>1, <2>2 DEF Identified, IsInjective
<1>6. \A e \in Mounted(ast, ids) : e \in Mounted(ast', ids') /\ Beneath(ast', ids', e) = Beneath(ast, ids, e)
  BY <1>3, <1>4 DEF Mounted, Beneath, TermList
<1>7. nextId' \in Nat \ {0}
  BY <1>1, <1>3
<1>8. QED
  BY <1>3, <1>4, <1>5, <1>6, <1>7, BlocksForgotten

\* A term is added: under an identity never given before.
LEMMA TermAdded ==
  ASSUME BlocksInv, tab = "simple", AddTerm
  PROVE  BlocksInv'
<1> DEFINE was == TermList(ast)
           ts == Append(was, NewTerm)
<1>1. IsBlocks(ast) /\ Identified(ast, ids, nextId) /\ nextId \in Nat \ {0}
  BY DEF BlocksInv
<1>2. was \in Seq(BlockTerm) /\ was # <<>> /\ Len(ids) = Len(was) /\ Len(ids) \in Nat
  BY <1>1, BlockForms, BlockShape, LenProperties DEF AddTerm, Identified
<1>3. ts \in Seq(BlockTerm) /\ ts # <<>> /\ Len(ts) = Len(was) + 1 /\ \A k \in 1 .. Len(was) : ts[k] = was[k]
  BY <1>2, NewTermShape, AppendProperties
<1>4. ast' = [ast EXCEPT !.exchange = NormalizeExchange(ast.exchange[1].op, ts)]
  BY BlockForms DEF AddTerm, WithTerms
<1>5. ids' = Append(ids, nextId) /\ nextId' = nextId + 1 /\ tab' = tab /\ UNCHANGED <<drafts, reports>>
  BY DEF AddTerm
<1> HIDE DEF was, ts
<1>6. IsBlocks(ast') /\ TermList(ast') = ts /\ ast'.resource = ast.resource
  BY <1>1, <1>2, <1>3, <1>4, TermsWritten DEF was
<1>7. /\ ids' \in Seq(Nat \ {0}) /\ Len(ids') = Len(ids) + 1 /\ ids'[Len(ids) + 1] = nextId
      /\ \A k \in 1 .. Len(ids) : ids'[k] = ids[k]
  BY <1>1, <1>5, AppendProperties DEF Identified
<1>8. Identified(ast', ids', nextId')
  <2>1. DOMAIN ids = 1 .. Len(ids) /\ DOMAIN ids' = 1 .. Len(ids) + 1
    BY <1>1, <1>7, LenProperties DEF Identified
  <2>2. \A k \in 1 .. Len(ids) : ids[k] \in Nat /\ ids[k] < nextId
    BY <1>1, ElementOfSeq DEF Identified
  <2>3. \A j, k \in 1 .. Len(ids) : ids[j] = ids[k] => j = k
    BY <1>1, <2>1 DEF Identified, IsInjective
  <2>4. \A k \in 1 .. Len(ids) + 1 : k \in 1 .. Len(ids) \/ k = Len(ids) + 1
    BY <1>2
  <2>5. \A k \in 1 .. Len(ids') : ids'[k] < nextId'
    BY <1>1, <1>5, <1>7, <2>2, <2>4
  <2>6. IsInjective(ids')
    BY <1>1, <1>7, <2>1, <2>2, <2>3, <2>4 DEF IsInjective
  <2>7. QED
    BY <1>2, <1>3, <1>6, <1>7, <2>5, <2>6 DEF Identified
<1>9. ASSUME NEW e \in Mounted(ast, ids)
      PROVE  e \in Mounted(ast', ids') /\ Beneath(ast', ids', e) = Beneath(ast, ids, e)
  <2>1. Stays(ast, ids, ast', ids', e[1])
    <3>1. \A k \in 1 .. Len(ids) : k \in 1 .. Len(ids') /\ ids'[k] = ids[k] /\ TermList(ast')[k] = TermList(ast)[k]
      BY <1>2, <1>3, <1>6, <1>7 DEF was
    <3>2. QED
      BY <3>1 DEF Stays
  <2>2. QED
    BY <1>1, <1>6, <1>8, <2>1, EditorsCarried
<1>10. nextId' \in Nat \ {0}
  BY <1>1, <1>5
<1>11. QED
  BY <1>5, <1>6, <1>8, <1>9, <1>10, BlocksForgotten

\* A term is removed: what its editors reported goes with it.
LEMMA TermRemoved ==
  ASSUME BlocksInv, tab = "simple", RemoveTerm
  PROVE  BlocksInv'
<1> DEFINE was == TermList(ast)
           Gone(k) == {<<ids[k], side>> : side \in Sides}
<1>1. IsBlocks(ast) /\ Identified(ast, ids, nextId) /\ nextId \in Nat \ {0} /\ Terms = was
  BY BlockForms DEF BlocksInv
<1>2. /\ was \in Seq(BlockTerm) /\ ids \in Seq(Nat \ {0}) /\ Len(ids) = Len(was) /\ Len(ids) \in Nat
      /\ DOMAIN was = 1 .. Len(ids) /\ DOMAIN ids = 1 .. Len(ids)
  BY <1>1, BlockShape, LenProperties DEF Identified
<1>3. PICK k \in 1 .. Len(ids) :
         /\ drafts' = Forget(Gone(k)) /\ Report(Gone(k), TRUE)
         /\ ids' = RemoveAt(ids, k) /\ ast' = Without(k)
  BY <1>1, <1>2 DEF RemoveTerm, Sides
<1>4. nextId' = nextId /\ tab' = tab
  BY DEF RemoveTerm
<1>5. /\ ids' \in Seq(Nat \ {0}) /\ Len(ids') = Len(ids) - 1
      /\ \A j \in 1 .. Len(ids') : ids'[j] = IF j < k THEN ids[j] ELSE ids[j + 1]
      /\ \A m \in 1 .. Len(ids) : m # k => IF m < k THEN m \in 1 .. Len(ids') /\ ids'[m] = ids[m]
                                           ELSE m - 1 \in 1 .. Len(ids') /\ ids'[m - 1] = ids[m]
  <2> DEFINE P == Nat \ {0}
  <2>1. ids \in Seq(P)
    BY <1>2
  <2>2. ids' = RemoveAt(ids, k)
    BY <1>3
  <2> HIDE DEF P
  <2>3. /\ ids' \in Seq(P) /\ Len(ids') = Len(ids) - 1
        /\ \A j \in 1 .. Len(ids') : ids'[j] = IF j < k THEN ids[j] ELSE ids[j + 1]
        /\ \A m \in 1 .. Len(ids) : m # k => IF m < k THEN m \in 1 .. Len(ids') /\ ids'[m] = ids[m]
                                             ELSE m - 1 \in 1 .. Len(ids') /\ ids'[m - 1] = ids[m]
    BY <2>1, <2>2, Removed
  <2>4. QED
    BY <2>3 DEF P
<1>6. /\ IsBlocks(ast') /\ ast'.resource = ast.resource /\ Len(TermList(ast')) = Len(ids')
      /\ \A m \in 1 .. Len(ids) : m # k => TermList(ast')[IF m < k THEN m ELSE m - 1] = was[m]
  <2>1. CASE Len(was) = 1
    <3>1. ast' = [ast EXCEPT !.exchange = <<>>]
      BY <1>1, <1>3, <2>1 DEF Without
    <3>2. IsBlocks(ast') /\ ast'.exchange = <<>> /\ ast'.resource = ast.resource
      <4> DEFINE X == [op : {"and", "or"}, terms : Seq(BlockTerm) \ {<<>>}]
                 C == {<<>>} \cup {<<said>> : said \in TypedConditions}
      <4>1. ast \in [resource : Seq(RowTexts), condition : C, exchange : Seq(X)]
        BY <1>1 DEF IsBlocks
      <4>2. <<>> \in Seq(X) /\ Len(<<>>) <= 1
        OBVIOUS
      <4> HIDE DEF X, C
      <4>3. /\ ast'.exchange = <<>> /\ ast'.resource = ast.resource
            /\ ast' \in [resource : Seq(RowTexts), condition : C, exchange : Seq(X)]
        BY <3>1, <4>1, <4>2
      <4>4. QED
        BY <4>2, <4>3 DEF IsBlocks, X, C
    <3>3. TermList(ast') = <<>> /\ Len(ids') = 0
      BY <1>2, <1>5, <2>1, <3>2 DEF TermList
    <3>4. \A m \in 1 .. Len(ids) : m = k
      BY <1>2, <2>1
    <3>5. QED
      BY <3>2, <3>3, <3>4
  <2>2. CASE Len(was) # 1
    <3> DEFINE ts == RemoveAt(was, k)
    <3>1. ast' = [ast EXCEPT !.exchange = NormalizeExchange(ast.exchange[1].op, ts)]
      BY <1>1, <1>3, <2>2 DEF Without, WithTerms
    <3> HIDE DEF was
    <3>2. /\ ts \in Seq(BlockTerm) /\ Len(ts) = Len(was) - 1
          /\ \A m \in 1 .. Len(was) : m # k => IF m < k THEN m \in 1 .. Len(ts) /\ ts[m] = was[m]
                                               ELSE m - 1 \in 1 .. Len(ts) /\ ts[m - 1] = was[m]
      <4>1. k \in 1 .. Len(was)
        BY <1>2
      <4>2. was \in Seq(BlockTerm)
        BY <1>2
      <4>3. QED
        BY <4>1, <4>2, Removed
    <3> HIDE DEF ts
    <3>3. ts # <<>> /\ was # <<>>
      BY <1>2, <2>2, <3>2
    <3>4. IsBlocks(ast') /\ TermList(ast') = ts /\ ast'.resource = ast.resource
      BY <1>1, <3>1, <3>2, <3>3, TermsWritten DEF was
    <3>5. QED
      BY <1>2, <1>5, <3>2, <3>4
  <2>3. QED
    BY <2>1, <2>2
<1>7. Identified(ast', ids', nextId')
  <2>1. DOMAIN ids' = 1 .. Len(ids')
    BY <1>5, LenProperties
  <2>2. \A i, j \in 1 .. Len(ids) : ids[i] = ids[j] => i = j
    BY <1>1, <1>2 DEF Identified, IsInjective
  <2>3. \A j \in 1 .. Len(ids') : j \in 1 .. Len(ids) /\ j + 1 \in 1 .. Len(ids)
    BY <1>2, <1>5
  <2>4. ASSUME NEW i \in 1 .. Len(ids'), NEW j \in 1 .. Len(ids'), ids'[i] = ids'[j] PROVE i = j
    <3>1. (IF i < k THEN i ELSE i + 1) = (IF j < k THEN j ELSE j + 1)
      BY <1>5, <2>2, <2>3, <2>4
    <3>2. QED
      BY <1>2, <1>5, <3>1
  <2>5. \A j \in 1 .. Len(ids') : ids'[j] < nextId'
    BY <1>1, <1>4, <1>5, <2>3 DEF Identified
  <2>6. QED
    BY <1>5, <1>6, <2>1, <2>4, <2>5 DEF Identified, IsInjective
<1>8. ASSUME NEW e \in Mounted(ast, ids) \ Gone(k)
      PROVE  e \in Mounted(ast', ids') /\ Beneath(ast', ids', e) = Beneath(ast, ids, e)
  <2>1. e = OwnPattern \/ e[1] # ids[k]
    <3>1. SUFFICES ASSUME e # OwnPattern, e[1] = ids[k] PROVE FALSE
      OBVIOUS
    <3>2. PICK m \in 1 .. Len(ids) : \E side \in Edited(TermList(ast)[m]) : e = <<ids[m], side>>
      BY <1>1, <3>1, EditorsNamed
    <3>3. PICK side \in Edited(TermList(ast)[m]) : e = <<ids[m], side>>
      BY <3>2
    <3>4. side \in Sides /\ ids[m] = ids[k]
      BY <1>1, <3>1, <3>3, EditorsNamed
    <3>5. QED
      BY <3>3, <3>4
  <2>2. CASE e = OwnPattern
    BY <1>6, <2>2 DEF Mounted, Beneath
  <2>3. CASE e # OwnPattern
    <3>1. Stays(ast, ids, ast', ids', e[1])
      <4>1. ASSUME NEW m \in 1 .. Len(ids), ids[m] = e[1]
            PROVE  \E j \in 1 .. Len(ids') : ids'[j] = ids[m] /\ TermList(ast')[j] = TermList(ast)[m]
        <5>1. m # k
          BY <2>1, <2>3, <4>1
        <5>2. CASE m < k
          BY <1>5, <1>6, <5>1, <5>2
        <5>3. CASE ~(m < k)
          BY <1>5, <1>6, <5>1, <5>3
        <5>4. QED
          BY <5>2, <5>3
      <4>2. QED
        BY <4>1 DEF Stays
    <3>2. QED
      BY <1>1, <1>6, <1>7, <2>3, <3>1, EditorsCarried
  <2>4. QED
    BY <2>2, <2>3
<1> HIDE DEF Gone
<1>9. QED
  BY <1>1, <1>3, <1>4, <1>6, <1>7, <1>8, BlocksForgotten

\* Terms are joined otherwise.
LEMMA ConnectorSet ==
  ASSUME BlocksInv, tab = "simple", SetConnector
  PROVE  BlocksInv'
<1>1. IsBlocks(ast) /\ Identified(ast, ids, nextId) /\ nextId \in Nat \ {0} /\ Terms = TermList(ast)
  BY BlockForms DEF BlocksInv
<1>2. PICK op \in {"and", "or"} : ast' = [ast EXCEPT !.exchange[1].op = op]
  BY DEF SetConnector
<1>3. ids' = ids /\ nextId' = nextId /\ tab' = tab /\ UNCHANGED <<drafts, reports>>
  BY DEF SetConnector
<1>4. TermList(ast) \in Seq(BlockTerm) /\ TermList(ast) # <<>>
  BY <1>1, BlockShape DEF SetConnector
<1>5. ast' = [ast EXCEPT !.exchange = <<[op |-> op, terms |-> TermList(ast)]>>]
  <2> DEFINE X == [op : {"and", "or"}, terms : Seq(BlockTerm) \ {<<>>}]
             x == ast.exchange
  <2>1. x \in Seq(X) /\ Len(x) = 1 /\ x # <<>>
    BY <1>1, <1>4, BlockShape DEF IsBlocks
  <2>2. x[1] \in X /\ TermList(ast) = x[1].terms
    <3>1. TermList(ast) = x[1].terms
      BY <2>1 DEF TermList
    <3> HIDE DEF X, x
    <3>2. x[1] \in X
      BY <2>1, ElementOfSeq
    <3>3. QED
      BY <3>1, <3>2
  <2>3. [x[1] EXCEPT !.op = op] = [op |-> op, terms |-> x[1].terms]
    BY <2>2
  <2>4. ast' = [ast EXCEPT !.exchange = [x EXCEPT ![1] = [x[1] EXCEPT !.op = op]]]
    BY <1>2
  <2> HIDE DEF x, X
  <2>5. [x EXCEPT ![1] = [op |-> op, terms |-> x[1].terms]] = <<[op |-> op, terms |-> x[1].terms]>>
    BY <2>1
  <2>6. QED
    BY <2>2, <2>3, <2>4, <2>5
<1>6. IsBlocks(ast') /\ TermList(ast') = TermList(ast) /\ ast'.resource = ast.resource
  BY <1>1, <1>4, <1>5, TermsReplaced
<1>7. Identified(ast', ids', nextId')
  BY <1>1, <1>3, <1>6 DEF Identified
<1>8. \A e \in Mounted(ast, ids) : e \in Mounted(ast', ids') /\ Beneath(ast', ids', e) = Beneath(ast, ids, e)
  BY <1>3, <1>6 DEF Mounted, Beneath
<1>9. QED
  BY <1>1, <1>3, <1>6, <1>7, <1>8, BlocksForgotten

\* What an editor of a term is under, when the term is replaced.
LEMMA TermCarried ==
  ASSUME IsBlocks(ast), Identified(ast, ids, nextId), NEW k \in 1 .. Len(ids), NEW term \in BlockTerm,
         NEW c, c = UpdateTerm(k, term), NEW e \in Mounted(ast, ids),
         \A side \in Edited(TermList(ast)[k]) : e = <<ids[k], side>> =>
            side \in Edited(term) /\ Pattern(term, side) = Pattern(TermList(ast)[k], side)
  PROVE  e \in Mounted(c, ids) /\ Beneath(c, ids, e) = Beneath(ast, ids, e)
<1>1. CASE e[1] # ids[k]
  BY <1>1, TermUpdated
<1>2. CASE e[1] = ids[k]
  <2>1. IsInjective(ids) /\ DOMAIN ids = 1 .. Len(ids) /\ ids[k] \in Nat \ {0}
    BY LenProperties, ElementOfSeq DEF Identified
  <2>2. e # OwnPattern
    BY <1>2, <2>1 DEF OwnPattern
  <2>3. PICK j \in 1 .. Len(ids) : \E side \in Edited(TermList(ast)[j]) : e = <<ids[j], side>>
    BY <2>2, EditorsNamed
  <2>4. j = k
    BY <1>2, <2>1, <2>3 DEF IsInjective
  <2>5. PICK side \in Edited(TermList(ast)[k]) : e = <<ids[k], side>>
    BY <2>3, <2>4
  <2>6. side \in Edited(term) /\ Pattern(term, side) = Pattern(TermList(ast)[k], side) /\ side \in Sides
    BY <2>5, EditorsNamed
  <2>7. Beneath(ast, ids, e) = Pattern(TermList(ast)[k], side)
    BY <2>5, <2>6, EditorsNamed
  <2>8. e \in Mounted(c, ids) /\ Beneath(c, ids, e) = Pattern(term, side)
    BY <2>5, <2>6, TermUpdated
  <2>9. QED
    BY <2>6, <2>7, <2>8
<1>3. QED
  BY <1>1, <1>2

\* Whom a term names is picked.
LEMMA KindPicked ==
  ASSUME BlocksInv, tab = "simple", PickKind
  PROVE  BlocksInv'
<1>1. IsBlocks(ast) /\ Identified(ast, ids, nextId) /\ nextId \in Nat \ {0} /\ Terms = TermList(ast)
  BY BlockForms DEF BlocksInv
<1>2. TermList(ast) \in Seq(BlockTerm) /\ Len(ids) = Len(TermList(ast)) /\ DOMAIN TermList(ast) = 1 .. Len(ids)
  BY <1>1, BlockShape, LenProperties DEF Identified
<1> DEFINE Was(k, side) == Party(TermList(ast)[k], side)
           Now(k, side, p) == WithParty(TermList(ast)[k], side, p)
<1>3. PICK k \in 1 .. Len(ids), side \in {"to", "from"} :
         \/ /\ \E p \in {Me, Requester} : ast' = UpdateTerm(k, Now(k, side, p))
            /\ drafts' = Forget({<<ids[k], side>>}) /\ Report({<<ids[k], side>>}, TRUE)
         \/ /\ \E kind \in {"any", "all"} : ast' = UpdateTerm(k, Now(k, side, [kind |-> kind, attrs |-> Was(k, side).attrs]))
            /\ UNCHANGED <<drafts, reports>>
  BY <1>1, <1>2 DEF PickKind
<1>4. ids' = ids /\ nextId' = nextId /\ tab' = tab
  BY DEF PickKind
<1> DEFINE was == TermList(ast)[k]
<1>5. was \in BlockTerm /\ Party(was, side) \in BlockParty
  <2>1. was \in BlockTerm
    BY <1>2, ElementOfSeq
  <2>2. QED
    BY <2>1 DEF BlockTerm, Party
<1>6. CASE /\ \E p \in {Me, Requester} : ast' = UpdateTerm(k, Now(k, side, p))
           /\ drafts' = Forget({<<ids[k], side>>}) /\ Report({<<ids[k], side>>}, TRUE)
  <2>1. PICK p \in BlockParty : ast' = UpdateTerm(k, Now(k, side, p))
    BY <1>6, NewTermShape
  <2> DEFINE term == WithParty(was, side, p)
  <2>2. /\ term \in BlockTerm /\ ast' = UpdateTerm(k, term)
        /\ \A s \in Sides \ {side} : Pattern(term, s) = Pattern(was, s) /\ (s \in Edited(term) <=> s \in Edited(was))
    BY <1>5, <2>1, TermParties
  <2> HIDE DEF term
  <2>3. IsBlocks(ast') /\ Identified(ast', ids', nextId')
    BY <1>1, <1>4, <2>2, TermUpdated
  <2>4. ASSUME NEW e \in Mounted(ast, ids) \ {<<ids[k], side>>}
        PROVE  e \in Mounted(ast', ids') /\ Beneath(ast', ids', e) = Beneath(ast, ids, e)
    <3>1. ASSUME NEW s \in Edited(TermList(ast)[k]), e = <<ids[k], s>>
          PROVE  s \in Edited(term) /\ Pattern(term, s) = Pattern(TermList(ast)[k], s)
      <4>1. s \in Sides \ {side}
        BY <2>4, <3>1 DEF Edited, Sides
      <4>2. QED
        BY <2>2, <4>1
    <3>2. QED
      BY <1>1, <1>4, <2>2, <3>1, TermCarried
  <2>5. QED
    BY <1>1, <1>4, <1>6, <2>3, <2>4, BlocksForgotten
<1>7. CASE /\ \E kind \in {"any", "all"} : ast' = UpdateTerm(k, Now(k, side, [kind |-> kind, attrs |-> Was(k, side).attrs]))
           /\ UNCHANGED <<drafts, reports>>
  <2>1. PICK kind \in {"any", "all"} : ast' = UpdateTerm(k, Now(k, side, [kind |-> kind, attrs |-> Was(k, side).attrs]))
    BY <1>7
  <2> DEFINE p == [kind |-> kind, attrs |-> Party(was, side).attrs]
             term == WithParty(was, side, p)
  <2>2. p \in BlockParty /\ Quantifies(p) /\ p.attrs = Party(was, side).attrs
    BY <1>5 DEF BlockParty, Quantifies
  <2>3. ast' = UpdateTerm(k, term)
    BY <2>1
  <2> HIDE DEF p
  <2>4. /\ term \in BlockTerm /\ Party(term, side) = p
        /\ \A s \in Sides \ {side} : Pattern(term, s) = Pattern(was, s) /\ (s \in Edited(term) <=> s \in Edited(was))
    BY <1>5, <2>2, TermParties
  <2> HIDE DEF term
  <2>5. side \in Edited(term) /\ Pattern(term, side) = Pattern(was, side)
    BY <2>2, <2>4 DEF Edited, Pattern
  <2>6. IsBlocks(ast') /\ Identified(ast', ids', nextId')
    BY <1>1, <1>4, <2>3, <2>4, TermUpdated
  <2>7. ASSUME NEW e \in Mounted(ast, ids)
        PROVE  e \in Mounted(ast', ids') /\ Beneath(ast', ids', e) = Beneath(ast, ids, e)
    <3>1. ASSUME NEW s \in Edited(TermList(ast)[k]), e = <<ids[k], s>>
          PROVE  s \in Edited(term) /\ Pattern(term, s) = Pattern(TermList(ast)[k], s)
      <4>1. s \in Sides
        BY <3>1 DEF Edited, Sides
      <4>2. QED
        BY <2>4, <2>5, <3>1, <4>1
    <3>2. QED
      BY <1>1, <1>4, <2>3, <2>4, <3>1, TermCarried
  <2>8. QED
    BY <1>1, <1>4, <1>7, <2>6, <2>7, BlocksForgotten
<1>8. QED
  BY <1>3, <1>6, <1>7

\* A party is picked, beneath the rows of its editor.
LEMMA PartyPicked ==
  ASSUME BlocksInv, tab = "simple", PickParty
  PROVE  BlocksInv'
<1> DEFINE WithUser(ats) == IF "userId" \in RowKeys(ats)
                            THEN [n \in DOMAIN ats |-> IF RowKey[ats[n]] = "userId" THEN PickedUser ELSE ats[n]]
                            ELSE Append(ats, PickedUser)
<1>1. IsBlocks(ast) /\ Identified(ast, ids, nextId) /\ nextId \in Nat \ {0} /\ Terms = TermList(ast)
  BY BlockForms DEF BlocksInv
<1>2. TermList(ast) \in Seq(BlockTerm) /\ Len(ids) = Len(TermList(ast)) /\ DOMAIN TermList(ast) = 1 .. Len(ids)
      /\ IsInjective(ids) /\ DOMAIN ids = 1 .. Len(ids)
  BY <1>1, BlockShape, LenProperties DEF Identified
<1>3. PICK k \in 1 .. Len(ids), side \in {"to", "from"} :
         /\ Quantifies(Party(TermList(ast)[k], side))
         /\ ast' = UpdateTerm(k, WithPattern(TermList(ast)[k], side, WithUser(Party(TermList(ast)[k], side).attrs)))
  BY <1>1, <1>2 DEF PickParty
<1>4. ids' = ids /\ nextId' = nextId /\ tab' = tab /\ UNCHANGED <<drafts, reports>>
  BY DEF PickParty
<1> DEFINE ats == Party(TermList(ast)[k], side).attrs
           editor == <<ids[k], side>>
           new == WithUser(ats)
<1>5. ats \in Seq(RowTexts)
  <2>1. TermList(ast)[k] \in BlockTerm
    BY <1>2, ElementOfSeq
  <2>2. Party(TermList(ast)[k], side) \in BlockParty
    BY <2>1 DEF BlockTerm, Party
  <2>3. QED
    BY <2>2 DEF BlockParty
<1>6. new \in Seq(RowTexts) /\ RowKeys(ats) \subseteq RowKeys(new)
      /\ \A at \in Range(ats) : RowKey[at] # "userId" => at \in Range(new)
  <2>1. PickedUser \in RowTexts /\ RowKey[PickedUser] = "userId"
    BY BlocksAssumption DEF BlocksAssumption
  <2> HIDE DEF ats
  <2>2. CASE "userId" \in RowKeys(ats)
    <3> DEFINE swapped == [n \in DOMAIN ats |-> IF RowKey[ats[n]] = "userId" THEN PickedUser ELSE ats[n]]
    <3>1. swapped \in Seq(RowTexts)
      <4>1. Len(ats) \in Nat /\ DOMAIN ats = 1 .. Len(ats) /\ \A n \in 1 .. Len(ats) : ats[n] \in RowTexts
        BY <1>5, LenProperties, ElementOfSeq
      <4>2. swapped \in [1 .. Len(ats) -> RowTexts]
        BY <2>1, <4>1
      <4>3. QED
        BY <4>1, <4>2, SeqDef
    <3>2. new = swapped
      BY <2>2
    <3>3. DOMAIN swapped = DOMAIN ats /\ \A n \in DOMAIN ats : swapped[n] = IF RowKey[ats[n]] = "userId" THEN PickedUser ELSE ats[n]
      OBVIOUS
    <3> HIDE DEF swapped, new
    <3>4. QED
      BY <2>1, <3>1, <3>2, <3>3 DEF RowKeys, Range
  <2>3. CASE "userId" \notin RowKeys(ats)
    <3>1. new = Append(ats, PickedUser)
      BY <2>3
    <3> HIDE DEF new
    <3>2. new \in Seq(RowTexts) /\ \A n \in DOMAIN ats : n \in DOMAIN new /\ new[n] = ats[n]
      BY <1>5, <2>1, <3>1, AppendProperties, LenProperties
    <3>3. QED
      BY <3>2 DEF RowKeys, Range
  <2>4. QED
    BY <2>2, <2>3
<1>7. editor \in Mounted(ast, ids) /\ Beneath(ast, ids, editor) = ats /\ editor # OwnPattern
  <2>1. side \in Edited(TermList(ast)[k]) /\ side \in Sides /\ side # "resource"
    BY <1>3 DEF Edited, Sides
  <2>2. QED
    BY <1>1, <2>1, EditorsNamed DEF Pattern
<1>8. ast' = WithAttrs(editor, new)
  <2>1. PlaceOf(editor) = k /\ editor[2] = side
    BY <1>2 DEF PlaceOf, IsInjective
  <2> HIDE DEF WithUser
  <2>2. QED
    BY <1>1, <1>3, <1>7, <2>1 DEF WithAttrs
<1> HIDE DEF new, WithUser
<1>9. /\ IsBlocks(ast') /\ Identified(ast', ids', nextId') /\ editor \in Mounted(ast', ids') /\ Beneath(ast', ids', editor) = new
      /\ \A e \in Mounted(ast, ids) : e # editor => e \in Mounted(ast', ids') /\ Beneath(ast', ids', e) = Beneath(ast, ids, e)
  BY <1>1, <1>4, <1>6, <1>7, <1>8, AttrsWritten
<1> HIDE DEF editor, ats
<1>10. \A e \in Mounted(ast, ids) \ {} :
            /\ e \in Mounted(ast', ids')
            /\ RowKeys(Beneath(ast, ids, e)) \subseteq RowKeys(Beneath(ast', ids', e))
            /\ \A at \in Range(Beneath(ast, ids, e)) :
                  RowKey[at] # "userId" => at \in Range(Beneath(ast', ids', e))
  BY <1>6, <1>7, <1>9
<1>11. QED
  BY <1>1, <1>4, <1>9, <1>10, BlocksForgotten

\* The tabs are changed: every editor is mounted afresh.
LEMMA TabChanged ==
  ASSUME BlocksInv, ChangeTab
  PROVE  BlocksInv'
<1> DEFINE n == Len(TermList(ast))
<1>1. IsBlocks(ast) /\ nextId \in Nat \ {0} /\ tab \in {"simple", "advanced"} /\ Terms = TermList(ast)
  BY BlockForms DEF BlocksInv
<1>2. n \in Nat /\ DOMAIN TermList(ast) = 1 .. n
  BY <1>1, BlockShape, LenProperties
<1> HIDE DEF n
<1>3. /\ tab' \in {"simple", "advanced"} /\ drafts' = <<>> /\ invalid' = {} /\ blocksValid' = TRUE
      /\ ids' = [k \in 1 .. n |-> nextId + k - 1] /\ nextId' = nextId + n /\ ast' = ast
  BY <1>1, <1>2 DEF ChangeTab, n
<1>4. ids' \in Seq(Nat \ {0}) /\ Len(ids') = n /\ nextId' \in Nat \ {0}
  <2>1. \A k \in 1 .. n : nextId + k - 1 \in Nat \ {0}
    BY <1>1, <1>2
  <2>2. ids' \in [1 .. n -> Nat \ {0}]
    BY <1>3, <2>1
  <2>3. ids' \in Seq(Nat \ {0})
    BY <1>2, <2>2, SeqDef
  <2>4. DOMAIN ids' = 1 .. n
    BY <1>3
  <2>5. QED
    BY <1>1, <1>2, <1>3, <2>3, <2>4, LenProperties
<1>5. Identified(ast', ids', nextId')
  <2>1. \A j, k \in 1 .. n : nextId + j - 1 = nextId + k - 1 => j = k
    BY <1>1, <1>2
  <2>2. \A k \in 1 .. n : nextId + k - 1 < nextId + n
    BY <1>1, <1>2
  <2>3. IsInjective(ids')
    BY <1>3, <2>1 DEF IsInjective
  <2>4. \A k \in 1 .. Len(ids') : ids'[k] < nextId'
    BY <1>3, <1>4, <2>2
  <2>5. QED
    BY <1>3, <1>4, <2>3, <2>4 DEF Identified, n
<1>6. Unparsed(drafts') = {} /\ RowsOf(ast', ids', drafts')
  BY <1>3 DEF Unparsed, RowsOf
<1>7. QED
  BY <1>1, <1>3, <1>4, <1>5, <1>6 DEF BlocksInv

LEMMA SourceChanged ==
  ASSUME BlocksInv, ChangeSource
  PROVE  BlocksInv'
<1>1. IsBlocks(ast')
  BY BlocksAssumption DEF ChangeSource, BlocksAssumption
<1>2. UNCHANGED <<ids, nextId, drafts, invalid, blocksValid, tab>> /\ tab = "advanced"
  BY DEF ChangeSource, reports
<1>3. QED
  BY <1>1, <1>2 DEF BlocksInv

\* Whatever is done to the blocks, their rows stay as they are told.
LEMMA BlocksStep ==
  ASSUME BlocksInv, NextBlocks
  PROVE  BlocksInv'
<1>1. CASE tab = "simple" /\ InBlocks
  <2>1. ASSUME NEW editor \in Editors, UpdateRow(editor) \/ RemoveRow(editor) \/ AddRow(editor) PROVE BlocksInv'
    BY <1>1, <2>1, RowUpdated, RowRemoved, RowAdded
  <2>2. QED
    BY <1>1, <2>1, ResourcePicked, ConditionSet, ExchangeAsked, TermAdded, TermRemoved, ConnectorSet, KindPicked,
       PartyPicked DEF InBlocks
<1>2. QED
  BY <1>1, TabChanged, SourceChanged DEF NextBlocks

-----------------------------------------------------------------------------
(* Theorems *)

\* The closure and the coverage answer match as the engine does (matcher.ts and
\* coverage.ts beside the evaluator's reading): for every pattern and every
\* party accepted at the door, and for every list of rows, its order included.
THEOREM LanguageMatchedAsTheEngine == LanguageSpec => []MatchedAsTheEngine
<1>1. Asked => MatchedAsTheEngine
  <2>1. ASSUME Asked, place = "party"
        PROVE  PartyMatched(data.id, data.pattern, data.attrs) /\ PatternWritten(data.attrs)
    <3>1. IsAttrs(data.pattern) /\ FromJson(data.attrs)
      BY <2>1, QuestionsAssumption DEF Asked, QuestionsAssumption
    <3>2. QED
      BY <3>1, PartiesMatched, PatternsWritten
  <2>2. ASSUME Asked, place = "coverage"
        PROVE  CoverageTold(data.rows, data.pattern)
    <3>1. data \in Coverages
      BY <2>2 DEF Asked
    <3>2. /\ data.rows \in Seq(Range(data.rows)) /\ FromJson(data.pattern)
          /\ \A n \in DOMAIN data.rows : FromJson(data.rows[n].attrs) /\ data.rows[n].id \in Int
          /\ \A m, n \in DOMAIN data.rows : data.rows[m].id = data.rows[n].id => m = n
      BY <3>1, QuestionsAssumption DEF QuestionsAssumption
    <3>3. Len(data.rows) \in Nat /\ DOMAIN data.rows = 1 .. Len(data.rows)
      BY <3>2
    <3>4. IsRows(data.rows, data.pattern)
      BY <3>2, <3>3 DEF IsRows, IsRow
    <3>5. QED
      BY <3>4, CoverageTrue
  <2>3. QED
    BY <2>1, <2>2 DEF MatchedAsTheEngine
<1>2. LanguageInit => MatchedAsTheEngine
  BY <1>1 DEF LanguageInit, Opening, MatchedAsTheEngine
<1>3. MatchedAsTheEngine /\ [Editing]_<<place, data, blockVars>> => MatchedAsTheEngine'
  BY DEF MatchedAsTheEngine, Editing
<1>4. QED
  BY <1>2, <1>3, PTL DEF LanguageSpec

\* The list of resources and its facets filter alike (controllers.utils.ts and
\* facets.utils.ts): whatever the corpus, the exclusion and the chips set, a chip
\* finds what it counts.
THEOREM LanguageFacetsTrue == LanguageSpec => []FacetsTrue
<1>1. Asked => FacetsTrue
  <2>1. SUFFICES ASSUME Asked, place = "facets"
                 PROVE  FacetsAgree(data.corpus, data.exclude, data.chips)
    BY DEF FacetsTrue
  <2>2. data \in Listings
    BY <2>1 DEF Asked
  <2>3. \A r \in data.corpus :
           FromJson(r.attrs) /\ \A k \in DOMAIN r.attrs \ Reserved : ~BadAttr(r.attrs, k)
    BY <2>2, QuestionsAssumption DEF QuestionsAssumption
  <2>4. QED
    BY <2>3, FacetsFound
<1>2. LanguageInit => FacetsTrue
  BY <1>1 DEF LanguageInit, Opening, FacetsTrue
<1>3. FacetsTrue /\ [Editing]_<<place, data, blockVars>> => FacetsTrue'
  BY DEF FacetsTrue, Editing
<1>4. QED
  BY <1>2, <1>3, PTL DEF LanguageSpec

\* No condition is decided by a type error in it (Expr.java): whatever an ill-typed
\* part might have answered, an expression that answers answers the same, however
\* deep it is nested and whatever is skipped.
THEOREM LanguageConditionDecided == LanguageSpec => []ConditionDecided
<1>1. Asked => ConditionDecided
  BY QuestionsAssumption, ConditionsDecided
     DEF Asked, QuestionsAssumption, ConditionDecided
<1>2. LanguageInit => ConditionDecided
  BY <1>1 DEF LanguageInit, Opening, ConditionDecided
<1>3. ConditionDecided /\ [Editing]_<<place, data, blockVars>> => ConditionDecided'
  BY DEF ConditionDecided, Editing
<1>4. QED
  BY <1>2, <1>3, PTL DEF LanguageSpec

\* Save is held exactly while a row on screen does not parse (SimpleRuleEditor.tsx,
\* ExchangeBuilder.tsx, RuleEditorSheet.tsx): the sheet is told of every such row and
\* of none that is gone, and a row shows what would be saved for it, however many
\* terms are added, removed, re-joined and given other parties, and whatever tab was
\* left in between.
THEOREM LanguageSaveGated == LanguageSpec => []SaveGated
<1> DEFINE Inv == place = "blocks" => BlocksInv
<1>1. LanguageInit => Inv
  <2>1. Asked => place # "blocks"
    BY DEF Asked
  <2>2. QED
    BY <2>1, BlocksOpened DEF LanguageInit
<1>2. Inv /\ [Editing]_<<place, data, blockVars>> => Inv'
  <2>1. CASE Editing
    BY <2>1, BlocksStep DEF Editing
  <2>2. CASE UNCHANGED <<place, data, blockVars>>
    BY <2>2 DEF blockVars, reports, BlocksInv
  <2>3. QED
    BY <2>1, <2>2
<1>3. Inv => SaveGated
  BY BlocksShown DEF SaveGated
<1> HIDE DEF Inv
<1>4. QED
  BY <1>1, <1>2, <1>3, PTL DEF LanguageSpec
=============================================================================
