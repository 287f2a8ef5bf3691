------------------------------ MODULE UIProofs -----------------------------
(* Theorems about UI for any links, texts, users, alerts and mutes, and any  *)
(* minutes that divide the hour: what the form and the link it came from     *)
(* guarantee of a mute, and what the pages of Views show while mutes come    *)
(* from the form too.                                                        *)
EXTENDS UI, ViewsProofs

-----------------------------------------------------------------------------
(* Sequences.                                                                *)

LEMMA InSeq ==
    ASSUME NEW T, NEW s \in Seq(T)
    PROVE  /\ Len(s) \in Nat /\ DOMAIN s = 1..Len(s)
           /\ \A i \in DOMAIN s : s[i] \in T
  OBVIOUS

LEMMA OverSet ==
    ASSUME NEW T, NEW n \in Nat, NEW f \in [1..n -> T]
    PROVE  f \in Seq(T)
  OBVIOUS

\* What FlattenSeq computes, as a property of its result.
Joined(seqs, n, f) ==
    f = [i \in 1..n |-> IF i = 1 THEN seqs[i] ELSE f[i - 1] \o seqs[i]]

\* The recursion of FlattenSeq has a solution.
LEMMA JoinedExists ==
    ASSUME NEW seqs, NEW n \in Nat \ {0}
    PROVE  \E f : Joined(seqs, n, f)
<1> DEFINE Bad == {m \in 1..n : ~ \E f : Joined(seqs, m, f)}
<1>1. ASSUME Bad # {} PROVE FALSE
  <2>1. PICK m \in Bad : \A k \in Bad : m <= k
    <3>1. Bad \in SUBSET Nat
      OBVIOUS
    <3> HIDE DEF Bad
    <3> QED BY <1>1, <3>1, SmallestOf
  <2>2. CASE m = 1
    <3>1. Joined(seqs, 1, [i \in 1..1 |-> seqs[i]])
      BY DEF Joined
    <3> QED BY <2>2, <3>1
  <2>3. CASE m # 1
    <3>1. m - 1 \in 1..n /\ m - 1 \notin Bad
      BY <2>1, <2>3
    <3>2. PICK f : Joined(seqs, m - 1, f)
      BY <3>1
    <3> DEFINE g == [i \in 1..m |-> IF i = m THEN f[m - 1] \o seqs[m] ELSE f[i]]
    <3>3. \A i \in 1..m : g[i] = IF i = 1 THEN seqs[i] ELSE g[i - 1] \o seqs[i]
      <4> SUFFICES ASSUME NEW i \in 1..m
                   PROVE  g[i] = IF i = 1 THEN seqs[i] ELSE g[i - 1] \o seqs[i]
        OBVIOUS
      <4>1. CASE i = m
        <5>1. i - 1 \in 1..m /\ i - 1 # m /\ i # 1
          BY <2>3, <4>1
        <5> QED BY <4>1, <5>1
      <4>2. CASE i # m
        <5>1. i \in 1..(m - 1) /\ (i # 1 => i - 1 \in 1..m /\ i - 1 # m)
          BY <4>2
        <5>2. f[i] = IF i = 1 THEN seqs[i] ELSE f[i - 1] \o seqs[i]
          BY <3>2, <5>1 DEF Joined
        <5>3. g[i] = f[i] /\ (i # 1 => g[i - 1] = f[i - 1])
          BY <4>2, <5>1
        <5> QED BY <5>2, <5>3
      <4> QED BY <4>1, <4>2
    <3>4. Joined(seqs, m, g)
      <4>1. g = [i \in 1..m |-> g[i]]
        OBVIOUS
      <4> HIDE DEF g
      <4> QED BY <3>3, <4>1 DEF Joined
    <3> QED BY <3>4
  <2> QED BY <2>2, <2>3
<1> QED BY <1>1

\* Joining sequences over a set stays over the set.
LEMMA JoinedType ==
    ASSUME NEW T, NEW seqs \in Seq(Seq(T)), NEW f, Len(seqs) # 0, Joined(seqs, Len(seqs), f)
    PROVE  \A m \in 1..Len(seqs) : f[m] \in Seq(T)
<1> DEFINE n == Len(seqs)
           Bad == {m \in 1..n : f[m] \notin Seq(T)}
<1>0. n \in Nat /\ \A i \in 1..n : seqs[i] \in Seq(T)
  OBVIOUS
<1>1. ASSUME Bad # {} PROVE FALSE
  <2>1. PICK m \in Bad : \A k \in Bad : m <= k
    <3>1. Bad \in SUBSET Nat
      BY <1>0
    <3> HIDE DEF Bad
    <3> QED BY <1>1, <3>1, SmallestOf
  <2>2. f[m] = IF m = 1 THEN seqs[m] ELSE f[m - 1] \o seqs[m]
    BY DEF Joined
  <2>3. m # 1 => f[m - 1] \in Seq(T)
    BY <2>1, <1>0
  <2>4. seqs[m] \in Seq(T) /\ f[m] \notin Seq(T)
    BY <1>0
  <2>5. m # 1 => f[m - 1] \o seqs[m] \in Seq(T)
    BY <2>3, <2>4
  <2> QED BY <2>2, <2>4, <2>5
<1> QED BY <1>0, <1>1

Occurs(x, s) == \E i \in DOMAIN s : s[i] = x

LEMMA ConcatHas ==
    ASSUME NEW T, NEW s \in Seq(T), NEW t \in Seq(T), NEW x, Occurs(x, s) \/ Occurs(x, t)
    PROVE  Occurs(x, s \o t)
<1>1. CASE Occurs(x, s)
  BY <1>1 DEF Occurs
<1>2. CASE Occurs(x, t)
  <2>1. PICK i \in DOMAIN t : t[i] = x
    BY <1>2 DEF Occurs
  <2>2. Len(s) + i \in DOMAIN (s \o t) /\ (s \o t)[Len(s) + i] = x
    BY <2>1
  <2> QED BY <2>2 DEF Occurs
<1> QED BY <1>1, <1>2

\* Nothing is lost either.
LEMMA JoinedHas ==
    ASSUME NEW T, NEW n \in Nat, NEW seqs, NEW f, Joined(seqs, n, f),
           \A m \in 1..n : seqs[m] \in Seq(T) /\ f[m] \in Seq(T),
           NEW j \in 1..n, NEW x, Occurs(x, seqs[j])
    PROVE  Occurs(x, f[n])
<1> DEFINE Bad == {m \in j..n : ~Occurs(x, f[m])}
<1>1. ASSUME NEW m \in 1..n, m = j \/ (m # 1 /\ Occurs(x, f[m - 1]))
      PROVE  Occurs(x, f[m])
  <2>1. f[m] = IF m = 1 THEN seqs[m] ELSE f[m - 1] \o seqs[m]
    BY DEF Joined
  <2>2. CASE m = 1
    BY <1>1, <2>1, <2>2
  <2>3. CASE m # 1
    <3>1. m - 1 \in 1..n
      BY <2>3
    <3>2. f[m - 1] \in Seq(T) /\ seqs[m] \in Seq(T)
      BY <3>1
    <3>3. Occurs(x, f[m - 1]) \/ Occurs(x, seqs[m])
      BY <1>1
    <3>4. Occurs(x, f[m - 1] \o seqs[m])
      BY <3>2, <3>3, ConcatHas
    <3> QED BY <2>1, <2>3, <3>4
  <2> QED BY <2>2, <2>3
<1>2. ASSUME Bad # {} PROVE FALSE
  <2>1. Bad \in SUBSET Nat
    OBVIOUS
  <2>2. PICK m \in Bad : \A b \in Bad : m <= b
    <3> HIDE DEF Bad
    <3> QED BY <1>2, <2>1, SmallestOf
  <2>3. m \in j..n /\ m \in 1..n /\ ~Occurs(x, f[m])
    OBVIOUS
  <2>4. m # j => m - 1 \in j..n /\ ~(m <= m - 1)
    BY <2>3
  <2>5. m # j => Occurs(x, f[m - 1])
    BY <2>2, <2>4
  <2>6. m = 1 => m = j
    BY <2>3
  <2> QED BY <1>1, <2>3, <2>5, <2>6
<1>3. n \in j..n
  OBVIOUS
<1> QED BY <1>2, <1>3

\* FlattenSeq is the end of such a recursion.
LEMMA FlattenJoins ==
    ASSUME NEW seqs, Len(seqs) \in Nat \ {0}
    PROVE  \E f : Joined(seqs, Len(seqs), f) /\ S!FlattenSeq(seqs) = f[Len(seqs)]
<1> DEFINE f == CHOOSE g : Joined(seqs, Len(seqs), g)
<1>1. \E g : Joined(seqs, Len(seqs), g)
  BY JoinedExists
<1>2. Joined(seqs, Len(seqs), f)
  BY <1>1
<1>3. S!FlattenSeq(seqs) = f[Len(seqs)]
  BY DEF S!FlattenSeq, Joined
<1> HIDE DEF f
<1> QED BY <1>2, <1>3

LEMMA FlattenType ==
    ASSUME NEW T, NEW seqs \in Seq(Seq(T))
    PROVE  S!FlattenSeq(seqs) \in Seq(T)
<1>1. CASE Len(seqs) = 0
  <2>1. S!FlattenSeq(seqs) = seqs
    BY <1>1 DEF S!FlattenSeq
  <2>2. seqs = <<>>
    BY <1>1
  <2> QED BY <2>1, <2>2
<1>2. CASE Len(seqs) # 0
  <2>1. Len(seqs) \in Nat \ {0} /\ Len(seqs) \in 1..Len(seqs)
    BY <1>2
  <2>2. PICK f : Joined(seqs, Len(seqs), f) /\ S!FlattenSeq(seqs) = f[Len(seqs)]
    BY <2>1, FlattenJoins
  <2> QED BY <1>2, <2>1, <2>2, JoinedType
<1> QED BY <1>1, <1>2

LEMMA FlattenHas ==
    ASSUME NEW T, NEW seqs \in Seq(Seq(T)), NEW j \in DOMAIN seqs, NEW x, Occurs(x, seqs[j])
    PROVE  Occurs(x, S!FlattenSeq(seqs))
<1>1. Len(seqs) \in Nat \ {0} /\ j \in 1..Len(seqs)
  OBVIOUS
<1>2. PICK f : Joined(seqs, Len(seqs), f) /\ S!FlattenSeq(seqs) = f[Len(seqs)]
  BY <1>1, FlattenJoins
<1>3. \A m \in 1..Len(seqs) : seqs[m] \in Seq(T) /\ f[m] \in Seq(T)
  BY <1>1, <1>2, JoinedType, InSeq
<1>4. Occurs(x, f[Len(seqs)])
  BY <1>1, <1>2, <1>3, JoinedHas
<1> QED BY <1>2, <1>4

LEMMA GreatestOf ==
    ASSUME NEW n \in Nat, NEW I \in SUBSET (1..n), I # {}
    PROVE  S!Max(I) \in I /\ \A i \in I : i <= S!Max(I)
<1> DEFINE Bounds == {b \in Nat : \A i \in I : i <= b}
<1>1. Bounds \in SUBSET Nat /\ n \in Bounds
  OBVIOUS
<1>2. PICK b \in Bounds : \A c \in Bounds : b <= c
  <2> HIDE DEF Bounds
  <2> QED BY <1>1, SmallestOf
<1>3. b \in I
  <2>1. PICK i \in I : TRUE
    OBVIOUS
  <2>2. SUFFICES ASSUME b \notin I PROVE FALSE
    OBVIOUS
  <2>3. b - 1 \in Nat /\ \A j \in I : j <= b - 1
    BY <2>1, <2>2
  <2> QED BY <1>2, <2>3
<1>4. \E x \in I : \A y \in I : x >= y
  BY <1>3
<1>5. S!Max(I) \in I /\ \A y \in I : S!Max(I) >= y
  BY <1>4 DEF S!Max
<1> QED BY <1>5

\* SetToSeq enumerates a finite set.
LEMMA SetToSeqLists ==
    ASSUME NEW T, IsFiniteSet(T)
    PROVE  /\ Cardinality(T) \in Nat
           /\ S!SetToSeq(T) \in [1..Cardinality(T) -> T]
           /\ \A x \in T : Occurs(x, S!SetToSeq(T))
<1> DEFINE n == Cardinality(T)
           s == S!SetToSeq(T)
<1>1. Cardinality(T) \in Nat /\ ExistsBijection(1..Cardinality(T), T)
  BY FS_CardinalityType
<1>2. \E f \in [1..Cardinality(T) -> T] : S!IsInjective(f)
  BY <1>1 DEF ExistsBijection, Bijection, Injection, IsInjective, S!IsInjective
<1>3. S!Cardinality(T) = Cardinality(T)
  BY DEF S!Cardinality, Cardinality
<1>4. s \in [1..n -> T] /\ S!IsInjective(s)
  BY <1>1, <1>2, <1>3 DEF S!SetToSeq
<1> HIDE DEF s
<1>5. s \in Injection(1..n, T)
  BY <1>4 DEF Injection, IsInjective, S!IsInjective
<1>6. IsFiniteSet(1..n) /\ Cardinality(1..n) = n
  BY <1>1, FS_Interval
<1>7. s \in Surjection(1..n, T)
  <2> HIDE DEF n
  <2>1. n = Cardinality(T)
    BY DEF n
  <2> QED BY <1>5, <1>6, <2>1, FS_Injection
<1>8. \A x \in T : Occurs(x, s)
  BY <1>4, <1>7 DEF Surjection, Occurs
<1> QED BY <1>1, <1>4, <1>8 DEF s

-----------------------------------------------------------------------------
(* The text of the form.                                                     *)

LEMMA NamesAreListed ==
    ASSUME NEW query \in Links
    PROVE  /\ NamesIn(query) \in Seq(GivenIn(query))
           /\ \A name \in GivenIn(query) : Occurs(name, NamesIn(query))
<1> DEFINE given == GivenIn(query)
<1>1. IsFiniteSet(given)
  <2>1. IsFiniteSet(DOMAIN query) /\ given \in SUBSET DOMAIN query
    BY LinksAssumption DEF GivenIn
  <2> QED BY <2>1, FS_Subset
<1>2. /\ Cardinality(given) \in Nat
      /\ NamesIn(query) \in [1..Cardinality(given) -> given]
      /\ \A name \in given : Occurs(name, NamesIn(query))
  BY <1>1, SetToSeqLists DEF NamesIn
<1> HIDE DEF given
<1>3. NamesIn(query) \in Seq(given)
  BY <1>2
<1> QED BY <1>2, <1>3 DEF given

\* The lines matchersTextFromQuery joins.
LinesOf(query) ==
    LET names == NamesIn(query) IN
    [i \in DOMAIN names |-> FieldsOf(names[i], query[names[i]])]

LEMMA TextIsLines ==
    ASSUME NEW query
    PROVE  matchersTextFromQuery(query) = S!FlattenSeq(LinesOf(query))
  BY DEF matchersTextFromQuery, LinesOf

LEMMA LinesOfLink ==
    ASSUME NEW query \in Links, NEW T,
           \A name \in GivenIn(query) : FieldsOf(name, query[name]) \in Seq(T)
    PROVE  LinesOf(query) \in Seq(Seq(T))
<1> DEFINE names == NamesIn(query)
           line(i) == FieldsOf(names[i], query[names[i]])
<1>1. names \in Seq(GivenIn(query))
  BY NamesAreListed
<1>2. LinesOf(query) = [i \in DOMAIN names |-> line(i)]
  BY DEF LinesOf
<1> HIDE DEF names
<1>3. /\ Len(names) \in Nat /\ DOMAIN names = 1..Len(names)
      /\ \A i \in DOMAIN names : names[i] \in GivenIn(query)
  BY <1>1, InSeq
<1>4. \A i \in 1..Len(names) : line(i) \in Seq(T)
  BY <1>3
<1> HIDE DEF line
<1>5. LinesOf(query) \in [1..Len(names) -> Seq(T)]
  BY <1>2, <1>3, <1>4
<1> QED BY <1>3, <1>5, OverSet

\* A prefilled text has the fields of the link's parameters.
LEMMA TextOfLink ==
    ASSUME NEW query \in Links, NEW T,
           \A name \in GivenIn(query) : FieldsOf(name, query[name]) \in Seq(T)
    PROVE  matchersTextFromQuery(query) \in Seq(T)
  BY LinesOfLink, TextIsLines, FlattenType

\* A matcher is read from the last token with its name.
LEMMA ParsedFrom ==
    ASSUME NEW T, NEW text \in Seq(T), NEW name \in DOMAIN parseMatchersText(text)
    PROVE  \E i \in DOMAIN text :
              /\ text[i].name = name
              /\ parseMatchersText(text)[name] = text[i].value
<1> DEFINE I == {i \in DOMAIN text : text[i].name = name}
<1>1. Len(text) \in Nat /\ DOMAIN text = 1..Len(text)
  OBVIOUS
<1>2. I \in SUBSET (1..Len(text)) /\ I # {}
  BY <1>1 DEF parseMatchersText
<1>3. S!Max(I) \in I
  <2> HIDE DEF I
  <2> QED BY <1>1, <1>2, GreatestOf
<1>4. parseMatchersText(text)[name] = text[S!Max(I)].value
  BY DEF parseMatchersText
<1> QED BY <1>3, <1>4

LEMMA LinkIsTyped ==
    ASSUME NEW query \in Links
    PROVE  /\ DOMAIN query \subseteq LabelNames
           /\ \A name \in DOMAIN query : query[name] \in ValueOrNone
<1>1. PICK N \in SUBSET LabelNames : query \in [N -> ValueOrNone]
  BY LinksAssumption
<1> QED BY <1>1

LEMMA FieldsAreTokens ==
    ASSUME NEW query \in Links, NEW name \in GivenIn(query)
    PROVE  FieldsOf(name, query[name]) \in Seq(Tokens)
<1>1. name \in NameOrNone /\ query[name] \in ValueOrNone
  BY LinkIsTyped DEF GivenIn, NameOrNone
<1>2. CASE query[name] \in Spaced
  <2> DEFINE fields == Fields[query[name]]
             token  == [name |-> name, value |-> fields.first]
  <2>1. fields \in [first : ValueOrNone, rest : Seq(Tokens)]
    BY <1>2, FieldsAssumption
  <2>2. fields.first \in ValueOrNone /\ fields.rest \in Seq(Tokens)
    BY <2>1
  <2>3. token \in Tokens
    BY <1>1, <2>2 DEF Tokens
  <2>4. FieldsOf(name, query[name]) = <<token>> \o fields.rest
    BY <1>2 DEF FieldsOf
  <2> HIDE DEF token, fields
  <2>5. <<token>> \in Seq(Tokens)
    BY <2>3
  <2> QED BY <2>2, <2>4, <2>5
<1>3. CASE query[name] \notin Spaced
  <2> DEFINE token == [name |-> name, value |-> query[name]]
  <2>1. token \in Tokens
    BY <1>1 DEF Tokens
  <2>2. FieldsOf(name, query[name]) = <<token>>
    BY <1>3 DEF FieldsOf
  <2> HIDE DEF token
  <2> QED BY <2>1, <2>2
<1> QED BY <1>2, <1>3

LEMMA TextIsTokens ==
    ASSUME NEW query \in Links
    PROVE  matchersTextFromQuery(query) \in Seq(Tokens)
  BY FieldsAreTokens, TextOfLink

\* What the form accepts is a set of labels with a value each.
LEMMA ParsedIsLabels ==
    ASSUME NEW text \in Seq(Tokens), WellFormed(text)
    PROVE  /\ parseMatchersText(text) \in LabelSets
           /\ ValuesGiven(parseMatchersText(text))
<1> DEFINE parsed == parseMatchersText(text)
<1>1. ASSUME NEW name \in DOMAIN parsed
      PROVE  name \in LabelNames /\ parsed[name] \in LabelValues /\ parsed[name] # NoValue
  <2>1. PICK i \in DOMAIN text : text[i].name = name /\ parsed[name] = text[i].value
    BY ParsedFrom
  <2>2. text[i] \in Tokens /\ text[i].name # "" /\ text[i].value # ""
    BY InSeq DEF WellFormed
  <2> QED BY <2>1, <2>2 DEF Tokens, NameOrNone, ValueOrNone, NoValue
<1>2. parsed = [name \in DOMAIN parsed |-> parsed[name]]
  BY DEF parseMatchersText
<1> HIDE DEF parsed
<1>3. parsed \in [DOMAIN parsed -> LabelValues] /\ DOMAIN parsed \in SUBSET LabelNames
  BY <1>1, <1>2
<1>4. parsed \in LabelSets
  BY <1>3 DEF LabelSets
<1>5. ValuesGiven(parsed)
  BY <1>1 DEF ValuesGiven
<1> QED BY <1>4, <1>5 DEF parsed

\* The tokens of a link's parameters.
TokensOf(query) == {[name |-> n, value |-> query[n]] : n \in GivenIn(query)}

LEMMA TokenParts ==
    ASSUME NEW query, NEW token \in TokensOf(query)
    PROVE  token.name \in GivenIn(query) /\ token.value = query[token.name]
  BY DEF TokensOf

\* Without spaces a parameter is one token.
LEMMA PlainLines ==
    ASSUME NEW query \in Links, Plain(query)
    PROVE  \A name \in GivenIn(query) :
              /\ [name |-> name, value |-> query[name]] \in TokensOf(query)
              /\ FieldsOf(name, query[name]) = <<[name |-> name, value |-> query[name]]>>
              /\ FieldsOf(name, query[name]) \in Seq(TokensOf(query))
<1> SUFFICES ASSUME NEW name \in GivenIn(query)
             PROVE  /\ [name |-> name, value |-> query[name]] \in TokensOf(query)
                    /\ FieldsOf(name, query[name]) = <<[name |-> name, value |-> query[name]]>>
                    /\ FieldsOf(name, query[name]) \in Seq(TokensOf(query))
  OBVIOUS
<1> DEFINE token == [name |-> name, value |-> query[name]]
<1>1. token \in TokensOf(query)
  BY DEF TokensOf
<1>2. FieldsOf(name, query[name]) = <<token>>
  BY DEF FieldsOf, Plain, GivenIn
<1>3. <<token>> \in Seq(TokensOf(query))
  <2> HIDE DEF token
  <2> QED BY <1>1
<1> QED BY <1>1, <1>2, <1>3

\* Every parameter that is given is in the text.
LEMMA TextHasLink ==
    ASSUME NEW query \in Links, Plain(query), NEW name \in GivenIn(query)
    PROVE  Occurs([name |-> name, value |-> query[name]], matchersTextFromQuery(query))
<1> DEFINE lines == LinesOf(query)
           token == [name |-> name, value |-> query[name]]
<1>1. lines \in Seq(Seq(TokensOf(query)))
  BY PlainLines, LinesOfLink
<1>2. PICK i \in DOMAIN NamesIn(query) : NamesIn(query)[i] = name
  BY NamesAreListed DEF Occurs
<1>3. i \in DOMAIN lines /\ lines[i] = <<token>>
  BY <1>2, PlainLines DEF LinesOf
<1> HIDE DEF lines, token
<1>4. Occurs(token, lines[i])
  <2>1. 1 \in DOMAIN <<token>> /\ <<token>>[1] = token
    OBVIOUS
  <2> QED BY <1>3, <2>1 DEF Occurs
<1>5. Occurs(token, S!FlattenSeq(lines))
  BY <1>1, <1>3, <1>4, FlattenHas
<1> QED BY <1>5, TextIsLines DEF lines, token

\* A link whose values have no space in them is read back exactly: each label
\* the link gives a value, with that value, and no other (matchersTextFromQuery,
\* then parseMatchersText).
THEOREM LinkReadExactly ==
    ASSUME NEW query \in Links, Plain(query)
    PROVE  parseMatchersText(matchersTextFromQuery(query)) =
              [name \in GivenIn(query) |-> query[name]]
<1> DEFINE text   == matchersTextFromQuery(query)
           parsed == parseMatchersText(text)
<1>1. text \in Seq(TokensOf(query))
  BY PlainLines, TextOfLink
<1>2. ASSUME NEW key \in DOMAIN parsed
      PROVE  key \in GivenIn(query) /\ parsed[key] = query[key]
  <2>1. PICK i \in DOMAIN text : text[i].name = key /\ parsed[key] = text[i].value
    BY <1>1, ParsedFrom
  <2> HIDE DEF text
  <2>2. text[i] \in TokensOf(query)
    BY <1>1, InSeq
  <2> QED BY <2>1, <2>2, TokenParts
<1>3. ASSUME NEW name \in GivenIn(query)
      PROVE  name \in DOMAIN parsed
  <2> DEFINE token == [name |-> name, value |-> query[name]]
  <2>1. token.name = name
    OBVIOUS
  <2>2. PICK i \in DOMAIN text : text[i] = token
    BY <1>3, TextHasLink DEF Occurs
  <2> HIDE DEF token
  <2>3. text[i].name = name
    BY <2>1, <2>2
  <2> QED BY <2>3 DEF parseMatchersText
<1>4. DOMAIN parsed = GivenIn(query)
  BY <1>2, <1>3
<1>5. parsed = [name \in DOMAIN parsed |-> parsed[name]]
  BY DEF parseMatchersText
<1> HIDE DEF parsed
<1> QED BY <1>2, <1>4, <1>5 DEF parsed

-----------------------------------------------------------------------------
(* The times of the form.                                                    *)

LEMMA RemainderOf ==
    ASSUME NEW b \in Nat \ {0}, NEW q \in Nat, NEW r \in 0..(b - 1)
    PROVE  (b * q + r) % b = r
  OBVIOUS

\* A multiple added changes no remainder.
LEMMA SameRemainder ==
    ASSUME NEW b \in Nat \ {0}, NEW h \in Nat, h % b = 0, NEW a \in Nat
    PROVE  (a + h) % b = a % b
<1> DEFINE q == a \div b
           k == h \div b
           r == a % b
<1>1. q \in Nat /\ k \in Nat /\ r \in 0..(b - 1)
  OBVIOUS
<1>2. r = a - b * q
  OBVIOUS
<1>3. 0 = h - b * k
  <2>1. h % b = h - b * k
    OBVIOUS
  <2> QED BY <2>1
<1> HIDE DEF q, k, r
<1>4. b * q \in Nat /\ b * k \in Nat /\ b * (q + k) = b * q + b * k
  BY <1>1
<1>5. a + h = b * (q + k) + r
  BY <1>1, <1>2, <1>3, <1>4
<1>6. q + k \in Nat
  BY <1>1
<1>7. (b * (q + k) + r) % b = r
  BY <1>1, <1>6, RemainderOf
<1> QED BY <1>5, <1>7 DEF r

\* Cutting to the minute keeps the order.
LEMMA CutInOrder ==
    ASSUME NEW b \in Nat \ {0}, NEW a \in Nat, NEW c \in Nat, a <= c
    PROVE  a - (a % b) <= c - (c % b)
  OBVIOUS

LEMMA CutIsNat ==
    ASSUME NEW b \in Nat \ {0}, NEW a \in Nat
    PROVE  a % b \in Nat /\ a % b <= a
  OBVIOUS

\* A time the form shows is not after the time it was read.
LEMMA FormattedBefore ==
    ASSUME NEW t \in Nat \ {0}
    PROVE  Formatted(t) \in Nat /\ Formatted(t) <= t
<1>1. (t - 1) % Minute \in Nat /\ (t - 1) % Minute <= t - 1
  BY MinuteAssumption, CutIsNat
<1> QED BY <1>1 DEF Formatted

\* The end lies a full hour after the start, however the two readings are cut.
LEMMA FormattedHour ==
    ASSUME NEW t1 \in Nat \ {0}, NEW t2 \in Nat \ {0}, t1 <= t2
    PROVE  Formatted(t1) + Hour <= Formatted(t2 + Hour)
<1>1. ((t2 - 1) + Hour) % Minute = (t2 - 1) % Minute
  <2>1. t2 - 1 \in Nat
    OBVIOUS
  <2> QED BY <2>1, MinuteAssumption, SameRemainder
<1>2. (t2 + Hour) - 1 = (t2 - 1) + Hour
  BY MinuteAssumption
<1>3. (t1 - 1) - ((t1 - 1) % Minute) <= (t2 - 1) - ((t2 - 1) % Minute)
  <2>1. t1 - 1 \in Nat /\ t2 - 1 \in Nat /\ t1 - 1 <= t2 - 1
    OBVIOUS
  <2> QED BY <2>1, MinuteAssumption, CutInOrder
<1>4. (t1 - 1) % Minute \in Nat /\ (t2 - 1) % Minute \in Nat
  BY MinuteAssumption, CutIsNat
<1> QED BY <1>1, <1>2, <1>3, <1>4, MinuteAssumption DEF Formatted

-----------------------------------------------------------------------------
(* The steps of UI as steps of Views.                                        *)

\* The form that is shown, and every edit of it, has the types of a form.
FormOK == (form = NoForm \/ form \in Forms) /\ link \in Links \cup {<<>>}

LEMMA FilledAreForms ==
    ASSUME form \in Forms, NEW filled \in Filled
    PROVE  filled \in Forms
<1>1. CASE filled \in {form, [form EXCEPT !.createdBy = ""], [form EXCEPT !.endsAt = ZeroTime]}
  <2> HIDE DEF Tokens
  <2>1. CASE filled = [form EXCEPT !.createdBy = ""]
    BY <2>1 DEF Forms
  <2>2. CASE filled = [form EXCEPT !.endsAt = ZeroTime]
    BY <2>2 DEF Forms, ZeroTime
  <2> QED BY <1>1, <2>1, <2>2
<1>2. CASE filled \in {[form EXCEPT !.text = text] : text \in Texts}
  <2>1. PICK text \in Seq(Tokens) : filled = [form EXCEPT !.text = text]
    BY <1>2, TextsAssumption
  <2> HIDE DEF Tokens
  <2> QED BY <2>1 DEF Forms
<1> QED BY <1>1, <1>2 DEF Filled

LEMMA FormIsFilled == form \in Forms => form \in Filled
  BY DEF Filled

LEMMA CreatedByOf ==
    ASSUME NEW typed \in Users \cup {""}, NEW header \in Users
    PROVE  CreatedBy(typed, header) \in Users \cup {""}
  BY DEF CreatedBy

LEMMA AcceptedIsStorable ==
    ASSUME NEW filled \in Forms, NEW header \in Users, Accepted(filled, header)
    PROVE  /\ Storable(Request(filled, header))
           /\ ValuesGiven(Request(filled, header).matchers)
<1> DEFINE matchers == parseMatchersText(filled.text)
<1>1. /\ filled.text \in Seq(Tokens) /\ WellFormed(filled.text)
      /\ filled.startsAt \in Nat /\ filled.endsAt \in Nat
  BY DEF Forms, Accepted
<1>2. matchers \in LabelSets /\ ValuesGiven(matchers)
  BY <1>1, ParsedIsLabels
<1>3. /\ Request(filled, header).matchers = matchers
      /\ Request(filled, header).startsAt = filled.startsAt
      /\ Request(filled, header).endsAt = filled.endsAt
  BY DEF Request
<1> HIDE DEF matchers
<1> QED BY <1>1, <1>2, <1>3 DEF Storable

\* The page moves only while there is no form, the form only while there is no
\* page; what the form writes, some create request could write.
LEMMA UINextIsViewsStep ==
    ASSUME FormOK, [UINext]_<<vars, formVars>>
    PROVE  ViewsStep
<1>1. CASE form = NoForm /\ Page /\ UNCHANGED formVars
  BY <1>1 DEF ViewsStep
<1>2. CASE UpsertAny \/ CreateAny \/ ExpireAny \/ Tick
  BY <1>2, RequestsAreStorable DEF ViewsStep, CreateAny, AnyCreate
<1>3. CASE OpenForm \/ RefuseForm \/ LeaveForm
  BY <1>3 DEF OpenForm, RefuseForm, LeaveForm, ViewsStep, vars
<1>4. CASE SubmitForm
  <2>1. PICK filled \in Filled, header \in Users :
           /\ Accepted(filled, header)
           /\ CreateMute(Request(filled, header)) \/ UNCHANGED muteVars
    BY <1>4 DEF SubmitForm
  <2>2. Storable(Request(filled, header))
    BY <1>4, <2>1, FilledAreForms, AcceptedIsStorable DEF SubmitForm, FormOK
  <2> QED BY <1>4, <2>1, <2>2 DEF SubmitForm, ViewsStep, AnyCreate
<1>5. CASE UNCHANGED <<vars, formVars>>
  BY <1>5 DEF ViewsStep
<1> QED BY <1>1, <1>2, <1>3, <1>4, <1>5 DEF UINext

LEMMA OpenFormOK ==
    ASSUME FormOK, ClockTypeOK, OpenForm
    PROVE  FormOK'
<1>1. PICK query \in Links, header \in Users, t1 \in {clock - 1, clock} \ {0},
           t2 \in {clock - 1, clock} \ {0} :
         /\ t1 <= t2 /\ link' = query
         /\ form' = [open |-> TRUE, text |-> matchersTextFromQuery(query),
                     startsAt |-> Formatted(t1), endsAt |-> Formatted(t2 + Hour),
                     createdBy |-> header]
  BY DEF OpenForm
<1>2. matchersTextFromQuery(query) \in Seq(Tokens)
  BY TextIsTokens
<1>3. Formatted(t1) \in Nat /\ Formatted(t2 + Hour) \in Nat
  <2>1. t1 \in Nat \ {0} /\ t2 + Hour \in Nat \ {0}
    BY MaxClockAssumption, MinuteAssumption DEF ClockTypeOK
  <2> QED BY <2>1, FormattedBefore
<1> QED BY <1>1, <1>2, <1>3 DEF FormOK, Forms

LEMMA NextFormOK ==
    ASSUME FormOK, ClockTypeOK, [UINext]_<<vars, formVars>>
    PROVE  FormOK'
<1>1. CASE UNCHANGED formVars
  BY <1>1 DEF FormOK, formVars
<1>2. CASE OpenForm
  BY <1>2, OpenFormOK
<1>3. CASE SubmitForm \/ LeaveForm
  BY <1>3 DEF SubmitForm, LeaveForm, CloseForm, FormOK
<1>4. CASE RefuseForm
  <2>1. PICK filled \in Filled, header \in Users :
           form' = [filled EXCEPT !.createdBy = CreatedBy(@, header)]
    BY <1>4 DEF RefuseForm
  <2>2. filled \in Forms /\ link' = link
    BY <1>4, <2>1, FilledAreForms DEF RefuseForm, FormOK
  <2>3. CreatedBy(filled.createdBy, header) \in Users \cup {""}
    BY <2>2, CreatedByOf DEF Forms
  <2> QED BY <2>1, <2>2, <2>3 DEF FormOK, Forms
<1> QED BY <1>1, <1>2, <1>3, <1>4 DEF UINext

-----------------------------------------------------------------------------
(* Types, and what the pages show while the form writes too.                 *)

UIInv == ShownInv /\ FormOK

LEMMA InitUIInv == UIInit => UIInv
  BY InitShownInv DEF UIInit, UIInv, FormOK

LEMMA NextUIInv == UIInv /\ [UINext]_<<vars, formVars>> => UIInv'
<1> SUFFICES ASSUME UIInv, [UINext]_<<vars, formVars>> PROVE UIInv'
  OBVIOUS
<1>1. FormOK /\ ShownInv /\ ClockTypeOK
  BY DEF UIInv, ShownInv, PInv, HInv, ViewsTypeOK
<1>2. FormOK'
  BY <1>1, NextFormOK
<1>3. ShownInv'
  BY <1>1, UINextIsViewsStep, NextShownInv
<1> QED BY <1>2, <1>3 DEF UIInv

LEMMA AlwaysUIInv == UISpec => []UIInv
  BY InitUIInv, NextUIInv, PTL DEF UISpec

LEMMA UIInvParts == UIInv => ShownInv /\ HInv /\ FiniteTable /\ FormOK
  BY DEF UIInv, ShownInv, PInv

\* Every variable of the tab keeps its type: what a link prefills, what an
\* operator types over it and what the header adds is a form.
THEOREM UITypeCorrect == UISpec => []UITypeOK
<1>1. UIInv => UITypeOK
  BY UIInvParts DEF HInv, FormOK, UITypeOK
<1> QED BY <1>1, AlwaysUIInv, PTL

\* With mutes that come from the form too, no firing alert is lost between the
\* firing tab and the mutes page, what a mute covered all the while is on the
\* mutes page, and the page of the expired mutes calls none of them active.
THEOREM PagesShowAlways == UISpec => [](NoAlertHidden /\ SteadyIsShown /\ HistoryNotActive)
<1>1. UIInv => NoAlertHidden /\ SteadyIsShown /\ HistoryNotActive
  BY UIInvParts, NothingHidden, SteadyInvShows, HInvIsHistory
<1> QED BY <1>1, AlwaysUIInv, PTL

LEMMA SubmitKeepsGiven ==
    ASSUME MatchersGiven, FormOK, SubmitForm
    PROVE  MatchersGiven'
<1>1. PICK filled \in Filled, header \in Users :
         /\ Accepted(filled, header)
         /\ CreateMute(Request(filled, header)) \/ UNCHANGED muteVars
  BY DEF SubmitForm
<1>2. ValuesGiven(Request(filled, header).matchers)
  BY <1>1, FilledAreForms, AcceptedIsStorable DEF SubmitForm, FormOK
<1>3. CASE UNCHANGED muteVars
  BY <1>3 DEF muteVars, MatchersGiven
<1> QED BY <1>1, <1>2, <1>3, CreateKeepsGiven

\* The form lets no empty value through, so it is from the API alone that a mute
\* can come which hides from the tab less than it silences: without such
\* requests the firing tab shows no alert the chain would suppress.
THEOREM TabIsUnmutedWithForm ==
    ASSUME NoEmptyMatcher
    PROVE  UISpec => []TabIsUnmuted
<1>1. UIInit => MatchersGiven
  BY DEF UIInit, Init, MuteInit, MatchersGiven
<1>2. ASSUME UIInv, MatchersGiven, [UINext]_<<vars, formVars>>
      PROVE  MatchersGiven'
  <2>1. CASE CreateAny
    BY <1>2, <2>1, NoEmptyMatcher, CreateKeepsGiven DEF CreateAny, NoEmptyMatcher
  <2>2. CASE SubmitForm
    BY <1>2, <2>2, UIInvParts, SubmitKeepsGiven
  <2>3. CASE OpenForm \/ RefuseForm \/ LeaveForm \/ UNCHANGED <<vars, formVars>>
    BY <1>2, <2>3
    DEF OpenForm, RefuseForm, LeaveForm, vars, tableVars, muteVars, MatchersGiven
  <2> QED BY <1>2, <2>1, <2>2, <2>3, UIInvParts, OthersKeepGiven DEF UINext
<1> QED BY <1>1, <1>2, AlwaysUIInv, GivenIsUnmuted, PTL DEF UISpec

-----------------------------------------------------------------------------
(* The expired tab.                                                          *)

\* An alert is on the expired tab, but for the rows past the limit, just when a
\* webhook sent now would call it resolved, and then never on the firing tab.
THEOREM TabsFollowWebhookAlways == UISpec => []TabsFollowWebhook
<1>1. HInv /\ FiniteTable => TabsFollowWebhook
  <2> SUFFICES ASSUME HInv, FiniteTable,
                      NEW expired \in ExpiredTab(clock), NEW fp \in DOMAIN observed
               PROVE  IF AlertStatus(observed[fp], clock) = "resolved"
                      THEN /\ fp \in expired \/ Full(expired)
                           /\ \A firing \in FiringTab(clock) : fp \notin firing
                      ELSE fp \notin expired
    BY DEF TabsFollowWebhook
  <2> DEFINE over == {f \in DOMAIN observed : Expired(f, clock)}
  <2>1. clock \in Nat /\ observed[fp].endsAt \in Nat
    BY ClockIsNat DEF HInv, ViewsTypeOK, AlertStoreTypeOK, AlertRows
  <2>2. AlertStatus(observed[fp], clock) = "resolved" <=> Expired(fp, clock)
    BY DEF AlertStatus, Ended, Expired, ZeroTime
  <2>3. expired \in Newest(over) /\ (fp \in over <=> Expired(fp, clock))
    BY DEF ExpiredTab
  <2>4. IsFiniteSet(over)
    BY FS_Subset DEF FiniteTable
  <2>5. ASSUME Expired(fp, clock), NEW firing \in FiringTab(clock)
        PROVE  fp \notin firing
    <3>1. firing \subseteq FiringRows(clock)
      BY DEF FiringTab, Newest
    <3> QED BY <2>1, <2>5, <3>1 DEF FiringRows, StillFiring, Expired, ZeroTime
  <2> HIDE DEF over
  <2>6. expired \subseteq over
    BY <2>3 DEF Newest
  <2>7. fp \in over => fp \in expired \/ Full(expired)
    BY <2>3, <2>4, LeftOutOfFull
  <2> QED BY <2>2, <2>3, <2>5, <2>6, <2>7
<1> QED BY <1>1, UIInvParts, AlwaysUIInv, PTL

-----------------------------------------------------------------------------
(* The mute a form makes.                                                    *)

\* However often the form was refused and edited, it is one that a link opened:
\* its start is past, and its end, unless somebody cleared it, an hour later.
FormMade ==
    form # NoForm =>
        /\ link \in Links
        /\ form.startsAt <= clock
        /\ form.endsAt = ZeroTime \/ form.startsAt + Hour <= form.endsAt

LEMMA FilledTimes ==
    ASSUME form \in Forms, NEW filled \in Filled
    PROVE  /\ filled.startsAt = form.startsAt
           /\ filled.endsAt = form.endsAt \/ filled.endsAt = ZeroTime
  BY DEF Filled, Forms

LEMMA NextFormMade ==
    ASSUME UIInv, FormMade, [UINext]_<<vars, formVars>>
    PROVE  FormMade'
<1>0. FormOK /\ ClockTypeOK /\ clock \in Nat /\ clock' \in Nat /\ clock <= clock'
  <2>1. FormOK /\ ClockTypeOK /\ clock \in Nat /\ ViewsStep
    BY UIInvParts, ClockIsNat, UINextIsViewsStep DEF HInv, ViewsTypeOK
  <2>2. clock' = clock \/ clock' = clock + 1
    BY <2>1
    DEF ViewsStep, Page, OpenPage, ListRows, ListMutes, MatchNext, Render, ClosePage,
        UpsertAny, AnyCreate, ExpireAny, Tick, ClockTick, vars
  <2> QED BY <2>1, <2>2
<1>1. CASE UNCHANGED formVars
  <2>1. form # NoForm => form.startsAt \in Nat
    BY <1>0 DEF FormOK, Forms
  <2> QED BY <1>0, <1>1, <2>1 DEF FormMade, formVars
<1>2. CASE OpenForm
  <2>1. PICK query \in Links, header \in Users, t1 \in {clock - 1, clock} \ {0},
             t2 \in {clock - 1, clock} \ {0} :
           /\ t1 <= t2 /\ link' = query
           /\ form' = [open |-> TRUE, text |-> matchersTextFromQuery(query),
                       startsAt |-> Formatted(t1), endsAt |-> Formatted(t2 + Hour),
                       createdBy |-> header]
    BY <1>2 DEF OpenForm
  <2>2. t1 \in Nat \ {0} /\ t2 \in Nat \ {0} /\ t1 <= clock
    BY <1>0, MaxClockAssumption DEF ClockTypeOK
  <2>3. Formatted(t1) \in Nat /\ Formatted(t1) <= t1 /\ Formatted(t1) + Hour <= Formatted(t2 + Hour)
    BY <2>1, <2>2, FormattedBefore, FormattedHour
  <2>4. form'.startsAt = Formatted(t1) /\ form'.endsAt = Formatted(t2 + Hour)
    BY <2>1
  <2> QED BY <1>0, <1>2, <2>1, <2>2, <2>3, <2>4 DEF OpenForm, FormMade
<1>3. CASE SubmitForm \/ LeaveForm
  BY <1>3 DEF SubmitForm, LeaveForm, CloseForm, FormMade
<1>4. CASE RefuseForm
  <2>1. PICK filled \in Filled, header \in Users :
           form' = [filled EXCEPT !.createdBy = CreatedBy(@, header)]
    BY <1>4 DEF RefuseForm
  <2>2. /\ form # NoForm /\ form \in Forms
        /\ UNCHANGED <<clock, link>>
    BY <1>0, <1>4 DEF RefuseForm, FormOK
  <2>3. filled \in Forms
    BY <2>1, <2>2, FilledAreForms
  <2>4. form'.startsAt = filled.startsAt /\ form'.endsAt = filled.endsAt
    BY <2>1, <2>3 DEF Forms
  <2> QED BY <2>1, <2>2, <2>4, FilledTimes DEF FormMade
<1> QED BY <1>1, <1>2, <1>3, <1>4 DEF UINext

LEMMA AlwaysFormMade == UISpec => []FormMade
<1>1. UIInit => FormMade
  BY DEF UIInit, FormMade
<1> QED BY <1>1, NextFormMade, AlwaysUIInv, PTL DEF UISpec

\* A mute appears while a form closes only if the form was submitted and
\* accepted, and the mute has what was in it.
LEMMA SubmittedRow ==
    ASSUME UIInv, [UINext]_<<vars, formVars>>, NEW m \in mutes', Submitted(m)
    PROVE  \E filled \in Filled : \E header \in Users :
              /\ Accepted(filled, header)
              /\ m.matchers = parseMatchersText(filled.text)
              /\ m.startsAt = filled.startsAt /\ m.endsAt = filled.endsAt
<1>1. form # form' /\ m \notin mutes
  BY DEF Submitted
<1>2. SubmitForm
  BY <1>1
  DEF UINext, OpenForm, RefuseForm, LeaveForm, vars, formVars, tableVars, muteVars
<1>3. PICK filled \in Filled, header \in Users :
         /\ Accepted(filled, header)
         /\ CreateMute(Request(filled, header)) \/ UNCHANGED muteVars
  BY <1>2 DEF SubmitForm
<1>4. PICK id \in MuteIds :
         mutes' = mutes \cup {[id |-> id, matchers |-> Request(filled, header).matchers,
                               startsAt |-> Request(filled, header).startsAt,
                               endsAt   |-> Request(filled, header).endsAt]}
  BY <1>1, <1>3 DEF CreateMute, muteVars
<1>5. m = [id |-> id, matchers |-> Request(filled, header).matchers,
           startsAt |-> Request(filled, header).startsAt,
           endsAt   |-> Request(filled, header).endsAt]
  BY <1>1, <1>4
<1>6. /\ m.matchers = parseMatchersText(filled.text)
      /\ m.startsAt = filled.startsAt /\ m.endsAt = filled.endsAt
  BY <1>5 DEF Request
<1> QED BY <1>3, <1>6

\* A form nobody changed the times of makes a mute that is in force at once and
\* for the hour the form says, for any granularity that divides the hour.
THEOREM StartsAtOnceAlways == UISpec => StartsAtOnce
<1>1. ASSUME UIInv, FormMade, [UINext]_<<vars, formVars>>
      PROVE  [\A m \in mutes' : Submitted(m) =>
                /\ m.endsAt >= m.startsAt + Hour
                /\ clock <= m.endsAt => Active(m, clock)]_<<vars, formVars>>
  <2> SUFFICES ASSUME NEW m \in mutes', Submitted(m)
               PROVE  /\ m.endsAt >= m.startsAt + Hour
                      /\ clock <= m.endsAt => Active(m, clock)
    OBVIOUS
  <2>1. PICK filled \in Filled, header \in Users :
          /\ Accepted(filled, header)
          /\ m.startsAt = filled.startsAt /\ m.endsAt = filled.endsAt
    BY <1>1, SubmittedRow
  <2>2. filled.endsAt # ZeroTime
    BY <2>1 DEF Accepted, ValidateMuteCreate, Request
  <2>3. form # NoForm /\ form \in Forms
    BY <1>1, UIInvParts DEF FormOK, Submitted
  <2>4. /\ m.startsAt \in Nat /\ m.endsAt \in Nat
        /\ m.startsAt <= clock /\ m.startsAt + Hour <= m.endsAt
    BY <1>1, <2>1, <2>2, <2>3, FilledTimes DEF FormMade, Forms
  <2> QED BY <2>4, MinuteAssumption DEF Active
<1> QED BY <1>1, AlwaysUIInv, AlwaysFormMade, PTL DEF UISpec, StartsAtOnce

\* Spaces or not, the first field of a parameter keeps its name.
LEMMA FirstField ==
    ASSUME NEW query \in Links, NEW name \in GivenIn(query)
    PROVE  \E token : Occurs(token, FieldsOf(name, query[name])) /\ token.name = name
<1> DEFINE line == FieldsOf(name, query[name])
<1>1. CASE query[name] \in Spaced
  <2> DEFINE rest  == Fields[query[name]].rest
             token == [name |-> name, value |-> Fields[query[name]].first]
  <2>1. rest \in Seq(Tokens)
    BY <1>1, FieldsAssumption
  <2>2. line = <<token>> \o rest
    BY <1>1 DEF FieldsOf
  <2>3. token.name = name
    OBVIOUS
  <2> HIDE DEF line, rest, token
  <2>4. 1 \in DOMAIN line /\ line[1] = token
    BY <2>1, <2>2
  <2> QED BY <2>3, <2>4 DEF Occurs, line
<1>2. CASE query[name] \notin Spaced
  <2> DEFINE token == [name |-> name, value |-> query[name]]
  <2>1. line = <<token>>
    BY <1>2 DEF FieldsOf
  <2>2. token.name = name
    OBVIOUS
  <2> HIDE DEF line, token
  <2>3. 1 \in DOMAIN line /\ line[1] = token
    BY <2>1
  <2> QED BY <2>2, <2>3 DEF Occurs, line
<1> QED BY <1>1, <1>2

LEMMA NamesAreRead ==
    ASSUME NEW query \in Links
    PROVE  GivenIn(query) \subseteq DOMAIN parseMatchersText(matchersTextFromQuery(query))
<1> DEFINE lines == LinesOf(query)
           text  == matchersTextFromQuery(query)
<1> SUFFICES ASSUME NEW name \in GivenIn(query)
             PROVE  name \in DOMAIN parseMatchersText(text)
  OBVIOUS
<1>1. lines \in Seq(Seq(Tokens))
  BY FieldsAreTokens, LinesOfLink
<1>2. PICK i \in DOMAIN NamesIn(query) : NamesIn(query)[i] = name
  BY NamesAreListed DEF Occurs
<1>3. i \in DOMAIN lines /\ lines[i] = FieldsOf(name, query[name])
  BY <1>2 DEF LinesOf
<1>4. PICK token : Occurs(token, FieldsOf(name, query[name])) /\ token.name = name
  BY FirstField
<1>5. Occurs(token, text)
  <2> HIDE DEF lines
  <2>1. Occurs(token, S!FlattenSeq(lines))
    BY <1>1, <1>3, <1>4, FlattenHas
  <2> QED BY <2>1, TextIsLines DEF lines
<1> HIDE DEF lines, text
<1> QED BY <1>4, <1>5 DEF Occurs, parseMatchersText

\* With the matchers a link prefilled the mute asks for every label the link
\* gives, and without spaces in its values it covers every alert that has the
\* link's labels: an absent label equals "".
THEOREM LinkHonouredAlways == UISpec => LinkHonoured
<1>1. ASSUME UIInv, FormMade, [UINext]_<<vars, formVars>>
      PROVE  [\A m \in mutes' : Submitted(m) /\ Prefilled(m) =>
                /\ GivenIn(link) \subseteq DOMAIN m.matchers
                /\ Plain(link) => CoversLink(m)]_<<vars, formVars>>
  <2> SUFFICES ASSUME NEW m \in mutes', Submitted(m), Prefilled(m)
               PROVE  /\ GivenIn(link) \subseteq DOMAIN m.matchers
                      /\ Plain(link) => CoversLink(m)
    OBVIOUS
  <2>1. link \in Links
    BY <1>1 DEF FormMade, Submitted
  <2>2. GivenIn(link) \subseteq DOMAIN m.matchers
    BY <2>1, NamesAreRead DEF Prefilled
  <2>3. ASSUME Plain(link) PROVE CoversLink(m)
    <3>1. m.matchers = [name \in GivenIn(link) |-> link[name]]
      BY <2>1, <2>3, LinkReadExactly DEF Prefilled
    <3>2. GivenIn(link) \subseteq DOMAIN link
      BY DEF GivenIn
    <3> QED BY <3>1, <3>2 DEF CoversLink, MatchAll
  <2> QED BY <2>2, <2>3
<1> QED BY <1>1, AlwaysUIInv, AlwaysFormMade, PTL DEF UISpec, LinkHonoured
=============================================================================
