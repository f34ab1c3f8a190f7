--------------------------- MODULE FlatJsonProofs ---------------------------
(***************************************************************************)
(* The parser stays inside every text and comes to the end of it; and what  *)
(* a client wrote it reads back, whatever the fields, the strings and the   *)
(* spaces are.                                                              *)
(***************************************************************************)
EXTENDS FlatJsonProps, SequenceTheorems, WellFoundedInduction, TLAPS

USE CharactersAssumption, RequestsAssumption

----------------------------------------------------------------------------
\* A nonempty set of numbers has a first.
LEMMA FirstExists ==
  ASSUME NEW S \in SUBSET Nat, S # {}
  PROVE  First(S) \in S /\ \A r \in S : First(S) <= r
  <1>1. PICK q \in S : \A r \in S : ~ (<<r, q>> \in OpToRel(<, Nat))
    BY NatLessThanWellFounded, WFMin
  <1>2. ASSUME NEW r \in S PROVE q <= r
    <2>1. r < q => <<r, q>> \in {ss \in Nat \X Nat : ss[1] < ss[2]}
      OBVIOUS
    <2> QED BY <1>1, <2>1 DEF OpToRel
  <1> QED BY <1>2 DEF First

\* The searches stop between where they began and the end of the text.
LEMMA SearchesStop ==
  ASSUME body \in Texts, NEW p \in 1 .. Past
  PROVE  /\ AfterSpaces(p) \in p .. Past
         /\ PrimitiveEnd(p) \in p .. Past
  <1>1. Past \in Nat \ {0} /\ Past \in p .. Past
    BY DEF Past, Texts
  <1>2. ASSUME NEW S \in SUBSET (p .. Past), Past \in S PROVE First(S) \in p .. Past
    <2>1. S \in SUBSET Nat /\ S # {}
      BY <1>1, <1>2
    <2> QED BY <1>2, <2>1, FirstExists
  <1> DEFINE A == {q \in p .. Past : q < Past => body[q] \notin Spaces}
             P == {q \in p .. Past : q < Past => body[q] \in {Comma, Right}}
  <1>3. AfterSpaces(p) \in p .. Past
    <2>1. A \subseteq p .. Past
      OBVIOUS
    <2>2. Past \in A
      <3>1. ~ (Past < Past)
        BY <1>1
      <3> QED BY <1>1, <3>1
    <2> HIDE DEF A
    <2>3. First(A) \in p .. Past
      BY <1>2, <2>1, <2>2
    <2> QED BY <2>3 DEF AfterSpaces, A
  <1>4. PrimitiveEnd(p) \in p .. Past
    <2>1. P \subseteq p .. Past
      OBVIOUS
    <2>2. Past \in P
      <3>1. ~ (Past < Past)
        BY <1>1
      <3> QED BY <1>1, <3>1
    <2> HIDE DEF P
    <2>3. First(P) \in p .. Past
      BY <1>2, <2>1, <2>2
    <2> QED BY <2>3 DEF PrimitiveEnd, P
  <1> QED BY <1>3, <1>4

LEMMA TrimmedIsText ==
  ASSUME body \in Texts, NEW p \in 1 .. Past, NEW end \in p .. Past
  PROVE  Trimmed(p, end) \in Texts
  <1> DEFINE S == {l \in p - 1 .. end - 1 : \A i \in l + 1 .. end - 1 : body[i] \in Spaces}
  <1>1. Past = Len(body) + 1 /\ Len(body) \in Nat
    BY DEF Past, Texts
  <1>2. end - 1 \in S /\ S \in SUBSET Nat
    BY <1>1
  <1>3. First(S) \in S
    BY <1>2, FirstExists
  <1>4. First(S) \in p - 1 .. end - 1
    BY <1>3
  <1> HIDE DEF S
  <1>5. SubSeq(body, p, First(S)) \in Seq(Characters)
    BY <1>1, <1>4 DEF Texts
  <1> QED BY <1>5 DEF Trimmed, S, Texts

----------------------------------------------------------------------------
\* What a step leaves of the place and the mode it began at.
Onward == /\ pos' \in 1 .. Past
          /\ mode' \in {"open", "item", "key", "colon", "text", "primitive", "done"}
          /\ pos < pos' \/ (pos = pos' /\ Rank(mode') < Rank(mode))
Kept   == UNCHANGED <<request, key, out, result>>

LEMMA Ranks ==
  /\ Rank("open") = 5 /\ Rank("text") = 4 /\ Rank("primitive") = 4 /\ Rank("item") = 3
  /\ Rank("key") = 2 /\ Rank("colon") = 1 /\ Rank("done") = 0
  BY DEF Rank

LEMMA SameText ==
  ASSUME UNCHANGED request
  PROVE  body' = body /\ Past' = Past
  BY DEF body, Past

LEMMA InitOK == Init => TypeOK
  <1> SUFFICES ASSUME Init PROVE TypeOK
    OBVIOUS
  <1>1. body \in Texts /\ Past \in Nat \ {0}
    BY DEF Init, Texts, Past, body
  <1>2. <<>> \in Texts /\ DOMAIN result = {}
    BY DEF Init, Texts
  <1> QED BY <1>1, <1>2 DEF Init, TypeOK

LEMMA HereIsIn ==
  ASSUME body \in Texts, NEW p \in 1 .. Past, NEW ch, Here(p, ch)
  PROVE  p + 1 \in 1 .. Past
  BY DEF Here, Past, Texts

LEMMA OpenStep ==
  ASSUME TypeOK, Open
  PROVE  Onward /\ Kept
  <1>1. body \in Texts /\ pos \in 1 .. Past /\ Past \in Nat /\ pos \in Nat
    BY DEF TypeOK, Past, Texts
  <1> DEFINE q == AfterSpaces(pos)
  <1>2. q \in pos .. Past /\ q \in 1 .. Past
    BY <1>1, SearchesStop
  <1>3. Here(q, Left) => q + 1 \in 1 .. Past
    BY <1>1, <1>2, HereIsIn
  <1> HIDE DEF q
  <1>4. mode = "open" /\ Kept
    BY DEF Open, Kept
  <1>5. (Goto("item", q + 1) /\ Here(q, Left)) \/ Goto("done", q)
    BY DEF Open, q
  <1>6. CASE Goto("item", q + 1) /\ Here(q, Left)
    BY <1>1, <1>2, <1>3, <1>4, <1>6 DEF Goto, Onward
  <1>7. CASE Goto("done", q)
    BY <1>1, <1>2, <1>4, <1>7, Ranks DEF Goto, Onward
  <1> QED BY <1>5, <1>6, <1>7

LEMMA ItemStep ==
  ASSUME TypeOK, Item
  PROVE  Onward /\ UNCHANGED <<request, key, result>> /\ out' = <<>>
  <1>1. body \in Texts /\ pos \in 1 .. Past /\ Past \in Nat /\ pos \in Nat
    BY DEF TypeOK, Past, Texts
  <1> DEFINE q == AfterSpaces(pos)
  <1>2. q \in pos .. Past /\ q \in 1 .. Past
    BY <1>1, SearchesStop
  <1>3. Here(q, Quote) => q + 1 \in 1 .. Past
    BY <1>1, <1>2, HereIsIn
  <1> HIDE DEF q
  <1>4. mode = "item" /\ UNCHANGED <<request, key, result>> /\ out' = <<>>
    BY DEF Item
  <1>5. Goto("done", q) \/ (Here(q, Quote) /\ Goto("key", q + 1)) \/ Goto("colon", q)
    BY DEF Item, q
  <1> QED BY <1>1, <1>2, <1>3, <1>4, <1>5, Ranks DEF Goto, Onward

LEMMA ColonStep ==
  ASSUME TypeOK, Colon
  PROVE  Onward /\ UNCHANGED <<request, result>> /\ key' = out /\ out' = <<>>
  <1>1. body \in Texts /\ pos \in 1 .. Past /\ Past \in Nat /\ pos \in Nat
    BY DEF TypeOK, Past, Texts
  <1> DEFINE q == AfterSpaces(pos)
             v == AfterSpaces(q + 1)
  <1>2. q \in pos .. Past /\ q \in 1 .. Past
    BY <1>1, SearchesStop
  <1>3. CASE ~ Here(q, ":")
    BY <1>1, <1>2, <1>3, Ranks DEF Colon, Goto, Onward
  <1>4. CASE Here(q, ":")
    <2>1. q + 1 \in 1 .. Past
      BY <1>1, <1>2, <1>4, HereIsIn
    <2>2. v \in q + 1 .. Past /\ v \in 1 .. Past
      BY <1>1, <2>1, SearchesStop
    <2>3. Here(v, Quote) => v + 1 \in 1 .. Past
      BY <1>1, <2>2, HereIsIn
    <2> HIDE DEF q, v
    <2>4. \/ Here(v, Quote) /\ Goto("text", v + 1)
          \/ Goto("primitive", v)
      BY <1>4 DEF Colon, q, v
    <2>5. UNCHANGED <<request, result>> /\ key' = out /\ out' = <<>> /\ mode = "colon"
      BY DEF Colon
    <2> QED BY <1>1, <1>2, <2>2, <2>3, <2>4, <2>5 DEF Goto, Onward
  <1> QED BY <1>3, <1>4

\* Storing a value goes to the head of the loop, behind p.
LEMMA StoreStep ==
  ASSUME TypeOK, NEW p \in pos .. Past, NEW value \in Texts, Store(value, p),
         p = pos => mode \in {"text", "primitive"}
  PROVE  /\ Onward
         /\ DOMAIN result' \subseteq Texts /\ \A k \in DOMAIN result' : result'[k] \in Texts
  <1>1. /\ body \in Texts /\ pos \in 1 .. Past /\ p \in 1 .. Past /\ key \in Texts
        /\ Past \in Nat /\ pos \in Nat
    BY DEF TypeOK, Past, Texts
  <1> DEFINE q == AfterSpaces(p)
  <1>2. q \in p .. Past /\ q \in 1 .. Past
    BY <1>1, SearchesStop
  <1>3. Here(q, Comma) => q + 1 \in 1 .. Past
    BY <1>1, <1>2, HereIsIn
  <1> HIDE DEF q
  <1>4. Onward
    <2>1. (Goto("item", q + 1) /\ Here(q, Comma)) \/ Goto("item", q)
      BY DEF Store, q
    <2>2. CASE Goto("item", q + 1) /\ Here(q, Comma)
      BY <1>1, <1>2, <1>3, <2>2 DEF Goto, Onward
    <2>3. CASE Goto("item", q)
      BY <1>1, <1>2, <2>3, Ranks DEF Goto, Onward
    <2> QED BY <2>1, <2>2, <2>3
  <1>5. result' = [k \in DOMAIN result \cup {key} |-> IF k = key THEN value ELSE result[k]]
    BY DEF Store
  <1> QED BY <1>1, <1>4, <1>5 DEF TypeOK

LEMMA NoCharacters == <<>> \in Texts
  BY DEF Texts

LEMMA NextStep ==
  ASSUME TypeOK, Next
  PROVE  TypeOK' /\ (pos < pos' \/ (pos = pos' /\ Rank(mode') < Rank(mode)))
  <1>0. body \in Texts /\ pos \in 1 .. Past /\ out \in Texts /\ Past = Len(body) + 1 /\ Len(body) \in Nat
    BY DEF TypeOK, Past, Texts
  <1> DEFINE Goal == TypeOK' /\ (pos < pos' \/ (pos = pos' /\ Rank(mode') < Rank(mode)))
  <1>1. CASE Open
    BY <1>1, OpenStep, SameText DEF Onward, Kept, TypeOK
  <1>2. CASE Item
    BY <1>2, ItemStep, SameText, NoCharacters DEF Onward, TypeOK
  <1>3. CASE Colon
    BY <1>3, ColonStep, SameText, NoCharacters DEF Onward, TypeOK
  <1>4. CASE Close
    <2> DEFINE p == IF pos = Past THEN pos ELSE pos + 1
    <2>1. p \in pos .. Past
      BY <1>0, <1>4 DEF Close, Here
    <2>2. /\ mode \in {"key", "text"} /\ UNCHANGED <<request, key, out>>
          /\ IF mode = "key" THEN Goto("colon", p) /\ UNCHANGED result ELSE Store(out, p)
      BY <1>4 DEF Close
    <2> HIDE DEF p
    <2>3. CASE mode = "key"
      BY <1>0, <2>1, <2>2, <2>3, SameText, Ranks DEF Goto, TypeOK
    <2>4. CASE mode = "text"
      <3>1. Store(out, p)
        BY <2>2, <2>4
      <3>2. /\ Onward
            /\ DOMAIN result' \subseteq Texts /\ \A k \in DOMAIN result' : result'[k] \in Texts
        BY <1>0, <2>1, <2>4, <3>1, StoreStep
      <3> QED BY <1>0, <2>2, <3>2, SameText DEF Onward, TypeOK
    <2> QED BY <2>2, <2>3, <2>4
  <1>5. ASSUME NEW ch \in Characters, NEW p \in pos + 1 .. Past, Put(ch, p) PROVE Goal
    <2>1. Append(out, ch) \in Texts
      BY <1>0 DEF Texts
    <2> QED BY <1>0, <1>5, <2>1, SameText DEF Put, TypeOK
  <1>6. CASE Plain
    <2>1. pos < Past /\ Put(body[pos], pos + 1)
      BY <1>6 DEF Plain
    <2>2. body[pos] \in Characters
      BY <1>0, <2>1 DEF Texts
    <2>3. pos + 1 \in pos + 1 .. Past
      BY <1>0, <2>1
    <2> QED BY <1>5, <2>1, <2>2, <2>3
  <1>7. CASE Escape
    <2>1. pos + 1 < Past /\ Put(Unescaped(body[pos + 1]), pos + 2)
      BY <1>7 DEF Escape
    <2>2. body[pos + 1] \in Characters
      BY <1>0, <2>1 DEF Texts
    <2>3. Unescaped(body[pos + 1]) \in Characters
      BY <2>2 DEF Unescaped
    <2>4. pos + 2 \in pos + 1 .. Past
      BY <1>0, <2>1
    <2> QED BY <1>5, <2>1, <2>3, <2>4
  <1>8. CASE Primitive
    <2> DEFINE e == PrimitiveEnd(pos)
    <2>1. e \in pos .. Past
      BY <1>0, SearchesStop
    <2>2. Trimmed(pos, e) \in Texts
      BY <1>0, <2>1, TrimmedIsText
    <2>3. mode = "primitive" /\ Store(Trimmed(pos, e), e) /\ UNCHANGED <<request, key, out>>
      BY <1>8 DEF Primitive
    <2>4. /\ Onward
          /\ DOMAIN result' \subseteq Texts /\ \A k \in DOMAIN result' : result'[k] \in Texts
      BY <2>1, <2>2, <2>3, StoreStep
    <2> QED BY <1>0, <2>3, <2>4, SameText DEF Onward, TypeOK
  <1> QED BY <1>1, <1>2, <1>3, <1>4, <1>6, <1>7, <1>8 DEF Next

LEMMA StutterOK == TypeOK /\ UNCHANGED vars => TypeOK'
  BY SameText DEF TypeOK, vars

----------------------------------------------------------------------------
\* For every text: no index is past its end, keys and values are texts (Json.cpp 68-97).
THEOREM TypeCorrect == Spec => []TypeOK
  <1>1. TypeOK /\ [Next]_vars => TypeOK'
    BY NextStep, StutterOK
  <1> QED BY <1>1, InitOK, PTL DEF Spec

\* For every text: each step reads on or goes to a later part of the loop.
THEOREM AlwaysOnward == Spec => Progress
  <1>1. TypeOK /\ [Next]_vars
        => [pos < pos' \/ (pos = pos' /\ Rank(mode') < Rank(mode))]_vars
    BY NextStep
  <1> QED BY <1>1, TypeCorrect, PTL DEF Spec, Progress

----------

------------------------------------------------------------------
\* FlattenSeq, whose function is shown to exist, part by part.

\* A set of numbers with 0, and with n + 1 if with n, has all of them.
LEMMA AllNumbers ==
  ASSUME NEW T, T \subseteq Nat, 0 \in T, \A n \in T : n + 1 \in T
  PROVE  T = Nat
  <1> SUFFICES ASSUME Nat \ T # {} PROVE FALSE
    OBVIOUS
  <1>1. PICK n \in Nat \ T : \A k \in Nat \ T : ~ (<<k, n>> \in OpToRel(<, Nat))
    BY NatLessThanWellFounded, WFMin
  <1>2. n # 0 /\ n - 1 \in Nat
    OBVIOUS
  <1>3. <<n - 1, n>> \in {ss \in Nat \X Nat : ss[1] < ss[2]}
    BY <1>2
  <1>4. n - 1 \in T
    BY <1>1, <1>2, <1>3 DEF OpToRel
  <1> QED BY <1>2, <1>4

Flattens(ss, n, f) == f = [i \in 1 .. n |-> IF i = 1 THEN ss[i] ELSE f[i - 1] \o ss[i]]

OneMore(ss, n, f, h) ==
  Flattens(ss, n + 1, h) /\ h[n + 1] = IF n = 0 THEN ss[1] ELSE f[n] \o ss[n + 1]

LEMMA FlattensStep ==
  ASSUME NEW C, NEW ss, NEW n \in Nat, NEW f, f \in [1 .. n -> Seq(C)], Flattens(ss, n, f),
         ss[n + 1] \in Seq(C)
  PROVE  \E h : OneMore(ss, n, f, h) /\ h \in [1 .. n + 1 -> Seq(C)]
  <1>1. PICK last : last = IF n = 0 THEN ss[1] ELSE f[n] \o ss[n + 1]
    OBVIOUS
  <1>2. last \in Seq(C)
    <2>1. n # 0 => f[n] \in Seq(C)
      OBVIOUS
    <2>2. n # 0 => f[n] \o ss[n + 1] \in Seq(C)
      BY <2>1, ConcatProperties
    <2> QED BY <1>1, <2>2
  <1>3. PICK h : h = [i \in 1 .. n + 1 |-> IF i = n + 1 THEN last ELSE f[i]]
    OBVIOUS
  <1>4. h \in [1 .. n + 1 -> Seq(C)] /\ h[n + 1] = last /\ \A i \in 1 .. n : h[i] = f[i]
    BY <1>2, <1>3
  <1>5. h = [i \in 1 .. n + 1 |-> IF i = 1 THEN ss[i] ELSE h[i - 1] \o ss[i]]
    <2>1. ASSUME NEW i \in 1 .. n + 1 PROVE h[i] = IF i = 1 THEN ss[i] ELSE h[i - 1] \o ss[i]
      <3>1. CASE i = n + 1
        <4>1. n # 0 => h[n] = f[n] /\ i - 1 = n /\ i # 1
          BY <1>4, <3>1
        <4> QED BY <1>1, <1>4, <3>1, <4>1
      <3>2. CASE i # n + 1
        <4>1. i \in 1 .. n /\ (i # 1 => i - 1 \in 1 .. n)
          BY <3>2
        <4>2. f[i] = IF i = 1 THEN ss[i] ELSE f[i - 1] \o ss[i]
          BY <4>1 DEF Flattens
        <4> QED BY <1>4, <4>1, <4>2
      <3> QED BY <3>1, <3>2
    <2> QED BY <1>3, <2>1
  <1>6. OneMore(ss, n, f, h)
    BY <1>1, <1>4, <1>5 DEF Flattens, OneMore
  <1> QED BY <1>4, <1>6

LEMMA FlattensExists ==
  ASSUME NEW C, NEW ss \in Seq(Seq(C)), NEW n \in 0 .. Len(ss)
  PROVE  \E f : Flattens(ss, n, f) /\ f \in [1 .. n -> Seq(C)]
  <1> DEFINE T == {k \in Nat : k <= Len(ss) => \E f : Flattens(ss, k, f) /\ f \in [1 .. k -> Seq(C)]}
  <1>0. Len(ss) \in Nat /\ \A i \in 1 .. Len(ss) : ss[i] \in Seq(C)
    BY LenProperties, ElementOfSeq
  <1>1. 0 \in T
    <2>1. PICK f : f = [i \in 1 .. 0 |-> <<>>]
      OBVIOUS
    <2>2. Flattens(ss, 0, f) /\ f \in [1 .. 0 -> Seq(C)]
      BY <2>1 DEF Flattens
    <2> QED BY <2>2
  <1>2. ASSUME NEW k \in T PROVE k + 1 \in T
    <2>1. CASE k + 1 <= Len(ss)
      <3>1. k \in Nat /\ k <= Len(ss) /\ ss[k + 1] \in Seq(C)
        BY <1>0, <2>1
      <3>2. PICK f : Flattens(ss, k, f) /\ f \in [1 .. k -> Seq(C)]
        BY <3>1
      <3>3. \E h : Flattens(ss, k + 1, h) /\ h \in [1 .. k + 1 -> Seq(C)]
        <4>1. \E h : OneMore(ss, k, f, h) /\ h \in [1 .. k + 1 -> Seq(C)]
          BY <3>1, <3>2, FlattensStep
        <4> QED BY <4>1 DEF OneMore
      <3> QED BY <3>1, <3>3
    <2> QED BY <2>1
  <1> HIDE DEF T
  <1>3. n \in T
    <2>1. T \subseteq Nat
      BY DEF T
    <2>2. T = Nat
      BY <1>1, <1>2, <2>1, AllNumbers
    <2> QED BY <1>0, <2>2
  <1> QED BY <1>0, <1>3 DEF T

\* There is one such function.
LEMMA FlattensAgree ==
  ASSUME NEW ss, NEW tt, NEW m \in Nat, NEW n \in Nat, n <= m, NEW f, NEW g,
         Flattens(ss, m, f), Flattens(tt, n, g), \A i \in 1 .. n : ss[i] = tt[i], NEW k \in 1 .. n
  PROVE  f[k] = g[k]
  <1> DEFINE T == {i \in Nat : i \in 1 .. n => f[i] = g[i]}
  <1>0. \A i \in 1 .. n : /\ f[i] = IF i = 1 THEN ss[i] ELSE f[i - 1] \o ss[i]
                          /\ g[i] = IF i = 1 THEN tt[i] ELSE g[i - 1] \o tt[i]
    <2>1. ASSUME NEW i \in 1 .. n PROVE i \in 1 .. m
      OBVIOUS
    <2> QED BY <2>1 DEF Flattens
  <1>1. 0 \in T
    OBVIOUS
  <1>2. ASSUME NEW i \in T PROVE i + 1 \in T
    <2>1. CASE i + 1 \in 1 .. n
      <3>1. i + 1 = 1 \/ (i \in 1 .. n /\ (i + 1) - 1 = i)
        BY <2>1
      <3>2. i \in 1 .. n => f[i] = g[i]
        BY <1>2
      <3> QED BY <1>0, <2>1, <3>1, <3>2
    <2> QED BY <2>1
  <1> HIDE DEF T
  <1>3. T \subseteq Nat /\ T = Nat
    <2>1. T \subseteq Nat
      BY DEF T
    <2> QED BY <1>1, <1>2, <2>1, AllNumbers
  <1>4. k \in T
    BY <1>3
  <1> QED BY <1>4 DEF T

LEMMA FlattenIs ==
  ASSUME NEW C, NEW ss \in Seq(Seq(C)), NEW f, Flattens(ss, Len(ss), f), Len(ss) # 0
  PROVE  FlattenSeq(ss) = f[Len(ss)]
  <1> DEFINE g == CHOOSE h : Flattens(ss, Len(ss), h)
  <1>1. Flattens(ss, Len(ss), g)
    OBVIOUS
  <1>2. FlattenSeq(ss) = g[Len(ss)]
    BY DEF FlattenSeq, Flattens
  <1>3. Len(ss) \in Nat /\ Len(ss) \in 1 .. Len(ss)
    BY LenProperties
  <1> HIDE DEF g
  <1>4. f[Len(ss)] = g[Len(ss)]
    BY <1>1, <1>3, FlattensAgree
  <1> QED BY <1>2, <1>4

\* FlattenSeq of no parts, of a part more, and its type.
LEMMA FlattenEmpty == FlattenSeq(<<>>) = <<>>
  BY DEF FlattenSeq

LEMMA FlattenAppend ==
  ASSUME NEW C, NEW ss \in Seq(Seq(C)), NEW a \in Seq(C)
  PROVE  FlattenSeq(Append(ss, a)) = FlattenSeq(ss) \o a /\ FlattenSeq(ss) \in Seq(C)
  <1>1. PICK n : n = Len(ss)
    OBVIOUS
  <1>2. PICK tt : tt = Append(ss, a)
    OBVIOUS
  <1>3. /\ n \in Nat /\ n \in 0 .. n
        /\ tt \in Seq(Seq(C)) /\ Len(tt) = n + 1 /\ tt[n + 1] = a /\ \A i \in 1 .. n : tt[i] = ss[i]
    BY <1>1, <1>2, LenProperties, AppendProperties
  <1>4. PICK f : Flattens(ss, n, f) /\ f \in [1 .. n -> Seq(C)]
    BY <1>1, <1>3, FlattensExists
  <1>5. Flattens(tt, n, f)
    BY <1>3, <1>4 DEF Flattens
  <1>6. PICK h : /\ Flattens(tt, n + 1, h)
                 /\ h[n + 1] = IF n = 0 THEN tt[1] ELSE f[n] \o tt[n + 1]
    <2>1. \E h : OneMore(tt, n, f, h) /\ h \in [1 .. n + 1 -> Seq(C)]
      BY <1>3, <1>4, <1>5, FlattensStep
    <2> QED BY <2>1 DEF OneMore
  <1>7. FlattenSeq(tt) = h[n + 1]
    <2>1. n + 1 # 0
      BY <1>3
    <2> QED BY <1>3, <1>6, <2>1, FlattenIs
  <1>8. n # 0 => FlattenSeq(ss) = f[n] /\ f[n] \in Seq(C)
    <2>1. n # 0 => FlattenSeq(ss) = f[n]
      BY <1>1, <1>4, FlattenIs
    <2>2. n # 0 => n \in 1 .. n
      BY <1>3
    <2> QED BY <1>4, <2>1, <2>2
  <1>9. CASE n = 0
    <2>1. ss = <<>>
      BY <1>1, <1>9, EmptySeq
    <2>2. FlattenSeq(ss) = <<>> /\ <<>> \in Seq(C)
      BY <2>1, FlattenEmpty
    <2>3. FlattenSeq(tt) = a
      BY <1>3, <1>6, <1>7, <1>9
    <2>4. <<>> \o a = a
      OBVIOUS
    <2> QED BY <1>2, <2>2, <2>3, <2>4
  <1>10. CASE n # 0
    BY <1>2, <1>3, <1>6, <1>7, <1>8, <1>10
  <1> QED BY <1>9, <1>10

LEMMA FlattenType ==
  ASSUME NEW C, NEW ss \in Seq(Seq(C))
  PROVE  FlattenSeq(ss) \in Seq(C)
  <1>1. <<>> \in Seq(C)
    OBVIOUS
  <1> QED BY <1>1, FlattenAppend

LEMMA Associate ==
  ASSUME NEW C, NEW s \in Seq(C), NEW t \in Seq(C), NEW u \in Seq(C)
  PROVE  (s \o t) \o u = s \o (t \o u)
  BY ConcatAssociative

\* And of a part more at its head.
LEMMA FlattenCons ==
  ASSUME NEW C, NEW ss \in Seq(Seq(C)), NEW a \in Seq(C)
  PROVE  FlattenSeq(<<a>> \o ss) = a \o FlattenSeq(ss)
  <1> DEFINE T == {n \in Nat : \A tt \in Seq(Seq(C)) :
                                 Len(tt) = n => FlattenSeq(<<a>> \o tt) = a \o FlattenSeq(tt)}
  <1>0. <<a>> \in Seq(Seq(C)) /\ Append(<<>>, a) = <<a>>
    OBVIOUS
  <1>1. 0 \in T
    <2> SUFFICES ASSUME NEW tt \in Seq(Seq(C)), Len(tt) = 0
                 PROVE  FlattenSeq(<<a>> \o tt) = a \o FlattenSeq(tt)
      OBVIOUS
    <2>1. tt = <<>>
      BY EmptySeq
    <2>2. <<a>> \o tt = <<a>>
      BY <1>0, <2>1, ConcatEmptySeq
    <2>3. FlattenSeq(Append(<<>>, a)) = FlattenSeq(<<>>) \o a
      <3>1. <<>> \in Seq(Seq(C))
        OBVIOUS
      <3> QED BY <3>1, FlattenAppend
    <2>4. <<>> \o a = a /\ a \o <<>> = a
      BY ConcatEmptySeq
    <2> QED BY <1>0, <2>1, <2>2, <2>3, <2>4, FlattenEmpty
  <1>2. ASSUME NEW n \in T PROVE n + 1 \in T
    <2>0. n + 1 \in Nat
      OBVIOUS
    <2> SUFFICES ASSUME NEW tt \in Seq(Seq(C)), Len(tt) = n + 1
                 PROVE  FlattenSeq(<<a>> \o tt) = a \o FlattenSeq(tt)
      BY <2>0
    <2>1. tt # <<>>
      BY EmptySeq
    <2>2. PICK uu \in Seq(Seq(C)), b \in Seq(C) : tt = Append(uu, b)
      BY <2>1, SequenceEmptyOrAppend
    <2>3. Len(uu) = n
      BY <2>2, AppendProperties, LenProperties
    <2>4. FlattenSeq(<<a>> \o uu) = a \o FlattenSeq(uu)
      BY <2>3
    <2>5. <<a>> \o tt = Append(<<a>> \o uu, b) /\ <<a>> \o uu \in Seq(Seq(C))
      <3>1. <<b>> \in Seq(Seq(C)) /\ <<a>> \o uu \in Seq(Seq(C))
        BY <1>0, ConcatProperties
      <3>2. tt = uu \o <<b>>
        BY <2>2, AppendIsConcat
      <3>3. (<<a>> \o uu) \o <<b>> = <<a>> \o (uu \o <<b>>)
        BY <1>0, <3>1, ConcatAssociative
      <3>4. Append(<<a>> \o uu, b) = (<<a>> \o uu) \o <<b>>
        BY <3>1, AppendIsConcat
      <3> QED BY <3>1, <3>2, <3>3, <3>4
    <2>6. FlattenSeq(<<a>> \o tt) = (a \o FlattenSeq(uu)) \o b
      <3>1. PICK vv : vv = <<a>> \o uu
        OBVIOUS
      <3>2. FlattenSeq(Append(vv, b)) = FlattenSeq(vv) \o b
        BY <2>5, <3>1, FlattenAppend
      <3> QED BY <2>4, <2>5, <3>1, <3>2
    <2>7. FlattenSeq(tt) = FlattenSeq(uu) \o b /\ FlattenSeq(uu) \in Seq(C)
      BY <2>2, FlattenAppend
    <2>8. (a \o FlattenSeq(uu)) \o b = a \o (FlattenSeq(uu) \o b)
      <3> HIDE DEF T
      <3>1. PICK x \in Seq(C) : x = FlattenSeq(uu)
        BY <2>7
      <3>2. (a \o x) \o b = a \o (x \o b)
        BY ONLY Associate, a \in Seq(C), b \in Seq(C), x \in Seq(C)
      <3> QED BY <3>1, <3>2
    <2> QED BY <2>6, <2>7, <2>8
  <1> HIDE DEF T
  <1>3. Len(ss) \in T
    <2>1. T \subseteq Nat
      BY DEF T
    <2>2. T = Nat
      BY <1>1, <1>2, <2>1, AllNumbers
    <2> QED BY <2>2, LenProperties
  <1> QED BY <1>3 DEF T

----------------------------------------------------------------------------
\* What clients write.
Alphabet == Characters \cup Spaces \cup {Quote, Backslash, "n", Comma, ":", Left, Right}
Words    == Seq(Alphabet)

LEMMA Signs ==
  /\ Texts \subseteq Words /\ Seq(Spaces) \subseteq Words /\ <<>> \in Words
  /\ \A ch \in Alphabet : <<ch>> \in Words
  /\ {Quote, Backslash, LineFeed, "n", Comma, ":", Left, Right} \subseteq Alphabet
  BY SeqMonotonic DEF Texts, Words, Alphabet, Spaces

LEMMA Join ==
  ASSUME NEW a \in Words, NEW b \in Words
  PROVE  a \o b \in Words
  BY ConcatProperties DEF Words

\* An equation has a name, so that it is used where it is asked for only.
Regroups(a, b, c) == (a \o b) \o c = a \o (b \o c)

LEMMA JoinTwice ==
  ASSUME NEW a \in Words, NEW b \in Words, NEW c \in Words
  PROVE  Regroups(a, b, c)
  BY ConcatAssociative DEF Words, Regroups

LEMMA JoinNothing ==
  ASSUME NEW a \in Words
  PROVE  a \o <<>> = a /\ <<>> \o a = a
  BY ConcatEmptySeq DEF Words

\* A string is escaped character by character.
Escapes(s) == [i \in DOMAIN s |-> Escaped(s[i])]

LEMMA EscapedIs ==
  ASSUME NEW ch \in Alphabet
  PROVE  Escaped(ch) \in Words
  <1>1. \A c, d \in Alphabet : <<c, d>> \in Words
    BY DEF Words
  <1>2. CASE ch \in {Quote, Backslash}
    BY <1>1, <1>2, Signs DEF Escaped
  <1>3. CASE ch = LineFeed
    BY <1>1, <1>3, Signs DEF Escaped, LineFeed, Quote, Backslash
  <1>4. CASE ch \notin {Quote, Backslash, LineFeed}
    BY <1>4, Signs DEF Escaped
  <1> QED BY <1>2, <1>3, <1>4

LEMMA EscapesAre ==
  ASSUME NEW s \in Words
  PROVE  Escapes(s) \in Seq(Words) /\ Len(Escapes(s)) = Len(s) /\ \A i \in 1 .. Len(s) : Escapes(s)[i] = Escaped(s[i])
  <1>1. Len(s) \in Nat /\ DOMAIN s = 1 .. Len(s) /\ \A i \in 1 .. Len(s) : s[i] \in Alphabet
    BY LenProperties, ElementOfSeq DEF Words
  <1>2. PICK n \in Nat : n = Len(s)
    BY <1>1
  <1>3. PICK e : e = Escapes(s)
    OBVIOUS
  <1>4. e = [i \in 1 .. n |-> Escaped(s[i])]
    BY <1>1, <1>2, <1>3 DEF Escapes
  <1>5. \A i \in 1 .. n : e[i] = Escaped(s[i]) /\ e[i] \in Words
    BY <1>1, <1>2, <1>4, EscapedIs
  <1>6. e \in [1 .. n -> Words]
    BY <1>4, <1>5
  <1>7. e \in Seq(Words) /\ Len(e) = n
    BY <1>6
  <1> QED BY <1>2, <1>3, <1>5, <1>7

LEMMA EscapeIs ==
  ASSUME NEW s \in Words
  PROVE  jsonEscape(s) \in Words
  BY EscapesAre, FlattenType DEF jsonEscape, Escapes, Words

LEMMA EscapeEmpty == jsonEscape(<<>>) = <<>>
  <1>1. [i \in DOMAIN <<>> |-> Escaped(<<>>[i])] = <<>>
    OBVIOUS
  <1> QED BY <1>1, FlattenEmpty DEF jsonEscape

LEMMA EscapeFirst ==
  ASSUME NEW ch \in Alphabet, NEW s \in Words
  PROVE  jsonEscape(<<ch>> \o s) = Escaped(ch) \o jsonEscape(s)
  <1>1. <<ch>> \in Words /\ <<ch>> \o s \in Words /\ Escaped(ch) \in Words
    BY Signs, Join, EscapedIs
  <1>2. PICK t \in Words : t = <<ch>> \o s
    BY <1>1
  <1>3. PICK n \in Nat : n = Len(s)
    BY LenProperties DEF Words
  <1>4. Len(t) = n + 1 /\ t[1] = ch /\ \A i \in 1 .. n : t[i + 1] = s[i]
    <2>1. Len(<<ch>>) = 1 /\ <<ch>>[1] = ch
      OBVIOUS
    <2>2. /\ Len(t) = 1 + n
          /\ \A i \in 1 .. 1 + n : t[i] = IF i <= 1 THEN <<ch>>[i] ELSE s[i - 1]
      BY <1>1, <1>2, <1>3, <2>1, ConcatProperties DEF Words
    <2>3. \A i \in 1 .. n : t[i + 1] = s[i]
      <3>1. ASSUME NEW i \in 1 .. n PROVE i + 1 \in 1 .. 1 + n /\ ~(i + 1 <= 1) /\ (i + 1) - 1 = i
        OBVIOUS
      <3> QED BY <2>2, <3>1
    <2> QED BY <2>1, <2>2, <2>3
  <1>5. PICK e \in Seq(Words) : e = Escapes(s)
    BY EscapesAre
  <1>6. PICK d \in Seq(Words) : d = Escapes(t)
    BY EscapesAre
  <1>7. d = <<Escaped(ch)>> \o e
    <2>1. /\ Len(e) = n /\ \A i \in 1 .. n : e[i] = Escaped(s[i])
          /\ Len(d) = n + 1 /\ \A i \in 1 .. n + 1 : d[i] = Escaped(t[i])
      BY <1>3, <1>4, <1>5, <1>6, EscapesAre
    <2>2. <<Escaped(ch)>> \in Seq(Words) /\ Len(<<Escaped(ch)>>) = 1 /\ <<Escaped(ch)>>[1] = Escaped(ch)
      BY <1>1
    <2>3. PICK f \in Seq(Words) : f = <<Escaped(ch)>> \o e
      BY <2>2, ConcatProperties
    <2>4. /\ Len(f) = n + 1
          /\ \A i \in 1 .. 1 + n : f[i] = IF i <= 1 THEN Escaped(ch) ELSE e[i - 1]
      BY <2>1, <2>2, <2>3, ConcatProperties
    <2>5. \A i \in 1 .. n + 1 : d[i] = f[i]
      <3> SUFFICES ASSUME NEW i \in 1 .. n + 1 PROVE d[i] = f[i]
        OBVIOUS
      <3>1. CASE i = 1
        BY <1>4, <2>1, <2>4, <3>1
      <3>2. CASE i # 1
        <4>1. PICK j \in 1 .. n : i = j + 1
          <5>1. i - 1 \in 1 .. n /\ i = (i - 1) + 1
            BY <3>2
          <5> QED BY <5>1
        <4>2. f[i] = e[j] /\ d[i] = Escaped(t[i]) /\ t[i] = s[j] /\ e[j] = Escaped(s[j])
          BY <1>4, <2>1, <2>4, <4>1
        <4> QED BY <4>2
      <3> QED BY <3>1, <3>2
    <2>6. d = f
      BY <2>1, <2>4, <2>5, SeqEqual
    <2> QED BY <2>3, <2>6
  <1>8. FlattenSeq(<<Escaped(ch)>> \o e) = Escaped(ch) \o FlattenSeq(e)
    BY <1>1, FlattenCons DEF Words
  <1> QED BY <1>2, <1>5, <1>6, <1>7, <1>8 DEF jsonEscape, Escapes

\* What is ahead: behind each part of a field stands more, the rest of it and then the
\* fields from the next on.
InString(s, more)     == jsonEscape(s) \o (<<Quote>> \o more)
ColonOn(f, gap, more) == gap \o (<<":">> \o (gap \o (<<Quote>> \o InString(f.value, gap \o more))))
FieldOn(f, gap, more) == gap \o (<<Quote>> \o InString(f.key, ColonOn(f, gap, more)))

Pieces(fields, gap) ==
  [i \in DOMAIN fields |-> (IF i = 1 THEN <<>> ELSE <<Comma>>) \o FieldOn(fields[i], gap, <<>>)]
FieldsOn(fields, gap, i) == FlattenSeq(SubSeq(Pieces(fields, gap), i, Len(fields))) \o (gap \o <<Right>>)
ItemOn(fields, gap, i) ==
  IF i <= Len(fields) THEN FieldOn(fields[i], gap, FieldsOn(fields, gap, i + 1)) ELSE <<Right>>

\* A text goes on from a place.
Ahead(text, p, more) == Len(text) = p - 1 + Len(more) /\ \A k \in DOMAIN more : text[p - 1 + k] = more[k]

\* The types of these.
LEMMA StringIs ==
  ASSUME NEW s \in Words, NEW more \in Words
  PROVE  InString(s, more) \in Words
  BY Join, EscapeIs, Signs DEF InString

AField(f) == f.key \in Words /\ f.value \in Words

LEMMA FieldIs ==
  ASSUME NEW f, AField(f), NEW gap \in Words, NEW more \in Words
  PROVE  ColonOn(f, gap, more) \in Words /\ FieldOn(f, gap, more) \in Words
  <1>1. gap \o more \in Words /\ \A ch \in Alphabet : \A w \in Words : <<ch>> \o w \in Words
    BY Join, Signs
  <1>2. InString(f.value, gap \o more) \in Words
    BY <1>1, StringIs DEF AField
  <1>3. <<Quote>> \o InString(f.value, gap \o more) \in Words
    BY <1>1, <1>2, Signs
  <1>4. <<":">> \o (gap \o (<<Quote>> \o InString(f.value, gap \o more))) \in Words
    BY <1>1, <1>3, Join, Signs
  <1>5. ColonOn(f, gap, more) \in Words
    BY <1>4, Join DEF ColonOn
  <1>6. InString(f.key, ColonOn(f, gap, more)) \in Words
    BY <1>5, StringIs DEF AField
  <1>7. <<Quote>> \o InString(f.key, ColonOn(f, gap, more)) \in Words
    BY <1>1, <1>6, Signs
  <1> QED BY <1>5, <1>7, Join DEF FieldOn

\* What stands behind a field joins on.
StringJoins(s, more, rest)     == InString(s, more) \o rest = InString(s, more \o rest)
GapJoins(gap, q, more, rest)   == (gap \o (q \o more)) \o rest = gap \o (q \o (more \o rest))
FieldJoins(f, gap, more, rest) == FieldOn(f, gap, more) \o rest = FieldOn(f, gap, more \o rest)

LEMMA StringGoesOn ==
  ASSUME NEW s \in Words, NEW more \in Words, NEW rest \in Words
  PROVE  StringJoins(s, more, rest)
  <1>1. PICK e \in Words : e = jsonEscape(s)
    BY EscapeIs
  <1>2. PICK q \in Words : q = <<Quote>>
    BY Signs
  <1>3. PICK m \in Words : m = q \o more
    BY Join
  <1>4. Regroups(e, m, rest) /\ Regroups(q, more, rest)
    BY JoinTwice
  <1> QED BY <1>1, <1>2, <1>3, <1>4 DEF InString, StringJoins, Regroups

LEMMA GapGoesOn ==
  ASSUME NEW gap \in Words, NEW q \in Words, NEW more \in Words, NEW rest \in Words
  PROVE  GapJoins(gap, q, more, rest)
  <1>1. PICK m \in Words : m = q \o more
    BY Join
  <1>2. Regroups(gap, m, rest) /\ Regroups(q, more, rest)
    BY JoinTwice
  <1> QED BY <1>1, <1>2 DEF Regroups, GapJoins

LEMMA FieldGoesOn ==
  ASSUME NEW f, AField(f), NEW gap \in Words, NEW more \in Words, NEW rest \in Words
  PROVE  FieldJoins(f, gap, more, rest)
  <1>1. PICK q \in Words : q = <<Quote>>
    BY Signs
  <1>2. PICK c \in Words : c = <<":">>
    BY Signs
  <1>3. PICK name \in Words, value \in Words : name = f.key /\ value = f.value
    BY DEF AField
  <1>4. PICK m \in Words : m = gap \o more
    BY Join
  <1>5. PICK v \in Words : v = InString(value, m)
    BY StringIs
  <1>6. v \o rest = InString(f.value, gap \o (more \o rest))
    <2>1. StringJoins(value, m, rest) /\ Regroups(gap, more, rest)
      BY StringGoesOn, JoinTwice
    <2> QED BY <1>3, <1>4, <1>5, <2>1 DEF StringJoins, Regroups
  <1>7. PICK x \in Words : x = gap \o (q \o v)
    <2>1. q \o v \in Words
      BY Join
    <2> QED BY <2>1, Join
  <1>8. PICK o \in Words : o = gap \o (c \o x)
    <2>1. c \o x \in Words
      BY Join
    <2> QED BY <2>1, Join
  <1>9. o = ColonOn(f, gap, more)
    BY <1>1, <1>2, <1>3, <1>4, <1>5, <1>7, <1>8 DEF ColonOn
  <1>10. o \o rest = ColonOn(f, gap, more \o rest)
    <2>1. GapJoins(gap, c, x, rest) /\ GapJoins(gap, q, v, rest)
      BY GapGoesOn
    <2>2. o \o rest = gap \o (c \o (gap \o (q \o (v \o rest))))
      BY <1>7, <1>8, <2>1 DEF GapJoins
    <2> QED BY <1>1, <1>2, <1>6, <2>2 DEF ColonOn
  <1>11. PICK k \in Words : k = InString(name, o)
    BY StringIs
  <1>12. StringJoins(name, o, rest) /\ GapJoins(gap, q, k, rest)
    BY StringGoesOn, GapGoesOn
  <1>13. FieldOn(f, gap, more) = gap \o (q \o k)
    BY <1>1, <1>3, <1>9, <1>11 DEF FieldOn
  <1>14. FieldOn(f, gap, more \o rest) = gap \o (q \o (k \o rest))
    BY <1>1, <1>3, <1>10, <1>11, <1>12 DEF FieldOn, StringJoins
  <1> QED BY <1>12, <1>13, <1>14 DEF GapJoins, FieldJoins

\* The parts of a body.
SomeFields(fields) == fields \in Seq([key : Words, value : Words])

LEMMA PiecesAre ==
  ASSUME NEW fields, SomeFields(fields), NEW gap \in Words
  PROVE  /\ Pieces(fields, gap) \in Seq(Words) /\ Len(Pieces(fields, gap)) = Len(fields)
         /\ Len(fields) \in Nat
         /\ \A i \in 1 .. Len(fields) :
              /\ AField(fields[i])
              /\ Pieces(fields, gap)[i] = (IF i = 1 THEN <<>> ELSE <<Comma>>) \o FieldOn(fields[i], gap, <<>>)
  <1>1. PICK n \in Nat : n = Len(fields)
    BY LenProperties DEF SomeFields
  <1>2. DOMAIN fields = 1 .. n /\ \A i \in 1 .. n : AField(fields[i])
    <2>1. fields \in [1 .. n -> [key : Words, value : Words]]
      BY <1>1, LenProperties DEF SomeFields
    <2> QED BY <2>1 DEF AField
  <1>3. PICK p : p = Pieces(fields, gap)
    OBVIOUS
  <1>4. p = [i \in 1 .. n |-> (IF i = 1 THEN <<>> ELSE <<Comma>>) \o FieldOn(fields[i], gap, <<>>)]
    BY <1>2, <1>3 DEF Pieces
  <1>5. ASSUME NEW i \in 1 .. n PROVE p[i] \in Words
    <2>1. FieldOn(fields[i], gap, <<>>) \in Words
      BY <1>2, Signs, FieldIs
    <2>2. (IF i = 1 THEN <<>> ELSE <<Comma>>) \in Words
      BY Signs
    <2> QED BY <1>4, <2>1, <2>2, Join
  <1>6. p \in [1 .. n -> Words]
    BY <1>4, <1>5
  <1>7. p \in Seq(Words) /\ Len(p) = n
    BY <1>6
  <1> QED BY <1>1, <1>2, <1>3, <1>4, <1>7

LEMMA FieldsOnIs ==
  ASSUME NEW fields, SomeFields(fields), NEW gap \in Words, NEW i \in 1 .. Len(fields) + 1
  PROVE  FieldsOn(fields, gap, i) \in Words
  <1>1. PICK p \in Seq(Words) : p = Pieces(fields, gap) /\ Len(p) = Len(fields) /\ Len(p) \in Nat
    BY PiecesAre
  <1>2. \A j \in i .. Len(p) : p[j] \in Words
    BY <1>1, ElementOfSeq
  <1>3. SubSeq(p, i, Len(p)) \in Seq(Words)
    BY <1>1, <1>2, SubSeqProperties
  <1>4. FlattenSeq(SubSeq(p, i, Len(p))) \in Words
    BY <1>3, FlattenType DEF Words
  <1>5. gap \o <<Right>> \in Words
    BY Join, Signs
  <1> QED BY <1>1, <1>4, <1>5, Join DEF FieldsOn

LEMMA FieldsOnEnd ==
  ASSUME NEW fields, SomeFields(fields), NEW gap \in Words
  PROVE  FieldsOn(fields, gap, Len(fields) + 1) = gap \o <<Right>>
  <1>1. PICK n \in Nat : n = Len(fields)
    BY PiecesAre
  <1>2. SubSeq(Pieces(fields, gap), n + 1, n) = <<>>
    BY SubSeqEmpty
  <1>3. <<>> \o (gap \o <<Right>>) = gap \o <<Right>>
    BY Join, Signs, JoinNothing
  <1> QED BY <1>1, <1>2, <1>3, FlattenEmpty DEF FieldsOn

LEMMA FieldsOnFirst ==
  ASSUME NEW fields, SomeFields(fields), NEW gap \in Words, NEW i \in 1 .. Len(fields)
  PROVE  FieldsOn(fields, gap, i) =
           (IF i = 1 THEN <<>> ELSE <<Comma>>) \o FieldOn(fields[i], gap, FieldsOn(fields, gap, i + 1))
  <1>1. PICK p \in Seq(Words) : p = Pieces(fields, gap) /\ Len(p) = Len(fields) /\ Len(p) \in Nat
    BY PiecesAre
  <1>2. PICK n \in Nat : n = Len(fields)
    BY <1>1
  <1>3. PICK c \in Words : c = IF i = 1 THEN <<>> ELSE <<Comma>>
    BY Signs
  <1>4. AField(fields[i]) /\ p[i] = c \o FieldOn(fields[i], gap, <<>>)
    BY <1>1, <1>3, PiecesAre
  <1>5. PICK f \in Words : f = FieldOn(fields[i], gap, <<>>)
    BY <1>4, FieldIs, Signs
  <1>6. PICK s \in Seq(Words) : s = SubSeq(p, i + 1, n)
    <2>1. \A j \in i + 1 .. n : p[j] \in Words
      BY <1>1, <1>2, ElementOfSeq
    <2>2. SubSeq(p, i + 1, n) \in Seq(Words)
      BY <2>1, SubSeqProperties
    <2> QED BY <2>2
  <1>7. SubSeq(p, i, n) = <<p[i]>> \o s
    BY <1>1, <1>2, <1>6, SubSeqRecursiveFirst
  <1>8. PICK x \in Words : x = FlattenSeq(s)
    BY FlattenType DEF Words
  <1>9. p[i] \in Words
    BY <1>4, <1>5, Join
  <1>10. FlattenSeq(SubSeq(p, i, n)) = p[i] \o x
    BY <1>7, <1>8, <1>9, FlattenCons DEF Words
  <1>11. PICK e \in Words : e = gap \o <<Right>>
    BY Join, Signs
  <1>12. FieldsOn(fields, gap, i) = ((c \o f) \o x) \o e /\ FieldsOn(fields, gap, i + 1) = x \o e
    BY <1>1, <1>2, <1>4, <1>5, <1>6, <1>8, <1>10, <1>11 DEF FieldsOn
  <1>13. ((c \o f) \o x) \o e = c \o (f \o (x \o e))
    <2>1. PICK cf \in Words : cf = c \o f
      BY Join
    <2>2. PICK xe \in Words : xe = x \o e
      BY Join
    <2>3. Regroups(cf, x, e) /\ Regroups(c, f, xe)
      BY JoinTwice
    <2> QED BY <2>1, <2>2, <2>3 DEF Regroups
  <1>14. f \o (x \o e) = FieldOn(fields[i], gap, x \o e)
    <2>1. PICK xe \in Words : xe = x \o e
      BY Join
    <2>2. <<>> \o xe = xe /\ <<>> \in Words
      BY JoinNothing, Signs
    <2>3. PICK h : h = fields[i]
      OBVIOUS
    <2>4. FieldJoins(h, gap, <<>>, xe)
      BY <1>4, <2>2, <2>3, FieldGoesOn
    <2> QED BY <1>5, <2>1, <2>2, <2>3, <2>4 DEF FieldJoins
  <1> QED BY <1>3, <1>12, <1>13, <1>14

\* Text, of these parts.
RegroupsAll(a, b, c, d, e, x) ==
  ((((a \o b) \o c) \o d) \o e) \o x = a \o (b \o (c \o (d \o (e \o x))))

LEMMA JoinFive ==
  ASSUME NEW a \in Words, NEW b \in Words, NEW c \in Words, NEW d \in Words, NEW e \in Words, NEW x \in Words
  PROVE  RegroupsAll(a, b, c, d, e, x)
  <1>1. PICK ab \in Words : ab = a \o b
    BY Join
  <1>2. PICK abc \in Words : abc = ab \o c
    BY Join
  <1>3. PICK abcd \in Words : abcd = abc \o d
    BY Join
  <1>4. PICK ex \in Words : ex = e \o x
    BY Join
  <1>5. PICK dex \in Words : dex = d \o ex
    BY Join
  <1>6. PICK cdex \in Words : cdex = c \o dex
    BY Join
  <1>7. Regroups(abcd, e, x) /\ Regroups(abc, d, ex) /\ Regroups(ab, c, dex) /\ Regroups(a, b, cdex)
    BY JoinTwice
  <1> QED BY <1>1, <1>2, <1>3, <1>4, <1>5, <1>6, <1>7 DEF Regroups, RegroupsAll

Quoted(s, gap) == gap \o <<Quote>> \o jsonEscape(s) \o <<Quote>> \o gap

LEMMA QuotedIs ==
  ASSUME NEW s \in Words, NEW gap \in Words, NEW x \in Words
  PROVE  /\ Quoted(s, gap) \in Words
         /\ Quoted(s, gap) \o x = gap \o (<<Quote>> \o InString(s, gap \o x))
  <1>1. PICK e \in Words : e = jsonEscape(s)
    BY EscapeIs
  <1>2. PICK q \in Words : q = <<Quote>>
    BY Signs
  <1>3. (((gap \o q) \o e) \o q) \o gap \in Words
    <2>1. gap \o q \in Words
      BY Join
    <2>2. (gap \o q) \o e \in Words
      BY <2>1, Join
    <2>3. ((gap \o q) \o e) \o q \in Words
      BY <2>2, Join
    <2> QED BY <2>3, Join
  <1>4. RegroupsAll(gap, q, e, q, gap, x)
    BY JoinFive
  <1> QED BY <1>1, <1>2, <1>3, <1>4 DEF Quoted, InString, RegroupsAll

LEMMA FieldText ==
  ASSUME NEW f, AField(f), NEW gap \in Words
  PROVE  Quoted(f.key, gap) \o <<":">> \o Quoted(f.value, gap) = FieldOn(f, gap, <<>>)
  <1>1. PICK v \in Words : v = Quoted(f.value, gap)
    BY QuotedIs, Signs DEF AField
  <1>2. PICK k \in Words : k = Quoted(f.key, gap)
    BY QuotedIs, Signs DEF AField
  <1>3. v = gap \o (<<Quote>> \o InString(f.value, gap \o <<>>))
    <2>1. PICK nothing \in Words : nothing = <<>>
      BY Signs
    <2>2. v \o nothing = v
      BY <2>1, JoinNothing
    <2>3. PICK value \in Words : value = f.value
      BY DEF AField
    <2>4. Quoted(value, gap) \o nothing = gap \o (<<Quote>> \o InString(value, gap \o nothing))
      BY QuotedIs
    <2> QED BY <1>1, <2>1, <2>2, <2>3, <2>4
  <1>4. (k \o <<":">>) \o v = k \o (<<":">> \o v)
    <2>1. PICK colon \in Words : colon = <<":">>
      BY Signs
    <2>2. Regroups(k, colon, v)
      BY JoinTwice
    <2> QED BY <2>1, <2>2 DEF Regroups
  <1>5. PICK c \in Words : c = <<":">> \o v
    BY Join, Signs
  <1>6. k \o c = gap \o (<<Quote>> \o InString(f.key, gap \o c))
    <2>1. PICK name \in Words : name = f.key
      BY DEF AField
    <2>2. Quoted(name, gap) \o c = gap \o (<<Quote>> \o InString(name, gap \o c))
      BY QuotedIs
    <2> QED BY <1>2, <2>1, <2>2
  <1> QED BY <1>1, <1>2, <1>3, <1>4, <1>5, <1>6 DEF FieldOn, ColonOn

LEMMA TextIs ==
  ASSUME NEW fields, SomeFields(fields), NEW gap \in Words, NEW how, how # "browser"
  PROVE  Text(fields, gap, how) = gap \o (<<Left>> \o FieldsOn(fields, gap, 1))
  <1>1. PICK p \in Seq(Words) : p = Pieces(fields, gap) /\ Len(p) = Len(fields) /\ Len(p) \in Nat
    BY PiecesAre
  <1> DEFINE Parts == [i \in DOMAIN fields |->
                         (IF i = 1 THEN <<>> ELSE <<",">>)
                           \o (Quoted(fields[i].key, gap) \o <<":">> \o Quoted(fields[i].value, gap))]
  <1>2. Parts = p
    <2>1. DOMAIN fields = 1 .. Len(fields)
      BY LenProperties DEF SomeFields
    <2>2. \A i \in DOMAIN fields : Quoted(fields[i].key, gap) \o <<":">> \o Quoted(fields[i].value, gap)
                                     = FieldOn(fields[i], gap, <<>>)
      BY <2>1, PiecesAre, FieldText
    <2> QED BY <1>1, <2>2 DEF Pieces, Comma
  <1>3. Text(fields, gap, how) = gap \o <<"{">> \o FlattenSeq(Parts) \o gap \o <<"}">>
    BY DEF Text, Quoted
  <1> HIDE DEF Parts
  <1>4. PICK x \in Words : x = FlattenSeq(p)
    BY FlattenType DEF Words
  <1>5. FieldsOn(fields, gap, 1) = x \o (gap \o <<Right>>)
    <2>1. SubSeq(p, 1, Len(p)) = p
      BY SubSeqFull
    <2> QED BY <1>1, <1>4, <2>1 DEF FieldsOn
  <1>6. PICK l \in Words : l = <<Left>>
    BY Signs
  <1>7. PICK r \in Words : r = <<Right>>
    BY Signs
  <1>8. (((gap \o l) \o x) \o gap) \o r = gap \o (l \o (x \o (gap \o r)))
    <2>1. PICK gl \in Words : gl = gap \o l
      BY Join
    <2>2. PICK glx \in Words : glx = gl \o x
      BY Join
    <2>3. PICK gr \in Words : gr = gap \o r
      BY Join
    <2>4. PICK xgr \in Words : xgr = x \o gr
      BY Join
    <2>5. Regroups(glx, gap, r) /\ Regroups(gl, x, gr) /\ Regroups(gap, l, xgr)
      BY JoinTwice
    <2> QED BY <2>1, <2>2, <2>3, <2>4, <2>5 DEF Regroups
  <1> QED BY <1>2, <1>3, <1>4, <1>5, <1>6, <1>7, <1>8 DEF Left, Right

----------------------------------------------------------------------------
\* The body is a text, or begins it.
Begins(text) == /\ body \in Texts /\ text \in Words
                /\ Len(body) <= Len(text) /\ \A k \in 1 .. Len(body) : body[k] = text[k]

\* What is ahead is there, unless the body was cut before it.
Comes(text, p, ch, more) == /\ p \in 1 .. Past
                            /\ p = Past => body # text
                            /\ p < Past => body[p] = ch
                            /\ Ahead(text, p, <<ch>> \o more)
                            /\ Ahead(text, p + 1, more)

LEMMA AheadOver ==
  ASSUME NEW text, NEW p \in Nat \ {0}, NEW a \in Words, NEW b \in Words, Ahead(text, p, a \o b)
  PROVE  /\ Ahead(text, p + Len(a), b)
         /\ \A k \in 1 .. Len(a) : text[p - 1 + k] = a[k]
  <1>1. PICK m, n \in Nat : m = Len(a) /\ n = Len(b)
    BY LenProperties DEF Words
  <1>2. /\ Len(a \o b) = m + n /\ DOMAIN (a \o b) = 1 .. m + n
        /\ \A k \in 1 .. m : (a \o b)[k] = a[k]
        /\ \A k \in 1 .. n : (a \o b)[m + k] = b[k]
    <2>1. \A k \in 1 .. n : m + k \in 1 .. m + n /\ m + k > m /\ m + k - m = k
      BY <1>1
    <2>2. \A k \in 1 .. m : k \in 1 .. m + n /\ k <= m
      BY <1>1
    <2>3. /\ Len(a \o b) = m + n
          /\ \A i \in 1 .. m + n : (a \o b)[i] = IF i <= m THEN a[i] ELSE b[i - m]
      BY <1>1, ConcatProperties DEF Words
    <2>4. a \o b \in Seq(Alphabet)
      BY Join DEF Words
    <2>5. \A k \in 1 .. n : (a \o b)[m + k] = b[k]
      <3> SUFFICES ASSUME NEW k \in 1 .. n PROVE (a \o b)[m + k] = b[k]
        OBVIOUS
      <3>1. m + k \in 1 .. m + n /\ ~ (m + k <= m) /\ (m + k) - m = k
        BY <1>1
      <3> QED BY <2>3, <3>1
    <2> QED BY <2>2, <2>3, <2>4, <2>5, LenProperties
  <1>3. /\ Len(text) = p - 1 + (m + n)
        /\ \A k \in 1 .. m + n : text[p - 1 + k] = (a \o b)[k]
    BY <1>2 DEF Ahead
  <1>4. \A k \in 1 .. m : text[p - 1 + k] = a[k]
    <2> SUFFICES ASSUME NEW k \in 1 .. m PROVE text[p - 1 + k] = a[k]
      OBVIOUS
    <2>1. k \in 1 .. m + n
      BY <1>1
    <2>2. text[p - 1 + k] = (a \o b)[k]
      BY <1>3, <2>1
    <2> QED BY <1>2, <2>2
  <1>5. \A k \in 1 .. n : text[p + m - 1 + k] = b[k]
    <2> SUFFICES ASSUME NEW k \in 1 .. n PROVE text[p + m - 1 + k] = b[k]
      OBVIOUS
    <2>1. m + k \in 1 .. m + n /\ p - 1 + (m + k) = p + m - 1 + k
      BY <1>1
    <2>2. text[p - 1 + (m + k)] = (a \o b)[m + k]
      BY <1>3, <2>1
    <2> QED BY <1>2, <2>1, <2>2
  <1>6. DOMAIN b = 1 .. n
    BY <1>1, LenProperties DEF Words
  <1> QED BY <1>1, <1>3, <1>4, <1>5, <1>6 DEF Ahead

LEMMA ComesNext ==
  ASSUME NEW text, Begins(text), NEW p \in 1 .. Past, NEW ch \in Alphabet, NEW more \in Words,
         Ahead(text, p, <<ch>> \o more)
  PROVE  Comes(text, p, ch, more)
  <1>1. Past = Len(body) + 1 /\ Len(body) \in Nat
    BY LenProperties DEF Begins, Past, Texts
  <1>2. <<ch>> \in Words /\ Len(<<ch>>) = 1 /\ <<ch>>[1] = ch
    BY Signs
  <1>3. /\ Ahead(text, p + Len(<<ch>>), more)
        /\ \A k \in 1 .. Len(<<ch>>) : text[p - 1 + k] = <<ch>>[k]
    <2>1. p \in Nat \ {0}
      BY <1>1
    <2> QED BY <1>2, <2>1, AheadOver
  <1>4. text[p] = ch
    BY <1>1, <1>2, <1>3
  <1>5. p < Past => body[p] = ch
    BY <1>1, <1>4 DEF Begins
  <1>6. Len(text) = p + Len(more) /\ Len(more) \in Nat
    <2>1. Len(text) = p + 1 - 1 + Len(more)
      BY <1>2, <1>3 DEF Ahead
    <2>2. Len(more) \in Nat
      BY LenProperties DEF Words
    <2> QED BY <1>1, <2>1, <2>2
  <1>7. p = Past => body # text
    BY <1>1, <1>6
  <1> QED BY <1>2, <1>3, <1>5, <1>7 DEF Comes

\* Over the spaces, to what comes after them.
LEMMA SpacesOver ==
  ASSUME NEW text, Begins(text), NEW p \in 1 .. Past, NEW gap \in Seq(Spaces),
         NEW ch \in Alphabet, ch \notin Spaces, NEW more \in Words, Ahead(text, p, gap \o (<<ch>> \o more))
  PROVE  \/ AfterSpaces(p) = Past /\ body # text
         \/ AfterSpaces(p) < Past /\ Comes(text, AfterSpaces(p), ch, more)
  <1>1. Past = Len(body) + 1 /\ Len(body) \in Nat
    BY LenProperties DEF Begins, Past, Texts
  <1>2. PICK q : q = AfterSpaces(p)
    OBVIOUS
  <1> DEFINE S == {r \in p .. Past : r < Past => body[r] \notin Spaces}
  <1>3. q = First(S) /\ S \in SUBSET Nat
    BY <1>1, <1>2 DEF AfterSpaces
  <1>4. Past \in S
    <2>1. ~ (Past < Past)
      BY <1>1
    <2> QED BY <1>1, <2>1
  <1>5. q \in S /\ \A r \in S : q <= r
    <2> HIDE DEF S
    <2> QED BY <1>3, <1>4, FirstExists
  <1>6. /\ q \in p .. Past /\ (q < Past => body[q] \notin Spaces)
        /\ \A r \in p .. q - 1 : r < Past /\ body[r] \in Spaces
    BY <1>1, <1>5
  <1> HIDE DEF S
  <1>7. PICK n \in Nat : n = Len(gap)
    BY LenProperties
  <1>8. gap \in Words /\ <<ch>> \o more \in Words
    BY Join, Signs
  <1>9. /\ Ahead(text, p + n, <<ch>> \o more)
        /\ \A k \in 1 .. n : text[p - 1 + k] = gap[k]
    <2>1. p \in Nat \ {0}
      BY <1>1
    <2>2. PICK rest \in Words : rest = <<ch>> \o more
      BY <1>8
    <2>3. Ahead(text, p, gap \o rest)
      BY <2>2
    <2>4. /\ Ahead(text, p + Len(gap), rest)
          /\ \A k \in 1 .. Len(gap) : text[p - 1 + k] = gap[k]
      BY <1>8, <2>1, <2>3, AheadOver
    <2> QED BY <1>7, <2>2, <2>4
  <1>10. \A k \in 1 .. n : gap[k] \in Spaces
    BY <1>7, ElementOfSeq
  <1>11. \A r \in p .. p + n - 1 : text[r] \in Spaces
    <2> SUFFICES ASSUME NEW r \in p .. p + n - 1 PROVE text[r] \in Spaces
      OBVIOUS
    <2>1. r - p + 1 \in 1 .. n /\ p - 1 + (r - p + 1) = r
      BY <1>1
    <2> QED BY <1>9, <1>10, <2>1
  <1>12. CASE p + n < Past
    <2>1. p + n \in 1 .. Past
      BY <1>1, <1>12
    <2>2. Comes(text, p + n, ch, more)
      BY <1>9, <2>1, ComesNext
    <2>3. body[p + n] = ch
      BY <1>12, <2>2 DEF Comes
    <2>4. ~ (p + n < q)
      BY <1>1, <1>6, <1>12, <2>3
    <2>5. ~ (q < p + n)
      <3> SUFFICES ASSUME q < p + n PROVE FALSE
        OBVIOUS
      <3>1. q \in p .. p + n - 1 /\ q \in 1 .. Len(body)
        BY <1>1, <1>6, <1>12
      <3>2. body[q] = text[q]
        BY <3>1 DEF Begins
      <3> QED BY <1>1, <1>6, <1>11, <1>12, <3>1, <3>2
    <2>6. q = p + n
      BY <1>1, <1>6, <2>4, <2>5
    <2> QED BY <1>2, <1>12, <2>2, <2>6
  <1>13. CASE p + n >= Past
    <2>1. ~ (q < Past)
      <3> SUFFICES ASSUME q < Past PROVE FALSE
        OBVIOUS
      <3>1. q \in p .. p + n - 1 /\ q \in 1 .. Len(body)
        BY <1>1, <1>6, <1>13
      <3>2. body[q] = text[q]
        BY <3>1 DEF Begins
      <3> QED BY <1>6, <1>11, <3>1, <3>2
    <2>2. q = Past
      BY <1>1, <1>6, <2>1
    <2>3. Len(text) >= p + n
      <3>1. Len(<<ch>> \o more) = 1 + Len(more) /\ Len(more) \in Nat
        BY ConcatProperties, Signs, LenProperties DEF Words
      <3>2. Len(text) = p + n - 1 + Len(<<ch>> \o more)
        BY <1>9 DEF Ahead
      <3> QED BY <1>1, <3>1, <3>2
    <2>4. body # text
      BY <1>1, <1>13, <2>3
    <2> QED BY <1>2, <2>2, <2>4
  <1> QED BY <1>1, <1>12, <1>13

----------------------------------------------------------------------------
\* A string as it is read: its end, and the next of its characters.
LEMMA StringEnds ==
  ASSUME NEW text, Begins(text), NEW p \in 1 .. Past, NEW more \in Words,
         Ahead(text, p, InString(<<>>, more))
  PROVE  Comes(text, p, Quote, more)
  <1>1. PICK rest \in Words : rest = <<Quote>> \o more
    BY Join, Signs
  <1>2. InString(<<>>, more) = rest
    BY <1>1, EscapeEmpty, JoinNothing DEF InString
  <1>3. Quote \in Alphabet
    BY Signs
  <1> QED BY <1>1, <1>2, <1>3, ComesNext

\* The character that is escaped, or the character itself.
NextOf(text, p, ch, rest) ==
  IF ch \in {Quote, Backslash, LineFeed}
  THEN \E x \in Alphabet : Unescaped(x) = ch /\ Comes(text, p, Backslash, <<x>> \o rest)
  ELSE Comes(text, p, ch, rest)

LEMMA StringOn ==
  ASSUME NEW text, Begins(text), NEW p \in 1 .. Past, NEW ch \in Alphabet, NEW s \in Words,
         NEW more \in Words, Ahead(text, p, InString(<<ch>> \o s, more))
  PROVE  NextOf(text, p, ch, InString(s, more))
  <1>1. PICK e \in Words : e = jsonEscape(s)
    BY EscapeIs
  <1>2. PICK c \in Words : c = Escaped(ch)
    BY EscapedIs
  <1>3. PICK q \in Words : q = <<Quote>> \o more
    BY Join, Signs
  <1>4. PICK rest \in Words : rest = InString(s, more)
    BY StringIs
  <1>5. Ahead(text, p, c \o rest)
    <2>1. jsonEscape(<<ch>> \o s) = c \o e
      BY <1>1, <1>2, EscapeFirst
    <2>2. Regroups(c, e, q)
      BY JoinTwice
    <2> QED BY <1>1, <1>3, <1>4, <2>1, <2>2 DEF InString, Regroups
  <1>6. CASE ch \notin {Quote, Backslash, LineFeed}
    <2>1. c = <<ch>>
      BY <1>2, <1>6 DEF Escaped
    <2>2. Comes(text, p, ch, rest)
      BY <1>5, <2>1, ComesNext
    <2> QED BY <1>4, <1>6, <2>2 DEF NextOf
  <1>7. CASE ch \in {Quote, Backslash, LineFeed}
    <2>1. PICK x \in Alphabet : c = <<Backslash, x>> /\ Unescaped(x) = ch
      <3>1. CASE ch \in {Quote, Backslash}
        <4>1. Escaped(ch) = <<Backslash, ch>>
          BY <3>1 DEF Escaped, Quote, Backslash, LineFeed
        <4>2. Unescaped(ch) = ch
          BY <3>1 DEF Unescaped, Quote, Backslash
        <4> QED BY <1>2, <4>1, <4>2
      <3>2. CASE ch = LineFeed
        <4>1. c = <<Backslash, "n">>
          BY <1>2, <3>2 DEF Escaped, Quote, Backslash, LineFeed
        <4>2. "n" \in Alphabet /\ Unescaped("n") = ch
          BY <3>2, Signs DEF Unescaped
        <4> QED BY <4>1, <4>2
      <3> QED BY <1>7, <3>1, <3>2
    <2>2. PICK b \in Words : b = <<Backslash>>
      BY Signs
    <2>3. PICK y \in Words : y = <<x>>
      BY Signs
    <2>4. c = b \o y
      BY <2>1, <2>2, <2>3
    <2>5. PICK z \in Words : z = y \o rest
      BY Join
    <2>6. Regroups(b, y, rest)
      BY JoinTwice
    <2>7. Ahead(text, p, b \o z)
      BY <1>5, <2>4, <2>5, <2>6 DEF Regroups
    <2>8. Comes(text, p, Backslash, z)
      <3>1. Backslash \in Alphabet
        BY Signs
      <3> QED BY <2>2, <2>7, <3>1, ComesNext
    <2> QED BY <1>4, <1>7, <2>1, <2>3, <2>5, <2>8 DEF NextOf
  <1> QED BY <1>6, <1>7

\* Some characters of a string are read, and the others are ahead.
Inside(p, o, s, text, more) ==
  \E k \in 0 .. Len(s) : /\ o = SubSeq(s, 1, k)
                         /\ Ahead(text, p, InString(SubSeq(s, k + 1, Len(s)), more))

LEMMA InsideFirst ==
  ASSUME NEW text, NEW p, NEW s \in Words, NEW more, Ahead(text, p, InString(s, more))
  PROVE  Inside(p, <<>>, s, text, more)
  <1>1. Len(s) \in Nat
    BY LenProperties DEF Words
  <1>2. SubSeq(s, 1, 0) = <<>>
    BY SubSeqEmpty
  <1>3. SubSeq(s, 0 + 1, Len(s)) = s
    BY SubSeqFull DEF Words
  <1>4. 0 \in 0 .. Len(s)
    BY <1>1
  <1> QED BY <1>2, <1>3, <1>4 DEF Inside

\* The characters of a string, one by one.
LEMMA InsideSplits ==
  ASSUME NEW text, NEW p, NEW o, NEW s \in Words, NEW more, Inside(p, o, s, text, more)
  PROVE  \/ o = s /\ Ahead(text, p, InString(<<>>, more))
         \/ \E ch \in Alphabet, t \in Words :
              /\ Ahead(text, p, InString(<<ch>> \o t, more))
              /\ \A r : Ahead(text, r, InString(t, more)) => Inside(r, Append(o, ch), s, text, more)
  <1>1. PICK k \in 0 .. Len(s) : o = SubSeq(s, 1, k) /\ Ahead(text, p, InString(SubSeq(s, k + 1, Len(s)), more))
    BY DEF Inside
  <1>2. Len(s) \in Nat /\ k \in Nat /\ s \in Seq(Alphabet)
    BY LenProperties DEF Words
  <1>3. CASE k = Len(s)
    <2>1. o = s
      BY <1>1, <1>2, <1>3, SubSeqFull
    <2>2. SubSeq(s, k + 1, Len(s)) = <<>>
      BY <1>2, <1>3, SubSeqEmpty
    <2> QED BY <1>1, <2>1, <2>2
  <1>4. CASE k < Len(s)
    <2>1. k + 1 \in 1 .. Len(s) /\ Len(s) \in k + 1 .. Len(s) /\ k + 1 \in k + 1 .. Len(s)
      BY <1>2, <1>4
    <2>2. PICK ch \in Alphabet : ch = s[k + 1]
      BY <1>2, <2>1, ElementOfSeq
    <2>3. PICK t \in Words : t = SubSeq(s, k + 1 + 1, Len(s))
      <3>1. \A i \in k + 1 + 1 .. Len(s) : s[i] \in Alphabet
        <4> SUFFICES ASSUME NEW i \in k + 1 + 1 .. Len(s) PROVE s[i] \in Alphabet
          OBVIOUS
        <4>1. i \in 1 .. Len(s)
          BY <1>2
        <4> QED BY <1>2, <4>1, ElementOfSeq
      <3>2. k + 1 + 1 \in Int /\ Len(s) \in Int
        BY <1>2
      <3> QED BY <3>1, <3>2, SubSeqProperties DEF Words
    <2>4. SubSeq(s, k + 1, Len(s)) = <<ch>> \o t
      BY <1>2, <2>1, <2>2, <2>3, SubSeqRecursiveFirst
    <2>5. Append(o, ch) = SubSeq(s, 1, k + 1)
      <3>1. SubSeq(s, 1, k + 1) = SubSeq(s, 1, k) \o <<ch>>
        <4>1. k + 1 \in 1 .. Len(s) /\ 1 \in 1 .. Len(s) /\ k + 1 - 1 = k
          BY <1>2, <2>1
        <4> QED BY <1>2, <2>2, <4>1, SubSeqRecursiveSecond
      <3>2. SubSeq(s, 1, k) \in Seq(Alphabet)
        <4>1. \A i \in 1 .. k : s[i] \in Alphabet
          <5> SUFFICES ASSUME NEW i \in 1 .. k PROVE s[i] \in Alphabet
            OBVIOUS
          <5>1. i \in 1 .. Len(s)
            BY <1>2, <1>4
          <5> QED BY <1>2, <5>1, ElementOfSeq
        <4>2. k \in Int /\ 1 \in Int
          BY <1>2
        <4> QED BY <4>1, <4>2, SubSeqProperties
      <3> QED BY <1>1, <3>1, <3>2, AppendIsConcat
    <2>6. ASSUME NEW r, Ahead(text, r, InString(t, more)) PROVE Inside(r, Append(o, ch), s, text, more)
      <3>1. k + 1 \in 0 .. Len(s)
        BY <1>2, <2>1
      <3> QED BY <2>3, <2>5, <2>6, <3>1 DEF Inside
    <2> QED BY <1>1, <2>4, <2>6
  <1> QED BY <1>2, <1>3, <1>4

\* The steps that read a character of a string, and the one that ends it.
LEMMA ReadsString ==
  ASSUME TypeOK, NEW text, Begins(text), NEW s \in Words, NEW more \in Words,
         Inside(pos, out, s, text, more), Plain \/ Escape
  PROVE  /\ UNCHANGED <<request, mode, key, result>>
         /\ Inside(pos', out', s, text, more) \/ (pos' = Past /\ body # text)
  <1>1. pos \in 1 .. Past /\ Past = Len(body) + 1 /\ Len(body) \in Nat /\ pos < Past
    BY DEF TypeOK, Past, Texts, Plain, Escape, Here
  <1>2. UNCHANGED <<request, mode, key, result>>
    BY DEF Plain, Escape, Put
  <1>3. CASE out = s /\ Ahead(text, pos, InString(<<>>, more))
    <2>1. body[pos] = Quote
      BY <1>1, <1>3, StringEnds DEF Comes
    <2> QED BY <1>1, <2>1 DEF Plain, Escape, Here, Quote, Backslash
  <1>4. ASSUME NEW ch \in Alphabet, NEW t \in Words, Ahead(text, pos, InString(<<ch>> \o t, more)),
               \A r : Ahead(text, r, InString(t, more)) => Inside(r, Append(out, ch), s, text, more)
        PROVE  Inside(pos', out', s, text, more) \/ (pos' = Past /\ body # text)
    <2>1. PICK rest \in Words : rest = InString(t, more)
      BY StringIs
    <2>2. NextOf(text, pos, ch, rest)
      BY <1>1, <1>4, <2>1, StringOn
    <2>3. CASE ch \in {Quote, Backslash, LineFeed}
      <3>1. PICK x \in Alphabet : Unescaped(x) = ch /\ Comes(text, pos, Backslash, <<x>> \o rest)
        BY <2>2, <2>3 DEF NextOf
      <3>2. body[pos] = Backslash /\ Ahead(text, pos + 1, <<x>> \o rest) /\ pos + 1 \in 1 .. Past
        BY <1>1, <3>1 DEF Comes
      <3>3. Comes(text, pos + 1, x, rest)
        BY <2>1, <3>2, ComesNext
      <3>4. CASE Plain
        <4>1. pos + 1 = Past /\ pos' = pos + 1
          BY <3>2, <3>4 DEF Plain, Put
        <4> QED BY <3>3, <4>1 DEF Comes
      <3>5. CASE Escape
        <4>1. pos + 1 < Past /\ pos' = pos + 2 /\ out' = Append(out, Unescaped(body[pos + 1]))
          BY <3>5 DEF Escape, Put
        <4>2. body[pos + 1] = x /\ Ahead(text, pos + 1 + 1, rest)
          BY <3>3, <4>1 DEF Comes
        <4>3. pos' = pos + 1 + 1
          BY <1>1, <4>1
        <4> QED BY <1>4, <2>1, <3>1, <4>1, <4>2, <4>3
      <3> QED BY <3>4, <3>5
    <2>4. CASE ch \notin {Quote, Backslash, LineFeed}
      <3>1. body[pos] = ch /\ Ahead(text, pos + 1, rest)
        BY <1>1, <2>2, <2>4 DEF NextOf, Comes
      <3>2. ~ Escape
        BY <2>4, <3>1 DEF Escape, Here
      <3>3. pos' = pos + 1 /\ out' = Append(out, ch)
        BY <3>1, <3>2 DEF Plain, Put
      <3> QED BY <1>4, <2>1, <3>1, <3>3
    <2> QED BY <2>3, <2>4
  <1> QED BY <1>2, <1>3, <1>4, InsideSplits

LEMMA EndsString ==
  ASSUME TypeOK, NEW text, Begins(text), NEW s \in Words, NEW more \in Words,
         Inside(pos, out, s, text, more), pos = Past \/ Here(pos, Quote)
  PROVE  \/ pos = Past /\ body # text
         \/ pos < Past /\ out = s /\ Ahead(text, pos + 1, more)
  <1>1. pos \in 1 .. Past /\ Past = Len(body) + 1 /\ Len(body) \in Nat
    BY DEF TypeOK, Past, Texts
  <1>2. CASE out = s /\ Ahead(text, pos, InString(<<>>, more))
    <2>1. Comes(text, pos, Quote, more)
      BY <1>1, <1>2, StringEnds
    <2> QED BY <1>1, <1>2, <2>1 DEF Comes
  <1>3. ASSUME NEW ch \in Alphabet, NEW t \in Words, Ahead(text, pos, InString(<<ch>> \o t, more))
        PROVE  pos = Past /\ body # text
    <2>1. PICK rest \in Words : rest = InString(t, more)
      BY StringIs
    <2>2. NextOf(text, pos, ch, rest)
      BY <1>1, <1>3, <2>1, StringOn
    <2>3. PICK c, after : c # Quote /\ Comes(text, pos, c, after)
      <3>1. CASE ch \in {Quote, Backslash, LineFeed}
        BY <2>2, <3>1 DEF NextOf, Quote, Backslash
      <3>2. CASE ch \notin {Quote, Backslash, LineFeed}
        BY <2>2, <3>2 DEF NextOf
      <3> QED BY <3>1, <3>2
    <2> QED BY <1>1, <2>3 DEF Comes, Here
  <1> QED BY <1>2, <1>3, InsideSplits

----------------------------------------------------------------------------
\* The fields that are read: the first ones as they were sent; or each but one as it was sent.
Has(res, fields, i) == /\ DOMAIN res = {fields[j].key : j \in 1 .. i}
                         /\ \A j \in 1 .. i : res[fields[j].key] = fields[j].value
OneSpoilt(res, fields) ==
  /\ DOMAIN res \subseteq DOMAIN AsMap(fields)
  /\ \A k, m \in DOMAIN res : k = m \/ res[k] = AsMap(fields)[k] \/ res[m] = AsMap(fields)[m]
OnceEach(fields) == /\ SomeFields(fields)
                    /\ \A i, j \in DOMAIN fields : fields[i].key = fields[j].key => i = j
Stored(res, k, value) == [x \in DOMAIN res \cup {k} |-> IF x = k THEN value ELSE res[x]]

LEMMA MeantIs ==
  ASSUME NEW fields, OnceEach(fields)
  PROVE  /\ Len(fields) \in Nat /\ DOMAIN fields = 1 .. Len(fields)
         /\ DOMAIN AsMap(fields) = {fields[j].key : j \in 1 .. Len(fields)}
         /\ \A j \in 1 .. Len(fields) : AsMap(fields)[fields[j].key] = fields[j].value
  <1>1. Len(fields) \in Nat /\ DOMAIN fields = 1 .. Len(fields)
    BY LenProperties DEF OnceEach, SomeFields
  <1>2. DOMAIN AsMap(fields) = {fields[j].key : j \in 1 .. Len(fields)}
    BY <1>1 DEF AsMap, Keys
  <1>3. ASSUME NEW j \in 1 .. Len(fields) PROVE AsMap(fields)[fields[j].key] = fields[j].value
    <2> DEFINE k == fields[j].key
               Of(f) == f \in Range(fields) /\ f.key = k
    <2>1. AsMap(fields)[k] = (CHOOSE f \in Range(fields) : f.key = k).value
      BY <1>1 DEF AsMap, Keys
    <2>2. fields[j] \in Range(fields) /\ fields[j].key = k
      BY <1>1 DEF Range
    <2>3. ASSUME NEW f \in Range(fields), f.key = k PROVE f.value = fields[j].value
      <3>1. PICK i \in DOMAIN fields : f = fields[i]
        BY DEF Range
      <3>2. i = j
        BY <1>1, <2>3, <3>1 DEF OnceEach
      <3> QED BY <3>1, <3>2
    <2> HIDE DEF k
    <2>4. PICK g : g = CHOOSE f \in Range(fields) : f.key = k
      OBVIOUS
    <2>5. g \in Range(fields) /\ g.key = k
      BY <2>2, <2>4
    <2> QED BY <2>1, <2>3, <2>4, <2>5 DEF k
  <1> QED BY <1>1, <1>2, <1>3

LEMMA HasFits ==
  ASSUME NEW fields, OnceEach(fields), NEW i \in 0 .. Len(fields), NEW res, Has(res, fields, i)
  PROVE  /\ OneSpoilt(res, fields)
         /\ i = Len(fields) /\ res = [k \in DOMAIN res |-> res[k]] => res = AsMap(fields)
  <1> DEFINE all == AsMap(fields)
  <1>1. /\ Len(fields) \in Nat
        /\ DOMAIN all = {fields[j].key : j \in 1 .. Len(fields)}
        /\ \A j \in 1 .. Len(fields) : all[fields[j].key] = fields[j].value
    BY MeantIs
  <1>2. all = [k \in DOMAIN all |-> all[k]]
    BY DEF AsMap
  <1> HIDE DEF all
  <1>3. ASSUME NEW k \in DOMAIN res PROVE k \in DOMAIN all /\ res[k] = all[k]
    <2>1. PICK j \in 1 .. i : k = fields[j].key
      BY DEF Has
    <2>2. j \in 1 .. Len(fields)
      BY <1>1
    <2> QED BY <1>1, <2>1, <2>2 DEF Has
  <1>4. OneSpoilt(res, fields)
    BY <1>3 DEF OneSpoilt, all
  <1>5. ASSUME i = Len(fields), res = [k \in DOMAIN res |-> res[k]] PROVE res = all
    <2>1. DOMAIN res = DOMAIN all
      BY <1>1, <1>5 DEF Has
    <2> QED BY <1>2, <1>3, <1>5, <2>1
  <1> QED BY <1>4, <1>5 DEF all

LEMMA StoresNext ==
  ASSUME NEW fields, OnceEach(fields), NEW i \in 0 .. Len(fields) - 1, NEW res, Has(res, fields, i), NEW value
  PROVE  /\ OneSpoilt(Stored(res, fields[i + 1].key, value), fields)
         /\ value = fields[i + 1].value => Has(Stored(res, fields[i + 1].key, value), fields, i + 1)
  <1> DEFINE all == AsMap(fields)
  <1>1. PICK key_, new : key_ = fields[i + 1].key /\ new = Stored(res, key_, value)
    OBVIOUS
  <1>2. /\ Len(fields) \in Nat /\ i + 1 \in 1 .. Len(fields) /\ DOMAIN fields = 1 .. Len(fields)
        /\ DOMAIN all = {fields[j].key : j \in 1 .. Len(fields)}
        /\ \A j \in 1 .. Len(fields) : all[fields[j].key] = fields[j].value
    <2>1. Len(fields) \in Nat
      BY MeantIs
    <2>2. i + 1 \in 1 .. Len(fields)
      BY <2>1
    <2> QED BY <2>2, MeantIs
  <1>3. /\ DOMAIN new = DOMAIN res \cup {key_} /\ new[key_] = value
        /\ \A k \in DOMAIN res : k # key_ => new[k] = res[k]
    BY <1>1 DEF Stored
  <1> HIDE DEF all
  <1>4. ASSUME NEW j \in 1 .. i PROVE j \in 1 .. Len(fields) /\ fields[j].key # key_ /\ fields[j].key \in DOMAIN res
    <2>1. j \in 1 .. Len(fields) /\ j # i + 1
      BY <1>2
    <2> QED BY <1>1, <1>2, <2>1 DEF OnceEach, Has
  <1>5. OneSpoilt(new, fields)
    <2>1. ASSUME NEW k \in DOMAIN res PROVE k \in DOMAIN all /\ new[k] = all[k]
      <3>1. PICK j \in 1 .. i : k = fields[j].key
        BY DEF Has
      <3>2. new[k] = fields[j].value
        BY <1>3, <1>4, <3>1 DEF Has
      <3> QED BY <1>2, <1>4, <3>1, <3>2
    <2>2. key_ \in DOMAIN all
      BY <1>1, <1>2
    <2> QED BY <1>3, <2>1, <2>2 DEF OneSpoilt, all
  <1>6. ASSUME value = fields[i + 1].value PROVE Has(new, fields, i + 1)
    <2>1. 1 .. i + 1 = 1 .. i \cup {i + 1}
      BY <1>2
    <2>2. DOMAIN new = {fields[j].key : j \in 1 .. i + 1}
      BY <1>1, <1>3, <2>1 DEF Has
    <2>3. ASSUME NEW j \in 1 .. i + 1 PROVE new[fields[j].key] = fields[j].value
      <3>1. CASE j = i + 1
        BY <1>1, <1>3, <1>6, <3>1
      <3>2. CASE j \in 1 .. i
        BY <1>3, <1>4, <3>2 DEF Has
      <3> QED BY <2>1, <3>1, <3>2
    <2> QED BY <2>2, <2>3 DEF Has
  <1> QED BY <1>1, <1>5, <1>6

----------------------------------------------------------------------------
\* The parser is at the place that its mode says, with i fields read.
Place(m, p, o, k, fields, gap, text, i) ==
  LET f == fields[i + 1]
      more == FieldsOn(fields, gap, i + 2)
  IN \/ m = "item" /\ \E w \in {<<>>, gap} : Ahead(text, p, w \o ItemOn(fields, gap, i + 1))
     \/ i < Len(fields) /\ m = "key" /\ Inside(p, o, f.key, text, ColonOn(f, gap, more))
     \/ i < Len(fields) /\ m = "colon" /\ o = f.key /\ Ahead(text, p, ColonOn(f, gap, more))
     \/ i < Len(fields) /\ m = "text" /\ k = f.key /\ Inside(p, o, f.value, text, gap \o more)
     \/ i = Len(fields) /\ m = "done"

\* What the client of the request sent.
Sent(fields, gap, text) ==
  /\ OnceEach(fields) /\ gap \in Seq(Spaces) /\ gap \in Words /\ Begins(text)
  /\ text = gap \o (<<Left>> \o FieldsOn(fields, gap, 1)) /\ (body # text => request.how = "cut")

\* The parser is on the way through the text, or at the end of a body that was cut.
OnWay(m, p, o, k, res, fields, gap, text) ==
  \E i \in 0 .. Len(fields) : Has(res, fields, i) /\ Place(m, p, o, k, fields, gap, text, i)
AtCut(m, p, k, res, fields) ==
  /\ request.how = "cut" /\ p = Past
  /\ \/ m \in {"key", "colon", "item", "done"} /\ OneSpoilt(res, fields)
     \/ /\ m \in {"text", "primitive"}
        /\ \E i \in 1 .. Len(fields) : Has(res, fields, i - 1) /\ k = fields[i].key

GoesOn(fields, gap, text) ==
  OnWay(mode', pos', out', key', result', fields, gap, text) \/ AtCut(mode', pos', key', result', fields)

LEMMA Numbers ==
  ASSUME TypeOK
  PROVE  /\ body \in Texts /\ Past = Len(body) + 1 /\ Len(body) \in Nat /\ Past \in Nat /\ pos \in 1 .. Past
         /\ pos \in Nat /\ Past \in 1 .. Past /\ ~ (Past < Past)
         /\ AfterSpaces(Past) = Past /\ PrimitiveEnd(Past) = Past /\ AfterSpaces(pos) \in pos .. Past
         /\ \A ch : ~ Here(Past, ch)
  <1>1. body \in Texts /\ Past = Len(body) + 1 /\ Len(body) \in Nat /\ pos \in 1 .. Past /\ Past \in Nat
    BY LenProperties DEF TypeOK, Past, Texts
  <1>2. Past \in 1 .. Past
    BY <1>1
  <1>3. AfterSpaces(Past) \in Past .. Past /\ PrimitiveEnd(Past) \in Past .. Past
    BY <1>1, <1>2, SearchesStop
  <1>4. AfterSpaces(pos) \in pos .. Past
    BY <1>1, SearchesStop
  <1>5. \A q \in Past .. Past : q = Past
    BY <1>1
  <1>6. ~ (Past < Past)
    BY <1>1
  <1> QED BY <1>1, <1>2, <1>3, <1>4, <1>5, <1>6 DEF Here

LEMMA StoreIs ==
  ASSUME NEW value, NEW p, Store(value, p)
  PROVE  /\ result' = Stored(result, key, value)
         /\ Goto("item", IF Here(AfterSpaces(p), Comma) THEN AfterSpaces(p) + 1 ELSE AfterSpaces(p))
  BY DEF Store, Stored

\* At the end of a body that was cut, nothing is read.
LEMMA CutStep ==
  ASSUME TypeOK, NEW fields, OnceEach(fields), AtCut(mode, pos, key, result, fields), Next
  PROVE  AtCut(mode', pos', key', result', fields)
  <1>1. pos = Past /\ ~ (pos < Past) /\ AfterSpaces(pos) = Past /\ PrimitiveEnd(pos) = Past
        /\ \A ch : ~ Here(pos, ch)
    BY Numbers DEF AtCut
  <1>2. mode \in {"key", "colon", "item", "done", "text", "primitive"}
    BY DEF AtCut
  <1>3. ~ Open
    BY <1>2 DEF Open
  <1>4. CASE Item
    BY <1>1, <1>4 DEF Item, Goto, AtCut
  <1>5. CASE Colon
    BY <1>1, <1>5 DEF Colon, Goto, AtCut
  <1>6. ASSUME NEW value, Store(value, Past), mode \in {"text", "primitive"} PROVE AtCut(mode', pos', key', result', fields)
    <2>1. PICK i \in 1 .. Len(fields) : Has(result, fields, i - 1) /\ key = fields[i].key
      BY <1>6 DEF AtCut
    <2>2. Len(fields) \in Nat
      BY MeantIs
    <2>3. PICK j : j = i - 1
      OBVIOUS
    <2>4. j \in 0 .. Len(fields) - 1 /\ i = j + 1
      BY <2>2, <2>3
    <2>5. OneSpoilt(Stored(result, fields[j + 1].key, value), fields)
      BY <2>1, <2>3, <2>4, StoresNext
    <2>6. result' = Stored(result, key, value) /\ Goto("item", Past)
      BY <1>1, <1>6, StoreIs
    <2> QED BY <1>1, <2>1, <2>4, <2>5, <2>6 DEF AtCut, Goto
  <1>7. CASE Close
    <2>1. CASE mode = "key"
      BY <1>1, <1>7, <2>1 DEF Close, Goto, AtCut
    <2>2. CASE mode = "text"
      BY <1>1, <1>6, <1>7, <2>2 DEF Close
    <2> QED BY <1>7, <2>1, <2>2 DEF Close
  <1>8. ~ Plain /\ ~ Escape
    BY <1>1 DEF Plain, Escape
  <1>9. CASE Primitive
    BY <1>1, <1>6, <1>9 DEF Primitive
  <1> QED BY <1>3, <1>4, <1>5, <1>7, <1>8, <1>9 DEF Next

----------------------------------------------------------------------------
\* The steps along the way.
LEMMA SentParts ==
  ASSUME NEW fields, NEW gap, NEW text, Sent(fields, gap, text)
  PROVE  /\ Len(fields) \in Nat /\ SomeFields(fields) /\ gap \in Words /\ gap \in Seq(Spaces)
         /\ \A i \in 1 .. Len(fields) :
              AField(fields[i]) /\ fields[i].key \in Words /\ fields[i].value \in Words
         /\ \A i \in 1 .. Len(fields) + 1 : FieldsOn(fields, gap, i) \in Words
  <1>1. SomeFields(fields) /\ gap \in Words /\ gap \in Seq(Spaces)
    BY DEF Sent, OnceEach
  <1>2. Len(fields) \in Nat /\ \A i \in 1 .. Len(fields) : AField(fields[i])
    BY <1>1, PiecesAre
  <1>3. \A i \in 1 .. Len(fields) + 1 : FieldsOn(fields, gap, i) \in Words
    BY <1>1, FieldsOnIs
  <1> QED BY <1>1, <1>2, <1>3 DEF AField

LEMMA NotSpaces ==
  /\ Quote \in Alphabet \ Spaces /\ Comma \in Alphabet \ Spaces /\ ":" \in Alphabet \ Spaces
  /\ Left \in Alphabet \ Spaces /\ Right \in Alphabet \ Spaces
  BY DEF Alphabet, Spaces, Space, LineFeed, Return, Quote, Comma, Left, Right

LEMMA OpenOnWay ==
  ASSUME TypeOK, NEW fields, NEW gap, NEW text, Sent(fields, gap, text),
         pos = 1, DOMAIN result = {}, Open
  PROVE  GoesOn(fields, gap, text)
  <1>1. PICK more \in Words : more = FieldsOn(fields, gap, 1)
    <2>1. 1 \in 1 .. Len(fields) + 1
      BY SentParts
    <2> QED BY <2>1, SentParts
  <1>2. Ahead(text, pos, gap \o (<<Left>> \o more))
    <2>1. PICK t \in Words : t = gap \o (<<Left>> \o more) /\ t = text
      BY <1>1 DEF Sent, Begins
    <2>2. Len(t) \in Nat /\ Len(t) = 1 - 1 + Len(t) /\ DOMAIN t = 1 .. Len(t)
      BY LenProperties DEF Words
    <2>3. \A k \in 1 .. Len(t) : 1 - 1 + k = k
      BY <2>2
    <2> QED BY <2>1, <2>2, <2>3 DEF Ahead
  <1>3. PICK q : q = AfterSpaces(pos)
    OBVIOUS
  <1>4. \/ q = Past /\ body # text
        \/ q < Past /\ Comes(text, q, Left, more)
    <2>1. pos \in 1 .. Past
      BY Numbers
    <2> QED BY <1>1, <1>2, <1>3, <2>1, NotSpaces, SpacesOver DEF Sent
  <1>5. Has(result, fields, 0) /\ UNCHANGED <<key, result>> /\ 0 \in 0 .. Len(fields)
    BY SentParts DEF Has, Open
  <1>6. CASE q = Past /\ body # text
    <2>1. OneSpoilt(result, fields)
      BY <1>5, HasFits DEF Sent
    <2>2. Goto("done", Past)
      BY <1>3, <1>6, Numbers DEF Open
    <2> QED BY <1>5, <1>6, <2>1, <2>2 DEF GoesOn, AtCut, Sent, Goto
  <1>7. CASE q < Past /\ Comes(text, q, Left, more)
    <2>1. Goto("item", q + 1) /\ Ahead(text, q + 1, more)
      BY <1>3, <1>7 DEF Open, Here, Comes
    <2>2. PICK w \in {<<>>, gap} : more = w \o ItemOn(fields, gap, 1)
      <3>1. CASE Len(fields) = 0
        <4>1. more = gap \o <<Right>>
          BY <1>1, <3>1, SentParts, FieldsOnEnd
        <4> QED BY <3>1, <4>1 DEF ItemOn
      <3>2. CASE Len(fields) > 0
        <4>1. 1 \in 1 .. Len(fields) /\ 1 <= Len(fields)
          BY <3>2, SentParts
        <4>2. more = <<>> \o FieldOn(fields[1], gap, FieldsOn(fields, gap, 1 + 1))
          BY <1>1, <4>1, SentParts, FieldsOnFirst
        <4> QED BY <4>1, <4>2 DEF ItemOn
      <3> QED BY <3>1, <3>2, SentParts
    <2>3. Place("item", q + 1, out', key', fields, gap, text, 0)
      <3>1. 0 + 1 = 1
        OBVIOUS
      <3>2. Ahead(text, q + 1, w \o ItemOn(fields, gap, 0 + 1))
        BY <2>1, <2>2, <3>1
      <3> QED BY <3>2 DEF Place
    <2> QED BY <1>5, <2>1, <2>3 DEF GoesOn, OnWay, Goto
  <1> QED BY <1>4, <1>6, <1>7

LEMMA ItemOnWay ==
  ASSUME TypeOK, NEW fields, NEW gap, NEW text, Sent(fields, gap, text),
         NEW i \in 0 .. Len(fields), Has(result, fields, i), NEW w \in {<<>>, gap},
         Ahead(text, pos, w \o ItemOn(fields, gap, i + 1)), Item
  PROVE  GoesOn(fields, gap, text)
  <1>1. PICK q : q = AfterSpaces(pos)
    OBVIOUS
  <1>2. pos \in 1 .. Past /\ q \in pos .. Past /\ Past \in Nat /\ pos \in Nat
    BY <1>1, Numbers
  <1>3. UNCHANGED <<key, result>> /\ out' = <<>> /\ OneSpoilt(result, fields)
    BY HasFits DEF Item, Sent
  <1>4. ASSUME q = Past, body # text PROVE GoesOn(fields, gap, text)
    <2>1. Goto("done", Past) \/ Goto("colon", Past)
      BY <1>1, <1>4, Numbers DEF Item
    <2> QED BY <1>3, <1>4, <2>1 DEF GoesOn, AtCut, Sent, Goto
  <1>5. CASE i = Len(fields)
    <2>1. PICK u \in Seq(Spaces) : u = w /\ u \in Words
      <3>1. <<>> \in Seq(Spaces)
        OBVIOUS
      <3> QED BY <3>1, SentParts, Signs
    <2>2. ItemOn(fields, gap, i + 1) = <<Right>> \o <<>>
      <3>1. ~ (i + 1 <= Len(fields)) /\ <<Right>> \o <<>> = <<Right>>
        BY <1>5, SentParts, JoinNothing, Signs
      <3> QED BY <3>1 DEF ItemOn
    <2>3. \/ q = Past /\ body # text
          \/ q < Past /\ Comes(text, q, Right, <<>>)
      BY <1>1, <1>2, <2>1, <2>2, NotSpaces, Signs, SpacesOver DEF Sent
    <2>4. ASSUME q < Past, Comes(text, q, Right, <<>>) PROVE GoesOn(fields, gap, text)
      <3>1. Goto("done", q)
        <4>1. Here(q, Right) /\ ~ Here(q, Quote)
          BY <2>4 DEF Here, Comes, Quote, Right
        <4> QED BY <1>1, <4>1 DEF Item
      <3>2. Place("done", q, out', key', fields, gap, text, i)
        BY <1>5 DEF Place
      <3> QED BY <1>3, <3>1, <3>2 DEF GoesOn, OnWay, Goto
    <2> QED BY <1>4, <2>3, <2>4
  <1>6. CASE i < Len(fields)
    <2>1. i + 1 \in 1 .. Len(fields) /\ i + 1 <= Len(fields) /\ i + 2 \in 1 .. Len(fields) + 1 /\ i + 1 + 1 = i + 2
      BY <1>6, SentParts
    <2>2. PICK f : f = fields[i + 1] /\ AField(f) /\ f.key \in Words
      BY <2>1, SentParts
    <2>3. PICK more \in Words : more = FieldsOn(fields, gap, i + 2)
      BY <2>1, SentParts
    <2>4. PICK after \in Words : after = ColonOn(f, gap, more)
      BY <2>2, <2>3, SentParts, FieldIs
    <2>5. PICK rest \in Words : rest = InString(f.key, after)
      BY <2>2, <2>4, StringIs
    <2>6. ItemOn(fields, gap, i + 1) = gap \o (<<Quote>> \o rest)
      BY <2>1, <2>2, <2>3, <2>4, <2>5 DEF ItemOn, FieldOn
    <2>7. PICK u \in Seq(Spaces) : u = w \o gap
      <3>1. <<>> \in Seq(Spaces) /\ gap \in Seq(Spaces)
        BY SentParts
      <3> QED BY <3>1, ConcatProperties
    <2>8. Ahead(text, pos, u \o (<<Quote>> \o rest))
      <3>1. PICK y \in Words : y = <<Quote>> \o rest
        BY Join, Signs
      <3>2. PICK x \in Words : x = w
        BY SentParts, Signs
      <3>3. PICK g \in Words : g = gap
        BY SentParts
      <3>4. Regroups(x, g, y)
        BY JoinTwice
      <3> QED BY <2>6, <2>7, <3>1, <3>2, <3>3, <3>4 DEF Regroups
    <2>9. \/ q = Past /\ body # text
          \/ q < Past /\ Comes(text, q, Quote, rest)
      BY <1>1, <1>2, <2>7, <2>8, NotSpaces, SpacesOver DEF Sent
    <2>10. ASSUME q < Past, Comes(text, q, Quote, rest) PROVE GoesOn(fields, gap, text)
      <3>1. pos < Past /\ pos # Past
        BY <1>2, <2>10
      <3>2. Here(q, Quote) /\ ~ Here(q, Right) /\ Ahead(text, q + 1, rest)
        BY <2>10 DEF Here, Comes, Quote, Right
      <3>3. Goto("key", q + 1)
        BY <1>1, <3>1, <3>2 DEF Item
      <3>4. Inside(q + 1, <<>>, f.key, text, after)
        BY <2>2, <2>5, <3>2, InsideFirst
      <3>5. Place("key", q + 1, <<>>, key, fields, gap, text, i)
        BY <1>6, <2>2, <2>3, <2>4, <3>4 DEF Place
      <3> QED BY <1>3, <3>3, <3>5 DEF GoesOn, OnWay, Goto
    <2> QED BY <1>4, <2>9, <2>10
  <1> QED BY <1>5, <1>6, SentParts

\* The parts of the field that is read next.
LEMMA FieldParts ==
  ASSUME NEW fields, NEW gap, NEW text, Sent(fields, gap, text), NEW i \in 0 .. Len(fields), i < Len(fields)
  PROVE  /\ i \in Nat /\ Len(fields) \in Nat /\ i + 1 \in 1 .. Len(fields) /\ i + 1 \in 0 .. Len(fields)
         /\ i + 2 \in 1 .. Len(fields) + 1 /\ i + 1 + 1 = i + 2 /\ i \in 0 .. Len(fields) - 1 /\ i + 1 - 1 = i
         /\ \E f, more : /\ f = fields[i + 1] /\ AField(f) /\ f.key \in Words /\ f.value \in Words
                         /\ more \in Words /\ more = FieldsOn(fields, gap, i + 2)
                         /\ ColonOn(f, gap, more) \in Words /\ gap \o more \in Words
  <1>1. Len(fields) \in Nat
    BY SentParts
  <1>2. /\ i \in Nat /\ i + 1 \in 1 .. Len(fields) /\ i + 1 \in 0 .. Len(fields)
        /\ i + 2 \in 1 .. Len(fields) + 1 /\ i + 1 + 1 = i + 2 /\ i \in 0 .. Len(fields) - 1 /\ i + 1 - 1 = i
    BY <1>1
  <1>3. PICK f : f = fields[i + 1] /\ AField(f) /\ f.key \in Words /\ f.value \in Words
    BY <1>2, SentParts
  <1>4. PICK more \in Words : more = FieldsOn(fields, gap, i + 2)
    BY <1>2, SentParts
  <1>5. ColonOn(f, gap, more) \in Words /\ gap \o more \in Words
    BY <1>3, <1>4, SentParts, FieldIs, Join
  <1> QED BY <1>1, <1>2, <1>3, <1>4, <1>5

LEMMA ColonOnWay ==
  ASSUME TypeOK, NEW fields, NEW gap, NEW text, Sent(fields, gap, text),
         NEW i \in 0 .. Len(fields), i < Len(fields), Has(result, fields, i), out = fields[i + 1].key,
         Ahead(text, pos, ColonOn(fields[i + 1], gap, FieldsOn(fields, gap, i + 2))), Colon
  PROVE  GoesOn(fields, gap, text)
  <1>1. PICK f, more : /\ f = fields[i + 1] /\ AField(f) /\ f.key \in Words /\ f.value \in Words
                       /\ more \in Words /\ more = FieldsOn(fields, gap, i + 2)
                       /\ ColonOn(f, gap, more) \in Words /\ gap \o more \in Words
    BY FieldParts
  <1>2. PICK rest \in Words : rest = InString(f.value, gap \o more)
    BY <1>1, StringIs
  <1>3. PICK after \in Words : after = gap \o (<<Quote>> \o rest)
    <2>1. <<Quote>> \o rest \in Words
      BY Join, Signs
    <2> QED BY <2>1, Join, SentParts
  <1>4. Ahead(text, pos, gap \o (<<":">> \o after))
    BY <1>1, <1>2, <1>3 DEF ColonOn
  <1>5. PICK q, v : q = AfterSpaces(pos) /\ v = AfterSpaces(q + 1)
    OBVIOUS
  <1>6. pos \in 1 .. Past /\ q \in pos .. Past /\ Past \in Nat /\ pos \in Nat /\ q \in 1 .. Past /\ q \in Nat
    BY <1>5, Numbers
  <1>7. \/ q = Past /\ body # text
        \/ q < Past /\ Comes(text, q, ":", after)
    BY <1>4, <1>5, <1>6, NotSpaces, SpacesOver DEF Sent
  <1>8. UNCHANGED <<request, result>> /\ key' = f.key /\ out' = <<>> /\ OneSpoilt(result, fields)
    BY <1>1, HasFits DEF Colon, Sent
  <1>9. CASE q = Past /\ body # text
    <2>1. Goto("done", Past)
      BY <1>5, <1>9, Numbers DEF Colon
    <2> QED BY <1>8, <1>9, <2>1 DEF GoesOn, AtCut, Sent, Goto
  <1>10. CASE q < Past /\ Comes(text, q, ":", after)
    <2>1. Here(q, ":") /\ Ahead(text, q + 1, gap \o (<<Quote>> \o rest)) /\ q + 1 \in 1 .. Past
      BY <1>3, <1>6, <1>10 DEF Comes, Here
    <2>2. \/ v = Past /\ body # text
          \/ v < Past /\ Comes(text, v, Quote, rest)
      BY <1>5, <2>1, NotSpaces, SpacesOver DEF Sent
    <2>3. CASE v = Past /\ body # text
      <3>1. Goto("primitive", Past)
        BY <1>5, <2>1, <2>3, Numbers DEF Colon
      <3>2. i + 1 \in 1 .. Len(fields) /\ i + 1 - 1 = i
        BY FieldParts
      <3>3. request.how = "cut"
        BY <2>3 DEF Sent
      <3> QED BY <1>1, <1>8, <2>3, <3>1, <3>2, <3>3 DEF GoesOn, AtCut, Goto
    <2>4. CASE v < Past /\ Comes(text, v, Quote, rest)
      <3>1. Here(v, Quote) /\ Ahead(text, v + 1, rest)
        BY <2>4 DEF Comes, Here
      <3>2. Goto("text", v + 1)
        BY <1>5, <2>1, <3>1 DEF Colon
      <3>3. PICK m \in Words : m = gap \o more
        BY <1>1
      <3>4. Inside(v + 1, <<>>, f.value, text, m)
        BY <1>1, <1>2, <3>1, <3>3, InsideFirst
      <3>5. Place("text", v + 1, <<>>, f.key, fields, gap, text, i)
        BY <1>1, <3>3, <3>4 DEF Place
      <3> QED BY <1>8, <3>2, <3>5 DEF GoesOn, OnWay, Goto
    <2> QED BY <2>2, <2>3, <2>4
  <1> QED BY <1>7, <1>9, <1>10

\* The characters of a key or of a value.
LEMMA StringOnWay ==
  ASSUME TypeOK, NEW fields, NEW gap, NEW text, Sent(fields, gap, text),
         NEW i \in 0 .. Len(fields), i < Len(fields), Has(result, fields, i),
         Place(mode, pos, out, key, fields, gap, text, i), Plain \/ Escape
  PROVE  GoesOn(fields, gap, text)
  <1>1. PICK f, more : /\ f = fields[i + 1] /\ AField(f) /\ f.key \in Words /\ f.value \in Words
                       /\ more \in Words /\ more = FieldsOn(fields, gap, i + 2)
                       /\ ColonOn(f, gap, more) \in Words /\ gap \o more \in Words
    BY FieldParts
  <1>2. Begins(text) /\ OneSpoilt(result, fields)
    BY HasFits DEF Sent
  <1>3. CASE mode = "key"
    <2>1. PICK m \in Words : m = ColonOn(f, gap, more)
      BY <1>1
    <2>2. Inside(pos, out, f.key, text, m)
      BY <1>1, <1>3, <2>1 DEF Place
    <2>3. /\ UNCHANGED <<mode, key, result>>
          /\ Inside(pos', out', f.key, text, m) \/ (pos' = Past /\ body # text)
      BY <1>1, <1>2, <2>2, ReadsString
    <2>4. CASE Inside(pos', out', f.key, text, m)
      <3>1. Place("key", pos', out', key, fields, gap, text, i)
        BY <1>1, <2>1, <2>4 DEF Place
      <3> QED BY <1>3, <2>3, <3>1 DEF GoesOn, OnWay
    <2>5. CASE pos' = Past /\ body # text
      BY <1>2, <1>3, <2>3, <2>5 DEF GoesOn, AtCut, Sent
    <2> QED BY <2>3, <2>4, <2>5
  <1>4. CASE mode = "text"
    <2>1. PICK m \in Words : m = gap \o more
      BY <1>1
    <2>2. Inside(pos, out, f.value, text, m) /\ key = f.key
      BY <1>1, <1>4, <2>1 DEF Place
    <2>3. /\ UNCHANGED <<mode, key, result>>
          /\ Inside(pos', out', f.value, text, m) \/ (pos' = Past /\ body # text)
      BY <1>1, <1>2, <2>2, ReadsString
    <2>4. CASE Inside(pos', out', f.value, text, m)
      <3>1. Place("text", pos', out', key, fields, gap, text, i)
        BY <1>1, <2>1, <2>2, <2>4 DEF Place
      <3> QED BY <1>4, <2>3, <3>1 DEF GoesOn, OnWay
    <2>5. CASE pos' = Past /\ body # text
      <3>1. i + 1 \in 1 .. Len(fields) /\ i + 1 - 1 = i
        BY FieldParts
      <3>2. request.how = "cut"
        BY <2>5 DEF Sent
      <3> QED BY <1>1, <1>4, <2>2, <2>3, <2>5, <3>1, <3>2 DEF GoesOn, AtCut
    <2> QED BY <2>3, <2>4, <2>5
  <1> QED BY <1>3, <1>4 DEF Plain, Escape

\* Behind a value: a comma and the next field, or the end of the object.
LEMMA BehindValue ==
  ASSUME TypeOK, NEW fields, NEW gap, NEW text, Sent(fields, gap, text),
         NEW i \in 0 .. Len(fields), i < Len(fields), NEW p \in 1 .. Past,
         Ahead(text, p, gap \o FieldsOn(fields, gap, i + 2)), NEW q, q = AfterSpaces(p)
  PROVE  \/ q = Past /\ body # text
         \/ q < Past /\ \E w \in {<<>>, gap} :
              Ahead(text, IF Here(q, Comma) THEN q + 1 ELSE q, w \o ItemOn(fields, gap, i + 2))
  <1>1. /\ i \in Nat /\ Len(fields) \in Nat /\ i + 2 \in 1 .. Len(fields) + 1 /\ SomeFields(fields)
        /\ gap \in Words /\ gap \in Seq(Spaces) /\ i + 2 # 1
    BY FieldParts, SentParts
  <1>2. CASE i + 2 <= Len(fields)
    <2>1. i + 2 \in 1 .. Len(fields) /\ i + 2 + 1 \in 1 .. Len(fields) + 1
      BY <1>1, <1>2
    <2>2. PICK rest \in Words : rest = FieldOn(fields[i + 2], gap, FieldsOn(fields, gap, i + 2 + 1))
      BY <1>1, <2>1, SentParts, FieldIs
    <2>3. FieldsOn(fields, gap, i + 2) = <<Comma>> \o rest
      BY <1>1, <2>1, <2>2, FieldsOnFirst
    <2>4. \/ q = Past /\ body # text
          \/ q < Past /\ Comes(text, q, Comma, rest)
      BY <1>1, <2>2, <2>3, NotSpaces, SpacesOver DEF Sent
    <2>5. ASSUME q < Past, Comes(text, q, Comma, rest)
          PROVE  Here(q, Comma) /\ Ahead(text, q + 1, <<>> \o ItemOn(fields, gap, i + 2))
      <3>1. ItemOn(fields, gap, i + 2) = rest
        BY <1>2, <2>2 DEF ItemOn
      <3>2. <<>> \o rest = rest
        BY <2>2, JoinNothing
      <3> QED BY <2>5, <3>1, <3>2 DEF Comes, Here
    <2> QED BY <2>4, <2>5
  <1>3. CASE i + 2 > Len(fields)
    <2>1. i + 2 = Len(fields) + 1
      BY <1>1, <1>3
    <2>2. FieldsOn(fields, gap, i + 2) = gap \o <<Right>>
      BY <1>1, <2>1, FieldsOnEnd
    <2>3. PICK r \in Words : r = <<Right>> \o <<>> /\ r = <<Right>> /\ <<>> \o r = r
      BY JoinNothing, Signs
    <2>4. PICK u \in Seq(Spaces) : u = gap \o gap
      BY <1>1, ConcatProperties
    <2>5. Ahead(text, p, u \o r)
      <3>1. PICK g \in Words : g = gap
        BY <1>1
      <3>2. Regroups(g, g, r)
        BY JoinTwice
      <3> QED BY <2>2, <2>3, <2>4, <3>1, <3>2 DEF Regroups
    <2>6. \/ q = Past /\ body # text
          \/ q < Past /\ Comes(text, q, Right, <<>>)
      BY <2>3, <2>4, <2>5, NotSpaces, Signs, SpacesOver DEF Sent
    <2>7. ASSUME q < Past, Comes(text, q, Right, <<>>)
          PROVE  ~ Here(q, Comma) /\ Ahead(text, q, <<>> \o ItemOn(fields, gap, i + 2))
      <3>1. ItemOn(fields, gap, i + 2) = r
        BY <1>1, <1>3, <2>3 DEF ItemOn
      <3> QED BY <2>3, <2>7, <3>1 DEF Comes, Here, Comma, Right
    <2> QED BY <2>6, <2>7
  <1> QED BY <1>1, <1>2, <1>3

LEMMA CloseOnWay ==
  ASSUME TypeOK, NEW fields, NEW gap, NEW text, Sent(fields, gap, text),
         NEW i \in 0 .. Len(fields), i < Len(fields), Has(result, fields, i),
         Place(mode, pos, out, key, fields, gap, text, i), Close
  PROVE  GoesOn(fields, gap, text)
  <1>1. PICK f, more : /\ f = fields[i + 1] /\ AField(f) /\ f.key \in Words /\ f.value \in Words
                       /\ more \in Words /\ more = FieldsOn(fields, gap, i + 2)
                       /\ ColonOn(f, gap, more) \in Words /\ gap \o more \in Words
    BY FieldParts
  <1>2. Begins(text) /\ OneSpoilt(result, fields) /\ OnceEach(fields)
    BY HasFits DEF Sent
  <1>3. /\ mode \in {"key", "text"} /\ (pos = Past \/ Here(pos, Quote)) /\ UNCHANGED <<request, key, out>>
        /\ pos \in 1 .. Past /\ Past \in Nat /\ pos \in Nat
    BY Numbers DEF Close
  <1>4. CASE mode = "key"
    <2>1. PICK m \in Words : m = ColonOn(f, gap, more)
      BY <1>1
    <2>2. Inside(pos, out, f.key, text, m)
      BY <1>1, <1>4, <2>1 DEF Place
    <2>3. \/ pos = Past /\ body # text
          \/ pos < Past /\ out = f.key /\ Ahead(text, pos + 1, m)
      BY <1>1, <1>2, <1>3, <2>2, EndsString
    <2>4. UNCHANGED result /\ Goto("colon", IF pos = Past THEN pos ELSE pos + 1)
      BY <1>4 DEF Close
    <2>5. CASE pos = Past /\ body # text
      BY <1>2, <2>4, <2>5 DEF GoesOn, AtCut, Sent, Goto
    <2>6. CASE pos < Past /\ out = f.key /\ Ahead(text, pos + 1, m)
      <3>1. pos # Past
        BY <1>3, <2>6
      <3>2. Place("colon", pos + 1, out, key, fields, gap, text, i)
        BY <1>1, <2>1, <2>6 DEF Place
      <3> QED BY <1>3, <2>4, <3>1, <3>2 DEF GoesOn, OnWay, Goto
    <2> QED BY <2>3, <2>5, <2>6
  <1>5. CASE mode = "text"
    <2>1. PICK m \in Words : m = gap \o more
      BY <1>1
    <2>2. Inside(pos, out, f.value, text, m) /\ key = f.key
      BY <1>1, <1>5, <2>1 DEF Place
    <2>3. \/ pos = Past /\ body # text
          \/ pos < Past /\ out = f.value /\ Ahead(text, pos + 1, m)
      BY <1>1, <1>2, <1>3, <2>2, EndsString
    <2>4. Store(out, IF pos = Past THEN pos ELSE pos + 1)
      BY <1>5 DEF Close
    <2>5. PICK value : value = out
      OBVIOUS
    <2>6. /\ result' = Stored(result, f.key, value) /\ OneSpoilt(result', fields)
          /\ value = f.value => Has(result', fields, i + 1)
      <3>1. result' = Stored(result, f.key, value)
        BY <2>2, <2>4, <2>5, StoreIs
      <3>2. i \in 0 .. Len(fields) - 1
        BY FieldParts
      <3> QED BY <1>1, <1>2, <3>1, <3>2, StoresNext
    <2>7. CASE pos = Past /\ body # text
      <3>1. Goto("item", Past)
        BY <2>4, <2>7, StoreIs, Numbers
      <3> QED BY <2>6, <2>7, <3>1 DEF GoesOn, AtCut, Sent, Goto
    <2>8. CASE pos < Past /\ out = f.value /\ Ahead(text, pos + 1, m)
      <3>1. pos # Past /\ pos + 1 \in 1 .. Past
        BY <1>3, <2>8
      <3>2. PICK q : q = AfterSpaces(pos + 1)
        OBVIOUS
      <3>3. Goto("item", IF Here(q, Comma) THEN q + 1 ELSE q)
        BY <2>4, <3>1, <3>2, StoreIs
      <3>4. \/ q = Past /\ body # text
            \/ q < Past /\ \E w \in {<<>>, gap} :
                 Ahead(text, IF Here(q, Comma) THEN q + 1 ELSE q, w \o ItemOn(fields, gap, i + 2))
        BY <1>1, <2>1, <2>8, <3>1, <3>2, BehindValue
      <3>5. CASE q = Past /\ body # text
        <4>1. Goto("item", Past)
          BY <3>3, <3>5, Numbers
        <4> QED BY <2>6, <3>5, <4>1 DEF GoesOn, AtCut, Sent, Goto
      <3>6. CASE \E w \in {<<>>, gap} :
                   Ahead(text, IF Here(q, Comma) THEN q + 1 ELSE q, w \o ItemOn(fields, gap, i + 2))
        <4>1. i + 1 \in 0 .. Len(fields) /\ i + 1 + 1 = i + 2
          BY FieldParts
        <4>2. PICK p : p = IF Here(q, Comma) THEN q + 1 ELSE q
          OBVIOUS
        <4>3. \E w \in {<<>>, gap} : Ahead(text, p, w \o ItemOn(fields, gap, i + 1 + 1))
          BY <3>6, <4>1, <4>2
        <4>4. Place("item", p, out', key', fields, gap, text, i + 1)
          BY <4>3 DEF Place
        <4> QED BY <2>5, <2>6, <2>8, <3>3, <4>1, <4>2, <4>4 DEF GoesOn, OnWay, Goto
      <3> QED BY <3>4, <3>5, <3>6
    <2> QED BY <2>3, <2>7, <2>8
  <1> QED BY <1>3, <1>4, <1>5

----------------------------------------------------------------------------
LEMMA WrittenIsSent ==
  ASSUME body \in Texts, NEW gap \in Seq(Spaces), WrittenWith(request, gap), request.how \in {"whole", "cut"}
  PROVE  Sent(request.fields, gap, Text(request.fields, gap, request.how))
  <1>1. PICK fields, how, text : fields = request.fields /\ how = request.how /\ text = Text(fields, gap, how)
    OBVIOUS
  <1>2. /\ fields \in Seq([key : Texts, value : Texts])
        /\ \A i, j \in DOMAIN fields : fields[i].key = fields[j].key => i = j
        /\ IsPrefix(body, text)
        /\ how = "whole" => body = text
    BY <1>1 DEF WrittenWith, body
  <1>3. OnceEach(fields)
    <2>1. [key : Texts, value : Texts] \subseteq [key : Words, value : Words]
      BY Signs
    <2>2. fields \in Seq([key : Words, value : Words])
      BY <1>2, <2>1, SeqMonotonic
    <2> QED BY <1>2, <2>2 DEF OnceEach, SomeFields
  <1>4. gap \in Words
    BY Signs
  <1>5. text = gap \o (<<Left>> \o FieldsOn(fields, gap, 1))
    BY <1>1, <1>3, <1>4, TextIs DEF OnceEach
  <1>6. text \in Words
    <2>1. 1 \in 1 .. Len(fields) + 1
      BY <1>3, PiecesAre, <1>4 DEF OnceEach
    <2>2. PICK more \in Words : more = FieldsOn(fields, gap, 1)
      BY <1>3, <1>4, <2>1, FieldsOnIs DEF OnceEach
    <2>3. PICK t \in Words : t = <<Left>> \o more
      BY Join, Signs
    <2> QED BY <1>4, <1>5, <2>2, <2>3, Join
  <1>7. Begins(text)
    <2>1. Len(body) \in Nat /\ Len(text) \in Nat /\ Len(body) <= Len(text)
      BY <1>2, <1>6, LenProperties DEF IsPrefix, Texts, Words
    <2>2. SubSeq(body, 1, Len(body)) = SubSeq(text, 1, Len(body))
      BY <1>2 DEF IsPrefix
    <2>3. ASSUME NEW k \in 1 .. Len(body) PROVE body[k] = text[k]
      <3>1. SubSeq(body, 1, Len(body)) = body
        BY SubSeqFull DEF Texts
      <3>2. \A i \in 1 .. Len(body) : text[i] \in Alphabet
        <4>1. \A i \in 1 .. Len(body) : i \in 1 .. Len(text)
          BY <2>1
        <4> QED BY <1>6, <4>1, ElementOfSeq DEF Words
      <3>3. SubSeq(text, 1, Len(body))[k] = text[1 + k - 1]
        <4>1. 1 \in Int /\ Len(body) \in Int /\ k \in 1 .. Len(body) - 1 + 1
          BY <2>1
        <4> QED BY <3>2, <4>1, SubSeqProperties
      <3>4. 1 + k - 1 = k
        OBVIOUS
      <3> QED BY <2>2, <3>1, <3>3, <3>4
    <2> QED BY <1>6, <2>1, <2>3 DEF Begins
  <1> QED BY <1>1, <1>2, <1>3, <1>4, <1>5, <1>7 DEF Sent

\* What holds all along: the parser has not begun, is on its way, or is at the end of a body that was cut.
Reading(gap) ==
  LET fields == request.fields IN
  /\ WrittenWith(request, gap)
  /\ \/ mode = "open" /\ pos = 1 /\ DOMAIN result = {}
     \/ OnWay(mode, pos, out, key, result, fields, gap, Text(fields, gap, request.how))
     \/ AtCut(mode, pos, key, result, fields)

LEMMA ReadingNext ==
  ASSUME NEW gap, UNCHANGED request, WrittenWith(request, gap), GoesOn(request.fields, gap, Text(request.fields, gap, request.how))
  PROVE  Reading(gap)'
  <1>1. AtCut(mode, pos, key, result, request.fields)' <=> AtCut(mode', pos', key', result', request.fields)
    BY SameText DEF AtCut
  <1> QED BY <1>1 DEF Reading, GoesOn

\* A step that reads on in what a client wrote.
LEMMA ReadsOn ==
  ASSUME TypeOK, request.how \in {"whole", "cut"}, NEW gap \in Seq(Spaces), Reading(gap), Next
  PROVE  Reading(gap)'
  <1>1. UNCHANGED request
    BY DEF Next, Open, Item, Colon, Close, Plain, Escape, Primitive, Put
  <1>2. WrittenWith(request, gap) /\ body \in Texts
    BY DEF Reading, TypeOK
  <1>3. PICK fields, text : fields = request.fields /\ text = Text(request.fields, gap, request.how)
    OBVIOUS
  <1>4. Sent(fields, gap, text)
    BY <1>2, <1>3, WrittenIsSent
  <1>5. Len(fields) \in Nat /\ OnceEach(fields)
    BY <1>4, SentParts DEF Sent
  <1>6. CASE mode = "open" /\ pos = 1 /\ DOMAIN result = {}
    <2>1. Open
      BY <1>6 DEF Next, Item, Colon, Close, Plain, Escape, Primitive
    <2>2. GoesOn(fields, gap, text)
      BY <1>4, <1>6, <2>1, OpenOnWay
    <2> QED BY <1>1, <1>2, <1>3, <2>2, ReadingNext
  <1>7. CASE OnWay(mode, pos, out, key, result, fields, gap, text)
    <2>1. PICK i \in 0 .. Len(fields) : Has(result, fields, i) /\ Place(mode, pos, out, key, fields, gap, text, i)
      BY <1>7 DEF OnWay
    <2>2. GoesOn(fields, gap, text)
      <3>1. CASE mode = "item"
        <4>1. Item
          BY <3>1 DEF Next, Open, Colon, Close, Plain, Escape, Primitive
        <4>2. PICK w \in {<<>>, gap} : Ahead(text, pos, w \o ItemOn(fields, gap, i + 1))
          BY <2>1, <3>1 DEF Place
        <4> QED BY <1>4, <2>1, <4>1, <4>2, ItemOnWay
      <3>2. CASE mode \in {"key", "text"}
        <4>1. Close \/ Plain \/ Escape
          BY <3>2 DEF Next, Open, Item, Colon, Primitive
        <4>2. i < Len(fields)
          BY <2>1, <3>2 DEF Place
        <4> QED BY <1>4, <2>1, <4>1, <4>2, CloseOnWay, StringOnWay
      <3>3. CASE mode = "colon"
        <4>1. Colon
          BY <3>3 DEF Next, Open, Item, Close, Plain, Escape, Primitive
        <4>2. /\ i < Len(fields) /\ out = fields[i + 1].key
              /\ Ahead(text, pos, ColonOn(fields[i + 1], gap, FieldsOn(fields, gap, i + 2)))
          BY <2>1, <3>3 DEF Place
        <4> QED BY <1>4, <2>1, <4>1, <4>2, ColonOnWay
      <3>4. mode # "done"
        BY DEF Next, Open, Item, Colon, Close, Plain, Escape, Primitive
      <3> QED BY <2>1, <3>1, <3>2, <3>3, <3>4 DEF Place
    <2> QED BY <1>1, <1>2, <1>3, <2>2, ReadingNext
  <1>8. CASE AtCut(mode, pos, key, result, fields)
    <2>1. GoesOn(fields, gap, text)
      BY <1>5, <1>8, CutStep DEF GoesOn
    <2> QED BY <1>1, <1>2, <1>3, <2>1, ReadingNext
  <1> QED BY <1>3, <1>6, <1>7, <1>8 DEF Reading

----------------------------------------------------------------------------
\* The parser is reading every body that a client wrote, and the result is a map.
Clients     == {"whole", "cut"}
OnItsWay    == request.how \in Clients => \E gap \in Seq(Spaces) : Reading(gap)
AMap        == result = [k \in DOMAIN result |-> result[k]]
Written     == \A r \in Requests : r.how \in Clients => \E gap \in Seq(Spaces) : WrittenWith(r, gap)

LEMMA AMapHolds ==
  ASSUME AMap, [Next]_vars
  PROVE  AMap'
  <1>1. ASSUME NEW value, NEW p, Store(value, p) PROVE AMap'
    <2>1. result' = Stored(result, key, value)
      BY <1>1, StoreIs
    <2> QED BY <2>1 DEF Stored, AMap
  <1>2. CASE Close
    BY <1>1, <1>2 DEF Close, AMap
  <1>3. CASE Primitive
    BY <1>1, <1>3 DEF Primitive
  <1>4. CASE UNCHANGED result
    BY <1>4 DEF AMap
  <1> QED BY <1>2, <1>3, <1>4 DEF Next, Open, Item, Colon, Plain, Escape, Put, vars

LEMMA OnItsWayHolds ==
  ASSUME TypeOK, OnItsWay, [Next]_vars
  PROVE  OnItsWay'
  <1>1. CASE Next
    <2>1. UNCHANGED request
      BY <1>1 DEF Next, Open, Item, Colon, Close, Plain, Escape, Primitive, Put
    <2>2. SUFFICES ASSUME request.how \in Clients PROVE \E gap \in Seq(Spaces) : Reading(gap)'
      BY <2>1 DEF OnItsWay
    <2>3. PICK gap \in Seq(Spaces) : Reading(gap)
      BY <2>2 DEF OnItsWay
    <2>4. Reading(gap)'
      BY <1>1, <2>2, <2>3, ReadsOn DEF Clients
    <2> QED BY <2>3, <2>4
  <1>2. CASE UNCHANGED vars
    <2>1. \A gap : Reading(gap)' <=> Reading(gap)
      BY <1>2, SameText DEF Reading, AtCut, vars
    <2>2. request' = request
      BY <1>2 DEF vars
    <2> QED BY <2>1, <2>2 DEF OnItsWay
  <1> QED BY <1>1, <1>2

LEMMA OnItsWayFirst ==
  ASSUME Written, Init
  PROVE  OnItsWay /\ AMap
  <1>1. AMap /\ mode = "open" /\ pos = 1 /\ DOMAIN result = {} /\ request \in Requests
    BY DEF Init, AMap
  <1>2. ASSUME NEW gap, WrittenWith(request, gap) PROVE Reading(gap)
    BY <1>1, <1>2 DEF Reading
  <1> QED BY <1>1, <1>2 DEF Written, OnItsWay

LEMMA ReadInTheEnd ==
  ASSUME TypeOK, OnItsWay, AMap
  PROVE  ReadAsMeant
  <1> SUFFICES ASSUME Parsed, request.how \in Clients
               PROVE  /\ request.how = "whole" => result = Meant
                      /\ request.how = "cut" =>
                           /\ DOMAIN result \subseteq DOMAIN Meant
                           /\ \A k, m \in DOMAIN result :
                                k = m \/ result[k] = Meant[k] \/ result[m] = Meant[m]
    BY DEF ReadAsMeant, Reads, CutKeepsRest, Clients
  <1>1. PICK gap \in Seq(Spaces) : Reading(gap)
    BY DEF OnItsWay
  <1>2. PICK fields : fields = request.fields
    OBVIOUS
  <1>3. OnceEach(fields)
    BY <1>1, <1>2, WrittenIsSent DEF Reading, TypeOK, Sent, Clients
  <1>4. CASE AtCut(mode, pos, key, result, fields)
    BY <1>2, <1>4 DEF AtCut, Parsed, OneSpoilt, Meant
  <1>5. CASE OnWay(mode, pos, out, key, result, fields, gap, Text(fields, gap, request.how))
    <2>1. PICK i \in 0 .. Len(fields) :
            Has(result, fields, i) /\ Place(mode, pos, out, key, fields, gap, Text(fields, gap, request.how), i)
      BY <1>5 DEF OnWay
    <2>2. i = Len(fields)
      BY <2>1 DEF Place, Parsed
    <2>3. OneSpoilt(result, fields) /\ result = AsMap(fields)
      BY <1>3, <2>1, <2>2, HasFits DEF AMap
    <2> QED BY <1>2, <2>3 DEF OneSpoilt, Meant
  <1>6. mode # "open"
    BY DEF Parsed
  <1> QED BY <1>1, <1>2, <1>4, <1>5, <1>6 DEF Reading

\* For all fields, strings and spaces: what a client wrote arrives as it was sent, and a
\* body that was cut short makes up no key and spoils one value at most (Json.cpp 69-99).
THEOREM ReadAsMeantHolds ==
  ASSUME Written
  PROVE  Spec => []ReadAsMeant
  <1> DEFINE Inv == OnItsWay /\ AMap
  <1>1. Init => Inv
    BY OnItsWayFirst
  <1>2. TypeOK /\ Inv /\ [Next]_vars => Inv'
    BY OnItsWayHolds, AMapHolds
  <1>3. TypeOK /\ Inv => ReadAsMeant
    BY ReadInTheEnd
  <1> HIDE DEF Inv
  <1> QED BY <1>1, <1>2, <1>3, TypeCorrect, PTL DEF Spec
============================================================================
