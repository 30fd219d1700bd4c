-------------------------- MODULE Telemetry_proofs --------------------------
(***************************************************************************)
(* Proofs about Telemetry: that the records sent are whole and in order,   *)
(* that the gateway finds the records again, and what the table holds.     *)
(***************************************************************************)
EXTENDS Telemetry, FiniteSetTheorems, SequenceTheorems, NumberFacts, TLAPS

Long == Width + 1

\* The n letters of record k behind letter a.
Part(k, a, n) == [j \in 1 .. n |-> <<k, a + j>>]

-----------------------------------------------------------------------------
(* Positions.  Letter Long * k + r + 1 of all that is ever written is      *)
(* letter r + 1 of record k + 1.                                           *)

LEMMA LongIs == Long \in Nat /\ Long > 2 /\ Width \in Nat /\ Long - 1 = Width /\ Width >= 2
BY WidthAssumption DEF Long

LEMMA Times == ASSUME NEW k \in Int PROVE Long * k \in Int /\ (k \in Nat => Long * k \in Nat)
BY LongIs

LEMMA TimesNext == ASSUME NEW k \in Int PROVE Long * (k + 1) = Long * k + Long
BY LongIs

LEMMA TimesOrder ==
    ASSUME NEW a \in Nat, NEW b \in Nat, a < b
    PROVE  Long * a + Long <= Long * b
<1>1. Long * (b - a) >= Long
  BY LongIs
<1>2. Long * b - Long * a = Long * (b - a)
  BY LongIs
<1>3. Long * a \in Int /\ Long * b \in Int /\ Long \in Int
  BY Times, LongIs
<1> QED BY <1>1, <1>2, <1>3

\* A position belongs to one record only.
LEMMA PlaceUnique ==
    ASSUME NEW a \in Nat, NEW b \in Nat, NEW r \in 0 .. Width, NEW s \in 0 .. Width,
           Long * a + r = Long * b + s
    PROVE  a = b /\ r = s
<1>1. Long * a \in Int /\ Long * b \in Int
  BY Times
<1>2. ~ a < b
  BY <1>1, TimesOrder, LongIs
<1>3. ~ b < a
  BY <1>1, TimesOrder, LongIs
<1>4. a = b
  BY <1>2, <1>3
<1> QED BY <1>1, <1>4

LEMMA PlaceExists == ASSUME NEW g \in Nat PROVE \E k \in Nat, r \in 0 .. Width : g = Long * k + r
<1> DEFINE T == {n \in Nat : \E k \in Nat, r \in 0 .. Width : n = Long * k + r}
<1>1. 0 \in T
  <2>1. Long * 0 = 0 /\ 0 \in 0 .. Width
    BY LongIs
  <2> QED BY <2>1
<1>2. ASSUME NEW n \in T PROVE n + 1 \in T
  <2>1. PICK k \in Nat, r \in 0 .. Width : n = Long * k + r
    OBVIOUS
  <2>2. CASE r < Width
    <3>1. r + 1 \in 0 .. Width /\ n + 1 = Long * k + (r + 1) /\ n + 1 \in Nat
      BY <2>1, <2>2, Times, LongIs
    <3> QED BY <3>1
  <2>3. CASE r = Width
    <3>1. k + 1 \in Nat /\ 0 \in 0 .. Width /\ n + 1 = Long * (k + 1) + 0 /\ n + 1 \in Nat
      BY <2>1, <2>3, Times, TimesNext, LongIs
    <3> QED BY <3>1
  <2> QED BY <2>1, <2>2, <2>3, LongIs
<1> HIDE DEF T
<1>3. Nat \subseteq T
  BY <1>1, <1>2, NatSetInduction
<1> QED BY <1>3 DEF T

\* The record that position g is in, the letters of it before g, and letter g.
InRecord(g) == CHOOSE k \in Nat : \E r \in 0 .. Width : g = Long * k + r
Before(g)   == g - Long * InRecord(g)
Nth(g)      == <<InRecord(g - 1) + 1, Before(g - 1) + 1>>

LEMMA PlaceIs ==
    ASSUME NEW k \in Nat, NEW r \in 0 .. Width
    PROVE  InRecord(Long * k + r) = k /\ Before(Long * k + r) = r /\ Nth(Long * k + r + 1) = <<k + 1, r + 1>>
<1> DEFINE g == Long * k + r
<1>1. g \in Nat /\ g + 1 - 1 = g /\ Long * k \in Nat
  BY Times
<1>2. \A a \in Nat : (\E s \in 0 .. Width : g = Long * a + s) => a = k
  BY PlaceUnique
<1>3. \E s \in 0 .. Width : g = Long * k + s
  OBVIOUS
<1> HIDE DEF g
<1>4. InRecord(g) = k
  BY <1>2, <1>3 DEF InRecord
<1>5. Before(g) = r
  BY <1>1, <1>4 DEF Before, g
<1>6. Nth(g + 1) = <<k + 1, r + 1>>
  BY <1>1, <1>4, <1>5 DEF Nth
<1> QED BY <1>4, <1>5, <1>6 DEF g

LEMMA Place ==
    ASSUME NEW g \in Nat
    PROVE  InRecord(g) \in Nat /\ Before(g) \in 0 .. Width /\ g = Long * InRecord(g) + Before(g)
<1>1. PICK k \in Nat, r \in 0 .. Width : g = Long * k + r
  BY PlaceExists
<1> QED BY <1>1, PlaceIs

LEMMA NthIs == \A g \in Nat : Nth(g + 1) = <<InRecord(g) + 1, Before(g) + 1>>
<1> TAKE g \in Nat
<1>1. g + 1 - 1 = g
  OBVIOUS
<1> QED BY <1>1 DEF Nth

-----------------------------------------------------------------------------
(* Sequences of sequences one behind the other.                            *)

\* What FlattenSeq builds up.
Cat(s, t) == s \o t
IsFlat(g, ss, m) == g = [i \in 1 .. m |-> IF i = 1 THEN ss[i] ELSE Cat(g[i - 1], ss[i])]

LEMMA FlatExists == ASSUME NEW ss, NEW n \in Nat PROVE \E g : IsFlat(g, ss, n)
<1> DEFINE T == {m \in Nat : \E g : IsFlat(g, ss, m)}
<1>1. 0 \in T
  <2>1. IsFlat(<< >>, ss, 0)
    BY DEF IsFlat
  <2> QED BY <2>1
<1>2. ASSUME NEW m \in T PROVE m + 1 \in T
  <2>1. m \in Nat /\ m + 1 \in Nat
    OBVIOUS
  <2>2. PICK g : IsFlat(g, ss, m)
    BY <1>2
  <2> DEFINE h == [i \in 1 .. m + 1 |-> IF i <= m THEN g[i]
                                        ELSE IF i = 1 THEN ss[i] ELSE Cat(g[i - 1], ss[i])]
  <2>3. IsFlat(h, ss, m + 1)
    <3>1. ASSUME NEW i \in 1 .. m + 1 PROVE h[i] = IF i = 1 THEN ss[i] ELSE Cat(h[i - 1], ss[i])
      <4>1. CASE i <= m
        <5>1. i \in 1 .. m /\ (i # 1 => i - 1 \in 1 .. m + 1 /\ i - 1 <= m)
          BY <2>1, <4>1
        <5> QED BY <2>2, <4>1, <5>1 DEF IsFlat
      <4>2. CASE i = m + 1
        <5>1. i # 1 => i - 1 \in 1 .. m + 1 /\ i - 1 <= m
          BY <2>1, <4>2
        <5> QED BY <2>1, <4>2, <5>1
      <4> QED BY <2>1, <4>1, <4>2
    <3> QED BY <3>1 DEF IsFlat
  <2> HIDE DEF h
  <2> QED BY <2>1, <2>3
<1> HIDE DEF T
<1>3. Nat \subseteq T
  BY <1>1, <1>2, NatSetInduction
<1> QED BY <1>3 DEF T

\* It depends on the sequences so far only.
LEMMA FlatAgrees ==
    ASSUME NEW g, NEW h, NEW ss, NEW tt, NEW m \in Nat, NEW n \in Nat, m <= n,
           IsFlat(g, ss, m), IsFlat(h, tt, n), \A i \in 1 .. m : ss[i] = tt[i]
    PROVE  \A i \in 1 .. m : g[i] = h[i]
<1> DEFINE T == {i \in Nat : i \in 1 .. m => g[i] = h[i]}
<1>1. 0 \in T
  OBVIOUS
<1>2. ASSUME NEW i \in T PROVE i + 1 \in T
  <2>1. ASSUME i + 1 \in 1 .. m PROVE g[i + 1] = h[i + 1]
    <3>1. i \in Nat /\ i + 1 \in 1 .. n /\ i + 1 - 1 = i
      BY <2>1
    <3>2. g[i + 1] = (IF i + 1 = 1 THEN ss[i + 1] ELSE Cat(g[i], ss[i + 1]))
      BY <2>1, <3>1 DEF IsFlat
    <3>3. h[i + 1] = (IF i + 1 = 1 THEN tt[i + 1] ELSE Cat(h[i], tt[i + 1]))
      BY <2>1, <3>1 DEF IsFlat
    <3>4. i + 1 # 1 => i \in 1 .. m
      BY <2>1, <3>1
    <3> QED BY <2>1, <3>1, <3>2, <3>3, <3>4
  <2> QED BY <2>1
<1> HIDE DEF T
<1>3. Nat \subseteq T
  BY <1>1, <1>2, NatSetInduction
<1> QED BY <1>3 DEF T

LEMMA FlattenIs ==
    ASSUME NEW ss, NEW n \in Nat, Len(ss) = n, n > 0
    PROVE  \E g : IsFlat(g, ss, n) /\ FlattenSeq(ss) = g[n]
<1> DEFINE f == CHOOSE g : g = [i \in 1 .. n |-> IF i = 1 THEN ss[i] ELSE g[i - 1] \o ss[i]]
<1>1. IsFlat(f, ss, n)
  BY FlatExists DEF IsFlat, Cat
<1>2. FlattenSeq(ss) = f[n]
  BY DEF FlattenSeq
<1> QED BY <1>1, <1>2

LEMMA FlattenAppend ==
    ASSUME NEW T, NEW ss \in Seq(Seq(T)), NEW s \in Seq(T)
    PROVE  FlattenSeq(Append(ss, s)) = FlattenSeq(ss) \o s
<1> DEFINE n == Len(ss)
           tt == Append(ss, s)
<1>1. n \in Nat /\ Len(tt) = n + 1 /\ n + 1 \in Nat /\ n + 1 > 0 /\ tt[n + 1] = s
      /\ \A i \in 1 .. n : tt[i] = ss[i]
  OBVIOUS
<1>5. Len(ss) = n
  OBVIOUS
<1> HIDE DEF tt, n
<1>2. PICK h : IsFlat(h, tt, n + 1) /\ FlattenSeq(tt) = h[n + 1]
  BY <1>1, FlattenIs
<1>3. CASE n = 0
  <2>1. FlattenSeq(ss) = << >>
    BY <1>3, <1>5 DEF FlattenSeq
  <2>2. h[1] = s
    BY <1>1, <1>2, <1>3 DEF IsFlat
  <2> QED BY <1>2, <1>3, <2>1, <2>2 DEF tt
<1>4. CASE n > 0
  <2>1. PICK g : IsFlat(g, ss, n) /\ FlattenSeq(ss) = g[n]
    BY <1>1, <1>4, <1>5, FlattenIs
  <2>2. \A i \in 1 .. n : g[i] = h[i]
    <3>1. PICK k \in Nat : k = n + 1
      BY <1>1
    <3>2. n \in Nat /\ n <= k /\ \A i \in 1 .. n : ss[i] = tt[i]
      BY <1>1, <3>1
    <3>3. IsFlat(h, tt, k)
      BY <1>2, <3>1
    <3> QED BY <2>1, <3>2, <3>3, FlatAgrees
  <2>3. h[n + 1] = Cat(h[n], s)
    <3>1. n + 1 \in 1 .. n + 1 /\ n + 1 # 1 /\ n + 1 - 1 = n
      BY <1>1, <1>4
    <3> QED BY <1>1, <1>2, <3>1 DEF IsFlat
  <2>4. n \in 1 .. n
    BY <1>1, <1>4
  <2> QED BY <1>2, <2>1, <2>2, <2>3, <2>4 DEF tt, Cat
<1> QED BY <1>1, <1>3, <1>4

LEMMA FlattenEmpty == FlattenSeq(<< >>) = << >>
BY DEF FlattenSeq

LEMMA FlattenTyped == ASSUME NEW T PROVE \A ss \in Seq(Seq(T)) : FlattenSeq(ss) \in Seq(T)
<1> SUFFICES ASSUME NEW ss \in Seq(Seq(T)) PROVE FlattenSeq(ss) \in Seq(T)
  OBVIOUS
<1> DEFINE n == Len(ss)
<1>3. n \in Nat /\ Len(ss) = n /\ \A i \in 1 .. n : ss[i] \in Seq(T)
  OBVIOUS
<1> HIDE DEF n
<1>1. CASE n = 0
  BY <1>1, <1>3 DEF FlattenSeq
<1>2. CASE n > 0
  <2>1. PICK g : IsFlat(g, ss, n) /\ FlattenSeq(ss) = g[n]
    BY <1>2, <1>3, FlattenIs
  <2> DEFINE S == {i \in Nat : i \in 1 .. n => g[i] \in Seq(T)}
  <2>2. 0 \in S
    OBVIOUS
  <2>3. ASSUME NEW i \in S PROVE i + 1 \in S
    <3>1. ASSUME i + 1 \in 1 .. n PROVE g[i + 1] \in Seq(T)
      <4>1. g[i + 1] = (IF i + 1 = 1 THEN ss[i + 1] ELSE Cat(g[i], ss[i + 1])) /\ ss[i + 1] \in Seq(T)
        <5>1. i \in Nat /\ i + 1 - 1 = i
          OBVIOUS
        <5> QED BY <1>3, <2>1, <3>1, <5>1 DEF IsFlat
      <4>2. i + 1 # 1 => g[i] \in Seq(T)
        <5>1. i \in Nat /\ (i \in 1 .. n => g[i] \in Seq(T))
          OBVIOUS
        <5>2. i \in Nat /\ i + 1 # 1 => i \in 1 .. n
          BY <1>3, <3>1
        <5> QED BY <5>1, <5>2
      <4> QED BY <4>1, <4>2 DEF Cat
    <3> QED BY <3>1
  <2> HIDE DEF S
  <2>4. Nat \subseteq S
    BY <2>2, <2>3, NatSetInduction
  <2> QED BY <1>2, <1>3, <2>1, <2>4 DEF S
<1> QED BY <1>1, <1>2, <1>3

-----------------------------------------------------------------------------
(* Parts of a record.                                                      *)

Letter == Nat \X Nat

IsPart(s, k, a, n) ==
    s \in Seq(Letter) /\ Len(s) = n /\ \A j \in 1 .. n : s[j] = <<k, a + j>>

LEMMA PartIs ==
    ASSUME NEW k \in Nat, NEW a \in Nat, NEW n \in Nat
    PROVE  IsPart(Part(k, a, n), k, a, n)
<1>1. \A j \in 1 .. n : <<k, a + j>> \in Letter
  BY DEF Letter
<1> QED BY <1>1 DEF Part, IsPart

LEMMA PartsEqual ==
    ASSUME NEW s, NEW t, NEW k, NEW a, NEW n, IsPart(s, k, a, n), IsPart(t, k, a, n)
    PROVE  s = t
<1>1. /\ s \in Seq(Letter) /\ t \in Seq(Letter) /\ Len(s) = Len(t)
      /\ \A j \in 1 .. Len(s) : s[j] = t[j]
  BY DEF IsPart
<1> QED BY <1>1, SeqEqual

LEMMA PartGrows ==
    ASSUME NEW k \in Nat, NEW a \in Nat, NEW n \in Nat, NEW s, IsPart(s, k, a, n)
    PROVE  IsPart(Append(s, <<k, a + (n + 1)>>), k, a, n + 1)
<1> DEFINE l == <<k, a + (n + 1)>>
           t == Append(s, l)
<1>1. s \in Seq(Letter) /\ Len(s) = n /\ \A j \in 1 .. n : s[j] = <<k, a + j>>
  BY DEF IsPart
<1>2. l \in Letter
  BY DEF Letter
<1> HIDE DEF l
<1>3. t \in Seq(Letter) /\ Len(t) = n + 1 /\ t[n + 1] = l /\ \A j \in 1 .. n : t[j] = s[j]
  BY <1>1, <1>2
<1> HIDE DEF t
<1>4. ASSUME NEW j \in 1 .. n + 1 PROVE t[j] = <<k, a + j>>
  <2>1. CASE j \in 1 .. n
    BY <1>1, <1>3, <2>1
  <2>2. CASE j = n + 1
    BY <1>3, <2>2 DEF l
  <2> QED BY <2>1, <2>2
<1> QED BY <1>3, <1>4 DEF IsPart, t, l

LEMMA PartJoined ==
    ASSUME NEW k \in Nat, NEW a \in Nat, NEW n \in Nat, NEW m \in Nat, NEW s, NEW t,
           IsPart(s, k, a, n), IsPart(t, k, a + n, m)
    PROVE  IsPart(s \o t, k, a, n + m)
<1> DEFINE u == s \o t
<1>1. s \in Seq(Letter) /\ Len(s) = n /\ \A j \in 1 .. n : s[j] = <<k, a + j>>
  BY DEF IsPart
<1>2. t \in Seq(Letter) /\ Len(t) = m /\ \A j \in 1 .. m : t[j] = <<k, a + n + j>>
  BY DEF IsPart
<1>3. /\ u \in Seq(Letter) /\ Len(u) = n + m
      /\ \A j \in 1 .. n + m : u[j] = IF j <= n THEN s[j] ELSE t[j - n]
  BY <1>1, <1>2, ConcatProperties
<1> HIDE DEF u
<1>4. ASSUME NEW j \in 1 .. n + m PROVE u[j] = <<k, a + j>>
  <2>1. CASE j <= n
    <3>1. j \in 1 .. n
      BY <2>1
    <3> QED BY <1>1, <1>3, <2>1, <3>1
  <2>2. CASE j > n
    <3>1. PICK i \in 1 .. m : i = j - n /\ a + n + i = a + j /\ ~ j <= n
      BY <2>2
    <3> QED BY <1>2, <1>3, <3>1
  <2> QED BY <2>1, <2>2
<1> QED BY <1>3, <1>4 DEF IsPart, u

LEMMA RecordIs ==
    ASSUME NEW k \in Nat
    PROVE  /\ IsPart(Record(k), k, 0, Width) /\ IsPart(Letters(k), k, 0, Long)
           /\ Record(k) \in Seq(Letter) /\ Record(k)[1] = <<k, 1>> /\ Record(k)[1][1] = k
<1>1. Letters(k) \in Seq(Letter) /\ Len(Letters(k)) = Long /\ \A j \in 1 .. Long : Letters(k)[j] = <<k, j>>
  BY LongIs DEF Letters, Long, Letter
<1>2. /\ Record(k) \in Seq(Letter) /\ Len(Record(k)) = Width
      /\ \A j \in 1 .. Width : Record(k)[j] = <<k, j>>
  <2>1. 1 \in 1 .. Long /\ Width \in 1 .. Long /\ \A i \in 1 .. Width : i \in 1 .. Long
    BY LongIs
  <2> QED BY <1>1, <2>1, LongIs DEF Record
<1>3. 1 \in 1 .. Width /\ Long \in Nat /\ Width \in Nat
  BY LongIs
<1>4. \A j \in Nat : 0 + j = j
  OBVIOUS
<1>5. IsPart(Letters(k), k, 0, Long)
  BY <1>1, <1>3, <1>4 DEF IsPart
<1>6. IsPart(Record(k), k, 0, Width)
  BY <1>2, <1>3, <1>4 DEF IsPart
<1> QED BY <1>2, <1>3, <1>5, <1>6

-----------------------------------------------------------------------------
(* split.                                                                  *)

Cut1(fields, l) ==
    IF IsAt(l) THEN Append(fields, << >>) ELSE [fields EXCEPT ![Len(fields)] = Append(@, l)]
IsCut(c, s, n) == c = [i \in 0 .. n |-> IF i = 0 THEN << << >> >> ELSE Cut1(c[i - 1], s[i])]

LEMMA CutExists == ASSUME NEW s, NEW n \in Nat PROVE \E c : IsCut(c, s, n)
<1> DEFINE T == {m \in Nat : \E c : IsCut(c, s, m)}
<1>1. 0 \in T
  <2>1. IsCut([i \in 0 .. 0 |-> << << >> >>], s, 0)
    BY DEF IsCut
  <2> QED BY <2>1
<1>2. ASSUME NEW m \in T PROVE m + 1 \in T
  <2>1. m \in Nat /\ m + 1 \in Nat
    OBVIOUS
  <2>2. PICK c : IsCut(c, s, m)
    BY <1>2
  <2> DEFINE v == Cut1(c[m], s[m + 1])
             h == [i \in 0 .. m + 1 |-> IF i <= m THEN c[i] ELSE v]
  <2>3. IsCut(h, s, m + 1)
    <3>1. ASSUME NEW i \in 0 .. m + 1
          PROVE  h[i] = IF i = 0 THEN << << >> >> ELSE Cut1(h[i - 1], s[i])
      <4>1. CASE i = 0
        BY <2>1, <2>2, <4>1 DEF IsCut
      <4>2. CASE i \in 1 .. m
        <5>1. i \in 0 .. m /\ i # 0 /\ i - 1 \in 0 .. m + 1 /\ i <= m /\ i - 1 <= m
          BY <2>1, <4>2
        <5>2. h[i] = c[i] /\ h[i - 1] = c[i - 1]
          BY <5>1
        <5>3. c[i] = Cut1(c[i - 1], s[i])
          BY <2>2, <5>1 DEF IsCut
        <5> HIDE DEF h
        <5> QED BY <5>1, <5>2, <5>3
      <4>3. CASE i = m + 1
        <5>1. i # 0 /\ i - 1 = m /\ m \in 0 .. m + 1 /\ ~ i <= m /\ m <= m
          BY <2>1, <4>3
        <5>2. h[i] = v /\ h[m] = c[m]
          BY <5>1
        <5> HIDE DEF h
        <5> QED BY <4>3, <5>1, <5>2
      <4> QED BY <2>1, <4>1, <4>2, <4>3
    <3> QED BY <3>1 DEF IsCut
  <2> HIDE DEF h
  <2> QED BY <2>1, <2>3
<1> HIDE DEF T
<1>3. Nat \subseteq T
  BY <1>1, <1>2, NatSetInduction
<1> QED BY <1>3 DEF T

LEMMA CutIs ==
    ASSUME NEW c, NEW s, NEW n \in Nat, IsCut(c, s, n)
    PROVE  c[0] = << << >> >> /\ \A i \in 0 .. n : i + 1 \in 0 .. n => c[i + 1] = Cut1(c[i], s[i + 1])
<1>1. c[0] = << << >> >>
  BY DEF IsCut
<1>2. ASSUME NEW i \in 0 .. n, i + 1 \in 0 .. n PROVE c[i + 1] = Cut1(c[i], s[i + 1])
  <2>1. i + 1 # 0 /\ i + 1 - 1 = i
    OBVIOUS
  <2> QED BY <1>2, <2>1 DEF IsCut
<1> QED BY <1>1, <1>2

Full(all) == {j \in DOMAIN all : all[j] # << >>}

LEMMA SplitIs ==
    ASSUME NEW s, NEW n \in Nat, Len(s) = n
    PROVE  \E c : IsCut(c, s, n) /\ split(s) = SubSeq(c[n], 1, Max({0} \cup Full(c[n])))
<1> DEFINE f == CHOOSE c : c = [i \in 0 .. n |->
                IF i = 0 THEN << << >> >>
                ELSE IF IsAt(s[i]) THEN Append(c[i - 1], << >>)
                     ELSE [c[i - 1] EXCEPT ![Len(c[i - 1])] = Append(@, s[i])]]
<1>1. IsCut(f, s, n)
  BY CutExists DEF IsCut, Cut1
<1>2. split(s) = SubSeq(f[n], 1, Max({0} \cup Full(f[n])))
  BY DEF split, Full
<1> QED BY <1>1, <1>2

\* What the fields of letters of the line are: the first begins at letter r0
\* of record k0 + 1, the last ends at letter r of record k0 + m + 1.
Pieces(fs, k0, r0, m, r) ==
    /\ fs \in Seq(Seq(Letter)) /\ Len(fs) = m + 1
    /\ \A j \in 1 .. m + 1 :
          LET a == IF j = 1 THEN r0 ELSE 0
              h == IF j = m + 1 THEN r ELSE Width
          IN  IsPart(fs[j], k0 + j, a, h - a)

LEMMA PieceEnds ==
    ASSUME NEW k0 \in Nat, NEW r0 \in 0 .. Width, NEW m \in Nat, NEW fs,
           Pieces(fs, k0, r0, m, Width)
    PROVE  Pieces(Append(fs, << >>), k0, r0, m + 1, 0)
<1> DEFINE gs == Append(fs, << >>)
<1>1. fs \in Seq(Seq(Letter)) /\ Len(fs) = m + 1 /\ << >> \in Seq(Letter)
  BY DEF Pieces
<1>2. /\ gs \in Seq(Seq(Letter)) /\ Len(gs) = m + 1 + 1 /\ gs[m + 1 + 1] = << >>
      /\ \A j \in 1 .. m + 1 : gs[j] = fs[j]
  BY <1>1
<1> HIDE DEF gs
<1>3. ASSUME NEW j \in 1 .. m + 1 + 1
      PROVE  LET a == IF j = 1 THEN r0 ELSE 0
                 h == IF j = m + 1 + 1 THEN 0 ELSE Width
             IN  IsPart(gs[j], k0 + j, a, h - a)
  <2>1. CASE j \in 1 .. m + 1
    <3>1. j # m + 1 + 1 /\ gs[j] = fs[j]
      BY <1>2, <2>1
    <3>2. IsPart(fs[j], k0 + j, IF j = 1 THEN r0 ELSE 0, Width - IF j = 1 THEN r0 ELSE 0)
      BY <2>1 DEF Pieces
    <3> QED BY <3>1, <3>2
  <2>2. CASE j = m + 1 + 1
    <3>1. j # 1 /\ gs[j] = << >> /\ 0 - 0 = 0
      BY <1>2, <2>2
    <3>2. IsPart(<< >>, k0 + j, 0, 0)
      BY DEF IsPart
    <3> QED BY <2>2, <3>1, <3>2
  <2> QED BY <2>1, <2>2
<1> QED BY <1>2, <1>3 DEF Pieces, gs

LEMMA PieceGrows ==
    ASSUME NEW k0 \in Nat, NEW r0 \in 0 .. Width, NEW m \in Nat, NEW r \in Nat, NEW fs,
           Pieces(fs, k0, r0, m, r), m = 0 => r0 <= r
    PROVE  Pieces([fs EXCEPT ![Len(fs)] = Append(@, <<k0 + (m + 1), r + 1>>)], k0, r0, m, r + 1)
<1> DEFINE l == <<k0 + (m + 1), r + 1>>
           a == IF m = 0 THEN r0 ELSE 0
           e == Append(fs[m + 1], l)
           gs == [fs EXCEPT ![m + 1] = e]
<1>1. fs \in Seq(Seq(Letter)) /\ Len(fs) = m + 1 /\ m + 1 \in 1 .. m + 1
  BY DEF Pieces
<1>2. r0 \in Nat /\ a \in Nat /\ r - a \in Nat /\ a + ((r - a) + 1) = r + 1 /\ (r - a) + 1 = (r + 1) - a /\ k0 + (m + 1) \in Nat
      /\ (m + 1 = 1 <=> m = 0)
  BY LongIs
<1>3. IsPart(fs[m + 1], k0 + (m + 1), a, r - a)
  BY <1>1, <1>2 DEF Pieces
<1> HIDE DEF a
<1>4. IsPart(Append(fs[m + 1], <<k0 + (m + 1), a + ((r - a) + 1)>>), k0 + (m + 1), a, (r - a) + 1)
  BY <1>2, <1>3, PartGrows
<1>5. IsPart(e, k0 + (m + 1), a, (r + 1) - a)
  BY <1>2, <1>4
<1>6. e \in Seq(Letter)
  BY <1>5 DEF IsPart
<1> HIDE DEF e
<1>7. gs \in Seq(Seq(Letter)) /\ Len(gs) = m + 1 /\ gs[m + 1] = e
      /\ \A j \in 1 .. m + 1 : j # m + 1 => gs[j] = fs[j]
  BY <1>1, <1>6
<1> HIDE DEF gs
<1>8. ASSUME NEW j \in 1 .. m + 1
      PROVE  LET b == IF j = 1 THEN r0 ELSE 0
                 h == IF j = m + 1 THEN r + 1 ELSE Width
             IN  IsPart(gs[j], k0 + j, b, h - b)
  <2>1. CASE j = m + 1
    BY <1>2, <1>5, <1>7, <2>1 DEF a
  <2>2. CASE j # m + 1
    <3>1. IsPart(fs[j], k0 + j, IF j = 1 THEN r0 ELSE 0, Width - IF j = 1 THEN r0 ELSE 0)
      BY <2>2 DEF Pieces
    <3> QED BY <1>7, <2>2, <3>1
  <2> QED BY <2>1, <2>2
<1>9. Pieces(gs, k0, r0, m, r + 1)
  BY <1>7, <1>8 DEF Pieces
<1>10. [fs EXCEPT ![Len(fs)] = Append(@, l)] = gs
  BY <1>1 DEF gs, e
<1> QED BY <1>9, <1>10

LEMMA CutPieces ==
    ASSUME NEW k0 \in Nat, NEW r0 \in 0 .. Width, NEW s, NEW n \in Nat, NEW c, IsCut(c, s, n),
           \A i \in 1 .. n : s[i] = Nth(Long * k0 + r0 + i)
    PROVE  \A i \in 0 .. n : \E m \in Nat, r \in 0 .. Width :
              /\ Long * k0 + r0 + i = Long * (k0 + m) + r /\ (m = 0 => r0 <= r)
              /\ Pieces(c[i], k0, r0, m, r)
<1> DEFINE Reached(i, m, r) == /\ Long * k0 + r0 + i = Long * (k0 + m) + r /\ (m = 0 => r0 <= r)
                               /\ Pieces(c[i], k0, r0, m, r)
           T == {i \in Nat : i <= n => \E m \in Nat, r \in 0 .. Width : Reached(i, m, r)}
<1>0. Long * k0 \in Nat /\ Width \in Nat /\ Long \in Nat /\ Long = Width + 1
  BY Times, LongIs DEF Long
<1>1. 0 \in T
  <2>1. Long * k0 + r0 + 0 = Long * (k0 + 0) + r0
    BY <1>0
  <2>2. Pieces(<< << >> >>, k0, r0, 0, r0)
    <3>1. IsPart(<< >>, k0 + 1, r0, 0)
      BY DEF IsPart
    <3>2. r0 - r0 = 0 /\ 0 + 1 = 1
      BY <1>0
    <3>3. << << >> >> \in Seq(Seq(Letter)) /\ Len(<< << >> >>) = 1 /\ << << >> >>[1] = << >>
      OBVIOUS
    <3> QED BY <3>1, <3>2, <3>3 DEF Pieces
  <2>3. c[0] = << << >> >>
    BY CutIs
  <2>4. Reached(0, 0, r0)
    BY <2>1, <2>2, <2>3
  <2> HIDE DEF Reached
  <2> QED BY <2>4
<1>2. ASSUME NEW i \in T PROVE i + 1 \in T
  <2>1. ASSUME i + 1 <= n PROVE \E m \in Nat, r \in 0 .. Width : Reached(i + 1, m, r)
    <3>1. i \in Nat /\ i \in 0 .. n /\ i + 1 \in 0 .. n /\ i + 1 \in 1 .. n
      BY <2>1
    <3>2. PICK m \in Nat, r \in 0 .. Width : Reached(i, m, r)
      BY <2>1, <3>1
    <3>3. Long * (k0 + m) \in Nat /\ k0 + m \in Nat /\ Long * (k0 + m + 1) = Long * (k0 + m) + Long
      BY Times, TimesNext
    <3>4. Long * k0 + r0 + (i + 1) = Long * (k0 + m) + r + 1
      BY <1>0, <3>1, <3>2, <3>3
    <3>5. s[i + 1] = <<k0 + m + 1, r + 1>>
      BY <3>1, <3>3, <3>4, PlaceIs
    <3>6. c[i + 1] = Cut1(c[i], s[i + 1])
      BY <3>1, CutIs
    <3>7. IsAt(s[i + 1]) <=> r = Width
      BY <1>0, <3>5 DEF IsAt
    <3>8. k0 + m + 1 = k0 + (m + 1)
      OBVIOUS
    <3>9. CASE r = Width
      <4>1. c[i + 1] = Append(c[i], << >>)
        BY <3>6, <3>7, <3>9 DEF Cut1
      <4>2. Pieces(c[i + 1], k0, r0, m + 1, 0)
        BY <3>2, <3>9, <4>1, PieceEnds
      <4>3. Long * k0 + r0 + (i + 1) = Long * (k0 + (m + 1)) + 0
        BY <1>0, <3>3, <3>4, <3>8, <3>9
      <4>4. m + 1 \in Nat /\ 0 \in 0 .. Width /\ m + 1 # 0
        BY <1>0
      <4>5. Reached(i + 1, m + 1, 0)
        BY <4>2, <4>3, <4>4
      <4> HIDE DEF Reached
      <4> QED BY <4>4, <4>5
    <3>10. CASE r # Width
      <4>1. c[i + 1] = [c[i] EXCEPT ![Len(c[i])] = Append(@, <<k0 + (m + 1), r + 1>>)]
        BY <3>5, <3>6, <3>7, <3>8, <3>10 DEF Cut1
      <4>2. Pieces(c[i + 1], k0, r0, m, r + 1)
        <5>1. r \in Nat /\ (m = 0 => r0 <= r) /\ Pieces(c[i], k0, r0, m, r)
          BY <1>0, <3>2
        <5>2. Pieces([c[i] EXCEPT ![Len(c[i])] = Append(@, <<k0 + (m + 1), r + 1>>)], k0, r0, m, r + 1)
          BY <5>1, PieceGrows
        <5> QED BY <4>1, <5>2, Zenon
      <4>3. r + 1 \in 0 .. Width /\ Long * (k0 + m) + r + 1 = Long * (k0 + m) + (r + 1)
        BY <1>0, <3>3, <3>10
      <4>4. m = 0 => r0 <= r + 1
        BY <1>0, <3>2
      <4>5. Reached(i + 1, m, r + 1)
        BY <3>4, <4>2, <4>3, <4>4
      <4> HIDE DEF Reached
      <4> QED BY <4>3, <4>5
    <3> QED BY <3>9, <3>10
  <2> HIDE DEF Reached
  <2> QED BY <2>1
<1> HIDE DEF T
<1>3. Nat \subseteq T
  BY <1>1, <1>2, NatSetInduction
<1> QED BY <1>3 DEF T

\* split keeps all fields but a last empty one.
LEMMA SplitPieces ==
    ASSUME NEW k0 \in Nat, NEW r0 \in 0 .. Width - 1, NEW s, NEW n \in Nat, Len(s) = n, n > 0,
           \A i \in 1 .. n : s[i] = Nth(Long * k0 + r0 + i)
    PROVE  \E m \in Nat, r \in 0 .. Width :
              /\ Long * k0 + r0 + n = Long * (k0 + m) + r
              /\ IF r = 0 THEN m > 0 /\ Pieces(split(s), k0, r0, m - 1, Width)
                          ELSE Pieces(split(s), k0, r0, m, r) /\ (m = 0 => r0 < r)
<1>0. Width \in Nat /\ r0 \in 0 .. Width /\ Long * k0 \in Nat
  BY LongIs, Times
<1>1. PICK c : IsCut(c, s, n) /\ split(s) = SubSeq(c[n], 1, Max({0} \cup Full(c[n])))
  BY SplitIs
<1>2. PICK m \in Nat, r \in 0 .. Width :
         /\ Long * k0 + r0 + n = Long * (k0 + m) + r /\ (m = 0 => r0 <= r)
         /\ Pieces(c[n], k0, r0, m, r)
  <2>1. n \in 0 .. n
    OBVIOUS
  <2> QED BY <1>0, <1>1, <2>1, CutPieces
<1>3. m = 0 => r0 < r
  <2>1. ASSUME m = 0 PROVE r0 < r
    <3>1. k0 + m = k0
      BY <2>1
    <3> QED BY <1>0, <1>2, <3>1
  <2> QED BY <2>1
<1>4. r = 0 => m > 0
  BY <1>0, <1>3
<1> DEFINE all == c[n]
           last == IF r = 0 THEN m ELSE m + 1
<1>5. all \in Seq(Seq(Letter)) /\ Len(all) = m + 1 /\ DOMAIN all = 1 .. m + 1
  BY <1>2 DEF Pieces
<1>6. last \in 1 .. m + 1
  BY <1>4
<1>7. ASSUME NEW j \in 1 .. m + 1 PROVE all[j] # << >> <=> (IF j = m + 1 THEN r # 0 ELSE TRUE)
  <2> DEFINE a == IF j = 1 THEN r0 ELSE 0
             h == IF j = m + 1 THEN r ELSE Width
  <2>1. IsPart(all[j], k0 + j, a, h - a)
    BY <1>2 DEF Pieces
  <2>2. all[j] \in Seq(Letter) /\ Len(all[j]) = h - a
    BY <2>1 DEF IsPart
  <2>3. h - a # 0 <=> (IF j = m + 1 THEN r # 0 ELSE TRUE)
    <3>1. CASE j = m + 1 /\ j = 1
      BY <1>0, <1>3, <3>1
    <3>2. CASE j = m + 1 /\ j # 1
      BY <3>2
    <3>3. CASE j # m + 1
      BY <1>0, LongIs, <3>3
    <3> QED BY <3>1, <3>2, <3>3
  <2>4. all[j] # << >> <=> Len(all[j]) # 0
    BY <2>2, EmptySeq
  <2> QED BY <2>2, <2>3, <2>4
<1> HIDE DEF all
<1>8. Full(all) = {j \in 1 .. m + 1 : j # m + 1 \/ r # 0}
  BY <1>5, <1>7 DEF Full
<1>9. Max({0} \cup Full(all)) = last
  <2> DEFINE S == {0} \cup Full(all)
  <2>1. last \in S /\ \A y \in S : last >= y
    BY <1>6, <1>8
  <2>2. \A x \in S : x \in Nat
    BY <1>8
  <2> HIDE DEF S
  <2>3. \A x \in S : (\A y \in S : x >= y) => x = last
    BY <2>1, <2>2
  <2>4. Max(S) = last
    BY <2>1, <2>3 DEF Max
  <2> QED BY <2>4 DEF S
<1>10. split(s) = SubSeq(all, 1, last)
  BY <1>1, <1>9 DEF all
<1>11. CASE r # 0
  <2>1. split(s) = all
    BY <1>5, <1>10, <1>11, SubSeqFull
  <2> QED BY <1>2, <1>3, <1>11, <2>1 DEF all
<1>12. CASE r = 0
  <2> DEFINE fs == SubSeq(all, 1, m)
  <2>1. /\ fs \in Seq(Seq(Letter)) /\ Len(fs) = m /\ \A j \in 1 .. m : fs[j] = all[j]
    <3>1. m \in 1 .. m + 1 /\ m > 0
      BY <1>4, <1>12
    <3> HIDE DEF fs
    <3> QED BY <1>5, <3>1 DEF fs
  <2> HIDE DEF fs
  <2>2. m - 1 \in Nat /\ m - 1 + 1 = m
    BY <1>4, <1>12
  <2>3. ASSUME NEW j \in 1 .. m
        PROVE  IsPart(fs[j], k0 + j, IF j = 1 THEN r0 ELSE 0, Width - IF j = 1 THEN r0 ELSE 0)
    <3>1. j \in 1 .. m + 1 /\ j # m + 1
      OBVIOUS
    <3>2. IsPart(c[n][j], k0 + j, IF j = 1 THEN r0 ELSE 0, Width - IF j = 1 THEN r0 ELSE 0)
      BY <1>2, <3>1 DEF Pieces
    <3> QED BY <2>1, <3>2 DEF all
  <2>4. Pieces(fs, k0, r0, m - 1, Width)
    BY <2>1, <2>2, <2>3 DEF Pieces
  <2>5. split(s) = fs
    BY <1>10, <1>12 DEF fs
  <2> QED BY <1>2, <1>4, <1>12, <2>4, <2>5
<1> QED BY <1>11, <1>12

-----------------------------------------------------------------------------
(* makeSerial.                                                             *)

LEMMA PiecesJoined ==
    ASSUME NEW k0 \in Nat, NEW r0 \in 0 .. Width, NEW m \in Nat, NEW r \in 0 .. Width, NEW fs, NEW rs,
           Pieces(fs, k0, r0, m, r), m = 0 => r0 <= r, IsPart(rs, k0 + 1, 0, r0)
    PROVE  Pieces([fs EXCEPT ![1] = rs \o @], k0, 0, m, r)
<1> DEFINE h == IF m = 0 THEN r ELSE Width
           e == rs \o fs[1]
           gs == [fs EXCEPT ![1] = e]
<1>1. fs \in Seq(Seq(Letter)) /\ Len(fs) = m + 1 /\ 1 \in 1 .. m + 1 /\ k0 + 1 \in Nat
  BY DEF Pieces
<1>2. h \in Nat /\ r0 \in Nat /\ h - r0 \in Nat /\ 0 + r0 = r0 /\ r0 + (h - r0) = h - 0
      /\ (1 = m + 1 <=> m = 0)
  BY LongIs
<1>3. IsPart(fs[1], k0 + 1, r0, h - r0)
  <2>1. IsPart(fs[1], k0 + 1, r0, (IF 1 = m + 1 THEN r ELSE Width) - r0)
    BY <1>1 DEF Pieces
  <2> QED BY <1>2, <2>1
<1> HIDE DEF h
<1>4. IsPart(e, k0 + 1, 0, r0 + (h - r0))
  <2>1. IsPart(fs[1], k0 + 1, 0 + r0, h - r0) /\ 0 \in Nat
    BY <1>2, <1>3
  <2> QED BY <1>1, <1>2, <2>1, PartJoined
<1>5. e \in Seq(Letter)
  BY <1>4 DEF IsPart
<1> HIDE DEF e
<1>6. gs \in Seq(Seq(Letter)) /\ Len(gs) = m + 1 /\ gs[1] = e
      /\ \A j \in 1 .. m + 1 : j # 1 => gs[j] = fs[j]
  BY <1>1, <1>5
<1>7. [fs EXCEPT ![1] = rs \o @] = gs
  BY DEF e
<1> HIDE DEF gs
<1>8. ASSUME NEW j \in 1 .. m + 1
      PROVE  LET b == IF j = 1 THEN 0 ELSE 0
                 t == IF j = m + 1 THEN r ELSE Width
             IN  IsPart(gs[j], k0 + j, b, t - b)
  <2>1. CASE j = 1
    <3>1. IsPart(gs[1], k0 + 1, 0, h - 0)
      BY <1>2, <1>4, <1>6
    <3>2. h = (IF 1 = m + 1 THEN r ELSE Width)
      BY <1>2 DEF h
    <3> QED BY <2>1, <3>1, <3>2
  <2>2. CASE j # 1
    <3>1. IsPart(fs[j], k0 + j, 0, (IF j = m + 1 THEN r ELSE Width) - 0)
      BY <2>2 DEF Pieces
    <3> QED BY <1>6, <2>2, <3>1
  <2> QED BY <2>1, <2>2
<1> QED BY <1>6, <1>7, <1>8 DEF Pieces

\* The records a + 1 to a + n.
Records(s, a, n) == s \in Seq(Seq(Letter)) /\ Len(s) = n /\ \A i \in 1 .. n : s[i] = Record(a + i)

\* From the beginning of a record on, makeSerial returns the records that have
\* come to their last letter, and keeps what there is of the next one.
GoesOn(data, k0, r0, n) ==
    /\ Len(data) = n /\ n > 0 /\ \A i \in 1 .. n : data[i] = Nth(Long * k0 + r0 + i)
    /\ IsPart(readString, k0 + 1, 0, r0)

Serial(res, k0, r0, n) ==
    \E m \in Nat, r \in 0 .. Width :
       /\ Long * k0 + r0 + n = Long * (k0 + m) + r
       /\ Records(res.resList, k0, IF r = Width THEN m + 1 ELSE m)
       /\ IsPart(res.readString, k0 + m + 1, 0, IF r = Width THEN 0 ELSE r)

LEMMA SerialRecords ==
    ASSUME NEW k0 \in Nat, NEW r0 \in 0 .. Width - 1, NEW data, NEW n \in Nat, GoesOn(data, k0, r0, n)
    PROVE  Serial(makeSerial(data), k0, r0, n)
<1> SUFFICES \E m \in Nat, r \in 0 .. Width :
                /\ Long * k0 + r0 + n = Long * (k0 + m) + r
                /\ Records(makeSerial(data).resList, k0, IF r = Width THEN m + 1 ELSE m)
                /\ IsPart(makeSerial(data).readString, k0 + m + 1, 0, IF r = Width THEN 0 ELSE r)
  BY DEF Serial
<1>00. /\ Len(data) = n /\ n > 0 /\ \A i \in 1 .. n : data[i] = Nth(Long * k0 + r0 + i)
       /\ IsPart(readString, k0 + 1, 0, r0)
  BY DEF GoesOn
<1>0. Width \in Nat /\ Width >= 2 /\ r0 \in 0 .. Width
  BY LongIs
<1>1. PICK m \in Nat, r \in 0 .. Width :
         /\ Long * k0 + r0 + n = Long * (k0 + m) + r
         /\ IF r = 0 THEN m > 0 /\ Pieces(split(data), k0, r0, m - 1, Width)
                     ELSE Pieces(split(data), k0, r0, m, r) /\ (m = 0 => r0 < r)
  BY <1>00, SplitPieces
<1> DEFINE fields == split(data)
           pieces == [fields EXCEPT ![1] = readString \o @]
           rest   == pieces[Len(pieces)]
           whole  == Len(rest) >= Width
<1>2. PICK M \in Nat, R \in 1 .. Width :
         /\ Pieces(fields, k0, r0, M, R) /\ (M = 0 => r0 <= R)
         /\ IF r = 0 THEN m = M + 1 /\ R = Width ELSE m = M /\ r = R
  <2>1. CASE r = 0
    <3>1. m - 1 \in Nat /\ Width \in 1 .. Width /\ m = m - 1 + 1 /\ r0 <= Width
      BY <1>0, <1>1, <2>1
    <3> QED BY <1>1, <2>1, <3>1
  <2>2. CASE r # 0
    <3>1. r \in 1 .. Width /\ (m = 0 => r0 <= r)
      BY <1>0, <1>1, <2>2
    <3> QED BY <1>1, <2>2, <3>1
  <2> QED BY <2>1, <2>2
<1>3. Pieces(pieces, k0, 0, M, R)
  <2>1. R \in 0 .. Width
    BY <1>0
  <2> QED BY <1>0, <1>00, <1>2, <2>1, PiecesJoined
<1>4. ~ ((readString = << >> /\ ~IsR(data[1])) \/ fields = << >>)
  <2>1. Long * k0 + r0 + 1 = Long * k0 + r0 + 1 /\ 1 \in 1 .. n
    BY <1>00
  <2>2. data[1] = <<k0 + 1, r0 + 1>>
    BY <1>0, <1>00, <2>1, PlaceIs
  <2>3. readString = << >> => r0 = 0
    BY <1>0, <1>00 DEF IsPart
  <2>4. readString = << >> => IsR(data[1])
    BY <1>0, <2>2, <2>3 DEF IsR
  <2>5. Len(fields) = M + 1
    BY <1>2 DEF Pieces
  <2>6. fields # << >>
    BY <2>5
  <2> QED BY <2>4, <2>6
<1>5. /\ makeSerial(data).resList = IF whole THEN pieces ELSE Front(pieces)
      /\ makeSerial(data).readString = IF whole THEN << >> ELSE rest
  <2> HIDE DEF whole, rest, pieces, fields
  <2>1. makeSerial(data) = [resList    |-> IF whole THEN pieces ELSE Front(pieces),
                           readString |-> IF whole THEN << >> ELSE rest]
    BY <1>4 DEF makeSerial, whole, rest, pieces, fields
  <2> QED BY <2>1
<1> HIDE DEF fields, pieces
<1>6. /\ pieces \in Seq(Seq(Letter)) /\ Len(pieces) = M + 1
      /\ \A j \in 1 .. M + 1 : IsPart(pieces[j], k0 + j, 0, IF j = M + 1 THEN R ELSE Width)
  <2>1. ASSUME NEW j \in 1 .. M + 1 PROVE IsPart(pieces[j], k0 + j, 0, IF j = M + 1 THEN R ELSE Width)
    <3>1. IsPart(pieces[j], k0 + j, 0, (IF j = M + 1 THEN R ELSE Width) - 0)
      BY <1>3 DEF Pieces
    <3>2. (IF j = M + 1 THEN R ELSE Width) - 0 = IF j = M + 1 THEN R ELSE Width
      BY <1>0
    <3> QED BY <3>1, <3>2
  <2> QED BY <1>3, <2>1 DEF Pieces
<1>7. IsPart(rest, k0 + (M + 1), 0, R)
  BY <1>6
<1>8. whole <=> R = Width
  <2>1. Len(rest) = R
    BY <1>7 DEF IsPart
  <2> HIDE DEF rest
  <2> QED BY <1>0, <2>1
<1> HIDE DEF rest, whole
<1>9. \A j \in 1 .. M + 1 : (j = M + 1 => R = Width) => pieces[j] = Record(k0 + j)
  <2>1. ASSUME NEW j \in 1 .. M + 1, j = M + 1 => R = Width PROVE pieces[j] = Record(k0 + j)
    <3>1. IsPart(pieces[j], k0 + j, 0, Width)
      BY <1>6, <2>1
    <3>2. IsPart(Record(k0 + j), k0 + j, 0, Width)
      BY RecordIs
    <3> QED BY <3>1, <3>2, PartsEqual
  <2> QED BY <2>1
<1>10. CASE R = Width
  <2>1. Records(pieces, k0, M + 1)
    BY <1>6, <1>9, <1>10 DEF Records
  <2>2. IsPart(<< >>, k0 + m + 1, 0, 0)
    BY DEF IsPart
  <2>3. r = 0 \/ r = Width
    BY <1>2, <1>10
  <2>4. (IF r = Width THEN m + 1 ELSE m) = M + 1 /\ (IF r = Width THEN 0 ELSE r) = 0
    BY <1>0, <1>2, <1>10, <2>3
  <2> QED BY <1>1, <1>5, <1>8, <1>10, <2>1, <2>2, <2>4
<1>11. CASE R # Width
  <2>1. r # 0 /\ m = M /\ r = R /\ r # Width
    BY <1>2, <1>11
  <2>2. Front(pieces) = SubSeq(pieces, 1, M)
    BY <1>6 DEF Front
  <2>3. /\ SubSeq(pieces, 1, M) \in Seq(Seq(Letter)) /\ Len(SubSeq(pieces, 1, M)) = M
        /\ \A j \in 1 .. M : SubSeq(pieces, 1, M)[j] = pieces[j]
    BY <1>6
  <2>4. \A j \in 1 .. M : pieces[j] = Record(k0 + j)
    <3>1. \A j \in 1 .. M : j \in 1 .. M + 1 /\ j # M + 1
      OBVIOUS
    <3> QED BY <1>9, <3>1
  <2>5. Records(Front(pieces), k0, M)
    BY <2>2, <2>3, <2>4 DEF Records
  <2>6. k0 + (M + 1) = k0 + m + 1
    BY <2>1
  <2> QED BY <1>1, <1>5, <1>7, <1>8, <1>11, <2>1, <2>5, <2>6
<1> QED BY <1>10, <1>11

-----------------------------------------------------------------------------
(* What the line holds.  Base letters have been read.                      *)

Base == Long * written - Len(line)

\* How many records have come to their last letter when b letters are read.
Read(b) == IF Before(b) = Width THEN InRecord(b) + 1 ELSE InRecord(b)

LEMMA TimesPlus == ASSUME NEW a \in Nat, NEW b \in Nat PROVE Long * (a + b) = Long * a + Long * b
BY LongIs

LEMMA PlaceBound ==
    ASSUME NEW g \in Nat, NEW w \in Nat, g <= Long * w
    PROVE  /\ InRecord(g) <= w /\ (Before(g) > 0 => InRecord(g) < w)
           /\ (g < Long * w => InRecord(g) < w) /\ Read(g) \in 0 .. w
<1> DEFINE k == InRecord(g)
           r == Before(g)
<1>1. k \in Nat /\ r \in 0 .. Width /\ g = Long * k + r /\ Long * k \in Nat /\ Long * w \in Nat
  BY Place, Times
<1> HIDE DEF k, r
<1>2. ~ w < k
  BY <1>1, TimesOrder, LongIs
<1>3. w = k => Long * w = Long * k
  OBVIOUS
<1>4. k <= w /\ (r > 0 => k < w) /\ (g < Long * w => k < w)
  BY <1>1, <1>2, <1>3
<1>5. Width > 0
  BY LongIs
<1>6. (IF r = Width THEN k + 1 ELSE k) \in 0 .. w
  BY <1>1, <1>4, <1>5
<1> QED BY <1>4, <1>6 DEF k, r, Read

LEMMA PlaceOrder ==
    ASSUME NEW a \in Nat, NEW b \in Nat, a <= b
    PROVE  InRecord(a) <= InRecord(b) /\ Read(a) <= Read(b)
<1> DEFINE k == InRecord(a)
           r == Before(a)
           m == InRecord(b)
           q == Before(b)
<1>1. k \in Nat /\ r \in 0 .. Width /\ a = Long * k + r /\ Long * k \in Nat
  BY Place, Times
<1>2. m \in Nat /\ q \in 0 .. Width /\ b = Long * m + q /\ Long * m \in Nat
  BY Place, Times
<1> HIDE DEF k, r, m, q
<1>3. ~ m < k
  BY <1>1, <1>2, TimesOrder, LongIs
<1>4. k = m => r <= q
  BY <1>1, <1>2
<1>5. k <= m /\ (IF r = Width THEN k + 1 ELSE k) <= (IF q = Width THEN m + 1 ELSE m)
  BY <1>1, <1>2, <1>3, <1>4, LongIs
<1> QED BY <1>5 DEF Read, k, r, m, q

Run(x, w, n) == x \in Seq(Letter) /\ Len(x) = Long * n /\ \A i \in 1 .. Long * n : x[i] = Nth(Long * w + i)

LEMMA RunExtends ==
    ASSUME NEW w \in Nat, NEW n \in Nat, NEW x, Run(x, w, n)
    PROVE  Run(x \o Letters(w + (n + 1)), w, n + 1)
<1> DEFINE t == Letters(w + (n + 1))
           y == x \o t
<1>1. t \in Seq(Letter) /\ Len(t) = Long /\ \A j \in 1 .. Long : t[j] = <<w + (n + 1), 0 + j>>
  <2>1. w + (n + 1) \in Nat
    OBVIOUS
  <2> QED BY <2>1, RecordIs DEF IsPart
<1> HIDE DEF t
<1>2. x \in Seq(Letter) /\ Len(x) = Long * n /\ \A i \in 1 .. Long * n : x[i] = Nth(Long * w + i)
  BY DEF Run
<1>3. /\ Long * n \in Nat /\ Long * w \in Nat /\ Long * (n + 1) = Long * n + Long
      /\ Long * (w + n) = Long * w + Long * n /\ w + n \in Nat /\ Long \in Nat /\ Long = Width + 1
      /\ Width \in Nat
  BY Times, TimesNext, TimesPlus, LongIs DEF Long
<1>4. /\ y \in Seq(Letter) /\ Len(y) = Long * n + Long
      /\ \A i \in 1 .. Long * n + Long : y[i] = IF i <= Long * n THEN x[i] ELSE t[i - Long * n]
  <2>1. /\ y \in Seq(Letter) /\ Len(y) = Len(x) + Len(t)
        /\ \A i \in 1 .. Len(x) + Len(t) : y[i] = IF i <= Len(x) THEN x[i] ELSE t[i - Len(x)]
    BY <1>1, <1>2, ConcatProperties
  <2> HIDE DEF y
  <2> QED BY <1>1, <1>2, <2>1
<1> HIDE DEF y
<1>5. ASSUME NEW i \in 1 .. Long * n + Long PROVE y[i] = Nth(Long * w + i)
  <2>1. CASE i <= Long * n
    <3>1. i \in 1 .. Long * n
      BY <1>3, <2>1
    <3> QED BY <1>2, <1>4, <2>1, <3>1
  <2>2. CASE i > Long * n
    <3>1. PICK j \in 1 .. Long : j = i - Long * n /\ ~ i <= Long * n
      BY <1>3, <2>2
    <3>2. y[i] = <<w + (n + 1), 0 + j>>
      BY <1>1, <1>4, <3>1
    <3>3. j - 1 \in 0 .. Width /\ Long * (w + n) + (j - 1) + 1 = Long * w + i
      BY <1>3, <3>1
    <3>4. Nth(Long * (w + n) + (j - 1) + 1) = <<w + n + 1, j - 1 + 1>>
      BY <1>3, <3>3, PlaceIs
    <3>5. w + n + 1 = w + (n + 1) /\ j - 1 + 1 = 0 + j
      BY <1>3
    <3> QED BY <3>2, <3>3, <3>4, <3>5
  <2> QED BY <1>3, <2>1, <2>2
<1> QED BY <1>3, <1>4, <1>5 DEF Run, y, t

LEMMA ReportRuns ==
    ASSUME NEW w \in Nat
    PROVE  \A n \in Nat : Run(FlattenSeq([i \in 1 .. n |-> Letters(w + i)]), w, n)
<1> DEFINE L(n) == [i \in 1 .. n |-> Letters(w + i)]
           T == {n \in Nat : Run(FlattenSeq(L(n)), w, n)}
<1>1. 0 \in T
  <2>1. L(0) = << >>
    OBVIOUS
  <2>2. Long * 0 = 0
    BY LongIs
  <2>3. << >> \in Seq(Letter) /\ Len(<< >>) = 0
    OBVIOUS
  <2>4. Run(<< >>, w, 0)
    BY <2>2, <2>3 DEF Run
  <2> QED BY <2>1, <2>4, FlattenEmpty
<1>2. ASSUME NEW n \in T PROVE n + 1 \in T
  <2>1. n \in Nat /\ n + 1 \in Nat /\ Run(FlattenSeq(L(n)), w, n)
    OBVIOUS
  <2>2. ASSUME NEW i \in 1 .. n + 1 PROVE Letters(w + i) \in Seq(Letter)
    BY RecordIs DEF IsPart
  <2>3. L(n) \in Seq(Seq(Letter)) /\ Len(L(n)) = n /\ \A i \in 1 .. n : L(n)[i] = Letters(w + i)
    <3>1. \A i \in 1 .. n : Letters(w + i) \in Seq(Letter)
      BY <2>1, <2>2
    <3> QED BY <2>1, <3>1
  <2>4. L(n + 1) \in Seq(Seq(Letter)) /\ Len(L(n + 1)) = n + 1
        /\ \A i \in 1 .. n + 1 : L(n + 1)[i] = Letters(w + i)
    BY <2>1, <2>2
  <2> DEFINE t == Letters(w + (n + 1))
  <2>5. t \in Seq(Letter)
    <3>1. w + (n + 1) \in Nat
      BY <2>1
    <3> QED BY <3>1, RecordIs DEF IsPart
  <2> HIDE DEF L, t
  <2>6. Append(L(n), t) \in Seq(Seq(Letter)) /\ Len(Append(L(n), t)) = n + 1
        /\ (\A i \in 1 .. n : Append(L(n), t)[i] = L(n)[i]) /\ Append(L(n), t)[n + 1] = t
    BY <2>1, <2>3, <2>5
  <2>7. ASSUME NEW i \in 1 .. n + 1 PROVE L(n + 1)[i] = Append(L(n), t)[i]
    <3>1. CASE i \in 1 .. n
      BY <2>3, <2>4, <2>6, <3>1
    <3>2. CASE i = n + 1
      <4>1. n + 1 \in 1 .. n + 1
        BY <2>1
      <4>2. L(n + 1)[n + 1] = Letters(w + (n + 1))
        BY <2>4, <4>1
      <4>3. t = Letters(w + (n + 1))
        BY DEF t
      <4>4. L(n + 1)[n + 1] = Append(L(n), t)[n + 1]
        BY <2>6, <4>2, <4>3
      <4> QED BY <3>2, <4>4
    <3>3. i \in 1 .. n \/ i = n + 1
      BY <2>1
    <3> QED BY <3>1, <3>2, <3>3
  <2>8. L(n + 1) = Append(L(n), t)
    BY <2>4, <2>6, <2>7, SeqEqual
  <2>9. FlattenSeq(L(n + 1)) = FlattenSeq(L(n)) \o t
    BY <2>3, <2>5, <2>8, FlattenAppend
  <2>10. Run(FlattenSeq(L(n + 1)), w, n + 1)
    BY <2>1, <2>9, RunExtends DEF t
  <2> QED BY <2>1, <2>10
<1> HIDE DEF T
<1>3. Nat \subseteq T
  BY <1>1, <1>2, NatSetInduction
<1> QED BY <1>3 DEF T

-----------------------------------------------------------------------------
(* The inductive invariant.                                                *)

PutType == [recs : Seq(Seq(Letter)), done : Nat, con : BOOLEAN,
            at : {"sent", "lost", "inserts", "answered"}]

Typed ==
    /\ written \in Nat /\ faults \in Nat /\ con \in 0 .. MaxCon
    /\ reports \subseteq 1 .. written /\ torn \subseteq reports /\ (written > 0 => 1 \in reports)
    /\ line \in Seq(Letter) /\ SENSOR_DATA \in Seq(Seq(Letter))
    /\ puts \in Seq(PutType) /\ waits \in 0 .. Len(puts) /\ abandoned \subseteq 1 .. Len(puts)
    /\ \A p \in 1 .. Len(puts) :
          /\ puts[p].recs # << >> /\ puts[p].done <= Len(puts[p].recs)
          /\ puts[p].at \in {"sent", "inserts"} => puts[p].done < Len(puts[p].recs)

\* The line holds what was written last, and readString the letters of a
\* record that came before it, or nothing.
Streamed ==
    /\ Len(line) <= Long * written
    /\ \A i \in 1 .. Len(line) : line[i] = Nth(Base + i)
    /\ readString = << >> \/ (Before(Base) < Width /\ IsPart(readString, InRecord(Base) + 1, 0, Before(Base)))

\* The number of the record that s is.
Num(s) == s[1][1]

\* The PUTs have records that were read, each later than the one before.
Ordered ==
    /\ \A p \in 1 .. Len(puts) : \A i \in 1 .. Len(puts[p].recs) :
          Num(puts[p].recs[i]) \in 1 .. Read(Base) /\ puts[p].recs[i] = Record(Num(puts[p].recs[i]))
    /\ \A p, q \in 1 .. Len(puts) : \A i \in 1 .. Len(puts[p].recs), j \in 1 .. Len(puts[q].recs) :
          (p < q \/ (p = q /\ i < j)) => Num(puts[p].recs[i]) < Num(puts[q].recs[j])

Forwarded ==
    /\ forwarded \in Seq(Seq(Letter))
    /\ \A i \in 1 .. Len(forwarded) : \E k \in 1 .. Read(Base) : forwarded[i] = Record(k)
    /\ Increasing(forwarded)

\* A record that was read is sent if its report is not torn; if the gateway is
\* inside of one that it has thrown away, the report is torn.
Found ==
    /\ \A k \in 1 .. Read(Base) : ReportOf(k) \notin torn => Record(k) \in ToSet(forwarded)
    /\ Before(Base) \in 1 .. Width - 1 /\ ReportOf(InRecord(Base) + 1) \notin torn => readString # << >>

\* The PUT waited for is the last.  As long as none is given up, no other is on
\* its way.
Waited ==
    /\ waits # 0 => waits = Len(puts)
    /\ abandoned = {} => \A p \in 1 .. Len(puts) : puts[p].at # "answered" => p = waits

\* The table has the first records of every PUT, and no others.
Stored ==
    /\ \A p \in 1 .. Len(puts) : \A i \in 1 .. puts[p].done :
          \E x \in 1 .. Len(SENSOR_DATA) : SENSOR_DATA[x] = puts[p].recs[i]
    /\ \A x \in 1 .. Len(SENSOR_DATA) : \E p \in 1 .. Len(puts) : \E i \in 1 .. puts[p].done :
          SENSOR_DATA[x] = puts[p].recs[i]
    /\ IsInjective(SENSOR_DATA)
    /\ abandoned = {} => Increasing(SENSOR_DATA)
    /\ \A p \in 1 .. Len(puts) :
          puts[p].at = "answered" /\ puts[p].con /\ faults = 0 => puts[p].done = Len(puts[p].recs)

Inv == Typed /\ Streamed /\ Ordered /\ Forwarded /\ Found /\ Waited /\ Stored

-----------------------------------------------------------------------------
(* serialEvent.                                                            *)

LEMMA BaseIs ==
    ASSUME Typed, Streamed
    PROVE  /\ Base \in Nat /\ Base + Len(line) = Long * written /\ Base <= Long * written
           /\ Len(line) \in Nat /\ Long * written \in Nat
<1>1. Len(line) \in Nat /\ Long * written \in Nat /\ Len(line) <= Long * written
  BY Times DEF Typed, Streamed
<1> QED BY <1>1 DEF Base

NewPut(recs) == [recs |-> recs, done |-> 0, con |-> FALSE, at |-> "sent"]

Sends(recs) ==
    IF recs = << >> THEN UNCHANGED <<waits, puts>>
    ELSE waits' = Len(puts) + 1 /\ puts' = Append(puts, NewPut(recs))

\* A chunk of n letters is thrown away, or the records it brings to an end are
\* sent.
ThrownAway ==
    /\ readString = << >> /\ Before(Base) # 0 /\ readString' = << >>
    /\ UNCHANGED <<waits, puts>>

Taken(n) ==
    /\ Before(Base) < Width
    /\ Before(Base + n) \in 1 .. Width - 1 => readString' # << >>
    /\ \E recs : Records(recs, Read(Base), Read(Base + n) - Read(Base)) /\ Sends(recs)

ChunkOf(n) ==
    /\ Base + n <= Long * written /\ Base' = Base + n
    /\ torn' = torn \cup Tears(SubSeq(line, 1, n))
    /\ Len(SubSeq(line, 1, n)) = n /\ \A i \in 1 .. n : SubSeq(line, 1, n)[i] = Nth(Base + i)
    /\ ThrownAway \/ Taken(n)

LEMMA Chunk ==
    ASSUME Typed, Streamed, serialEvent
    PROVE  Streamed' /\ line' \in Seq(Letter) /\ \E n \in Nat \ {0} : ChunkOf(n)
<1>1. PICK n \in 1 .. Len(line) :
         /\ line' = SubSeq(line, n + 1, Len(line))
         /\ readString' = makeSerial(SubSeq(line, 1, n)).readString
         /\ torn' = torn \cup Tears(SubSeq(line, 1, n))
         /\ Sends(makeSerial(SubSeq(line, 1, n)).resList)
  BY DEF serialEvent, Sends, NewPut
<1>2. written' = written
  BY DEF serialEvent, arduino
<1> DEFINE data == SubSeq(line, 1, n)
           b == Base
           k == InRecord(b)
           r == Before(b)
<1>3. /\ b \in Nat /\ b + Len(line) = Long * written /\ Len(line) \in Nat /\ Long * written \in Nat
      /\ line \in Seq(Letter) /\ \A i \in 1 .. Len(line) : line[i] = Nth(b + i)
  BY BaseIs DEF Typed, Streamed
<1>4. k \in Nat /\ r \in 0 .. Width /\ b = Long * k + r /\ Width \in Nat /\ Width >= 2
  BY <1>3, Place, LongIs
<1>5. n \in Nat /\ n > 0 /\ Len(data) = n /\ data \in Seq(Letter) /\ \A i \in 1 .. n : data[i] = line[i] /\ i \in 1 .. Len(line)
  BY <1>3
<1>6. \A i \in 1 .. n : data[i] = Nth(b + i)
  BY <1>3, <1>5
<1>7. /\ line' \in Seq(Letter) /\ Len(line') = Len(line) - n
      /\ \A i \in 1 .. Len(line) - n : line'[i] = line[n + i] /\ n + i \in 1 .. Len(line)
  BY <1>1, <1>3
<1> HIDE DEF data
<1>8. Base' = b + n /\ b + n \in Nat /\ b + n <= Long * written
  <2>1. Base' = Long * written' - Len(line')
    BY DEF Base
  <2> HIDE DEF b
  <2> QED BY <1>2, <1>3, <1>5, <1>7, <2>1
<1>9. /\ Len(line') <= Long * written'
      /\ \A i \in 1 .. Len(line') : line'[i] = Nth(Base' + i)
  <2>1. ASSUME NEW i \in 1 .. Len(line) - n PROVE line'[i] = Nth(b + n + i)
    <3>1. b + (n + i) = b + n + i
      BY <1>3, <1>5
    <3> QED BY <1>3, <1>7, <3>1
  <2> QED BY <1>2, <1>3, <1>5, <1>7, <1>8, <2>1
<1>10. data[1] = <<k + 1, r + 1>>
  <2>1. data[1] = Nth(Long * k + r + 1)
    BY <1>4, <1>5, <1>6
  <2> QED BY <1>4, <2>1, PlaceIs
<1>11. IsR(data[1]) <=> r = 0
  BY <1>4, <1>10 DEF IsR
<1>12. CASE readString = << >> /\ ~ IsR(data[1])
  <2>1. makeSerial(data) = [resList |-> << >>, readString |-> readString]
    BY <1>12 DEF makeSerial
  <2>2. readString' = << >> /\ UNCHANGED <<waits, puts>>
    BY <1>1, <1>12, <2>1 DEF Sends, data
  <2>3. ThrownAway
    BY <1>11, <1>12, <2>2 DEF ThrownAway
  <2>4. Streamed'
    BY <1>9, <2>2 DEF Streamed
  <2>5. ChunkOf(n)
    BY <1>1, <1>5, <1>6, <1>8, <2>3 DEF ChunkOf, data
  <2> QED BY <1>5, <1>7, <2>4, <2>5
<1>13. CASE ~ (readString = << >> /\ ~ IsR(data[1]))
  <2>1. r < Width /\ IsPart(readString, k + 1, 0, r)
    <3>1. CASE readString = << >>
      <4>1. r = 0
        BY <1>11, <1>13, <3>1
      <4>2. IsPart(<< >>, k + 1, 0, 0)
        BY DEF IsPart
      <4> QED BY <1>4, <3>1, <4>1, <4>2
    <3>2. CASE readString # << >>
      BY <3>2 DEF Streamed
    <3> QED BY <3>1, <3>2
  <2> DEFINE m == makeSerial(data)
  <2>2. PICK q \in Nat, t \in 0 .. Width :
           /\ Long * k + r + n = Long * (k + q) + t
           /\ Records(m.resList, k, IF t = Width THEN q + 1 ELSE q)
           /\ IsPart(m.readString, k + q + 1, 0, IF t = Width THEN 0 ELSE t)
    <3>1. r \in 0 .. Width - 1
      BY <1>4, <2>1
    <3>2. \A i \in 1 .. n : data[i] = Nth(Long * k + r + i)
      BY <1>4, <1>6
    <3>3. GoesOn(data, k, r, n)
      BY <1>5, <2>1, <3>2 DEF GoesOn
    <3> HIDE DEF b, k, r, m
    <3>4. Serial(makeSerial(data), k, r, n)
      BY <1>4, <1>5, <3>1, <3>3, SerialRecords
    <3> QED BY <3>4 DEF Serial, m
  <2>3. InRecord(b + n) = k + q /\ Before(b + n) = t
    <3>1. b + n = Long * (k + q) + t /\ k + q \in Nat
      BY <1>4, <2>2
    <3> QED BY <3>1, PlaceIs
  <2>4. Read(b) = k /\ Read(b + n) = IF t = Width THEN k + q + 1 ELSE k + q
    BY <1>4, <2>1, <2>3 DEF Read
  <2>5. Read(b + n) - Read(b) = IF t = Width THEN q + 1 ELSE q
    BY <1>4, <2>2, <2>4
  <2>6. readString' = m.readString /\ Sends(m.resList)
    BY <1>1 DEF data
  <2> HIDE DEF m
  <2>7. IsPart(readString', k + q + 1, 0, IF t = Width THEN 0 ELSE t)
    BY <2>2, <2>6
  <2>8. t \in 1 .. Width - 1 => readString' # << >>
    <3>1. t \in 1 .. Width - 1 => Len(readString') # 0
      BY <1>4, <2>7 DEF IsPart
    <3> QED BY <3>1
  <2>9. readString' = << >> \/ (t < Width /\ IsPart(readString', k + q + 1, 0, t))
    <3>1. CASE t = Width
      <4>1. readString' \in Seq(Letter) /\ Len(readString') = 0
        BY <2>7, <3>1 DEF IsPart
      <4> QED BY <4>1, EmptySeq
    <3>2. CASE t # Width
      BY <1>4, <2>7, <3>2
    <3> QED BY <3>1, <3>2
  <2>10. Taken(n)
    <3>1. Records(m.resList, Read(Base), Read(Base + n) - Read(Base))
      BY <2>2, <2>4, <2>5
    <3>2. Before(Base) < Width /\ (Before(Base + n) \in 1 .. Width - 1 => readString' # << >>)
      BY <2>1, <2>3, <2>8
    <3> QED BY <2>6, <3>1, <3>2 DEF Taken
  <2>11. Streamed'
    BY <1>8, <1>9, <2>3, <2>9 DEF Streamed
  <2>12. ChunkOf(n)
    BY <1>1, <1>5, <1>6, <1>8, <2>10 DEF ChunkOf, data
  <2> QED BY <1>5, <1>7, <2>11, <2>12
<1> QED BY <1>12, <1>13
-----------------------------------------------------------------------------
(* Reports.                                                                *)

Latest(S, k) == CHOOSE r \in S : r <= k /\ \A q \in S : q <= k => q <= r

LEMMA LatestIs ==
    ASSUME NEW S \in SUBSET Nat, 1 \in S, NEW n \in Nat, n >= 1
    PROVE  Latest(S, n) \in S /\ Latest(S, n) <= n /\ \A q \in S : q <= n => q <= Latest(S, n)
<1> DEFINE IsLatest(r, k) == r \in S /\ r <= k /\ \A q \in S : q <= k => q <= r
           T == {k \in Nat : k >= 1 => \E r \in S : IsLatest(r, k)}
<1>1. 0 \in T
  OBVIOUS
<1>2. ASSUME NEW k \in T PROVE k + 1 \in T
  <2>1. CASE k + 1 \in S
    <3>1. IsLatest(k + 1, k + 1)
      BY <2>1
    <3> QED BY <2>1, <3>1
  <2>2. CASE k + 1 \notin S
    <3>1. k \in Nat /\ k >= 1
      BY <2>2
    <3>2. PICK r \in S : IsLatest(r, k)
      BY <3>1
    <3>3. \A q \in S : q <= k + 1 => q <= k
      BY <2>2, <3>1
    <3>4. IsLatest(r, k + 1)
      BY <3>1, <3>2, <3>3
    <3> HIDE DEF IsLatest
    <3> QED BY <3>1, <3>4
  <2> QED BY <2>1, <2>2
<1> HIDE DEF T
<1>3. Nat \subseteq T
  BY <1>1, <1>2, NatSetInduction
<1>4. \E r \in S : IsLatest(r, n)
  BY <1>3 DEF T
<1> QED BY <1>4 DEF Latest

LEMMA LatestOnly ==
    ASSUME NEW S \in SUBSET Nat, 1 \in S, NEW n \in Nat, n >= 1, NEW r \in S, r <= n,
           \A q \in S : q <= n => q <= r
    PROVE  Latest(S, n) = r
<1>1. Latest(S, n) \in S /\ Latest(S, n) <= n /\ \A q \in S : q <= n => q <= Latest(S, n)
  BY LatestIs
<1>2. Latest(S, n) \in Nat /\ r \in Nat /\ Latest(S, n) <= r /\ r <= Latest(S, n)
  BY <1>1
<1> QED BY <1>2

LEMMA LatestGrows ==
    ASSUME NEW S \in SUBSET Nat, 1 \in S, NEW n \in Nat, n >= 1, NEW w \in Nat, n < w
    PROVE  Latest(S \cup {w}, n) = Latest(S, n)
<1>1. Latest(S, n) \in S /\ Latest(S, n) <= n /\ \A q \in S : q <= n => q <= Latest(S, n)
  BY LatestIs
<1>2. S \cup {w} \in SUBSET Nat /\ 1 \in S \cup {w} /\ Latest(S, n) \in S \cup {w}
      /\ \A q \in S \cup {w} : q <= n => q <= Latest(S, n)
  BY <1>1
<1> HIDE DEF Latest
<1> QED BY <1>1, <1>2, LatestOnly

LEMMA ReportOfIs == \A k : ReportOf(k) = Latest(reports, k) /\ ReportOf(k)' = Latest(reports', k)
BY DEF ReportOf, Latest

-----------------------------------------------------------------------------
(* The Arduino writes.                                                     *)

LEMMA Writes ==
    ASSUME Typed, Streamed, Report
    PROVE  /\ written' \in Nat /\ written < written' /\ line' \in Seq(Letter)
           /\ Base' = Base /\ Streamed'
<1>1. PICK n \in {1, 3} :
         /\ written' = written + n
         /\ line' = line \o FlattenSeq([i \in 1 .. n |-> Letters(written + i)])
  BY DEF Report
<1> DEFINE t == FlattenSeq([i \in 1 .. n |-> Letters(written + i)])
           b == Base
           z == Len(line)
<1>2. readString' = readString
  BY DEF Report
<1>3. /\ b \in Nat /\ b + z = Long * written /\ z \in Nat /\ Long * written \in Nat /\ written \in Nat
      /\ line \in Seq(Letter) /\ Len(line) = z /\ \A i \in 1 .. z : line[i] = Nth(b + i)
  BY BaseIs DEF Typed, Streamed
<1>4. n \in Nat /\ Long * n \in Nat /\ Long * (written + n) = Long * written + Long * n
  <2>1. n \in Nat
    OBVIOUS
  <2>2. Long * (written + n) = Long * written + Long * n
    BY <1>3, <2>1, TimesPlus
  <2> QED BY <2>1, <2>2, Times
<1>5. Run(t, written, n)
  BY <1>3, <1>4, ReportRuns
<1> HIDE DEF t
<1>6. t \in Seq(Letter) /\ Len(t) = Long * n /\ \A i \in 1 .. Long * n : t[i] = Nth(Long * written + i)
  BY <1>5 DEF Run
<1>7. line' = line \o t
  BY <1>1 DEF t
<1>8. /\ line' \in Seq(Letter) /\ Len(line') = z + Long * n
      /\ \A i \in 1 .. z + Long * n : line'[i] = IF i <= z THEN line[i] ELSE t[i - z]
  <2>1. /\ line' \in Seq(Letter) /\ Len(line') = Len(line) + Len(t)
        /\ \A i \in 1 .. Len(line) + Len(t) : line'[i] = IF i <= Len(line) THEN line[i] ELSE t[i - Len(line)]
    BY <1>3, <1>6, <1>7, ConcatProperties
  <2> QED BY <1>6, <2>1
<1>9. Base' = b
  <2>1. Base' = Long * (written + n) - (z + Long * n)
    BY <1>1, <1>8 DEF Base
  <2> HIDE DEF b, z
  <2> QED BY <1>3, <1>4, <2>1
<1> HIDE DEF b, z
<1>10. ASSUME NEW i \in 1 .. z + Long * n PROVE line'[i] = Nth(b + i)
  <2>1. CASE i <= z
    <3>1. i \in 1 .. z
      BY <1>3, <2>1
    <3> QED BY <1>3, <1>8, <2>1, <3>1
  <2>2. CASE i > z
    <3>1. i - z \in 1 .. Long * n /\ ~ i <= z /\ Long * written + (i - z) = b + i
      BY <1>3, <1>4, <2>2
    <3> QED BY <1>6, <1>8, <3>1
  <2> QED BY <1>3, <1>4, <2>1, <2>2
<1>11. Len(line') <= Long * written'
  BY <1>1, <1>3, <1>4, <1>8
<1>12. readString = << >> \/ (Before(b) < Width /\ IsPart(readString, InRecord(b) + 1, 0, Before(b)))
  BY DEF Streamed, b
<1>13. Streamed'
  BY <1>2, <1>8, <1>9, <1>10, <1>11, <1>12 DEF Streamed
<1> QED BY <1>1, <1>3, <1>4, <1>8, <1>9, <1>13 DEF b

-----------------------------------------------------------------------------
(* The PUTs.                                                               *)

At == {"sent", "lost", "inserts", "answered"}

LEMMA PutIs ==
    ASSUME Typed, NEW p \in 1 .. Len(puts)
    PROVE  /\ puts[p] \in PutType /\ puts[p].recs \in Seq(Seq(Letter)) /\ puts[p].done \in Nat
           /\ puts[p].con \in BOOLEAN /\ puts[p].at \in At
           /\ puts[p].recs # << >> /\ puts[p].done <= Len(puts[p].recs)
           /\ puts[p].at \in {"sent", "inserts"} => puts[p].done < Len(puts[p].recs)
<1>1. puts[p] \in PutType
  BY DEF Typed
<1> QED BY <1>1 DEF Typed, PutType, At

\* Nothing but PUT p changes, and not its records.
Dealt(p, d, c, a) ==
    /\ puts' \in Seq(PutType) /\ Len(puts') = Len(puts)
    /\ \A q \in 1 .. Len(puts) : puts'[q].recs = puts[q].recs /\ (q # p => puts'[q] = puts[q])
    /\ puts'[p].done = d /\ puts'[p].con = c /\ puts'[p].at = a

LEMMA PutDealt ==
    ASSUME Typed, NEW p \in 1 .. Len(puts), NEW d \in Nat, NEW c \in BOOLEAN, NEW a \in At,
           puts' = [puts EXCEPT ![p] = [puts[p] EXCEPT !.done = d, !.con = c, !.at = a]]
    PROVE  Dealt(p, d, c, a)
<1> DEFINE v == [puts[p] EXCEPT !.done = d, !.con = c, !.at = a]
<1>1. v \in PutType /\ v.recs = puts[p].recs /\ v.done = d /\ v.con = c /\ v.at = a
  BY PutIs DEF PutType, At
<1>2. puts \in Seq(PutType)
  BY DEF Typed
<1> HIDE DEF v
<1>3. puts' = [puts EXCEPT ![p] = v]
  BY DEF v
<1> QED BY <1>1, <1>2, <1>3 DEF Dealt

LEMMA LostIs ==
    ASSUME Typed, NEW p \in 1 .. Len(puts), Lost(p)
    PROVE  Dealt(p, puts[p].done, puts[p].con, "lost")
<1>1. puts' = [puts EXCEPT ![p] = [puts[p] EXCEPT !.done = puts[p].done, !.con = puts[p].con, !.at = "lost"]]
  BY PutIs DEF Lost, PutType
<1> QED BY <1>1, PutIs, PutDealt DEF At

LEMMA TakenUp ==
    ASSUME Typed, NEW p \in 1 .. Len(puts), handlePUT(p)
    PROVE  \E c \in BOOLEAN : Dealt(p, puts[p].done, c, "inserts")
<1>1. puts' = [puts EXCEPT ![p].at = "inserts", ![p].con = con < MaxCon]
  BY DEF handlePUT
<1>2. PICK c \in BOOLEAN : puts' = [puts EXCEPT ![p].at = "inserts", ![p].con = c]
  <2>1. (con < MaxCon) \in BOOLEAN
    OBVIOUS
  <2> QED BY <1>1, <2>1, Zenon
<1>3. puts' = [puts EXCEPT ![p] = [puts[p] EXCEPT !.done = puts[p].done, !.con = c, !.at = "inserts"]]
  BY <1>2, PutIs DEF PutType
<1>4. Dealt(p, puts[p].done, c, "inserts")
  BY <1>3, PutIs, PutDealt DEF At
<1> QED BY <1>4

LEMMA Inserted ==
    ASSUME Typed, NEW p \in 1 .. Len(puts), rawInsert(p)
    PROVE  Dealt(p, puts[p].done + 1, puts[p].con,
                 IF puts[p].done + 1 = Len(puts[p].recs) THEN "answered" ELSE "inserts")
<1> DEFINE a == IF puts[p].done + 1 = Len(puts[p].recs) THEN "answered" ELSE "inserts"
<1>1. puts' = [puts EXCEPT ![p] = [puts[p] EXCEPT !.done = puts[p].done + 1, !.con = puts[p].con, !.at = a]]
  BY PutIs DEF rawInsert, PutType
<1>2. a \in At
  BY DEF At
<1>3. puts[p].done + 1 \in Nat /\ puts[p].con \in BOOLEAN
  BY PutIs
<1> HIDE DEF a
<1>4. Dealt(p, puts[p].done + 1, puts[p].con, a)
  BY <1>1, <1>2, <1>3, PutDealt
<1> QED BY <1>4 DEF a

LEMMA Failed ==
    ASSUME Typed, NEW p \in 1 .. Len(puts), rawInsertFails(p)
    PROVE  Dealt(p, puts[p].done, puts[p].con, "answered")
<1>1. puts' = [puts EXCEPT ![p] = [puts[p] EXCEPT !.done = puts[p].done, !.con = puts[p].con, !.at = "answered"]]
  BY PutIs DEF rawInsertFails, PutType
<1> QED BY <1>1, PutIs, PutDealt DEF At
LEMMA FaultsGrow == ASSUME faults \in Nat, Fault \/ UNCHANGED faults PROVE faults' \in Nat /\ (faults' = 0 => faults = 0)
BY DEF Fault

\* What the platform does not touch, and what it leaves well typed.
LEMMA PlatformStep ==
    ASSUME Typed, NEW p \in 1 .. Len(puts), Platform(p)
    PROVE  /\ UNCHANGED <<line, written, reports, readString, waits, torn, abandoned>>
           /\ faults' \in Nat /\ (faults' = 0 => faults = 0) /\ con' \in 0 .. MaxCon
           /\ SENSOR_DATA' \in Seq(Seq(Letter))
           /\ puts[p].at \in {"sent", "inserts"}
           /\ \E d \in Nat, c \in BOOLEAN, a \in At :
                 /\ Dealt(p, d, c, a) /\ d <= Len(puts[p].recs)
                 /\ a \in {"sent", "inserts"} => d < Len(puts[p].recs)
<1>1. faults \in Nat /\ con \in 0 .. MaxCon /\ SENSOR_DATA \in Seq(Seq(Letter))
  BY DEF Typed
<1>2. CASE Lost(p)
  <2>1. UNCHANGED <<line, written, reports, readString, waits, torn, abandoned, con, SENSOR_DATA>> /\ Fault
        /\ puts[p].at = "sent"
    BY <1>2 DEF Lost, arduino, platform, history
  <2>2. Dealt(p, puts[p].done, puts[p].con, "lost")
    BY <1>2, LostIs
  <2>3. "lost" \in At /\ "lost" \notin {"sent", "inserts"}
    BY DEF At
  <2> QED BY <1>1, <2>1, <2>2, <2>3, PutIs, FaultsGrow
<1>3. CASE handlePUT(p)
  <2>1. UNCHANGED <<line, written, reports, readString, waits, torn, abandoned, faults, SENSOR_DATA>>
        /\ con' \in {con, con + 1} /\ (con' = con + 1 => con < MaxCon) /\ puts[p].at = "sent"
    BY <1>1, <1>3 DEF handlePUT, arduino, history
  <2>2. PICK c \in BOOLEAN : Dealt(p, puts[p].done, c, "inserts")
    BY <1>3, TakenUp
  <2>3. "inserts" \in At /\ con' \in 0 .. MaxCon
    BY <1>1, <2>1, ConAssumption DEF At
  <2> QED BY <1>1, <2>1, <2>2, <2>3, PutIs
<1>4. CASE rawInsert(p)
  <2>1. UNCHANGED <<line, written, reports, readString, waits, torn, abandoned, faults, con>>
        /\ SENSOR_DATA' = Append(SENSOR_DATA, puts[p].recs[puts[p].done + 1]) /\ puts[p].at = "inserts"
    BY <1>4 DEF rawInsert, arduino, history
  <2> DEFINE d == puts[p].done + 1
             a == IF d = Len(puts[p].recs) THEN "answered" ELSE "inserts"
  <2>2. Dealt(p, d, puts[p].con, a)
    BY <1>4, Inserted
  <2>3. d \in 1 .. Len(puts[p].recs) /\ puts[p].con \in BOOLEAN
    BY <2>1, PutIs
  <2>4. a \in At /\ (a \in {"sent", "inserts"} => d < Len(puts[p].recs)) /\ d <= Len(puts[p].recs) /\ d \in Nat
    <3>1. Len(puts[p].recs) \in Nat
      BY PutIs
    <3> HIDE DEF d
    <3> QED BY <2>3, <3>1 DEF At
  <2>5. SENSOR_DATA' \in Seq(Seq(Letter))
    <3>1. puts[p].recs[d] \in Seq(Letter)
      BY <2>3, PutIs
    <3> QED BY <1>1, <2>1, <3>1
  <2> HIDE DEF d, a
  <2> QED BY <1>1, <2>1, <2>2, <2>3, <2>4, <2>5
<1>5. CASE rawInsertFails(p)
  <2>1. UNCHANGED <<line, written, reports, readString, waits, torn, abandoned, con, SENSOR_DATA>>
        /\ (Fault \/ UNCHANGED faults) /\ puts[p].at = "inserts"
    BY <1>5 DEF rawInsertFails, arduino, platform, history
  <2>2. Dealt(p, puts[p].done, puts[p].con, "answered")
    BY <1>5, Failed
  <2>3. "answered" \in At /\ "answered" \notin {"sent", "inserts"}
    BY DEF At
  <2> QED BY <1>1, <2>1, <2>2, <2>3, PutIs, FaultsGrow
<1> QED BY <1>2, <1>3, <1>4, <1>5 DEF Platform

LEMMA PlatformTyped == ASSUME Typed, NEW p \in 1 .. Len(puts), Platform(p) PROVE Typed'
<1>1. PICK d \in Nat, c \in BOOLEAN, a \in At :
         /\ Dealt(p, d, c, a) /\ d <= Len(puts[p].recs)
         /\ a \in {"sent", "inserts"} => d < Len(puts[p].recs)
  BY PlatformStep
<1>2. puts' \in Seq(PutType) /\ Len(puts') = Len(puts)
  BY <1>1 DEF Dealt
<1>3. ASSUME NEW q \in 1 .. Len(puts)
      PROVE  /\ puts'[q].recs # << >> /\ puts'[q].done <= Len(puts'[q].recs)
             /\ puts'[q].at \in {"sent", "inserts"} => puts'[q].done < Len(puts'[q].recs)
  <2>1. puts'[q].recs = puts[q].recs /\ (q # p => puts'[q] = puts[q])
    BY <1>1 DEF Dealt
  <2>2. puts'[p].done = d /\ puts'[p].at = a
    BY <1>1 DEF Dealt
  <2>3. /\ puts[q].recs # << >> /\ puts[q].done <= Len(puts[q].recs)
        /\ puts[q].at \in {"sent", "inserts"} => puts[q].done < Len(puts[q].recs)
    BY PutIs
  <2>4. CASE q = p
    BY <1>1, <2>1, <2>2, <2>3, <2>4
  <2>5. CASE q # p
    BY <2>1, <2>3, <2>5
  <2> QED BY <2>4, <2>5
<1>4. /\ written \in Nat /\ reports \subseteq 1 .. written /\ torn \subseteq reports /\ (written > 0 => 1 \in reports)
      /\ line \in Seq(Letter) /\ waits \in 0 .. Len(puts) /\ abandoned \subseteq 1 .. Len(puts)
  BY DEF Typed
<1>5. /\ UNCHANGED <<line, written, reports, readString, waits, torn, abandoned>>
      /\ faults' \in Nat /\ con' \in 0 .. MaxCon /\ SENSOR_DATA' \in Seq(Seq(Letter))
  BY PlatformStep
<1> QED BY <1>2, <1>3, <1>4, <1>5 DEF Typed

LEMMA Unread == ASSUME Streamed, UNCHANGED <<line, written, readString>> PROVE Streamed' /\ Base' = Base
BY DEF Streamed, Base

LEMMA TearsReports ==
    ASSUME Typed, Streamed, NEW n \in Nat \ {0}, ChunkOf(n)
    PROVE  Tears(SubSeq(line, 1, n)) \subseteq reports
<1> DEFINE data == SubSeq(line, 1, n)
           k == InRecord(Base)
<1>1. Base \in Nat /\ k \in Nat /\ data[1] = <<k + 1, Before(Base) + 1>>
  <2>1. data[1] = Nth(Base + 1) /\ Base \in Nat /\ Base + 1 - 1 = Base
    BY BaseIs DEF ChunkOf
  <2> QED BY <2>1, Place DEF Nth
<1>2. written > 0
  <2>1. written = 0 => Long * written = 0
    BY LongIs
  <2>2. Long * written > 0 /\ written \in Nat
    BY BaseIs DEF ChunkOf, Typed
  <2> QED BY <2>1, <2>2
<1>3. reports \in SUBSET Nat /\ 1 \in reports
  BY <1>2 DEF Typed
<1>4. ReportOf(k + 1) \in reports
  <2>1. k + 1 \in Nat /\ k + 1 >= 1
    BY <1>1
  <2> QED BY <1>3, <2>1, LatestIs, ReportOfIs
<1>5. ReportOf(data[1][1]) \in reports
  BY <1>1, <1>4
<1> HIDE DEF data
<1>6. Tears(data) \subseteq reports
  BY <1>5 DEF Tears
<1> QED BY <1>6 DEF data

LEMMA ChunkTyped == ASSUME Typed, Streamed, serialEvent PROVE Typed' /\ Streamed'
<1>1. PICK n \in Nat \ {0} : ChunkOf(n)
  BY Chunk
<1>2. UNCHANGED <<written, reports, con, SENSOR_DATA, faults, abandoned>>
  BY DEF serialEvent, arduino, platform
<1>3. torn' \subseteq reports
  BY <1>1, TearsReports DEF ChunkOf, Typed
<1>4. PICK recs \in Seq(Seq(Letter)) : Sends(recs)
  <2>1. CASE ThrownAway
    <3>1. Sends(<< >>)
      BY <2>1 DEF ThrownAway, Sends
    <3>2. << >> \in Seq(Seq(Letter))
      OBVIOUS
    <3> QED BY <3>1, <3>2
  <2>2. CASE Taken(n)
    BY <2>2 DEF Taken, Records
  <2> QED BY <1>1, <2>1, <2>2 DEF ChunkOf
<1>5. /\ puts \in Seq(PutType) /\ waits \in 0 .. Len(puts) /\ abandoned \subseteq 1 .. Len(puts)
      /\ Len(puts) \in Nat
  BY DEF Typed
<1>6. /\ puts' \in Seq(PutType) /\ waits' \in 0 .. Len(puts') /\ abandoned \subseteq 1 .. Len(puts')
      /\ \A p \in 1 .. Len(puts') :
            /\ puts'[p].recs # << >> /\ puts'[p].done <= Len(puts'[p].recs)
            /\ puts'[p].at \in {"sent", "inserts"} => puts'[p].done < Len(puts'[p].recs)
  <2>1. CASE recs = << >>
    <3>1. puts' = puts /\ waits' = waits
      BY <1>4, <2>1 DEF Sends
    <3> QED BY <1>5, <3>1, PutIs
  <2>2. CASE recs # << >>
    <3> DEFINE v == NewPut(recs)
    <3>1. waits' = Len(puts) + 1 /\ puts' = Append(puts, v)
      BY <1>4, <2>2 DEF Sends
    <3>2. v \in PutType /\ v.recs = recs /\ v.done = 0 /\ Len(recs) \in Nat /\ Len(recs) > 0
      <4>1. Len(recs) \in Nat /\ Len(recs) # 0
        BY <2>2, EmptySeq
      <4> QED BY <4>1 DEF NewPut, PutType
    <3> HIDE DEF v
    <3>3. /\ puts' \in Seq(PutType) /\ Len(puts') = Len(puts) + 1 /\ puts'[Len(puts) + 1] = v
          /\ \A p \in 1 .. Len(puts) : puts'[p] = puts[p]
      BY <1>5, <3>1, <3>2
    <3>4. ASSUME NEW p \in 1 .. Len(puts) + 1
          PROVE  /\ puts'[p].recs # << >> /\ puts'[p].done <= Len(puts'[p].recs)
                 /\ puts'[p].at \in {"sent", "inserts"} => puts'[p].done < Len(puts'[p].recs)
      <4>1. CASE p \in 1 .. Len(puts)
        <5>1. puts'[p] = puts[p]
          BY <3>3, <4>1
        <5> QED BY <4>1, <5>1, PutIs
      <4>2. CASE p = Len(puts) + 1
        <5>1. puts'[p] = v
          BY <3>3, <4>2
        <5> QED BY <2>2, <3>2, <5>1
      <4>3. p \in 1 .. Len(puts) \/ p = Len(puts) + 1
        BY <1>5
      <4> QED BY <4>1, <4>2, <4>3
    <3> QED BY <1>5, <3>1, <3>3, <3>4
  <2> QED BY <2>1, <2>2
<1>7. line' \in Seq(Letter) /\ Streamed'
  BY Chunk
<1>8. /\ written \in Nat /\ faults \in Nat /\ con \in 0 .. MaxCon /\ SENSOR_DATA \in Seq(Seq(Letter))
      /\ reports \subseteq 1 .. written /\ (written > 0 => 1 \in reports)
  BY DEF Typed
<1> QED BY <1>2, <1>3, <1>6, <1>7, <1>8 DEF Typed

LEMMA StepTyped == ASSUME Typed, Streamed, [Next]_vars PROVE Typed' /\ Streamed'
<1>1. /\ written \in Nat /\ faults \in Nat /\ con \in 0 .. MaxCon /\ SENSOR_DATA \in Seq(Seq(Letter))
      /\ reports \subseteq 1 .. written /\ torn \subseteq reports /\ (written > 0 => 1 \in reports)
      /\ line \in Seq(Letter) /\ puts \in Seq(PutType) /\ waits \in 0 .. Len(puts)
      /\ abandoned \subseteq 1 .. Len(puts) /\ Len(puts) \in Nat
  BY DEF Typed
<1>2. CASE Report
  <2>1. UNCHANGED <<waits, puts, con, SENSOR_DATA, faults, torn, abandoned>> /\ reports' = reports \cup {written + 1}
    BY <1>2 DEF Report, platform, history
  <2>2. written' \in Nat /\ written < written' /\ line' \in Seq(Letter) /\ Streamed'
    BY <1>2, Writes
  <2>3. reports' \subseteq 1 .. written' /\ torn' \subseteq reports' /\ (written' > 0 => 1 \in reports')
    BY <1>1, <2>1, <2>2
  <2> QED BY <2>1, <2>2, <2>3 DEF Typed
<1>3. CASE serialEvent
  BY <1>3, ChunkTyped
<1>4. CASE Answered
  <2>1. waits' = 0 /\ UNCHANGED <<line, written, reports, readString, puts, con, SENSOR_DATA, faults, torn, abandoned>>
    BY <1>4 DEF Answered, arduino, platform, history
  <2> QED BY <1>1, <2>1, Unread DEF Typed
<1>5. CASE TimesOut
  <2>1. waits' = 0 /\ abandoned' = abandoned \cup {waits} /\ waits # 0 /\ (Fault \/ UNCHANGED faults)
        /\ UNCHANGED <<line, written, reports, readString, puts, con, SENSOR_DATA, torn>>
    BY <1>5 DEF TimesOut, arduino, platform
  <2>2. faults' \in Nat
    BY <1>1, <2>1, FaultsGrow
  <2>3. abandoned' \subseteq 1 .. Len(puts)
    BY <1>1, <2>1
  <2> QED BY <1>1, <2>1, <2>2, <2>3, Unread DEF Typed
<1>6. CASE Collect
  <2> DEFINE C == {p \in DOMAIN puts : puts[p].at = "inserts" /\ puts[p].con}
  <2>1. /\ con > Cardinality(C) /\ con' = con - 1
        /\ UNCHANGED <<line, written, reports, readString, waits, puts, SENSOR_DATA, faults, torn, abandoned>>
    BY <1>6 DEF Collect, arduino, history
  <2>2. IsFiniteSet(C) /\ Cardinality(C) \in Nat
    <3>1. C \subseteq 1 .. Len(puts)
      BY <1>1
    <3> HIDE DEF C
    <3>2. IsFiniteSet(1 .. Len(puts))
      BY <1>1, FS_Interval
    <3> QED BY <3>1, <3>2, FS_Subset, FS_CardinalityType
  <2> HIDE DEF C
  <2>3. con' \in 0 .. MaxCon
    BY <1>1, <2>1, <2>2, ConAssumption
  <2> QED BY <1>1, <2>1, <2>3, Unread DEF Typed
<1>7. CASE \E p \in DOMAIN puts : Platform(p)
  <2>1. PICK p \in 1 .. Len(puts) : Platform(p)
    BY <1>1, <1>7
  <2>2. UNCHANGED <<line, written, readString>>
    BY <2>1, PlatformStep
  <2> QED BY <2>1, <2>2, PlatformTyped, Unread
<1>8. CASE UNCHANGED vars
  <2>1. UNCHANGED <<line, written, reports, readString, waits, puts, con, SENSOR_DATA, faults, torn, abandoned>>
    BY <1>8 DEF vars, arduino, platform, history
  <2> QED BY <1>1, <2>1, Unread DEF Typed
<1> QED BY <1>2, <1>3, <1>4, <1>5, <1>6, <1>7, <1>8 DEF Next
-----------------------------------------------------------------------------
(* What is sent.                                                           *)

LEMMA ReadIs ==
    ASSUME Typed, Streamed, NEW n \in Nat, Base + n <= Long * written
    PROVE  /\ Read(Base) \in Nat /\ Read(Base + n) \in Nat
           /\ Read(Base) <= Read(Base + n) /\ Read(Base + n) <= written
<1>1. Base \in Nat /\ written \in Nat
  BY BaseIs DEF Typed
<1>2. Read(Base + n) \in 0 .. written
  <2>1. Base + n \in Nat
    BY <1>1
  <2> QED BY <1>1, <2>1, PlaceBound
<1>3. Read(Base) \in 0 .. written
  BY <1>1, BaseIs, PlaceBound
<1>4. Read(Base) <= Read(Base + n)
  <2>1. Base + n \in Nat /\ Base <= Base + n
    BY <1>1
  <2> QED BY <1>1, <2>1, PlaceOrder
<1> QED BY <1>1, <1>2, <1>3, <1>4

LEMMA Sending ==
    ASSUME Typed, Streamed, NEW n \in Nat, ChunkOf(n)
    PROVE  \E recs \in Seq(Seq(Letter)) :
              /\ Sends(recs) /\ \A i \in 1 .. Len(recs) : recs[i] = Record(Read(Base) + i)
              /\ Read(Base) + Len(recs) <= Read(Base + n)
              /\ ~ ThrownAway => Read(Base) + Len(recs) = Read(Base + n)
<1>1. /\ Read(Base) \in Nat /\ Read(Base + n) \in Nat /\ Read(Base) <= Read(Base + n)
  BY ReadIs DEF ChunkOf
<1>2. CASE ThrownAway
  <2>1. Sends(<< >>)
    BY <1>2 DEF ThrownAway, Sends
  <2>2. PICK recs \in Seq(Seq(Letter)) : recs = << >> /\ Len(recs) = 0
    <3>1. << >> \in Seq(Seq(Letter)) /\ Len(<< >>) = 0
      OBVIOUS
    <3> QED BY <3>1
  <2>3. Sends(recs)
    BY <2>1, <2>2
  <2>4. Read(Base) + Len(recs) <= Read(Base + n)
    BY <1>1, <2>2
  <2>5. \A i \in 1 .. Len(recs) : recs[i] = Record(Read(Base) + i)
    BY <2>2
  <2> QED BY <1>2, <2>3, <2>4, <2>5
<1>3. CASE Taken(n)
  <2>1. PICK recs : Records(recs, Read(Base), Read(Base + n) - Read(Base)) /\ Sends(recs)
    BY <1>3 DEF Taken
  <2> QED BY <1>1, <2>1 DEF Records
<1> QED BY <1>2, <1>3 DEF ChunkOf

LEMMA RecordNo == \A k \in Nat : Record(k)[1][1] = k
BY RecordIs

LEMMA Extended ==
    ASSUME NEW a \in Nat, NEW s \in Seq(Seq(Letter)), NEW t \in Seq(Seq(Letter)),
           \A i \in 1 .. Len(s) : \E k \in 1 .. a : s[i] = Record(k), Increasing(s),
           \A i \in 1 .. Len(t) : t[i] = Record(a + i)
    PROVE  /\ s \o t \in Seq(Seq(Letter)) /\ Increasing(s \o t)
           /\ \A i \in 1 .. Len(s \o t) : \E k \in 1 .. a + Len(t) : (s \o t)[i] = Record(k)
           /\ ToSet(s) \subseteq ToSet(s \o t) /\ \A k \in a + 1 .. a + Len(t) : Record(k) \in ToSet(s \o t)
<1> DEFINE u == s \o t
           n == Len(s)
           m == Len(t)
<1>1. /\ u \in Seq(Seq(Letter)) /\ Len(u) = n + m /\ n \in Nat /\ m \in Nat
      /\ \A i \in 1 .. n + m : u[i] = IF i <= n THEN s[i] ELSE t[i - n]
  BY ConcatProperties
<1>2. \A i \in 1 .. n : \E k \in 1 .. a : s[i] = Record(k) /\ s[i][1][1] = k
  <2>1. ASSUME NEW i \in 1 .. n PROVE \E k \in 1 .. a : s[i] = Record(k) /\ s[i][1][1] = k
    <3>1. PICK k \in 1 .. a : s[i] = Record(k)
      OBVIOUS
    <3>2. Record(k)[1][1] = k
      BY RecordNo
    <3> QED BY <3>1, <3>2
  <2> QED BY <2>1
<1>13. DOMAIN s = 1 .. n /\ DOMAIN t = 1 .. m /\ DOMAIN u = 1 .. n + m
  BY <1>1
<1>3. \A i, j \in 1 .. n : i < j => s[i][1][1] < s[j][1][1]
  <2> HIDE DEF n
  <2> QED BY <1>13 DEF Increasing
<1>4. \A i \in 1 .. m : t[i] = Record(a + i) /\ t[i][1][1] = a + i
  <2>1. \A i \in 1 .. m : a + i \in Nat
    BY <1>1
  <2> QED BY <2>1, RecordNo
<1> HIDE DEF u, n, m
<1>5. \A i \in 1 .. n : u[i] = s[i]
  BY <1>1
<1>6. \A i \in 1 .. m : u[n + i] = t[i] /\ n + i \in 1 .. n + m
  BY <1>1
<1>7. \A i \in 1 .. n + m : i \in 1 .. n \/ \E j \in 1 .. m : i = n + j
  <2>1. ASSUME NEW i \in 1 .. n + m, i \notin 1 .. n PROVE \E j \in 1 .. m : i = n + j
    <3>1. i - n \in 1 .. m /\ i = n + (i - n)
      BY <1>1, <2>1
    <3> QED BY <3>1
  <2> QED BY <2>1
<1>8. ASSUME NEW i \in 1 .. n + m PROVE \E k \in 1 .. a + m : u[i] = Record(k)
  <2>1. CASE i \in 1 .. n
    <3>1. PICK k \in 1 .. a : s[i] = Record(k)
      BY <1>2, <2>1
    <3>2. k \in 1 .. a + m
      BY <1>1
    <3> QED BY <1>5, <2>1, <3>1, <3>2
  <2>2. CASE i \notin 1 .. n
    <3>1. PICK j \in 1 .. m : i = n + j
      BY <1>7, <2>2
    <3>2. a + j \in 1 .. a + m
      BY <1>1
    <3> QED BY <1>4, <1>6, <3>1, <3>2
  <2> QED BY <2>1, <2>2
<1>9. ASSUME NEW i \in 1 .. n + m, NEW j \in 1 .. n + m, i < j PROVE u[i][1][1] < u[j][1][1]
  <2>1. CASE j \in 1 .. n
    <3>1. i \in 1 .. n
      BY <1>1, <1>9, <2>1
    <3> QED BY <1>3, <1>5, <1>9, <2>1, <3>1
  <2>2. CASE j \notin 1 .. n
    <3>1. PICK y \in 1 .. m : j = n + y
      BY <1>7, <2>2
    <3>2. u[j][1][1] = a + y /\ y \in Nat /\ y >= 1
      <4>1. u[j] = t[y] /\ t[y][1][1] = a + y
        BY <1>4, <1>6, <3>1
      <4> QED BY <1>1, <4>1
    <3>3. CASE i \in 1 .. n
      <4>1. u[i][1][1] \in 1 .. a
        BY <1>2, <1>5, <3>3
      <4> QED BY <3>2, <4>1
    <3>4. CASE i \notin 1 .. n
      <4>1. PICK x \in 1 .. m : i = n + x
        BY <1>7, <3>4
      <4>2. u[i][1][1] = a + x
        BY <1>4, <1>6, <4>1
      <4>3. x < y
        BY <1>1, <1>9, <3>1, <4>1
      <4> QED BY <3>2, <4>2, <4>3
    <3> QED BY <3>3, <3>4
  <2> QED BY <2>1, <2>2
<1>10. Increasing(u)
  BY <1>9, <1>13 DEF Increasing
<1>11. ToSet(s) \subseteq ToSet(u)
  <2>1. ASSUME NEW x \in ToSet(s) PROVE x \in ToSet(u)
    <3>1. PICK i \in 1 .. n : x = s[i]
      BY DEF ToSet, n
    <3>2. i \in 1 .. n + m /\ x = u[i]
      BY <1>1, <1>5, <3>1
    <3> QED BY <1>13, <3>2 DEF ToSet
  <2> QED BY <2>1
<1>12. ASSUME NEW k \in a + 1 .. a + m PROVE Record(k) \in ToSet(u)
  <2>1. PICK i \in 1 .. m : k = a + i
    <3>1. k - a \in 1 .. m /\ k = a + (k - a)
      BY <1>1
    <3> QED BY <3>1
  <2>2. Record(k) = u[n + i] /\ n + i \in 1 .. n + m
    BY <1>4, <1>6, <2>1
  <2> QED BY <1>13, <2>2 DEF ToSet
<1> QED BY <1>1, <1>8, <1>10, <1>11, <1>12 DEF u, m

\* The PUTs have the records they had.
SameRecs == puts' \in Seq(PutType) /\ Len(puts') = Len(puts) /\ \A q \in 1 .. Len(puts) : puts'[q].recs = puts[q].recs

LEMMA QuietStep ==
    ASSUME Typed, Streamed, [Next]_vars
    PROVE  serialEvent \/ (SameRecs /\ Base' = Base /\ UNCHANGED torn /\ (Report \/ UNCHANGED <<line, written, reports, readString>>))
<1>1. puts \in Seq(PutType) /\ Len(puts) \in Nat
  BY DEF Typed
<1>2. UNCHANGED puts => SameRecs
  BY <1>1 DEF SameRecs
<1>3. CASE Report
  <2>1. UNCHANGED <<puts, torn>> /\ Base' = Base
    BY <1>3, Writes DEF Report, history
  <2> QED BY <1>2, <1>3, <2>1
<1>4. CASE Answered
  BY <1>2, <1>4, Unread DEF Answered, arduino, history
<1>5. CASE TimesOut
  BY <1>2, <1>5, Unread DEF TimesOut, arduino
<1>6. CASE Collect
  BY <1>2, <1>6, Unread DEF Collect, arduino, history
<1>7. CASE UNCHANGED vars
  BY <1>2, <1>7, Unread DEF vars, arduino, history
<1>8. CASE \E p \in DOMAIN puts : Platform(p)
  <2>1. PICK p \in 1 .. Len(puts) : Platform(p)
    BY <1>1, <1>8
  <2>2. UNCHANGED <<line, written, reports, readString, torn>> /\ SameRecs
    BY <2>1, PlatformStep DEF Dealt, SameRecs
  <2> QED BY <2>2, Unread
<1> QED BY <1>3, <1>4, <1>5, <1>6, <1>7, <1>8 DEF Next

LEMMA ForwardedSame == ASSUME Typed, SameRecs PROVE forwarded' = forwarded
<1> DEFINE F == [p \in DOMAIN puts |-> puts[p].recs]
           G == [p \in DOMAIN puts' |-> puts'[p].recs]
<1>1. DOMAIN puts = 1 .. Len(puts) /\ DOMAIN puts' = 1 .. Len(puts)
  BY DEF Typed, SameRecs
<1>2. F = G
  BY <1>1 DEF SameRecs
<1>3. forwarded = FlattenSeq(F) /\ forwarded' = FlattenSeq(G)
  BY DEF forwarded
<1> HIDE DEF F, G
<1> QED BY <1>2, <1>3

LEMMA ForwardedSends ==
    ASSUME Typed, NEW recs \in Seq(Seq(Letter)), Sends(recs), forwarded \in Seq(Seq(Letter))
    PROVE  forwarded' = forwarded \o recs
<1>1. CASE recs = << >>
  <2>1. puts' = puts
    BY <1>1 DEF Sends
  <2>2. forwarded' = forwarded
    BY <2>1 DEF forwarded
  <2>3. forwarded \o << >> = forwarded
    BY ConcatEmptySeq
  <2> QED BY <1>1, <2>2, <2>3
<1>2. CASE recs # << >>
  <2> DEFINE F == [p \in DOMAIN puts |-> puts[p].recs]
             G == [p \in DOMAIN puts' |-> puts'[p].recs]
             v == NewPut(recs)
             n == Len(puts)
  <2>1. puts' = Append(puts, v)
    BY <1>2 DEF Sends
  <2>2. v \in PutType /\ v.recs = recs
    BY DEF NewPut, PutType
  <2> HIDE DEF v
  <2>3. puts \in Seq(PutType) /\ n \in Nat /\ DOMAIN puts = 1 .. n
    BY DEF Typed
  <2>4. /\ puts' \in Seq(PutType) /\ DOMAIN puts' = 1 .. n + 1 /\ puts'[n + 1] = v
        /\ \A p \in 1 .. n : puts'[p] = puts[p]
    BY <2>1, <2>2, <2>3
  <2>5. \A p \in 1 .. n : puts[p].recs \in Seq(Seq(Letter))
    BY PutIs
  <2> HIDE DEF n
  <2>6. F \in Seq(Seq(Seq(Letter))) /\ Len(F) = n /\ \A p \in 1 .. n : F[p] = puts[p].recs
    BY <2>3, <2>5
  <2>7. G \in Seq(Seq(Seq(Letter))) /\ Len(G) = n + 1 /\ \A p \in 1 .. n + 1 : G[p] = puts'[p].recs
    <3>1. ASSUME NEW p \in 1 .. n + 1 PROVE puts'[p].recs \in Seq(Seq(Letter))
      <4>1. p \in 1 .. n \/ p = n + 1
        BY <2>3
      <4>2. CASE p \in 1 .. n
        BY <2>4, <2>5, <4>2
      <4>3. CASE p = n + 1
        <5>1. puts'[p].recs = recs
          BY <2>2, <2>4, <4>3
        <5> QED BY <5>1
      <4> QED BY <4>1, <4>2, <4>3
    <3> DEFINE H == [p \in 1 .. n + 1 |-> puts'[p].recs]
    <3>2. G = H
      BY <2>4
    <3>3. n + 1 \in Nat
      BY <2>3
    <3>5. PICK k \in Nat : k = n + 1
      BY <3>3
    <3>6. H = [p \in 1 .. k |-> puts'[p].recs] /\ \A p \in 1 .. k : puts'[p].recs \in Seq(Seq(Letter))
      BY <3>1, <3>5
    <3>7. \A p \in 1 .. k : H[p] = puts'[p].recs
      BY <3>6
    <3>8. H \in Seq(Seq(Seq(Letter))) /\ Len(H) = k
      <4> HIDE DEF H
      <4> QED BY <3>6
    <3>4. H \in Seq(Seq(Seq(Letter))) /\ Len(H) = n + 1 /\ \A p \in 1 .. n + 1 : H[p] = puts'[p].recs
      BY <3>5, <3>7, <3>8
    <3> HIDE DEF G, H
    <3> QED BY <3>2, <3>4
  <2> HIDE DEF F, G
  <2>8. /\ Append(F, recs) \in Seq(Seq(Seq(Letter))) /\ Len(Append(F, recs)) = n + 1
        /\ Append(F, recs)[n + 1] = recs /\ \A p \in 1 .. n : Append(F, recs)[p] = F[p]
    BY <2>3, <2>6
  <2>9. ASSUME NEW p \in 1 .. n + 1 PROVE G[p] = Append(F, recs)[p]
    <3>1. p \in 1 .. n \/ p = n + 1
      BY <2>3
    <3>2. CASE p \in 1 .. n
      BY <2>4, <2>6, <2>7, <2>8, <3>2
    <3>3. CASE p = n + 1
      <4>1. G[n + 1] = recs
        BY <2>2, <2>4, <2>7, <3>3
      <4> QED BY <2>8, <3>3, <4>1
    <3> QED BY <3>1, <3>2, <3>3
  <2>10. G = Append(F, recs)
    BY <2>7, <2>8, <2>9, SeqEqual
  <2>11. forwarded = FlattenSeq(F) /\ forwarded' = FlattenSeq(G)
    BY DEF forwarded, F, G
  <2> QED BY <2>6, <2>10, <2>11, FlattenAppend
<1> QED BY <1>1, <1>2

LEMMA StepForwarded == ASSUME Typed, Streamed, Forwarded, [Next]_vars PROVE Forwarded'
<1>1. /\ forwarded \in Seq(Seq(Letter)) /\ Increasing(forwarded)
      /\ \A i \in 1 .. Len(forwarded) : \E k \in 1 .. Read(Base) : forwarded[i] = Record(k)
  BY DEF Forwarded
<1>2. CASE SameRecs /\ Base' = Base
  <2>1. forwarded' = forwarded /\ Base' = Base
    BY <1>2, ForwardedSame
  <2> QED BY <1>1, <2>1 DEF Forwarded
<1>3. CASE serialEvent
  <2>1. PICK n \in Nat \ {0} : ChunkOf(n)
    BY <1>3, Chunk
  <2>2. Base' = Base + n /\ Read(Base) \in Nat /\ Read(Base + n) \in Nat
    BY <2>1, ReadIs DEF ChunkOf
  <2>3. PICK recs \in Seq(Seq(Letter)) :
           /\ Sends(recs) /\ \A i \in 1 .. Len(recs) : recs[i] = Record(Read(Base) + i)
           /\ Read(Base) + Len(recs) <= Read(Base + n)
    BY <2>1, Sending
  <2>4. forwarded' = forwarded \o recs
    BY <1>1, <2>3, ForwardedSends
  <2> DEFINE u == forwarded \o recs
             a == Read(Base)
             b == Read(Base + n)
  <2>5. /\ u \in Seq(Seq(Letter)) /\ Increasing(u)
        /\ \A i \in 1 .. Len(u) : \E k \in 1 .. a + Len(recs) : u[i] = Record(k)
    BY <1>1, <2>2, <2>3, Extended
  <2>6. \A k \in 1 .. a + Len(recs) : k \in 1 .. b
    BY <2>2, <2>3
  <2>7. forwarded' = u /\ Read(Base') = b
    BY <2>2, <2>4
  <2> HIDE DEF u, a, b
  <2>8. \A i \in 1 .. Len(u) : \E k \in 1 .. b : u[i] = Record(k)
    BY <2>5, <2>6
  <2> QED BY <2>5, <2>7, <2>8 DEF Forwarded
<1> QED BY <1>2, <1>3, QuietStep
LEMMA StepOrdered == ASSUME Typed, Streamed, Ordered, [Next]_vars PROVE Ordered'
<1>1. /\ \A p \in 1 .. Len(puts) : \A i \in 1 .. Len(puts[p].recs) :
            Num(puts[p].recs[i]) \in 1 .. Read(Base) /\ puts[p].recs[i] = Record(Num(puts[p].recs[i]))
      /\ \A p, q \in 1 .. Len(puts) : \A i \in 1 .. Len(puts[p].recs), j \in 1 .. Len(puts[q].recs) :
            (p < q \/ (p = q /\ i < j)) => Num(puts[p].recs[i]) < Num(puts[q].recs[j])
  BY DEF Ordered
<1>2. CASE SameRecs /\ Base' = Base
  <2>1. Len(puts') = Len(puts) /\ \A q \in 1 .. Len(puts) : puts'[q].recs = puts[q].recs
    BY <1>2 DEF SameRecs
  <2>2. Read(Base') = Read(Base)
    BY <1>2
  <2> QED BY <1>1, <2>1, <2>2 DEF Ordered
<1>3. CASE serialEvent
  <2>1. PICK n \in Nat \ {0} : ChunkOf(n)
    BY <1>3, Chunk
  <2> DEFINE a == Read(Base)
             b == Read(Base + n)
             l == Len(puts)
  <2>2. Read(Base') = b /\ a \in Nat /\ b \in Nat /\ a <= b
    BY <2>1, ReadIs DEF ChunkOf
  <2>3. PICK recs \in Seq(Seq(Letter)) :
           /\ Sends(recs) /\ \A i \in 1 .. Len(recs) : recs[i] = Record(a + i)
           /\ a + Len(recs) <= b
    BY <2>1, Sending
  <2>4. puts \in Seq(PutType) /\ l \in Nat /\ Len(recs) \in Nat
    BY DEF Typed
  <2> HIDE DEF a, b, l
  <2>5. \A p \in 1 .. l : \A i \in 1 .. Len(puts[p].recs) :
           Num(puts[p].recs[i]) \in 1 .. a /\ Num(puts[p].recs[i]) \in 1 .. b /\ puts[p].recs[i] = Record(Num(puts[p].recs[i]))
    <3>1. \A x \in 1 .. a : x \in 1 .. b
      BY <2>2
    <3> QED BY <1>1, <3>1 DEF a, l
  <2>6. \A p, q \in 1 .. l : \A i \in 1 .. Len(puts[p].recs), j \in 1 .. Len(puts[q].recs) :
           (p < q \/ (p = q /\ i < j)) => Num(puts[p].recs[i]) < Num(puts[q].recs[j])
    BY <1>1 DEF l
  <2>7. CASE recs = << >>
    <3>1. puts' = puts
      BY <2>3, <2>7 DEF Sends
    <3> QED BY <2>2, <2>5, <2>6, <3>1 DEF Ordered, l
  <2>8. CASE recs # << >>
    <3> DEFINE v == NewPut(recs)
    <3>1. puts' = Append(puts, v)
      BY <2>3, <2>8 DEF Sends
    <3>2. v \in PutType /\ v.recs = recs
      BY DEF NewPut, PutType
    <3> HIDE DEF v
    <3>3. Len(puts') = l + 1 /\ puts'[l + 1] = v /\ \A p \in 1 .. l : puts'[p] = puts[p]
      BY <2>4, <3>1, <3>2 DEF l
    <3>4. \A p \in 1 .. l : puts'[p].recs = puts[p].recs
      BY <3>3
    <3>5. /\ puts'[l + 1].recs = recs
          /\ \A i \in 1 .. Len(recs) : /\ Num(puts'[l + 1].recs[i]) = a + i /\ a + i \in 1 .. b
                                       /\ recs[i] = Record(a + i)
      <4>1. puts'[l + 1].recs = recs
        BY <3>2, <3>3
      <4>2. ASSUME NEW i \in 1 .. Len(recs) PROVE Num(puts'[l + 1].recs[i]) = a + i /\ a + i \in 1 .. b
        <5>1. a + i \in Nat /\ a + i \in 1 .. b
          BY <2>2, <2>3, <2>4
        <5>2. recs[i] = Record(a + i) /\ Num(Record(a + i)) = a + i
          BY <2>3, <5>1, RecordNo DEF Num
        <5> QED BY <4>1, <5>1, <5>2
      <4> QED BY <2>3, <4>1, <4>2
    <3>6. \A p \in 1 .. l + 1 : p \in 1 .. l \/ p = l + 1
      BY <2>4
    <3>7. ASSUME NEW p \in 1 .. l + 1, NEW i \in 1 .. Len(puts'[p].recs)
          PROVE  Num(puts'[p].recs[i]) \in 1 .. b /\ puts'[p].recs[i] = Record(Num(puts'[p].recs[i]))
      <4>1. CASE p \in 1 .. l
        BY <2>5, <3>4, <4>1
      <4>2. CASE p = l + 1
        BY <3>5, <4>2
      <4> QED BY <3>6, <4>1, <4>2
    <3>8. ASSUME NEW p \in 1 .. l + 1, NEW q \in 1 .. l + 1,
                 NEW i \in 1 .. Len(puts'[p].recs), NEW j \in 1 .. Len(puts'[q].recs),
                 p < q \/ (p = q /\ i < j)
          PROVE  Num(puts'[p].recs[i]) < Num(puts'[q].recs[j])
      <4>1. CASE q \in 1 .. l
        <5>1. p \in 1 .. l
          BY <2>4, <3>8, <4>1
        <5> QED BY <2>6, <3>4, <3>8, <4>1, <5>1
      <4>2. CASE q = l + 1
        <5>1. Num(puts'[q].recs[j]) = a + j /\ j \in Nat /\ j >= 1 /\ j \in 1 .. Len(recs)
          BY <2>4, <3>5, <4>2
        <5>2. CASE p \in 1 .. l
          <6>1. Num(puts'[p].recs[i]) \in 1 .. a
            BY <2>5, <3>4, <5>2
          <6> QED BY <2>2, <5>1, <6>1
        <5>3. CASE p = l + 1
          <6>1. i < j
            BY <2>4, <3>8, <4>2, <5>3
          <6>2. Num(puts'[p].recs[i]) = a + i /\ i \in Nat
            BY <2>4, <3>5, <5>3
          <6> QED BY <2>2, <5>1, <6>1, <6>2
        <5> QED BY <3>6, <5>2, <5>3
      <4> QED BY <3>6, <4>1, <4>2
    <3> QED BY <2>2, <3>3, <3>7, <3>8 DEF Ordered
  <2> QED BY <2>7, <2>8
<1> QED BY <1>2, <1>3, QuietStep

-----------------------------------------------------------------------------
(* What is found again.                                                    *)

LEMMA ReadPlace == ASSUME NEW b \in Nat, NEW k \in 1 .. Read(b) PROVE Long * (k - 1) + 1 <= b
<1> DEFINE m == InRecord(b)
           r == Before(b)
<1>1. m \in Nat /\ r \in 0 .. Width /\ b = Long * m + r /\ Long * m \in Nat
  BY Place, Times
<1>2. k - 1 \in Nat /\ k \in Nat /\ Long * (k - 1) \in Nat /\ Long * k = Long * (k - 1) + Long
  <2>1. k - 1 \in Nat /\ k - 1 + 1 = k
    BY <1>1 DEF Read
  <2> QED BY <2>1, Times, TimesNext
<1> HIDE DEF m, r
<1>3. k <= IF r = Width THEN m + 1 ELSE m
  BY <1>1, <1>2 DEF Read, m, r
<1>4. k - 1 < m \/ (k - 1 = m /\ r = Width)
  BY <1>1, <1>2, <1>3
<1>5. CASE k - 1 < m
  <2>1. Long * (k - 1) + Long <= Long * m
    BY <1>1, <1>2, <1>5, TimesOrder
  <2> QED BY <1>1, <1>2, <2>1, LongIs
<1>6. CASE k - 1 = m /\ r = Width
  BY <1>1, <1>2, <1>6, LongIs
<1> QED BY <1>4, <1>5, <1>6

\* A chunk that is thrown away tears the report of every record it has letters
\* of, unless it is torn already.
LEMMA ThrownIsTorn ==
    ASSUME Typed, Streamed, Found, NEW n \in Nat \ {0}, ChunkOf(n), ThrownAway,
           NEW k \in Nat, k > InRecord(Base), Long * (k - 1) + 1 <= Base + n
    PROVE  ReportOf(k) \in torn'
<1> DEFINE b == Base
           m == InRecord(b) + 1
           s == Before(b)
           r == Latest(reports, k)
           data == SubSeq(line, 1, n)
<1>1. /\ b \in Nat /\ InRecord(b) \in Nat /\ m \in Nat /\ m >= 1 /\ m <= k /\ s \in 0 .. Width
      /\ b = Long * (m - 1) + s /\ b + 1 - 1 = b
  <2>1. b \in Nat
    BY BaseIs
  <2>2. InRecord(b) \in Nat /\ s \in 0 .. Width /\ b = Long * InRecord(b) + s
    BY <2>1, Place
  <2>3. m - 1 = InRecord(b)
    BY <2>2
  <2> QED BY <2>1, <2>2, <2>3
<1>2. torn' = torn \cup Tears(data) /\ \A i \in 1 .. n : data[i] = Nth(b + i) /\ Len(data) = n
  BY DEF ChunkOf
<1>3. s # 0 /\ readString = << >>
  BY DEF ThrownAway
<1>4. reports \in SUBSET Nat /\ 1 \in reports
  <2>1. written = 0 => Long * written = 0
    BY LongIs
  <2>2. Long * written > 0 /\ written \in Nat
    BY BaseIs DEF ChunkOf, Typed
  <2> QED BY <2>1, <2>2 DEF Typed
<1>5. r \in reports /\ r <= k /\ r \in Nat /\ \A q \in reports : q <= k => q <= r
  <2>1. k >= 1
    BY <1>1
  <2>2. Latest(reports, k) \in reports /\ Latest(reports, k) <= k /\ \A q \in reports : q <= k => q <= Latest(reports, k)
    BY <1>4, <2>1, LatestIs
  <2> QED BY <1>4, <2>2
<1> HIDE DEF r, data
<1>6. CASE r <= m
  <2>1. ReportOf(m) = r
    <3>1. \A q \in reports : q <= m => q <= r
      BY <1>1, <1>4, <1>5
    <3> HIDE DEF m
    <3>2. Latest(reports, m) = r
      BY <1>1, <1>4, <1>5, <1>6, <3>1, LatestOnly
    <3> QED BY <3>2, ReportOfIs
  <2>2. CASE s = Width
    <3>1. data[1] = <<m, s + 1>>
      BY <1>1, <1>2 DEF Nth
    <3>2. IsAt(data[1]) /\ data[1][1] = m
      BY <2>2, <3>1 DEF IsAt
    <3> HIDE DEF m, s
    <3>3. ReportOf(m) \in Tears(data)
      BY <3>2 DEF Tears
    <3> QED BY <1>2, <2>1, <3>3, ReportOfIs DEF r
  <2>3. CASE s # Width
    <3>1. s \in 1 .. Width - 1
      BY <1>1, <1>3, <2>3, LongIs
    <3>2. ReportOf(m) \in torn
      BY <1>3, <3>1 DEF Found
    <3> QED BY <1>2, <2>1, <3>2, ReportOfIs DEF r
  <2> QED BY <2>2, <2>3
<1>7. CASE r > m
  <2> DEFINE x == Long * (r - 1)
             i == x + 1 - b
  <2>1. r - 1 \in Nat /\ m - 1 \in Nat /\ k - 1 \in Nat /\ m - 1 < r - 1
        /\ x \in Nat /\ Long * (m - 1) \in Nat /\ Long * (k - 1) \in Nat
    <3>1. r - 1 \in Nat /\ m - 1 \in Nat /\ k - 1 \in Nat /\ m - 1 < r - 1
      BY <1>1, <1>5, <1>7
    <3> QED BY <3>1, Times
  <2>2. Long * (m - 1) + Long <= x
    BY <2>1, TimesOrder
  <2>3. x <= Long * (k - 1)
    <3>1. CASE r = k
      BY <2>1, <3>1
    <3>2. CASE r # k
      <4>1. r - 1 < k - 1
        BY <1>5, <3>2
      <4>2. x + Long <= Long * (k - 1)
        BY <2>1, <4>1, TimesOrder
      <4> QED BY <2>1, <4>2, LongIs
    <3> QED BY <3>1, <3>2
  <2> HIDE DEF x
  <2>4. i \in 2 .. n /\ i \in 1 .. n /\ b + i = x + 0 + 1
    <3> HIDE DEF m, s, b
    <3>1. Long * (k - 1) + 1 <= b + n
      BY DEF b
    <3> QED BY <1>1, <2>1, <2>2, <2>3, <3>1, LongIs
  <2> HIDE DEF i, b
  <2>5. data[i] = Nth(x + 0 + 1)
    BY <1>2, <2>4
  <2>6. Nth(x + 0 + 1) = <<r - 1 + 1, 0 + 1>>
    <3>1. 0 \in 0 .. Width
      BY LongIs
    <3> QED BY <2>1, <3>1, PlaceIs DEF x
  <2>7. data[i] = <<r, 1>>
    BY <1>5, <2>5, <2>6
  <2>8. r \in Tears(data)
    BY <1>2, <1>5, <2>4, <2>7 DEF Tears
  <2> QED BY <1>2, <2>8, ReportOfIs DEF r
<1> QED BY <1>1, <1>5, <1>6, <1>7

LEMMA StepFound == ASSUME Typed, Streamed, Forwarded, Found, [Next]_vars PROVE Found'
<1>1. /\ \A k \in 1 .. Read(Base) : ReportOf(k) \notin torn => Record(k) \in ToSet(forwarded)
      /\ Before(Base) \in 1 .. Width - 1 /\ ReportOf(InRecord(Base) + 1) \notin torn => readString # << >>
  BY DEF Found
<1>2. CASE SameRecs /\ Base' = Base /\ UNCHANGED torn /\ UNCHANGED <<line, written, reports, readString>>
  <2>1. forwarded' = forwarded
    BY <1>2, ForwardedSame
  <2>2. \A k : ReportOf(k)' = ReportOf(k)
    BY <1>2, ReportOfIs
  <2> QED BY <1>1, <1>2, <2>1, <2>2 DEF Found
<1>3. CASE SameRecs /\ Base' = Base /\ UNCHANGED torn /\ Report
  <2>1. forwarded' = forwarded /\ readString' = readString /\ reports' = reports \cup {written + 1}
    BY <1>3, ForwardedSame DEF Report
  <2>2. ASSUME NEW k \in 1 .. written PROVE ReportOf(k)' = ReportOf(k)
    <3>1. written \in Nat /\ reports \in SUBSET Nat /\ 1 \in reports
      BY DEF Typed
    <3>2. k \in Nat /\ k >= 1 /\ written + 1 \in Nat /\ k < written + 1
      BY <3>1
    <3>3. Latest(reports \cup {written + 1}, k) = Latest(reports, k)
      BY <3>1, <3>2, LatestGrows
    <3> QED BY <2>1, <3>3, ReportOfIs
  <2>3. Base \in Nat /\ Base <= Long * written /\ written \in Nat
    BY BaseIs DEF Typed
  <2>4. /\ Read(Base) \in 0 .. written /\ (Before(Base) > 0 => InRecord(Base) < written)
        /\ InRecord(Base) \in Nat
    BY <2>3, PlaceBound, Place
  <2>5. \A k \in 1 .. Read(Base) : k \in 1 .. written
    BY <2>3, <2>4
  <2>6. Before(Base) \in 1 .. Width - 1 => InRecord(Base) + 1 \in 1 .. written
    BY <2>3, <2>4, LongIs
  <2>7. \A k \in 1 .. Read(Base') : ReportOf(k)' \notin torn' => Record(k) \in ToSet(forwarded)'
    BY <1>1, <1>3, <2>1, <2>2, <2>5
  <2>8. Before(Base') \in 1 .. Width - 1 /\ ReportOf(InRecord(Base) + 1)' \notin torn' => readString' # << >>
    BY <1>1, <1>3, <2>1, <2>2, <2>6
  <2> QED BY <1>3, <2>7, <2>8 DEF Found
<1>4. CASE serialEvent
  <2>1. PICK n \in Nat \ {0} : ChunkOf(n)
    BY <1>4, Chunk
  <2> DEFINE a == Read(Base)
             b == Read(Base + n)
  <2>2. Base' = Base + n /\ a \in Nat /\ b \in Nat /\ a <= b /\ Base \in Nat /\ Base + n \in Nat
    BY <2>1, ReadIs, BaseIs DEF ChunkOf
  <2>3. PICK recs \in Seq(Seq(Letter)) :
           /\ Sends(recs) /\ \A i \in 1 .. Len(recs) : recs[i] = Record(a + i)
           /\ ~ ThrownAway => a + Len(recs) = b
    BY <2>1, Sending
  <2>4. forwarded \in Seq(Seq(Letter)) /\ Increasing(forwarded)
        /\ \A i \in 1 .. Len(forwarded) : \E k \in 1 .. a : forwarded[i] = Record(k)
    BY DEF Forwarded
  <2>5. forwarded' = forwarded \o recs
    BY <2>3, <2>4, ForwardedSends
  <2>6. /\ ToSet(forwarded) \subseteq ToSet(forwarded \o recs)
        /\ \A k \in a + 1 .. a + Len(recs) : Record(k) \in ToSet(forwarded \o recs)
    BY <2>2, <2>3, <2>4, Extended
  <2>7. reports' = reports /\ torn \subseteq torn' /\ \A k : ReportOf(k)' = ReportOf(k)
    <3>1. reports' = reports
      BY <1>4 DEF serialEvent, arduino
    <3> QED BY <2>1, <3>1, ReportOfIs DEF ChunkOf
  <2>8. InRecord(Base) \in Nat /\ InRecord(Base) <= a /\ InRecord(Base + n) \in Nat
        /\ InRecord(Base) <= InRecord(Base + n)
    <3>1. InRecord(Base) \in Nat /\ InRecord(Base + n) \in Nat
      BY <2>2, Place
    <3>2. Base <= Base + n
      BY <2>2
    <3>3. InRecord(Base) <= InRecord(Base + n)
      BY <2>2, <3>2, PlaceOrder
    <3> QED BY <3>1, <3>3 DEF Read
  <2>9. ASSUME NEW k \in 1 .. b, ReportOf(k) \notin torn' PROVE Record(k) \in ToSet(forwarded \o recs)
    <3>1. CASE k <= a
      <4>1. k \in 1 .. a
        BY <2>2, <3>1
      <4> QED BY <1>1, <2>6, <2>7, <2>9, <4>1
    <3>2. CASE k > a
      <4>1. k > InRecord(Base) /\ k \in Nat
        BY <2>2, <2>8, <3>2
      <4>2. Long * (k - 1) + 1 <= Base + n
        BY <2>2, ReadPlace
      <4>3. ~ ThrownAway
        BY <2>1, <2>9, <4>1, <4>2, ThrownIsTorn
      <4>4. k \in a + 1 .. a + Len(recs)
        BY <2>2, <2>3, <3>2, <4>3
      <4> QED BY <2>6, <4>4
    <3> QED BY <2>2, <3>1, <3>2
  <2>10. ASSUME Before(Base + n) \in 1 .. Width - 1, ReportOf(InRecord(Base + n) + 1) \notin torn'
         PROVE  readString' # << >>
    <3> DEFINE k == InRecord(Base + n) + 1
    <3>1. k \in Nat /\ k > InRecord(Base) /\ k - 1 = InRecord(Base + n)
      BY <2>8
    <3>2. Long * (k - 1) + 1 <= Base + n
      <4>1. Base + n = Long * (k - 1) + Before(Base + n)
        BY <2>2, <3>1, Place
      <4>2. Long * (k - 1) \in Int
        BY <3>1, Times
      <4> HIDE DEF k
      <4> QED BY <2>10, <4>1, <4>2, LongIs
    <3> HIDE DEF k
    <3>3. ReportOf(k) \notin torn'
      BY <2>10 DEF k
    <3>4. ~ ThrownAway
      BY <2>1, <3>1, <3>2, <3>3, ThrownIsTorn
    <3> QED BY <2>1, <2>10, <3>4 DEF ChunkOf, Taken
  <2>11. Read(Base') = b
    BY <2>2
  <2> HIDE DEF a, b
  <2>12. \A k \in 1 .. Read(Base') : ReportOf(k)' \notin torn' => Record(k) \in ToSet(forwarded)'
    BY <2>5, <2>7, <2>9, <2>11
  <2>13. Before(Base') \in 1 .. Width - 1 /\ ReportOf(InRecord(Base) + 1)' \notin torn' => readString' # << >>
    <3>1. InRecord(Base)' = InRecord(Base + n)
      BY <2>2
    <3>2. ReportOf(InRecord(Base) + 1)' = ReportOf(InRecord(Base + n) + 1)
      BY <2>7, <3>1, ReportOfIs
    <3> QED BY <2>2, <2>10, <3>2
  <2> QED BY <2>12, <2>13 DEF Found
<1> QED BY <1>2, <1>3, <1>4, QuietStep
-----------------------------------------------------------------------------
(* What is waited for, and what is stored.                                 *)

\* A new PUT is the last, has nothing stored and is waited for.
LEMMA NewIsLast ==
    ASSUME Typed, serialEvent
    PROVE  \/ UNCHANGED <<waits, puts>>
           \/ /\ waits' = Len(puts) + 1 /\ Len(puts') = Len(puts) + 1
              /\ \A p \in 1 .. Len(puts) : puts'[p] = puts[p]
              /\ puts'[Len(puts) + 1].done = 0 /\ puts'[Len(puts) + 1].at = "sent"
<1>1. \E recs : Sends(recs)
  BY DEF serialEvent, Sends, NewPut
<1>2. PICK recs : Sends(recs)
  BY <1>1
<1>3. CASE recs = << >>
  BY <1>2, <1>3 DEF Sends
<1>4. CASE recs # << >>
  <2> DEFINE v == NewPut(recs)
  <2>1. waits' = Len(puts) + 1 /\ puts' = Append(puts, v)
    BY <1>2, <1>4 DEF Sends
  <2>2. v.done = 0 /\ v.at = "sent"
    BY DEF NewPut
  <2> HIDE DEF v
  <2>3. puts \in Seq(PutType) /\ Len(puts) \in Nat
    BY DEF Typed
  <2>4. Len(puts') = Len(puts) + 1 /\ puts'[Len(puts) + 1] = v /\ \A p \in 1 .. Len(puts) : puts'[p] = puts[p]
    BY <2>1, <2>3, AppendProperties
  <2> QED BY <2>1, <2>2, <2>4
<1> QED BY <1>3, <1>4

LEMMA StepWaited == ASSUME Typed, Waited, [Next]_vars PROVE Waited'
<1>1. /\ waits # 0 => waits = Len(puts)
      /\ abandoned = {} => \A p \in 1 .. Len(puts) : puts[p].at # "answered" => p = waits
  BY DEF Waited
<1>2. waits \in 0 .. Len(puts) /\ Len(puts) \in Nat /\ DOMAIN puts = 1 .. Len(puts)
  BY DEF Typed
<1>3. CASE UNCHANGED <<waits, puts, abandoned>>
  BY <1>3, <1>1 DEF Waited
<1>4. CASE serialEvent
  <2>1. waits = 0 /\ abandoned' = abandoned
    BY <1>4 DEF serialEvent
  <2>2. CASE UNCHANGED <<waits, puts>>
    BY <1>3, <2>1, <2>2
  <2>3. CASE /\ waits' = Len(puts) + 1 /\ Len(puts') = Len(puts) + 1
             /\ \A p \in 1 .. Len(puts) : puts'[p] = puts[p]
    <3>1. ASSUME abandoned' = {}, NEW p \in 1 .. Len(puts'), puts'[p].at # "answered" PROVE p = waits'
      <4>1. CASE p \in 1 .. Len(puts)
        <5>1. p = 0
          BY <1>1, <2>1, <2>3, <3>1, <4>1
        <5> QED BY <4>1, <5>1
      <4>2. CASE p \notin 1 .. Len(puts)
        BY <1>2, <2>3, <4>2
      <4> QED BY <4>1, <4>2
    <3> QED BY <2>3, <3>1 DEF Waited
  <2> QED BY <1>4, <2>2, <2>3, NewIsLast
<1>5. CASE Answered
  <2>1. waits' = 0 /\ waits # 0 /\ puts[waits].at = "answered" /\ UNCHANGED <<puts, abandoned>>
    BY <1>5 DEF Answered, history
  <2>2. abandoned = {} => \A p \in 1 .. Len(puts) : puts[p].at = "answered"
    BY <1>1, <2>1
  <2> QED BY <2>1, <2>2 DEF Waited
<1>6. CASE TimesOut
  <2>1. waits' = 0 /\ abandoned' # {}
    BY <1>6 DEF TimesOut
  <2> QED BY <2>1 DEF Waited
<1>7. CASE \E p \in DOMAIN puts : Platform(p)
  <2>1. PICK p \in 1 .. Len(puts) : Platform(p)
    BY <1>2, <1>7
  <2>2. UNCHANGED <<waits, abandoned>> /\ puts[p].at # "answered" /\ Len(puts') = Len(puts)
        /\ \A q \in 1 .. Len(puts) : q # p => puts'[q] = puts[q]
    BY <2>1, PlatformStep DEF Dealt
  <2>3. ASSUME abandoned' = {}, NEW q \in 1 .. Len(puts), puts'[q].at # "answered" PROVE q = waits
    BY <1>1, <2>2, <2>3
  <2> QED BY <1>1, <2>2, <2>3 DEF Waited
<1>8. CASE Report \/ Collect \/ UNCHANGED vars
  <2>1. UNCHANGED <<waits, puts, abandoned>>
    BY <1>8 DEF Report, Collect, vars, history
  <2> QED BY <1>3, <2>1
<1> QED BY <1>4, <1>5, <1>6, <1>7, <1>8 DEF Next

\* A record is in one place only.
LEMMA OnlyPlace ==
    ASSUME Typed, Ordered, NEW p \in 1 .. Len(puts), NEW q \in 1 .. Len(puts),
           NEW i \in 1 .. Len(puts[p].recs), NEW j \in 1 .. Len(puts[q].recs)
    PROVE  /\ puts[p].recs[i] = puts[q].recs[j] => p = q /\ i = j
           /\ (p < q \/ (p = q /\ i < j)) => Num(puts[p].recs[i]) < Num(puts[q].recs[j])
<1> DEFINE a == Num(puts[p].recs[i])
           b == Num(puts[q].recs[j])
<1>1. a \in 1 .. Read(Base) /\ b \in 1 .. Read(Base)
  BY DEF Ordered
<1>2. ((p < q \/ (p = q /\ i < j)) => a < b) /\ ((q < p \/ (q = p /\ j < i)) => b < a)
  BY DEF Ordered
<1>3. puts[p].recs[i] = puts[q].recs[j] => a = b
  OBVIOUS
<1>4. p \in Nat /\ q \in Nat /\ i \in Nat /\ j \in Nat /\ a \in Int /\ b \in Int
  BY <1>1
<1> HIDE DEF a, b
<1> QED BY <1>2, <1>3, <1>4 DEF a, b

LEMMA StoredSame ==
    ASSUME Typed, Stored, UNCHANGED SENSOR_DATA, Len(puts') \in Nat, Len(puts) <= Len(puts'),
           \A p \in 1 .. Len(puts) : puts'[p].recs = puts[p].recs /\ puts'[p].done = puts[p].done,
           \A p \in 1 .. Len(puts') : p \notin 1 .. Len(puts) => puts'[p].done = 0,
           abandoned' = {} => abandoned = {},
           \A p \in 1 .. Len(puts') :
              puts'[p].at = "answered" /\ puts'[p].con /\ faults' = 0 => puts'[p].done = Len(puts'[p].recs)
    PROVE  Stored'
<1>1. \A p \in 1 .. Len(puts) : p \in 1 .. Len(puts')
  BY DEF Typed
<1>2. ASSUME NEW p \in 1 .. Len(puts'), NEW i \in 1 .. puts'[p].done
      PROVE  \E x \in 1 .. Len(SENSOR_DATA) : SENSOR_DATA[x] = puts'[p].recs[i]
  <2>1. CASE p \in 1 .. Len(puts)
    <3>1. i \in 1 .. puts[p].done /\ puts'[p].recs = puts[p].recs
      BY <2>1
    <3> QED BY <2>1, <3>1 DEF Stored
  <2>2. CASE p \notin 1 .. Len(puts)
    <3>1. i \in 1 .. 0
      BY <2>2
    <3> QED BY <3>1
  <2> QED BY <2>1, <2>2
<1>3. ASSUME NEW x \in 1 .. Len(SENSOR_DATA)
      PROVE  \E p \in 1 .. Len(puts') : \E i \in 1 .. puts'[p].done : SENSOR_DATA[x] = puts'[p].recs[i]
  <2>1. PICK p \in 1 .. Len(puts) : \E i \in 1 .. puts[p].done : SENSOR_DATA[x] = puts[p].recs[i]
    BY DEF Stored
  <2> QED BY <1>1, <2>1
<1>4. IsInjective(SENSOR_DATA) /\ (abandoned' = {} => Increasing(SENSOR_DATA))
  BY DEF Stored
<1>5. SENSOR_DATA' = SENSOR_DATA
  OBVIOUS
<1> QED BY <1>2, <1>3, <1>4, <1>5 DEF Stored

LEMMA InsertStored ==
    ASSUME Typed, Ordered, Waited, Stored, NEW p \in 1 .. Len(puts), rawInsert(p)
    PROVE  Stored'
<1> DEFINE D == SENSOR_DATA
           d == puts[p].done + 1
           x == puts[p].recs[d]
           z == Len(D)
<1>1. /\ puts[p].at = "inserts" /\ D' = Append(D, x) /\ faults' = faults /\ abandoned' = abandoned
  BY DEF rawInsert, history
<1>2. d \in 1 .. Len(puts[p].recs) /\ d - 1 = puts[p].done /\ d \in Nat
  <2>1. puts[p].done \in Nat /\ Len(puts[p].recs) \in Nat /\ puts[p].done < Len(puts[p].recs)
    BY <1>1, PutIs
  <2> QED BY <2>1
<1>3. D \in Seq(Seq(Letter)) /\ x \in Seq(Letter) /\ z \in Nat
  <2>1. x \in Seq(Letter)
    <3> HIDE DEF d
    <3> QED BY <1>2, PutIs
  <2> QED BY <2>1 DEF Typed
<1>4. /\ \A q \in 1 .. Len(puts) : \A i \in 1 .. puts[q].done : \E y \in 1 .. z : D[y] = puts[q].recs[i]
      /\ \A y \in 1 .. z : \E q \in 1 .. Len(puts) : \E i \in 1 .. puts[q].done : D[y] = puts[q].recs[i]
      /\ IsInjective(D) /\ (abandoned = {} => Increasing(D))
      /\ \A q \in 1 .. Len(puts) :
            puts[q].at = "answered" /\ puts[q].con /\ faults = 0 => puts[q].done = Len(puts[q].recs)
  BY DEF Stored
<1>5. Dealt(p, d, puts[p].con, IF d = Len(puts[p].recs) THEN "answered" ELSE "inserts")
  BY Inserted
<1>6. /\ Len(puts') = Len(puts) /\ puts'[p].done = d
      /\ \A q \in 1 .. Len(puts) : puts'[q].recs = puts[q].recs /\ (q # p => puts'[q] = puts[q])
      /\ puts'[p].at = IF d = Len(puts[p].recs) THEN "answered" ELSE "inserts"
  BY <1>5 DEF Dealt
<1> HIDE DEF d, x, z, D
<1>7. /\ D' \in Seq(Seq(Letter)) /\ Len(D') = z + 1 /\ D'[z + 1] = x /\ \A y \in 1 .. z : D'[y] = D[y]
      /\ DOMAIN D = 1 .. z /\ DOMAIN D' = 1 .. z + 1
  BY <1>1, <1>3 DEF z
<1>8. \A y \in 1 .. z + 1 : y \in 1 .. z \/ y = z + 1
  BY <1>3
<1>9. ASSUME NEW y \in 1 .. z
      PROVE  D[y] # x /\ (abandoned = {} => Num(D[y]) < Num(x))
  <2>0. PICK q \in 1 .. Len(puts) : \E i \in 1 .. puts[q].done : D[y] = puts[q].recs[i]
    BY <1>4
  <2>1. PICK i \in 1 .. puts[q].done : D[y] = puts[q].recs[i]
    BY <2>0
  <2>2. i \in 1 .. Len(puts[q].recs) /\ i \in Nat /\ puts[q].done \in Nat
    BY PutIs
  <2>3. ~ (q = p /\ i = d)
    BY <1>2, <2>2
  <2>4. D[y] # x
    BY <1>2, <2>1, <2>2, <2>3, OnlyPlace DEF x
  <2>5. ASSUME abandoned = {} PROVE Num(D[y]) < Num(x)
    <3>1. p = waits /\ waits = Len(puts)
      BY <1>1, <2>5 DEF Waited
    <3>2. q < p \/ (q = p /\ i < d)
      <4>1. CASE q = p
        BY <1>2, <2>2, <4>1
      <4>2. CASE q # p
        BY <3>1, <4>2 DEF Typed
      <4> QED BY <4>1, <4>2
    <3> QED BY <1>2, <2>1, <2>2, <3>2, OnlyPlace DEF x
  <2> QED BY <2>4, <2>5
<1>10. ASSUME NEW q \in 1 .. Len(puts), NEW i \in 1 .. puts'[q].done
       PROVE  \E y \in 1 .. z + 1 : D'[y] = puts'[q].recs[i]
  <2>1. z + 1 \in 1 .. z + 1 /\ \A y \in 1 .. z : y \in 1 .. z + 1
    BY <1>3
  <2>2. CASE i \in 1 .. puts[q].done
    <3>1. PICK y \in 1 .. z : D[y] = puts[q].recs[i]
      BY <1>4, <2>2
    <3> QED BY <1>6, <1>7, <2>1, <3>1
  <2>3. CASE i \notin 1 .. puts[q].done
    <3>1. q = p
      BY <1>6, <2>3
    <3>2. i = d
      BY <1>2, <1>6, <2>3, <3>1
    <3> QED BY <1>6, <1>7, <2>1, <3>1, <3>2 DEF x
  <2> QED BY <2>2, <2>3
<1>11. ASSUME NEW y \in 1 .. z + 1
       PROVE  \E q \in 1 .. Len(puts) : \E i \in 1 .. puts'[q].done : D'[y] = puts'[q].recs[i]
  <2>1. CASE y \in 1 .. z
    <3>0. PICK q \in 1 .. Len(puts) : \E i \in 1 .. puts[q].done : D[y] = puts[q].recs[i]
      BY <1>4, <2>1
    <3>1. PICK i \in 1 .. puts[q].done : D[y] = puts[q].recs[i]
      BY <3>0
    <3>2. i \in 1 .. puts'[q].done
      <4>1. CASE q = p
        BY <1>2, <1>6, <4>1
      <4>2. CASE q # p
        BY <1>6, <4>2
      <4> QED BY <4>1, <4>2
    <3> QED BY <1>6, <1>7, <2>1, <3>1, <3>2
  <2>2. CASE y = z + 1
    <3>1. d \in 1 .. puts'[p].done
      BY <1>2, <1>6
    <3> QED BY <1>6, <1>7, <2>2, <3>1 DEF x
  <2> QED BY <1>8, <2>1, <2>2
<1>12. IsInjective(D')
  <2>1. ASSUME NEW y \in 1 .. z + 1, NEW w \in 1 .. z + 1, D'[y] = D'[w] PROVE y = w
    <3>1. CASE y \in 1 .. z /\ w \in 1 .. z
      BY <1>4, <1>7, <2>1, <3>1 DEF IsInjective
    <3>2. CASE y \in 1 .. z /\ w = z + 1
      BY <1>7, <1>9, <2>1, <3>2
    <3>3. CASE y = z + 1 /\ w \in 1 .. z
      BY <1>7, <1>9, <2>1, <3>3
    <3> QED BY <1>8, <3>1, <3>2, <3>3
  <2> QED BY <1>7, <2>1 DEF IsInjective
<1>13. ASSUME abandoned = {} PROVE Increasing(D')
  <2>1. ASSUME NEW y \in 1 .. z + 1, NEW w \in 1 .. z + 1, y < w PROVE D'[y][1][1] < D'[w][1][1]
    <3>1. y \in 1 .. z
      BY <1>3, <2>1
    <3>2. CASE w \in 1 .. z
      BY <1>4, <1>7, <1>13, <2>1, <3>1, <3>2 DEF Increasing
    <3>3. CASE w = z + 1
      BY <1>7, <1>9, <1>13, <3>1, <3>3 DEF Num
    <3> QED BY <1>8, <3>2, <3>3
  <2> QED BY <1>7, <2>1 DEF Increasing
<1>14. ASSUME NEW q \in 1 .. Len(puts), puts'[q].at = "answered", puts'[q].con, faults' = 0
       PROVE  puts'[q].done = Len(puts'[q].recs)
  <2>1. CASE q = p
    BY <1>6, <1>14, <2>1
  <2>2. CASE q # p
    BY <1>1, <1>4, <1>6, <1>14, <2>2
  <2> QED BY <2>1, <2>2
<1>15. Len(puts') = Len(puts) /\ Len(SENSOR_DATA') = z + 1 /\ abandoned' = abandoned
  BY <1>1, <1>6, <1>7 DEF D
<1>16. \A q \in 1 .. Len(puts) : \A i \in 1 .. puts'[q].done : \E y \in 1 .. z + 1 : SENSOR_DATA'[y] = puts'[q].recs[i]
  BY <1>10 DEF D
<1>17. \A y \in 1 .. z + 1 : \E q \in 1 .. Len(puts) : \E i \in 1 .. puts'[q].done : SENSOR_DATA'[y] = puts'[q].recs[i]
  BY <1>11 DEF D
<1>18. IsInjective(SENSOR_DATA') /\ (abandoned = {} => Increasing(SENSOR_DATA'))
  BY <1>12, <1>13 DEF D
<1>19. \A q \in 1 .. Len(puts') : \A i \in 1 .. puts'[q].done :
          \E y \in 1 .. Len(SENSOR_DATA') : SENSOR_DATA'[y] = puts'[q].recs[i]
  BY <1>15, <1>16
<1>20. \A y \in 1 .. Len(SENSOR_DATA') : \E q \in 1 .. Len(puts') : \E i \in 1 .. puts'[q].done :
          SENSOR_DATA'[y] = puts'[q].recs[i]
  BY <1>15, <1>17
<1>21. \A q \in 1 .. Len(puts') :
          puts'[q].at = "answered" /\ puts'[q].con /\ faults' = 0 => puts'[q].done = Len(puts'[q].recs)
  BY <1>14, <1>15
<1>22. abandoned' = {} => Increasing(SENSOR_DATA')
  BY <1>15, <1>18
<1> QED BY <1>18, <1>19, <1>20, <1>21, <1>22 DEF Stored

LEMMA StepStored == ASSUME Typed, Ordered, Waited, Stored, [Next]_vars PROVE Stored'
<1>1. Len(puts) \in Nat /\ DOMAIN puts = 1 .. Len(puts) /\ faults \in Nat
  BY DEF Typed
<1>2. \A p \in 1 .. Len(puts) :
          puts[p].at = "answered" /\ puts[p].con /\ faults = 0 => puts[p].done = Len(puts[p].recs)
  BY DEF Stored
<1>3. CASE UNCHANGED <<SENSOR_DATA, puts>> /\ (faults' = 0 => faults = 0) /\ (abandoned' = {} => abandoned = {})
  BY <1>1, <1>2, <1>3, StoredSame
<1>4. CASE serialEvent
  <2>1. UNCHANGED <<SENSOR_DATA, faults, abandoned>>
    BY <1>4 DEF serialEvent, platform
  <2>2. CASE UNCHANGED <<waits, puts>>
    BY <1>3, <2>1, <2>2
  <2>3. CASE /\ Len(puts') = Len(puts) + 1 /\ \A p \in 1 .. Len(puts) : puts'[p] = puts[p]
             /\ puts'[Len(puts) + 1].done = 0 /\ puts'[Len(puts) + 1].at = "sent"
    <3>1. Len(puts') \in Nat /\ Len(puts) <= Len(puts')
          /\ \A p \in 1 .. Len(puts') : p \notin 1 .. Len(puts) => p = Len(puts) + 1
      BY <1>1, <2>3
    <3>2. \A p \in 1 .. Len(puts') :
             puts'[p].at = "answered" /\ puts'[p].con /\ faults' = 0 => puts'[p].done = Len(puts'[p].recs)
      <4>1. ASSUME NEW p \in 1 .. Len(puts'), puts'[p].at = "answered", puts'[p].con, faults' = 0
            PROVE  puts'[p].done = Len(puts'[p].recs)
        <5>1. p \in 1 .. Len(puts)
          BY <2>3, <3>1, <4>1
        <5> QED BY <1>2, <2>1, <2>3, <4>1, <5>1
      <4> QED BY <4>1
    <3> QED BY <2>1, <2>3, <3>1, <3>2, StoredSame
  <2> QED BY <1>4, <2>2, <2>3, NewIsLast
<1>5. CASE TimesOut
  <2>1. UNCHANGED <<SENSOR_DATA, puts>> /\ (Fault \/ UNCHANGED faults) /\ abandoned' # {}
    BY <1>5 DEF TimesOut, platform
  <2> QED BY <1>1, <1>3, <2>1, FaultsGrow
<1>6. CASE Report \/ Answered \/ Collect \/ UNCHANGED vars
  <2>1. UNCHANGED <<SENSOR_DATA, puts, faults, abandoned>>
    BY <1>6 DEF Report, Answered, Collect, vars, platform, history
  <2> QED BY <1>3, <2>1
<1>7. CASE \E p \in DOMAIN puts : Platform(p)
  <2>1. PICK p \in 1 .. Len(puts) : Platform(p)
    BY <1>1, <1>7
  <2>2. CASE rawInsert(p)
    BY <2>2, InsertStored
  <2>3. ASSUME NEW c, NEW a, Dealt(p, puts[p].done, c, a), UNCHANGED SENSOR_DATA,
               a = "answered" /\ c => faults' # 0
        PROVE  Stored'
    <3>1. faults' = 0 => faults = 0
      BY <2>1, PlatformStep
    <3>2. abandoned' = abandoned
      BY <2>1, PlatformStep
    <3>3. /\ Len(puts') = Len(puts) /\ puts'[p].done = puts[p].done /\ puts'[p].con = c /\ puts'[p].at = a
          /\ \A q \in 1 .. Len(puts) : puts'[q].recs = puts[q].recs /\ (q # p => puts'[q] = puts[q])
      BY <2>3 DEF Dealt
    <3>4. \A q \in 1 .. Len(puts) : puts'[q].recs = puts[q].recs /\ puts'[q].done = puts[q].done
      BY <3>3
    <3>5. \A q \in 1 .. Len(puts) :
             puts'[q].at = "answered" /\ puts'[q].con /\ faults' = 0 => puts'[q].done = Len(puts'[q].recs)
      <4>1. ASSUME NEW q \in 1 .. Len(puts), puts'[q].at = "answered", puts'[q].con, faults' = 0
            PROVE  puts'[q].done = Len(puts'[q].recs)
        <5>1. q # p
          BY <2>3, <3>3, <4>1
        <5> QED BY <1>2, <3>1, <3>3, <4>1, <5>1
      <4> QED BY <4>1
    <3> QED BY <1>1, <2>3, <3>2, <3>3, <3>4, <3>5, StoredSame
  <2>4. CASE Lost(p)
    <3>1. Dealt(p, puts[p].done, puts[p].con, "lost") /\ SENSOR_DATA' = SENSOR_DATA
      BY <2>4, LostIs DEF Lost, platform
    <3> QED BY <2>3, <3>1
  <2>5. CASE handlePUT(p)
    <3>1. SENSOR_DATA' = SENSOR_DATA /\ \E c \in BOOLEAN : Dealt(p, puts[p].done, c, "inserts")
      BY <2>5, TakenUp DEF handlePUT
    <3> QED BY <2>3, <3>1
  <2>6. CASE rawInsertFails(p)
    <3>1. Dealt(p, puts[p].done, puts[p].con, "answered") /\ SENSOR_DATA' = SENSOR_DATA
      BY <2>6, Failed DEF rawInsertFails, platform
    <3>2. puts[p].con => faults' # 0
      BY <1>1, <2>6 DEF rawInsertFails, Fault
    <3> QED BY <2>3, <3>1, <3>2
  <2> QED BY <2>1, <2>2, <2>4, <2>5, <2>6 DEF Platform
<1> QED BY <1>4, <1>5, <1>6, <1>7 DEF Next
-----------------------------------------------------------------------------
(* The theorems.                                                           *)

LEMMA Initially == Init => Inv
<1> SUFFICES ASSUME Init PROVE Inv
  OBVIOUS
<1>1. /\ line = << >> /\ written = 0 /\ reports = {} /\ readString = << >> /\ waits = 0 /\ puts = << >>
      /\ con = 0 /\ SENSOR_DATA = << >> /\ faults = 0 /\ torn = {} /\ abandoned = {}
  BY DEF Init
<1>2. Base = 0
  BY <1>1, LongIs DEF Base
<1>3. InRecord(0) = 0 /\ Before(0) = 0 /\ Read(0) = 0
  <2>1. 0 \in 0 .. Width /\ Long * 0 + 0 = 0
    BY LongIs
  <2>2. InRecord(0) = 0 /\ Before(0) = 0
    BY <2>1, PlaceIs
  <2> QED BY <2>2, LongIs DEF Read
<1>4. forwarded = << >>
  <2>1. [p \in DOMAIN puts |-> puts[p].recs] = << >>
    BY <1>1
  <2> QED BY <2>1, FlattenEmpty DEF forwarded
<1>5. Typed
  BY <1>1, ConAssumption DEF Typed
<1>6. Streamed
  BY <1>1, LongIs DEF Streamed
<1>7. Ordered
  BY <1>1 DEF Ordered
<1>8. Forwarded
  BY <1>4 DEF Forwarded, Increasing
<1>9. Found
  BY <1>2, <1>3 DEF Found
<1>10. Waited
  BY <1>1 DEF Waited
<1>11. Stored
  BY <1>1 DEF Stored, IsInjective, Increasing
<1> QED BY <1>5, <1>6, <1>7, <1>8, <1>9, <1>10, <1>11 DEF Inv

LEMMA Preserved == Inv /\ [Next]_vars => Inv'
BY StepTyped, StepOrdered, StepForwarded, StepFound, StepWaited, StepStored DEF Inv

\* The line holds what the Arduino wrote last, each PUT has records that were
\* read, later ones than the PUT before, a record that was read is sent unless
\* its report is torn, and the table has the first records of every PUT.
THEOREM Invariance == Spec => []Inv
BY Initially, Preserved, PTL DEF Spec

\* Letters are letters of records written, readString is never a whole record,
\* and no more connections are open than the database accepts.
THEOREM TypeCorrect == Spec => []TypeOK
<1>1. Inv => TypeOK
  <2> SUFFICES ASSUME Typed, Streamed PROVE TypeOK
    BY DEF Inv
  <2>1. Base \in Nat /\ Base + Len(line) = Long * written /\ written \in Nat /\ Len(line) \in Nat
        /\ Long * written \in Nat
    BY BaseIs DEF Typed
  <2>2. ASSUME NEW i \in 1 .. Len(line) PROVE line[i] \in (1 .. written) \X (1 .. Width + 1)
    <3> DEFINE g == Base + i - 1
    <3>1. g \in Nat /\ g < Long * written
      BY <2>1
    <3> HIDE DEF g
    <3>2. InRecord(g) \in Nat /\ Before(g) \in 0 .. Width /\ InRecord(g) < written
      BY <2>1, <3>1, Place, PlaceBound
    <3>3. line[i] = <<InRecord(g) + 1, Before(g) + 1>>
      <4>1. line[i] = Nth(Base + i)
        BY DEF Streamed
      <4>2. Nth(Base + i) = <<InRecord(g) + 1, Before(g) + 1>>
        <5>1. Base + i = g + 1
          BY <2>1 DEF g
        <5> QED BY <3>1, <5>1, NthIs
      <4> QED BY <4>1, <4>2
    <3>4. InRecord(g) + 1 \in 1 .. written /\ Before(g) + 1 \in 1 .. Width + 1
      BY <2>1, <3>2, LongIs
    <3> QED BY <3>3, <3>4
  <2>3. Len(readString) < Width
    <3>1. CASE readString = << >>
      BY <3>1, LongIs
    <3>2. CASE readString # << >>
      BY <3>2 DEF Streamed, IsPart
    <3> QED BY <3>1, <3>2
  <2>4. DOMAIN line = 1 .. Len(line) /\ DOMAIN puts = 1 .. Len(puts)
    BY DEF Typed
  <2>5. ASSUME NEW p \in 1 .. Len(puts)
        PROVE  /\ puts[p].recs # << >> /\ puts[p].done \in 0 .. Len(puts[p].recs)
               /\ puts[p].at \in {"sent", "lost", "inserts", "answered"}
    <3>1. puts[p].done \in Nat /\ Len(puts[p].recs) \in Nat /\ puts[p].done <= Len(puts[p].recs)
      BY PutIs
    <3>2. puts[p].done \in 0 .. Len(puts[p].recs)
      BY <3>1
    <3> QED BY <3>2, PutIs DEF At
  <2> QED BY <2>2, <2>3, <2>4, <2>5 DEF TypeOK, Typed
<1> QED BY <1>1, Invariance, PTL

\* makeSerial: however the line is cut into chunks, what is sent are whole
\* records, each at most once and in the order in which they were written.
THEOREM Forwarding == Spec => []ForwardsWhole
<1>1. Inv => ForwardsWhole
  <2> SUFFICES ASSUME Typed, Streamed, Forwarded PROVE ForwardsWhole
    BY DEF Inv
  <2>1. Read(Base) \in 0 .. written /\ written \in Nat
    BY BaseIs, PlaceBound DEF Typed
  <2>2. \A k \in 1 .. Read(Base) : k \in 1 .. written
    BY <2>1
  <2>3. forwarded \in Seq(Seq(Letter)) /\ Increasing(forwarded)
        /\ \A i \in 1 .. Len(forwarded) : \E k \in 1 .. Read(Base) : forwarded[i] = Record(k)
    BY DEF Forwarded
  <2>4. DOMAIN forwarded = 1 .. Len(forwarded)
    BY <2>3
  <2>5. ToSet(forwarded) \subseteq RECORDS
    BY <2>2, <2>3, <2>4 DEF ToSet, RECORDS
  <2> QED BY <2>3, <2>5 DEF ForwardsWhole
<1> QED BY <1>1, Invariance, PTL

\* makeSerial: when the line is read, every record is sent whose report begins
\* with a chunk and is never cut in front of an "@".
THEOREM Resynchronising == Spec => []Resynchronises
<1>1. Inv => Resynchronises
  <2> SUFFICES ASSUME Typed, Streamed, Found, line = << >>,
                      NEW k \in 1 .. written, ReportOf(k) \notin torn
               PROVE  Record(k) \in ToSet(forwarded)
    BY DEF Inv, Resynchronises
  <2>1. Base = Long * written + 0 /\ written \in Nat /\ 0 \in 0 .. Width
    BY Times, LongIs DEF Base, Typed
  <2>2. InRecord(Base) = written /\ Before(Base) = 0
    BY <2>1, PlaceIs
  <2>3. Read(Base) = written
    BY <2>2, LongIs DEF Read
  <2> QED BY <2>3 DEF Found
<1> QED BY <1>1, Invariance, PTL

\* rawInsert: the table has no record twice, and has them in their order unless
\* the gateway has given up a PUT; of a PUT it has the first so many records,
\* and all of them if there was a connection and nothing failed.
THEOREM Storing == Spec => []StoresFaithfully
<1>1. Inv => StoresFaithfully
  <2> SUFFICES ASSUME Typed, Ordered, Stored PROVE StoresFaithfully
    BY DEF Inv
  <2>1. InOrder
    BY DEF InOrder, Stored
  <2>2. DOMAIN puts = 1 .. Len(puts) /\ DOMAIN SENSOR_DATA = 1 .. Len(SENSOR_DATA)
    BY DEF Typed
  <2>3. ASSUME NEW p \in 1 .. Len(puts), NEW i \in 1 .. Len(puts[p].recs)
        PROVE  puts[p].recs[i] \in ToSet(SENSOR_DATA) <=> i <= puts[p].done
    <3>1. puts[p].done \in Nat /\ i \in Nat /\ i >= 1
      BY PutIs
    <3>2. ASSUME i <= puts[p].done PROVE puts[p].recs[i] \in ToSet(SENSOR_DATA)
      <4>1. i \in 1 .. puts[p].done
        BY <3>1, <3>2
      <4>2. PICK x \in 1 .. Len(SENSOR_DATA) : SENSOR_DATA[x] = puts[p].recs[i]
        BY <4>1 DEF Stored
      <4> QED BY <2>2, <4>2 DEF ToSet
    <3>3. ASSUME puts[p].recs[i] \in ToSet(SENSOR_DATA) PROVE i <= puts[p].done
      <4>1. PICK x \in 1 .. Len(SENSOR_DATA) : SENSOR_DATA[x] = puts[p].recs[i]
        BY <2>2, <3>3 DEF ToSet
      <4>2. PICK q \in 1 .. Len(puts) : \E j \in 1 .. puts[q].done : SENSOR_DATA[x] = puts[q].recs[j]
        BY DEF Stored
      <4>3. PICK j \in 1 .. puts[q].done : SENSOR_DATA[x] = puts[q].recs[j]
        BY <4>2
      <4>4. j \in 1 .. Len(puts[q].recs) /\ j <= puts[q].done
        <5>1. puts[q].done \in Nat /\ Len(puts[q].recs) \in Nat /\ puts[q].done <= Len(puts[q].recs)
          BY PutIs
        <5> QED BY <5>1
      <4>6. puts[p].recs[i] = puts[q].recs[j]
        BY <4>1, <4>3
      <4>5. p = q /\ i = j
        BY <4>4, <4>6, OnlyPlace
      <4> QED BY <4>4, <4>5
    <3> QED BY <3>2, <3>3
  <2>4. ASSUME NEW p \in 1 .. Len(puts)
        PROVE  LET stored(i) == puts[p].recs[i] \in ToSet(SENSOR_DATA)
               IN  /\ \A i, j \in DOMAIN puts[p].recs : i < j /\ stored(j) => stored(i)
                   /\ puts[p].at = "answered" /\ puts[p].con /\ faults = 0 =>
                          \A i \in DOMAIN puts[p].recs : stored(i)
    <3>1. DOMAIN puts[p].recs = 1 .. Len(puts[p].recs) /\ puts[p].done \in Nat
      BY PutIs
    <3>2. ASSUME NEW i \in 1 .. Len(puts[p].recs), NEW j \in 1 .. Len(puts[p].recs), i < j,
                 puts[p].recs[j] \in ToSet(SENSOR_DATA)
          PROVE  puts[p].recs[i] \in ToSet(SENSOR_DATA)
      <4>1. j <= puts[p].done
        BY <2>3, <3>2
      <4>2. i <= puts[p].done
        BY <3>1, <3>2, <4>1
      <4> QED BY <2>3, <4>2
    <3>3. ASSUME puts[p].at = "answered", puts[p].con, faults = 0, NEW i \in 1 .. Len(puts[p].recs)
          PROVE  puts[p].recs[i] \in ToSet(SENSOR_DATA)
      <4>1. puts[p].done = Len(puts[p].recs)
        BY <3>3 DEF Stored
      <4>2. i <= puts[p].done
        BY <4>1
      <4> QED BY <2>3, <4>2
    <3> QED BY <3>1, <3>2, <3>3
  <2>5. NoHoles
    BY <2>2, <2>4 DEF NoHoles
  <2> QED BY <2>1, <2>5 DEF StoresFaithfully
<1> QED BY <1>1, Invariance, PTL
=============================================================================
