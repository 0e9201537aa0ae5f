---------------------------- MODULE CodecProofs ----------------------------
(***************************************************************************)
(* Messages arrive as they were sent: for every kind of message and every  *)
(* message of it, every width of the integers, every extension by unknown  *)
(* fields and every place where the bytes can be cut.                      *)
(***************************************************************************)
EXTENDS Codec, WireProofs

(***************************************************************************)
(* Sequences one after the other                                           *)
(***************************************************************************)

\* Where part number j of a sequence of sequences ends when they are joined.
Offset(s, j) == SumFunctionOnSet([i \in DOMAIN s |-> Len(s[i])], 1 .. j)

\* Value k of the function g is the first k parts joined.
Joins(g, s, k) == g = [i \in 1 .. k |-> IF i = 1 THEN s[i] ELSE g[i - 1] \o s[i]]

LEMMA JoinsExists ==
  ASSUME NEW s, Len(s) \in Nat, NEW n \in 1 .. Len(s)
  PROVE  \E g : Joins(g, s, n)
<1> DEFINE bad == {k \in 1 .. Len(s) : ~\E g : Joins(g, s, k)}
<1> SUFFICES ASSUME bad # {} PROVE FALSE
  OBVIOUS
<1>1. PICK k \in bad : \A j \in bad : k <= j
  <2>1. bad \in SUBSET Nat
    OBVIOUS
  <2> HIDE DEF bad
  <2> QED BY <2>1, LeastMember
<1>2. CASE k = 1
  <2> DEFINE g == [i \in 1 .. 1 |-> s[i]]
  <2>1. Joins(g, s, 1)
    BY DEF Joins
  <2> QED BY <1>2, <2>1
<1>3. CASE k # 1
  <2>1. k \in 2 .. Len(s) /\ k - 1 \in 1 .. Len(s) /\ k - 1 \notin bad
    BY <1>1, <1>3
  <2>2. PICK h : Joins(h, s, k - 1)
    BY <2>1
  <2> DEFINE g == [i \in 1 .. k |-> IF i = k THEN h[k - 1] \o s[k] ELSE h[i]]
  <2>3. ASSUME NEW i \in 1 .. k PROVE g[i] = IF i = 1 THEN s[i] ELSE g[i - 1] \o s[i]
    <3>1. CASE i = k
      <4>1. i # 1 /\ i - 1 \in 1 .. k /\ i - 1 # k
        BY <2>1, <3>1
      <4>2. g[i - 1] = h[i - 1] /\ g[i] = h[k - 1] \o s[k]
        BY <3>1, <4>1
      <4> HIDE DEF g
      <4> QED BY <3>1, <4>1, <4>2
    <3>2. CASE i # k
      <4>1. i \in 1 .. k - 1 /\ g[i] = h[i]
        BY <2>1, <3>2
      <4>2. h[i] = IF i = 1 THEN s[i] ELSE h[i - 1] \o s[i]
        BY <2>2, <4>1 DEF Joins
      <4>3. i # 1 => g[i - 1] = h[i - 1]
        BY <2>1, <4>1
      <4> QED BY <4>1, <4>2, <4>3
    <3> QED BY <3>1, <3>2
  <2>4. g = [i \in 1 .. k |-> g[i]]
    OBVIOUS
  <2> HIDE DEF g
  <2>5. Joins(g, s, k)
    BY <2>3, <2>4 DEF Joins
  <2> QED BY <2>5
<1> QED BY <1>2, <1>3

LEMMA FlattenJoins ==
  ASSUME NEW s, Len(s) \in Nat
  PROVE  IF Len(s) = 0 THEN FlattenSeq(s) = s
         ELSE \E g : Joins(g, s, Len(s)) /\ FlattenSeq(s) = g[Len(s)]
<1>1. CASE Len(s) = 0
  BY <1>1 DEF FlattenSeq
<1>2. CASE Len(s) # 0
  <2> DEFINE g == CHOOSE g : Joins(g, s, Len(s))
  <2>1. Len(s) \in 1 .. Len(s)
    BY <1>2
  <2>2. Joins(g, s, Len(s))
    BY <2>1, JoinsExists
  <2>3. FlattenSeq(s) = g[Len(s)]
    BY <1>2 DEF FlattenSeq, Joins
  <2> QED BY <1>2, <2>2, <2>3
<1> QED BY <1>1, <1>2

LEMMA UpTo ==
  ASSUME NEW j \in Nat
  PROVE  /\ IsFiniteSet(1 .. j)
         /\ j # 0 => 1 .. j = (1 .. j - 1) \cup {j} /\ j \notin 1 .. j - 1 /\ j - 1 \in Nat
<1>1. IsFiniteSet(1 .. j)
  BY FS_Interval
<1>2. j # 0 => 1 .. j = (1 .. j - 1) \cup {j} /\ j \notin 1 .. j - 1 /\ j - 1 \in Nat
  OBVIOUS
<1> QED BY <1>1, <1>2

\* The parts of a sequence of sequences.
LEMMA Parts ==
  ASSUME NEW S, NEW s \in Seq(Seq(S))
  PROVE  /\ Len(s) \in Nat /\ DOMAIN s = 1 .. Len(s)
         /\ \A k \in 1 .. Len(s) : s[k] \in Seq(S) /\ Len(s[k]) \in Nat
<1>1. Len(s) \in Nat /\ DOMAIN s = 1 .. Len(s)
  BY LenProperties
<1>2. ASSUME NEW k \in 1 .. Len(s) PROVE s[k] \in Seq(S) /\ Len(s[k]) \in Nat
  <2>1. s[k] \in Seq(S)
    BY ElementOfSeq
  <2> QED BY <2>1, LenProperties
<1> QED BY <1>1, <1>2

\* The offsets of parts.
LEMMA Offsets ==
  ASSUME NEW S, NEW s \in Seq(Seq(S))
  PROVE  /\ Offset(s, 0) = 0
         /\ \A k \in 0 .. Len(s) : Offset(s, k) \in Nat
         /\ \A k \in 1 .. Len(s) : Offset(s, k) = Offset(s, k - 1) + Len(s[k])
<1> DEFINE lens == [i \in DOMAIN s |-> Len(s[i])]
<1>1. Len(s) \in Nat /\ DOMAIN s = 1 .. Len(s)
  BY Parts
<1>2. ASSUME NEW j \in 1 .. Len(s) PROVE lens[j] = Len(s[j]) /\ lens[j] \in Nat
  BY <1>1, Parts
<1>3. \A j : Offset(s, j) = SumFunctionOnSet(lens, 1 .. j)
  BY DEF Offset
<1> HIDE DEF lens
<1> DEFINE n == Len(s)
<1> HIDE DEF n
<1>4. n \in Nat /\ \A j \in 1 .. n : lens[j] = Len(s[j]) /\ lens[j] \in Nat
  BY <1>1, <1>2 DEF n
<1>5. Offset(s, 0) = 0
  <2>1. 1 .. 0 = {}
    OBVIOUS
  <2> QED BY <1>3, <2>1, SumEmpty
<1>6. ASSUME NEW j \in 0 .. n PROVE Offset(s, j) \in Nat
  <2>1. j \in Nat /\ \A i \in 1 .. j : lens[i] \in Nat
    BY <1>4
  <2>2. IsFiniteSet(1 .. j)
    BY <2>1, UpTo
  <2>3. SumFunctionOnSet(lens, 1 .. j) \in Nat
    BY <2>1, <2>2, SumIsNat
  <2> QED BY <1>3, <2>3
<1>7. ASSUME NEW j \in 1 .. n PROVE Offset(s, j) = Offset(s, j - 1) + Len(s[j])
  <2>1. j \in Nat /\ j # 0 /\ j - 1 \in Nat /\ j - 1 \in 0 .. n
    BY <1>4
  <2> DEFINE T == 1 .. j - 1
  <2>2. IsFiniteSet(T) /\ j \notin T /\ 1 .. j = T \cup {j}
    BY <2>1, UpTo
  <2>3. lens[j] \in Int /\ \A i \in T : lens[i] = lens[i] /\ lens[i] \in Int
    BY <1>4, <2>1
  <2> HIDE DEF T
  <2>4. SumFunctionOnSet(lens, T \cup {j}) = lens[j] + SumFunctionOnSet(lens, T)
    BY <2>2, <2>3, SumAdd, ZenonT(40)
  <2>5. Offset(s, j) = lens[j] + Offset(s, j - 1)
    <3>1. Offset(s, j - 1) = SumFunctionOnSet(lens, T)
      BY <1>3 DEF T
    <3>2. Offset(s, j) = SumFunctionOnSet(lens, T \cup {j})
      BY <1>3, <2>2
    <3> QED BY <2>4, <3>1, <3>2
  <2>6. Offset(s, j - 1) \in Nat /\ lens[j] = Len(s[j]) /\ lens[j] \in Nat
    BY <1>4, <1>6, <2>1
  <2> QED BY <2>5, <2>6
<1> QED BY <1>5, <1>6, <1>7 DEF n

LEMMA OffsetsGrow ==
  ASSUME NEW S, NEW s \in Seq(Seq(S)), NEW k \in 0 .. Len(s), NEW j \in 0 .. k
  PROVE  Offset(s, j) <= Offset(s, k)
<1> DEFINE n == Len(s)
<1>1. n \in Nat /\ \A i \in 1 .. n : Len(s[i]) \in Nat
  BY Parts
<1>2. /\ \A i \in 0 .. n : Offset(s, i) \in Nat
      /\ \A i \in 1 .. n : Offset(s, i) = Offset(s, i - 1) + Len(s[i])
  BY Offsets
<1>3. k \in 0 .. n /\ j \in 0 .. n /\ k \in j .. n /\ j .. n \subseteq 0 .. n
  BY <1>1
<1> HIDE DEF n
<1> DEFINE bad == {i \in j .. n : ~(Offset(s, j) <= Offset(s, i))}
<1> SUFFICES ASSUME bad # {} PROVE FALSE
  BY <1>3
<1>4. PICK i \in bad : \A l \in bad : i <= l
  <2>1. bad \in SUBSET Nat
    BY <1>3
  <2> HIDE DEF bad
  <2> QED BY <2>1, LeastMember
<1>5. i \in j .. n /\ i \in 0 .. n /\ ~(Offset(s, j) <= Offset(s, i))
  BY <1>1, <1>3
<1>6. i # j
  BY <1>2, <1>3, <1>5
<1>7. i - 1 \in j .. n /\ i \in 1 .. n /\ i - 1 \in 0 .. n /\ ~(i <= i - 1)
  BY <1>1, <1>3, <1>5, <1>6
<1>8. Offset(s, j) <= Offset(s, i - 1)
  BY <1>4, <1>7
<1>9. Offset(s, i) = Offset(s, i - 1) + Len(s[i]) /\ Len(s[i]) \in Nat
  BY <1>1, <1>2, <1>7
<1>10. Offset(s, j) \in Nat /\ Offset(s, i - 1) \in Nat
  BY <1>2, <1>3, <1>7
<1> HIDE DEF bad
<1> QED BY <1>5, <1>8, <1>9, <1>10

\* The parts joined so far, and their length.
LEMMA JoinsFit ==
  ASSUME NEW S, NEW s \in Seq(Seq(S)), NEW n \in 1 .. Len(s), NEW g, Joins(g, s, n)
  PROVE  \A k \in 1 .. n : /\ g[k] \in Seq(S) /\ Len(g[k]) = Offset(s, k)
                           /\ g[k] = IF k = 1 THEN s[k] ELSE g[k - 1] \o s[k]
<1>1. Len(s) \in Nat /\ n \in Nat /\ 1 .. n \subseteq 1 .. Len(s)
  BY Parts
<1>2. ASSUME NEW j \in 1 .. n
      PROVE  /\ s[j] \in Seq(S) /\ Len(s[j]) \in Nat
             /\ Offset(s, j) = Offset(s, j - 1) + Len(s[j])
  BY <1>1, Parts, Offsets
<1>3. ASSUME NEW j \in 1 .. n PROVE g[j] = IF j = 1 THEN s[j] ELSE g[j - 1] \o s[j]
  BY DEF Joins
<1>4. Offset(s, 0) = 0
  BY Offsets
<1> DEFINE Good(j) == g[j] \in Seq(S) /\ Len(g[j]) = Offset(s, j)
           bad == {j \in 1 .. n : ~Good(j)}
<1>5. bad = {}
  <2> SUFFICES ASSUME bad # {} PROVE FALSE
    OBVIOUS
  <2>1. PICK j \in bad : \A i \in bad : j <= i
    <3>1. bad \in SUBSET Nat
      OBVIOUS
    <3> HIDE DEF bad
    <3> QED BY <3>1, LeastMember
  <2>2. j \in 1 .. n /\ ~Good(j) /\ \A i \in 1 .. n : ~(j <= i) => Good(i)
    BY <2>1
  <2>3. CASE j = 1
    <3>1. g[j] = s[j] /\ Offset(s, j) = Offset(s, 0) + Len(s[j])
      BY <1>2, <1>3, <2>2, <2>3
    <3> QED BY <1>2, <1>4, <2>2, <3>1
  <2>4. CASE j # 1
    <3>1. j - 1 \in 1 .. n /\ ~(j <= j - 1)
      BY <1>1, <2>2, <2>4
    <3>2. g[j - 1] \in Seq(S) /\ Len(g[j - 1]) = Offset(s, j - 1)
      BY <2>2, <3>1
    <3>3. g[j] = g[j - 1] \o s[j] /\ s[j] \in Seq(S)
      BY <1>2, <1>3, <2>2, <2>4
    <3>4. g[j] \in Seq(S) /\ Len(g[j]) = Len(g[j - 1]) + Len(s[j])
      <4>1. PICK u, v : u = g[j - 1] /\ v = s[j]
        OBVIOUS
      <4>2. u \in Seq(S) /\ v \in Seq(S) /\ g[j] = u \o v
        BY <3>2, <3>3, <4>1
      <4>3. u \o v \in Seq(S) /\ Len(u \o v) = Len(u) + Len(v)
        BY <4>2, ConcatProperties
      <4> QED BY <4>1, <4>2, <4>3
    <3>5. Offset(s, j) = Offset(s, j - 1) + Len(s[j])
      BY <1>2, <2>2
    <3>6. Len(g[j]) = Offset(s, j)
      BY <3>2, <3>4, <3>5
    <3> QED BY <2>2, <3>4, <3>6
  <2> QED BY <2>3, <2>4
<1> QED BY <1>3, <1>5

\* Every part is still there when later ones are joined.
LEMMA JoinsKeep ==
  ASSUME NEW S, NEW s \in Seq(Seq(S)), NEW n \in 1 .. Len(s), NEW g, Joins(g, s, n),
         NEW k \in 1 .. n, NEW i \in 1 .. Len(s[k])
  PROVE  g[n][Offset(s, k - 1) + i] = s[k][i]
<1> DEFINE o == Offset(s, k - 1)
           Good(j) == g[j][o + i] = s[k][i]
           bad == {j \in k .. n : ~Good(j)}
<1>1. Len(s) \in Nat /\ n \in Nat /\ k \in 1 .. Len(s) /\ k - 1 \in 0 .. Len(s)
      /\ 1 .. n \subseteq 1 .. Len(s) /\ n \in k .. n
  BY Parts
<1>2. o \in Nat /\ Offset(s, k) = o + Len(s[k]) /\ Len(s[k]) \in Nat
  BY <1>1, Parts, Offsets
<1>3. \A j \in 1 .. n : s[j] \in Seq(S) /\ Len(s[j]) \in Nat
  BY <1>1, Parts
<1>4. \A j \in 1 .. n : /\ g[j] \in Seq(S) /\ Len(g[j]) = Offset(s, j)
                        /\ g[j] = IF j = 1 THEN s[j] ELSE g[j - 1] \o s[j]
  BY JoinsFit
<1> SUFFICES ASSUME bad # {} PROVE FALSE
  BY <1>1
<1> HIDE DEF o
<1>5. PICK j \in bad : \A l \in bad : j <= l
  <2>1. bad \in SUBSET Nat
    BY <1>1
  <2> HIDE DEF bad
  <2> QED BY <2>1, LeastMember
<1>6. /\ j \in k .. n /\ j \in 1 .. n /\ g[j][o + i] # s[k][i]
      /\ \A l \in k .. n : ~(j <= l) => g[l][o + i] = s[k][i]
  BY <1>1, <1>5
<1> HIDE DEF bad, Good
<1>7. CASE j = 1
  <2>1. k = 1 /\ g[j] = s[1]
    BY <1>1, <1>4, <1>6, <1>7
  <2>2. o = 0
    BY <2>1, Offsets DEF o
  <2>3. o + i = i
    BY <1>1, <1>2, <2>2
  <2> QED BY <1>6, <2>1, <2>3
<1>8. CASE j # 1
  <2> DEFINE h == g[j - 1]
  <2>1. j - 1 \in 1 .. n /\ j - 1 \in Nat /\ ~(j <= j - 1)
    BY <1>1, <1>6, <1>8
  <2>2. h \in Seq(S) /\ Len(h) = Offset(s, j - 1) /\ g[j] = h \o s[j] /\ s[j] \in Seq(S)
    BY <1>3, <1>4, <1>6, <1>8, <2>1
  <2> HIDE DEF h
  <2>3. /\ Len(h) \in Nat /\ Len(s[j]) \in Nat
        /\ \A l \in 1 .. Len(h) + Len(s[j]) :
             g[j][l] = IF l <= Len(h) THEN h[l] ELSE s[j][l - Len(h)]
    <3>1. Len(h) \in Nat /\ Len(s[j]) \in Nat
      BY <2>2, LenProperties
    <3>2. \A l \in 1 .. Len(h) + Len(s[j]) :
            (h \o s[j])[l] = IF l <= Len(h) THEN h[l] ELSE s[j][l - Len(h)]
      BY <2>2, ConcatProperties
    <3> QED BY <2>2, <3>1, <3>2
  <2>4. CASE j = k
    <3>1. Len(h) = o
      BY <2>2, <2>4 DEF o
    <3>2. PICK l : l = o + i
      OBVIOUS
    <3>3. l \in 1 .. Len(h) + Len(s[j]) /\ ~(l <= Len(h)) /\ l - Len(h) = i
      BY <1>2, <2>3, <2>4, <3>1, <3>2
    <3>4. g[j][l] = s[j][l - Len(h)]
      BY <2>3, <3>3, Zenon
    <3> QED BY <1>6, <2>4, <3>2, <3>3, <3>4
  <2>5. CASE j # k
    <3>1. j - 1 \in k .. n /\ k \in 0 .. j - 1 /\ j - 1 \in 0 .. Len(s)
      BY <1>1, <1>6, <2>1, <2>5
    <3>2. h[o + i] = s[k][i]
      BY <1>6, <2>1, <3>1 DEF h
    <3>3. Offset(s, k) <= Len(h)
      BY <2>2, <3>1, OffsetsGrow
    <3> DEFINE a == Len(h)
    <3>4. a \in Nat /\ Len(s[j]) \in Nat /\ o + Len(s[k]) <= a
      BY <1>2, <2>3, <3>3
    <3> HIDE DEF a
    <3>5. o + i \in 1 .. a + Len(s[j]) /\ o + i <= a
      BY <1>2, <3>4
    <3>6. g[j][o + i] = h[o + i]
      BY <2>3, <3>5 DEF a
    <3> QED BY <1>6, <3>2, <3>6
  <2> QED BY <2>4, <2>5
<1> QED BY <1>7, <1>8

\* Sequences joined: each of them is where its offset says.
LEMMA Flattened ==
  ASSUME NEW S, NEW s \in Seq(Seq(S))
  PROVE  /\ FlattenSeq(s) \in Seq(S) /\ Len(FlattenSeq(s)) = Offset(s, Len(s))
         /\ \A k \in 1 .. Len(s) : \A i \in 1 .. Len(s[k]) :
              FlattenSeq(s)[Offset(s, k - 1) + i] = s[k][i]
<1>1. Len(s) \in Nat
  BY Parts
<1>2. CASE Len(s) = 0
  <2>1. FlattenSeq(s) = s
    BY <1>1, <1>2, FlattenJoins
  <2>2. s = <<>>
    BY <1>2, EmptySeq
  <2>3. FlattenSeq(s) \in Seq(S) /\ Len(FlattenSeq(s)) = 0
    BY <2>1, <2>2
  <2>4. Offset(s, 0) = 0
    BY Offsets
  <2>5. 1 .. Len(s) = {}
    BY <1>2
  <2> QED BY <1>2, <2>3, <2>4, <2>5
<1>3. CASE Len(s) # 0
  <2> DEFINE n == Len(s)
  <2>1. PICK g : Joins(g, s, n) /\ FlattenSeq(s) = g[n]
    BY <1>1, <1>3, FlattenJoins
  <2>2. n \in 1 .. n /\ n \in 1 .. Len(s)
    BY <1>1, <1>3
  <2>3. g[n] \in Seq(S) /\ Len(g[n]) = Offset(s, n)
    BY <2>1, <2>2, JoinsFit
  <2>4. ASSUME NEW k \in 1 .. n, NEW i \in 1 .. Len(s[k])
        PROVE  g[n][Offset(s, k - 1) + i] = s[k][i]
    BY <2>1, <2>2, JoinsKeep
  <2> QED BY <2>1, <2>3, <2>4
<1> QED BY <1>2, <1>3

\* What is written where sequences are written one after the other.
LEMMA WrittenPart ==
  ASSUME NEW S, NEW s \in Seq(Seq(S)), NEW p \in Nat, NEW limit \in Nat,
         WrittenAt(p, FlattenSeq(s), limit), NEW k \in 1 .. Len(s)
  PROVE  WrittenAt(p + Offset(s, k - 1), s[k], limit)
<1> DEFINE o   == Offset(s, k - 1)
           all == FlattenSeq(s)
<1>1. Len(s) \in Nat /\ k - 1 \in 0 .. Len(s) /\ Len(s) \in 0 .. Len(s) /\ k \in 0 .. Len(s)
  BY Parts
<1>2. o \in Nat /\ Len(s[k]) \in Nat /\ Offset(s, k) = o + Len(s[k])
  BY <1>1, Parts, Offsets
<1>3. Offset(s, k) <= Len(all) /\ Len(all) \in Nat
  <2>1. Offset(s, k) <= Offset(s, Len(s))
    BY <1>1, OffsetsGrow
  <2>2. Len(all) = Offset(s, Len(s)) /\ all \in Seq(S)
    BY Flattened
  <2> HIDE DEF all
  <2> QED BY <2>1, <2>2, LenProperties
<1> SUFFICES ASSUME NEW i \in 1 .. Len(s[k]), p + o + i <= limit
             PROVE  input[p + o + i] = s[k][i]
  BY DEF WrittenAt
<1>4. all[o + i] = s[k][i]
  BY Flattened
<1> HIDE DEF o, all
<1>5. o + i \in 1 .. Len(all) /\ p + (o + i) = p + o + i
  BY <1>2, <1>3
<1> QED BY <1>4, <1>5 DEF WrittenAt, all

(***************************************************************************)
(* Marshal calls itself: what Codec defines per level of nesting is the    *)
(* same at every level.                                                    *)
(***************************************************************************)

\* One element, when its message is already marshalled, or measured.
ElementWith(n, field, x, inner) ==
  Written(n, WireTypeOf(field),
          CASE field.type \in Numbers   -> AsUint64(x)
            [] field.type \in {"text", "integer"} -> x
            [] field.type = "message"   -> inner)

SizeWith(n, field, x, inner) ==
  Sov(n * 8) +
    CASE field.type \in Numbers -> Sov(AsUint64(x))
      [] field.type \in {"text", "integer"} -> Len(x) + Sov(AsUint64(Len(x)))
      [] field.type = "message" -> inner + Sov(AsUint64(inner))

\* The elements of the fields of a message, as they are written and as they are measured.
PiecesBy(Inner(_, _), f, m) ==
  [n \in 1 .. Len(f) |->
     LET e == Elements(n, f[n], m)
     IN [i \in 1 .. Len(e) |-> ElementWith(n, f[n], e[i], Inner(f[n].fields, e[i]))]]

SizesBy(Inner(_, _), f, m) ==
  [n \in 1 .. Len(f) |->
     LET e == Elements(n, f[n], m)
     IN [i \in 1 .. Len(e) |-> SizeWith(n, f[n], e[i], Inner(f[n].fields, e[i]))]]

PiecesFlat(f, m)  == PiecesBy(LAMBDA k, x : <<>>, f, m)
PiecesOnce(f, m)  == PiecesBy(MarshalFlat, f, m)
PiecesTwice(f, m) == PiecesBy(MarshalOnce, f, m)
PiecesLast(f, m)  == PiecesBy(MarshalTwice, f, m)
Pieces(f, m)      == PiecesBy(Marshal, f, m)

SizesFlat(f, m)  == SizesBy(LAMBDA k, x : 0, f, m)
SizesOnce(f, m)  == SizesBy(SizeFlat, f, m)
SizesTwice(f, m) == SizesBy(SizeOnce, f, m)
SizesLast(f, m)  == SizesBy(SizeTwice, f, m)
Sizes(f, m)      == SizesBy(Size, f, m)

Joined(f, pieces) == FlattenSeq([n \in 1 .. Len(f) |-> FlattenSeq(pieces[n])])
Added(f, sizes)   == SumFunction([n \in 1 .. Len(f) |-> SumFunction(sizes[n])])

LEMMA LevelsJoin ==
  ASSUME NEW f, NEW m
  PROVE  /\ MarshalFlat(f, m) = Joined(f, PiecesFlat(f, m))
         /\ MarshalOnce(f, m) = Joined(f, PiecesOnce(f, m))
         /\ MarshalTwice(f, m) = Joined(f, PiecesTwice(f, m))
         /\ Marshal(f, m) = Joined(f, PiecesLast(f, m))
<1>1. MarshalFlat(f, m) = Joined(f, PiecesFlat(f, m))
  BY DEF MarshalFlat, MarshalBy, FieldBy, ElementBy, ElementWith, Joined, PiecesFlat, PiecesBy
<1>2. MarshalOnce(f, m) = Joined(f, PiecesOnce(f, m))
  BY DEF MarshalOnce, MarshalBy, FieldBy, ElementBy, ElementWith, Joined, PiecesOnce, PiecesBy
<1>3. MarshalTwice(f, m) = Joined(f, PiecesTwice(f, m))
  BY DEF MarshalTwice, MarshalBy, FieldBy, ElementBy, ElementWith, Joined, PiecesTwice, PiecesBy
<1>4. Marshal(f, m) = Joined(f, PiecesLast(f, m))
  BY DEF Marshal, MarshalBy, FieldBy, ElementBy, ElementWith, Joined, PiecesLast, PiecesBy
<1> QED BY <1>1, <1>2, <1>3, <1>4

LEMMA LevelsAdd ==
  ASSUME NEW f, NEW m
  PROVE  /\ SizeFlat(f, m) = Added(f, SizesFlat(f, m))
         /\ SizeOnce(f, m) = Added(f, SizesOnce(f, m))
         /\ SizeTwice(f, m) = Added(f, SizesTwice(f, m))
         /\ Size(f, m) = Added(f, SizesLast(f, m))
<1>1. SizeFlat(f, m) = Added(f, SizesFlat(f, m))
  BY DEF SizeFlat, SizeBy, SizeOfFieldBy, SizeOfElementBy, SizeWith, Added, SizesFlat, SizesBy
<1>2. SizeOnce(f, m) = Added(f, SizesOnce(f, m))
  BY DEF SizeOnce, SizeBy, SizeOfFieldBy, SizeOfElementBy, SizeWith, Added, SizesOnce, SizesBy
<1>3. SizeTwice(f, m) = Added(f, SizesTwice(f, m))
  BY DEF SizeTwice, SizeBy, SizeOfFieldBy, SizeOfElementBy, SizeWith, Added, SizesTwice, SizesBy
<1>4. Size(f, m) = Added(f, SizesLast(f, m))
  BY DEF Size, SizeBy, SizeOfFieldBy, SizeOfElementBy, SizeWith, Added, SizesLast, SizesBy
<1> QED BY <1>1, <1>2, <1>3, <1>4

\* Levels of nesting.
Level0 == Embedding({})
Level1 == Embedding(Level0)
Level2 == Embedding(Level1)

LEMMA Levels ==
  /\ \A f \in Level0 : \A n \in 1 .. Len(f) : f[n].type # "message"
  /\ \A f \in Level1 : \A n \in 1 .. Len(f) : f[n].type = "message" => f[n].fields \in Level0
  /\ \A f \in Level2 : \A n \in 1 .. Len(f) : f[n].type = "message" => f[n].fields \in Level1
  /\ \A f \in Schemas : \A n \in 1 .. Len(f) : f[n].type = "message" => f[n].fields \in Level2
<1>1. \A kinds : \A f \in Embedding(kinds) : \A n \in 1 .. Len(f) :
        f[n].type = "message" => f[n].fields \in kinds
  BY DEF Embedding
<1>2. Schemas = Embedding(Level2)
  BY NestingAssumption DEF Level0, Level1, Level2
<1>3. Level0 = Embedding({}) /\ Level1 = Embedding(Level0) /\ Level2 = Embedding(Level1)
  BY DEF Level0, Level1, Level2
<1> QED BY <1>1, <1>2, <1>3

LEMMA SameElement ==
  ASSUME NEW n, NEW field, NEW x, NEW a, NEW b, field.type = "message" => a = b
  PROVE  ElementWith(n, field, x, a) = ElementWith(n, field, x, b)
<1>1. CASE field.type = "message"
  BY <1>1
<1>2. CASE field.type # "message"
  BY <1>2 DEF ElementWith
<1> QED BY <1>1, <1>2

LEMMA SameSize ==
  ASSUME NEW n, NEW field, NEW x, NEW a, NEW b, field.type = "message" => a = b
  PROVE  SizeWith(n, field, x, a) = SizeWith(n, field, x, b)
<1>1. CASE field.type = "message"
  BY <1>1
<1>2. CASE field.type # "message"
  BY <1>2 DEF SizeWith
<1> QED BY <1>1, <1>2

\* A message of a level is marshalled alike on the next ones.
LEMMA Level0Same ==
  ASSUME NEW f \in Level0, NEW m
  PROVE  PiecesFlat(f, m) = PiecesOnce(f, m) /\ SizesFlat(f, m) = SizesOnce(f, m)
<1>1. ASSUME NEW n \in 1 .. Len(f), NEW x
      PROVE  /\ ElementWith(n, f[n], x, <<>>) =
                   ElementWith(n, f[n], x, MarshalFlat(f[n].fields, x))
             /\ SizeWith(n, f[n], x, 0) =
                   SizeWith(n, f[n], x, SizeFlat(f[n].fields, x))
  BY Levels, SameElement, SameSize
<1>2. PiecesFlat(f, m) = PiecesOnce(f, m)
  BY <1>1 DEF PiecesFlat, PiecesOnce, PiecesBy
<1>3. SizesFlat(f, m) = SizesOnce(f, m)
  BY <1>1 DEF SizesFlat, SizesOnce, SizesBy
<1> QED BY <1>2, <1>3

LEMMA Level1Same ==
  ASSUME NEW f \in Level1, NEW m
  PROVE  PiecesOnce(f, m) = PiecesTwice(f, m) /\ SizesOnce(f, m) = SizesTwice(f, m)
<1>1. ASSUME NEW n \in 1 .. Len(f), NEW x
      PROVE  /\ ElementWith(n, f[n], x, MarshalFlat(f[n].fields, x)) =
                   ElementWith(n, f[n], x, MarshalOnce(f[n].fields, x))
             /\ SizeWith(n, f[n], x, SizeFlat(f[n].fields, x)) =
                   SizeWith(n, f[n], x, SizeOnce(f[n].fields, x))
  <2>1. f[n].type = "message" =>
          /\ MarshalFlat(f[n].fields, x) = MarshalOnce(f[n].fields, x)
          /\ SizeFlat(f[n].fields, x) = SizeOnce(f[n].fields, x)
    BY Levels, Level0Same, LevelsJoin, LevelsAdd
  <2> QED BY <2>1, SameElement, SameSize
<1>2. PiecesOnce(f, m) = PiecesTwice(f, m)
  BY <1>1 DEF PiecesOnce, PiecesTwice, PiecesBy
<1>3. SizesOnce(f, m) = SizesTwice(f, m)
  BY <1>1 DEF SizesOnce, SizesTwice, SizesBy
<1> QED BY <1>2, <1>3

LEMMA Level2Same ==
  ASSUME NEW f \in Level2, NEW m
  PROVE  PiecesTwice(f, m) = PiecesLast(f, m) /\ SizesTwice(f, m) = SizesLast(f, m)
<1>1. ASSUME NEW n \in 1 .. Len(f), NEW x
      PROVE  /\ ElementWith(n, f[n], x, MarshalOnce(f[n].fields, x)) =
                   ElementWith(n, f[n], x, MarshalTwice(f[n].fields, x))
             /\ SizeWith(n, f[n], x, SizeOnce(f[n].fields, x)) =
                   SizeWith(n, f[n], x, SizeTwice(f[n].fields, x))
  <2>1. f[n].type = "message" =>
          /\ MarshalOnce(f[n].fields, x) = MarshalTwice(f[n].fields, x)
          /\ SizeOnce(f[n].fields, x) = SizeTwice(f[n].fields, x)
    BY Levels, Level1Same, LevelsJoin, LevelsAdd
  <2> QED BY <2>1, SameElement, SameSize
<1>2. PiecesTwice(f, m) = PiecesLast(f, m)
  BY <1>1 DEF PiecesTwice, PiecesLast, PiecesBy
<1>3. SizesTwice(f, m) = SizesLast(f, m)
  BY <1>1 DEF SizesTwice, SizesLast, SizesBy
<1> QED BY <1>2, <1>3

LEMMA Level3Same ==
  ASSUME NEW f \in Schemas, NEW m
  PROVE  PiecesLast(f, m) = Pieces(f, m) /\ SizesLast(f, m) = Sizes(f, m)
<1>1. ASSUME NEW n \in 1 .. Len(f), NEW x
      PROVE  /\ ElementWith(n, f[n], x, MarshalTwice(f[n].fields, x)) =
                   ElementWith(n, f[n], x, Marshal(f[n].fields, x))
             /\ SizeWith(n, f[n], x, SizeTwice(f[n].fields, x)) =
                   SizeWith(n, f[n], x, Size(f[n].fields, x))
  <2>1. f[n].type = "message" =>
          /\ MarshalTwice(f[n].fields, x) = Marshal(f[n].fields, x)
          /\ SizeTwice(f[n].fields, x) = Size(f[n].fields, x)
    BY Levels, Level2Same, LevelsJoin, LevelsAdd
  <2> QED BY <2>1, SameElement, SameSize
<1>2. PiecesLast(f, m) = Pieces(f, m)
  BY <1>1 DEF PiecesLast, Pieces, PiecesBy
<1>3. SizesLast(f, m) = Sizes(f, m)
  BY <1>1 DEF SizesLast, Sizes, SizesBy
<1> QED BY <1>2, <1>3

LEMMA MarshalUnfolds ==
  ASSUME NEW f \in Schemas, NEW m
  PROVE  Marshal(f, m) = Joined(f, Pieces(f, m)) /\ Size(f, m) = Added(f, Sizes(f, m))
BY Level3Same, LevelsJoin, LevelsAdd

(***************************************************************************)
(* What Marshal writes is bytes, as many as Size counts                    *)
(***************************************************************************)

\* The size of a tag is that of the field number, shifted: the wire type adds no bit.
LEMMA TagSize ==
  ASSUME NEW n \in FieldNumbers, NEW wire \in 0 .. 5
  PROVE  Sov(n * 8) = Len(Tag(n, wire))
<1> DEFINE x == n * 8
           y == n * 8 + wire
           a == BitLength(x)
           b == BitLength(y)
           q == 2 ^ (a - 3)
<1>1. x \in 0 .. Wide - 1 /\ y \in 0 .. Wide - 1 /\ x >= 8 /\ x \in Nat /\ n \in Nat
  <2>1. n * 8 + 0 \in 0 .. Wide - 1 /\ y \in 0 .. Wide - 1
    <3>1. 0 \in 0 .. 5
      OBVIOUS
    <3> QED BY <3>1, TagReadsBack, Zenon
  <2>2. n \in Nat \ {0}
    BY DEF FieldNumbers
  <2> HIDE DEF y
  <2> QED BY <2>1, <2>2
<1>2. x <= y /\ y <= x + 7 /\ y \in Nat
  BY <1>1
<1>3. WideBits \in Nat /\ TopBit \in Nat /\ WideBits <= TopBit
  BY TopBitIsNat, WireAssumption
<1> HIDE DEF x, y
<1>4. /\ a \in 0 .. WideBits /\ x < 2 ^ a /\ (a > 0 => x >= 2 ^ (a - 1))
      /\ b \in 0 .. WideBits /\ y < 2 ^ b /\ (b > 0 => y >= 2 ^ (b - 1))
  BY <1>1, BitLengthHere
<1> HIDE DEF a, b
<1>5. a > 3
  <2>1. 2 ^ 0 \in Nat /\ 2 ^ 3 = 8
    <3>1. 2 ^ 0 = 1
      BY PowersAssumption
    <3> QED BY <3>1
  <2>2. CASE a <= 3
    <3>1. 2 ^ a <= 8
      <4>1. CASE a = 3
        BY <2>1, <4>1
      <4>2. CASE a # 3
        <5>1. a < 3 /\ a \in Nat
          BY <1>4, <2>2, <4>2
        <5>2. CASE a = 0
          BY <2>1, <5>2, PowersAssumption
        <5>3. CASE a = 1
          BY <5>3
        <5>4. CASE a = 2
          BY <5>4
        <5> QED BY <5>1, <5>2, <5>3, <5>4
      <4> QED BY <4>1, <4>2
    <3>2. 2 ^ a \in Nat
      BY <1>3, <1>4, PowerIsNat
    <3> QED BY <1>1, <1>4, <3>1, <3>2
  <2> QED BY <1>4, <2>2
<1>6. 2 ^ a = 8 * q /\ q \in Nat
  <2>1. 3 + (a - 3) = a /\ a - 3 \in Nat /\ a <= TopBit + 1 /\ a - 3 \in 0 .. TopBit + 1
    BY <1>3, <1>4, <1>5
  <2>2. 2 ^ a = 2 ^ 3 * 2 ^ (a - 3)
    BY <2>1, PowerOfSum
  <2>3. 2 ^ 3 = 8
    OBVIOUS
  <2> QED BY <2>1, <2>2, <2>3, PowerIsNat
<1> HIDE DEF q
<1>7. y < 2 ^ a
  <2>1. n < q
    BY <1>1, <1>4, <1>6 DEF x
  <2> QED BY <1>1, <1>2, <1>6, <2>1 DEF x
<1>8. b <= a
  <2>1. CASE b > 0
    <3>1. b - 1 \in 0 .. TopBit + 1 /\ a \in 0 .. TopBit + 1
      BY <1>3, <1>4, <2>1
    <3>2. b - 1 < a
      BY <1>2, <1>4, <1>7, <2>1, <3>1, PowerOrder
    <3> QED BY <1>4, <3>2
  <2> QED BY <1>4, <1>5, <2>1
<1>9. a <= b
  <2>1. a - 1 \in 0 .. TopBit + 1 /\ b \in 0 .. TopBit + 1 /\ a > 0
    BY <1>3, <1>4, <1>5
  <2>2. 2 ^ (a - 1) \in Int
    BY <2>1, PowerIsNat
  <2>3. 2 ^ (a - 1) <= y
    BY <1>1, <1>2, <1>4, <2>1, <2>2
  <2>4. a - 1 < b
    BY <1>2, <1>4, <2>1, <2>3, PowerOrder
  <2> QED BY <1>4, <2>4
<1>10. a = b
  BY <1>4, <1>8, <1>9
<1>11. Sov(x) = Sov(y)
  BY <1>10 DEF Sov, a, b
<1>12. Sov(y) = Len(VarintBytes(y))
  BY <1>1, SovCountsBytes
<1> QED BY <1>11, <1>12 DEF Tag, x, y

\* What is written of a field that fits, fits.
LEMMA ElementsFit ==
  ASSUME NEW f \in Schemas, NEW m, DeepFits(f, m), NEW n \in 1 .. Len(f)
  PROVE  LET e == Elements(n, f[n], m)
         IN /\ e \in Seq(Range(e)) /\ Len(e) \in Nat
            /\ \A i \in 1 .. Len(e) : ElementFits(f[n], e[i])
            /\ n \in DOMAIN m => Len(e) > 0
            /\ f[n].card # "many" => Len(e) <= 1
<1> DEFINE e == Elements(n, f[n], m)
<1>1. n \in DOMAIN m => ValueFits(f[n], m[n])
  BY FieldsFit
<1>2. ASSUME NEW x
      PROVE  <<x>> \in Seq(Range(<<x>>)) /\ Len(<<x>>) = 1 /\ <<x>>[1] = x
  <2>1. Range(<<x>>) = {x}
    BY DEF Range
  <2> QED BY <2>1
<1>3. CASE n \in DOMAIN m /\ f[n].card = "many"
  <2>1. e = m[n]
    BY <1>3 DEF Elements
  <2>2. /\ e \in Seq(Range(e)) \ {<<>>}
        /\ \A i \in DOMAIN e : ElementFits(f[n], e[i])
    BY <1>1, <1>3, <2>1 DEF ValueFits
  <2> HIDE DEF e
  <2>3. Len(e) \in Nat \ {0} /\ DOMAIN e = 1 .. Len(e)
    BY <2>2, EmptySeq, LenProperties
  <2> QED BY <1>3, <2>2, <2>3 DEF e
<1>4. CASE n \in DOMAIN m /\ f[n].card # "many"
  <2>1. e = <<m[n]>> /\ ElementFits(f[n], m[n])
    BY <1>1, <1>4 DEF Elements, ValueFits
  <2> HIDE DEF e
  <2>2. e \in Seq(Range(e)) /\ Len(e) = 1 /\ e[1] = m[n]
    BY <1>2, <2>1
  <2> QED BY <1>4, <2>1, <2>2 DEF e
<1>5. CASE n \notin DOMAIN m /\ f[n].card = "one" /\ f[n].type = "message"
  <2>1. e = <<EmptyStore>>
    BY <1>5 DEF Elements
  <2>2. ElementFits(f[n], EmptyStore)
    BY <1>5, EmptyFits DEF ElementFits, Numbers
  <2> HIDE DEF e
  <2>3. e \in Seq(Range(e)) /\ Len(e) = 1 /\ e[1] = EmptyStore
    BY <1>2, <2>1
  <2> QED BY <1>5, <2>2, <2>3 DEF e
<1>7. CASE n \notin DOMAIN m /\ f[n].type = "integer"
  <2>1. e = <<ZeroInteger>>
    BY <1>7 DEF Elements
  <2>2. ElementFits(f[n], ZeroInteger)
    BY <1>7, CanonicalAssumption DEF ElementFits, Numbers
  <2> HIDE DEF e
  <2>3. e \in Seq(Range(e)) /\ Len(e) = 1 /\ e[1] = ZeroInteger
    BY <1>2, <2>1
  <2> QED BY <1>7, <2>2, <2>3 DEF e
<1>6. CASE /\ n \notin DOMAIN m /\ ~(f[n].card = "one" /\ f[n].type = "message")
           /\ f[n].type # "integer"
  <2>1. e = <<>>
    BY <1>6 DEF Elements
  <2> HIDE DEF e
  <2>2. e \in Seq(Range(e)) /\ Len(e) = 0
    BY <2>1
  <2> QED BY <1>6, <2>2 DEF e
<1> QED BY <1>3, <1>4, <1>5, <1>6, <1>7

\* An integer is written as bytes.
LEMMA IntegersAreBytes == ASSUME NEW x \in Range(Canonical) PROVE x \in Seq(Bytes) /\ x # <<>>
BY CanonicalAssumption

LEMMA ElementIsBytes ==
  ASSUME NEW n \in FieldNumbers, NEW field,
         field.type \in Numbers \cup {"text", "integer", "message"},
         NEW x, ElementFits(field, x), NEW inner, NEW size,
         field.type = "message" => inner \in Seq(Bytes) /\ size = Len(inner)
  PROVE  /\ ElementWith(n, field, x, inner) \in Seq(Bytes)
         /\ Len(ElementWith(n, field, x, inner)) \in Nat \ {0}
         /\ SizeWith(n, field, x, size) = Len(ElementWith(n, field, x, inner))
<1> DEFINE b == ElementWith(n, field, x, inner)
<1>1. CASE field.type \in Numbers
  <2> DEFINE v == AsUint64(x)
             t == Tag(n, 0)
  <2>1. v \in 0 .. Wide - 1
    BY <1>1, HeldAsSent DEF ElementFits
  <2>2. b = Written(n, 0, v)
    BY <1>1 DEF ElementWith, WireTypeOf, Numbers
  <2>3. SizeWith(n, field, x, size) = Sov(n * 8) + Sov(v)
    BY <1>1 DEF SizeWith, Numbers
  <2> HIDE DEF v
  <2>4. b \in Seq(Bytes) /\ Len(b) > 0 /\ t \in Seq(Bytes)
    BY <2>1, <2>2, WrittenIsBytes
  <2>5. VarintBytes(v) \in Seq(Bytes) /\ Len(VarintBytes(v)) = Sov(v) /\ Sov(n * 8) = Len(t)
    BY <2>1, VarintWritten, SovCountsBytes, TagSize
  <2>6. b = t \o VarintBytes(v)
    BY <2>2 DEF Written
  <2> HIDE DEF b, t
  <2>7. Len(b) = Len(t) + Len(VarintBytes(v)) /\ Len(b) \in Nat
    BY <2>4, <2>5, <2>6, ConcatProperties, LenProperties
  <2> QED BY <2>3, <2>4, <2>5, <2>7 DEF b
<1>2. CASE field.type \in {"text", "integer", "message"}
  <2> DEFINE c == IF field.type \in {"text", "integer"} THEN x ELSE inner
             l == AsUint64(Len(c))
             t == Tag(n, 2)
             p == VarintBytes(l)
  <2>1. c \in Seq(Bytes) /\ Len(c) \in Nat
    BY <1>2, IntegersAreBytes, LenProperties DEF ElementFits
  <2>2. b = Written(n, 2, c)
    BY <1>2 DEF ElementWith, WireTypeOf, Numbers
  <2>3. SizeWith(n, field, x, size) = Sov(n * 8) + (Len(c) + Sov(l))
    BY <1>2 DEF SizeWith, Numbers
  <2> HIDE DEF c
  <2>4. l \in 0 .. Wide - 1
    BY <2>1, AsUint64Fits
  <2>5. b = t \o (p \o c)
    BY <2>2 DEF Written, Prefixed
  <2> HIDE DEF l
  <2>6. b \in Seq(Bytes) /\ Len(b) > 0 /\ t \in Seq(Bytes)
    BY <2>1, <2>2, WrittenIsBytes
  <2>7. p \in Seq(Bytes) /\ Len(p) = Sov(l) /\ Sov(n * 8) = Len(t)
    BY <2>4, VarintWritten, SovCountsBytes, TagSize
  <2> HIDE DEF b, t, p
  <2>8. p \o c \in Seq(Bytes) /\ Len(p \o c) = Len(p) + Len(c)
    BY <2>1, <2>7, ConcatProperties
  <2>9. Len(b) = Len(t) + (Len(p) + Len(c)) /\ Len(b) \in Nat
    BY <2>5, <2>6, <2>8, ConcatProperties, LenProperties
  <2>10. Len(t) \in Nat /\ Len(p) \in Nat
    BY <2>6, <2>7, LenProperties
  <2> QED BY <2>1, <2>3, <2>6, <2>7, <2>9, <2>10 DEF b
<1> QED BY <1>1, <1>2

LEMMA AddsLengths ==
  ASSUME NEW S, NEW s \in Seq(Seq(S)), NEW sizes, DOMAIN sizes = 1 .. Len(s),
         \A i \in 1 .. Len(s) : sizes[i] = Len(s[i])
  PROVE  SumFunction(sizes) = Len(FlattenSeq(s))
<1> DEFINE T    == 1 .. Len(s)
           lens == [i \in DOMAIN s |-> Len(s[i])]
<1>1. Len(s) \in Nat /\ DOMAIN s = T
  BY Parts
<1>2. IsFiniteSet(T)
  BY <1>1, UpTo
<1>3. \A i \in T : sizes[i] = lens[i]
  BY <1>1
<1>4. Len(FlattenSeq(s)) = SumFunctionOnSet(lens, T)
  BY Flattened DEF Offset
<1>5. SumFunction(sizes) = SumFunctionOnSet(sizes, T)
  BY DEF SumFunction
<1> HIDE DEF T, lens
<1> QED BY <1>2, <1>3, <1>4, <1>5, SumSame

\* A message is marshalled into bytes, as many as were counted.
IsMarshalled(f, m) == Marshal(f, m) \in Seq(Bytes) /\ Size(f, m) = Len(Marshal(f, m))

EmbedsMarshalled(f) ==
  \A n \in 1 .. Len(f) : \A x :
    f[n].type = "message" /\ DeepFits(f[n].fields, x) => IsMarshalled(f[n].fields, x)

PiecesMeasured(p, z, count) ==
  /\ p \in Seq(Seq(Bytes)) /\ Len(p) = count /\ count \in Nat
  /\ DOMAIN z = 1 .. Len(p)
  /\ \A i \in 1 .. Len(p) : z[i] = Len(p[i]) /\ Len(p[i]) \in Nat \ {0}

LEMMA PiecesAreBytes ==
  ASSUME NEW f \in Schemas, NEW m, DeepFits(f, m),
         EmbedsMarshalled(f), NEW n \in 1 .. Len(f)
  PROVE  PiecesMeasured(Pieces(f, m)[n], Sizes(f, m)[n], Len(Elements(n, f[n], m)))
<1> DEFINE e == Elements(n, f[n], m)
           p == Pieces(f, m)[n]
           z == Sizes(f, m)[n]
           B(i) == ElementWith(n, f[n], e[i], Marshal(f[n].fields, e[i]))
           Z(i) == SizeWith(n, f[n], e[i], Size(f[n].fields, e[i]))
<1>1. Len(e) \in Nat /\ \A i \in 1 .. Len(e) : ElementFits(f[n], e[i])
  BY ElementsFit
<1>2. n \in FieldNumbers /\ f[n].type \in Numbers \cup {"text", "integer", "message"}
  BY NestingAssumption, SchemasAssumption
<1>3. p = [i \in 1 .. Len(e) |-> B(i)] /\ z = [i \in 1 .. Len(e) |-> Z(i)]
  BY DEF Pieces, PiecesBy, Sizes, SizesBy
<1> HIDE DEF e, p, z
<1>4. ASSUME NEW i \in 1 .. Len(e)
      PROVE  B(i) \in Seq(Bytes) /\ Len(B(i)) \in Nat \ {0} /\ Z(i) = Len(B(i))
  <2>1. f[n].type = "message" => IsMarshalled(f[n].fields, e[i])
    BY <1>1 DEF ElementFits, EmbedsMarshalled
  <2>2. f[n].type = "message" => /\ Marshal(f[n].fields, e[i]) \in Seq(Bytes)
                                 /\ Size(f[n].fields, e[i]) = Len(Marshal(f[n].fields, e[i]))
    BY <2>1 DEF IsMarshalled
  <2>3. PICK field, x, inner, size :
          /\ field = f[n] /\ x = e[i]
          /\ inner = Marshal(f[n].fields, e[i]) /\ size = Size(f[n].fields, e[i])
    OBVIOUS
  <2>4. ElementFits(field, x) /\ field.type \in Numbers \cup {"text", "integer", "message"}
    BY <1>1, <1>2, <2>3
  <2>5. field.type = "message" => inner \in Seq(Bytes) /\ size = Len(inner)
    BY <2>2, <2>3
  <2>6. /\ ElementWith(n, field, x, inner) \in Seq(Bytes)
        /\ Len(ElementWith(n, field, x, inner)) \in Nat \ {0}
        /\ SizeWith(n, field, x, size) = Len(ElementWith(n, field, x, inner))
    BY <1>2, <2>4, <2>5, ElementIsBytes
  <2> QED BY <2>3, <2>6
<1> HIDE DEF B, Z
<1>5. p \in Seq(Seq(Bytes)) /\ Len(p) = Len(e)
  BY <1>1, <1>3, <1>4, IsASeq
<1>6. DOMAIN z = 1 .. Len(p)
  BY <1>3, <1>5
<1>7. ASSUME NEW i \in 1 .. Len(p) PROVE z[i] = Len(p[i]) /\ Len(p[i]) \in Nat \ {0}
  BY <1>3, <1>4, <1>5
<1>8. PiecesMeasured(p, z, Len(e))
  BY <1>1, <1>5, <1>6, <1>7 DEF PiecesMeasured
<1> QED BY <1>8 DEF e, p, z

LEMMA MarshalledFrom ==
  ASSUME NEW f \in Schemas, NEW m, DeepFits(f, m),
         EmbedsMarshalled(f)
  PROVE  IsMarshalled(f, m)
<1> DEFINE p == [n \in 1 .. Len(f) |-> FlattenSeq(Pieces(f, m)[n])]
           z == [n \in 1 .. Len(f) |-> SumFunction(Sizes(f, m)[n])]
<1>1. Len(f) \in Nat
  BY SchemasAssumption
<1>2. ASSUME NEW n \in 1 .. Len(f)
      PROVE  /\ FlattenSeq(Pieces(f, m)[n]) \in Seq(Bytes)
             /\ SumFunction(Sizes(f, m)[n]) = Len(FlattenSeq(Pieces(f, m)[n]))
  <2> DEFINE b == Pieces(f, m)[n]
             c == Sizes(f, m)[n]
  <2>1. /\ b \in Seq(Seq(Bytes)) /\ DOMAIN c = 1 .. Len(b)
        /\ \A i \in 1 .. Len(b) : c[i] = Len(b[i]) /\ Len(b[i]) \in Nat \ {0}
    <3>1. PiecesMeasured(Pieces(f, m)[n], Sizes(f, m)[n], Len(Elements(n, f[n], m)))
      BY PiecesAreBytes, Zenon
    <3>2. PiecesMeasured(b, c, Len(Elements(n, f[n], m)))
      BY <3>1
    <3> HIDE DEF b, c
    <3> QED BY <3>2 DEF PiecesMeasured
  <2> HIDE DEF b, c
  <2>2. FlattenSeq(b) \in Seq(Bytes) /\ SumFunction(c) = Len(FlattenSeq(b))
    BY <2>1, Flattened, AddsLengths
  <2> QED BY <2>2 DEF b, c
<1>3. p \in Seq(Seq(Bytes)) /\ Len(p) = Len(f)
  BY <1>1, <1>2, IsASeq
<1>4. DOMAIN z = 1 .. Len(p) /\ \A n \in 1 .. Len(p) : z[n] = Len(p[n])
  BY <1>2, <1>3
<1>5. Marshal(f, m) = FlattenSeq(p) /\ Size(f, m) = SumFunction(z)
  BY MarshalUnfolds DEF Joined, Added
<1> HIDE DEF p, z
<1> QED BY <1>3, <1>4, <1>5, Flattened, AddsLengths DEF IsMarshalled

LEMMA Marshalled ==
  ASSUME NEW f \in Schemas, NEW m, DeepFits(f, m)
  PROVE  IsMarshalled(f, m)
<1>1. \A k \in Level0 : k \in Schemas
  BY DEF Level0, Embedding
<1>2. \A k \in Level1 : k \in Schemas
  BY DEF Level1, Embedding
<1>3. \A k \in Level2 : k \in Schemas
  BY DEF Level2, Embedding
<1>4. \A k \in Level0 : \A x : DeepFits(k, x) => IsMarshalled(k, x)
  BY <1>1, Levels, MarshalledFrom DEF EmbedsMarshalled
<1>5. \A k \in Level1 : \A x : DeepFits(k, x) => IsMarshalled(k, x)
  BY <1>2, <1>4, Levels, MarshalledFrom DEF EmbedsMarshalled
<1>6. \A k \in Level2 : \A x : DeepFits(k, x) => IsMarshalled(k, x)
  BY <1>3, <1>5, Levels, MarshalledFrom DEF EmbedsMarshalled
<1> QED BY <1>6, Levels, MarshalledFrom DEF EmbedsMarshalled

(***************************************************************************)
(* Nil integers: a message is marshalled as if they were zero, and so it   *)
(* arrives                                                                 *)
(***************************************************************************)

\* A message without nil integers; and one without any in the messages in it either.
Complete(f, m) == \A n \in 1 .. Len(f) : f[n].type = "integer" => n \in DOMAIN m

Whole(f, m) == \E parts : /\ Part(f, m) \in parts /\ Closed(parts)
                          /\ \A part \in parts : Complete(part[1], part[2])

LEMMA WholeFits ==
  ASSUME NEW f, NEW m, Whole(f, m) PROVE DeepFits(f, m) /\ Complete(f, m)
<1>1. PICK parts : /\ Part(f, m) \in parts /\ Closed(parts)
                   /\ \A part \in parts : Complete(part[1], part[2])
  BY DEF Whole
<1>2. Part(f, m)[1] = f /\ Part(f, m)[2] = m
  BY DEF Part
<1>3. Complete(Part(f, m)[1], Part(f, m)[2])
  BY <1>1
<1> QED BY <1>1, <1>2, <1>3 DEF DeepFits

\* The messages in it are such messages, also one that is written although it has no
\* fields: of an embedded message without integers.
LEMMA ElementsWhole ==
  ASSUME NEW f \in Schemas, NEW m, Whole(f, m), NEW n \in 1 .. Len(f), f[n].type = "message",
         NEW i \in 1 .. Len(Elements(n, f[n], m))
  PROVE  Whole(f[n].fields, Elements(n, f[n], m)[i])
<1> DEFINE e == Elements(n, f[n], m)
           k == f[n].fields
<1>1. PICK parts : /\ Part(f, m) \in parts /\ Closed(parts)
                   /\ \A part \in parts : Complete(part[1], part[2])
  BY DEF Whole
<1>2. Fits(f, m, parts)
  <2>1. Part(f, m)[1] = f /\ Part(f, m)[2] = m
    BY DEF Part
  <2>2. Fits(Part(f, m)[1], Part(f, m)[2], parts)
    BY <1>1 DEF Closed
  <2> QED BY <2>1, <2>2
<1>3. CASE n \in DOMAIN m
  <2>1. Part(k, e[i]) \in parts
    <3>1. CASE f[n].card = "many"
      <4>1. e = m[n]
        BY <1>3, <3>1 DEF Elements
      <4>2. m[n] \in Seq(Range(m[n])) /\ \A j \in DOMAIN m[n] : FitsField(f[n], m[n][j], parts)
        BY <1>2, <1>3, <3>1 DEF Fits
      <4>3. i \in DOMAIN m[n]
        BY <4>1, <4>2
      <4> QED BY <4>1, <4>2, <4>3 DEF FitsField
    <3>2. CASE f[n].card # "many"
      <4>1. e = <<m[n]>> /\ FitsField(f[n], m[n], parts)
        BY <1>2, <1>3, <3>2 DEF Elements, Fits
      <4>2. e[i] = m[n]
        BY <4>1
      <4> QED BY <4>1, <4>2 DEF FitsField
    <3> QED BY <3>1, <3>2
  <2> QED BY <1>1, <2>1 DEF Whole
<1>4. CASE n \notin DOMAIN m
  <2>1. f[n].card = "one" /\ e = <<EmptyStore>>
    BY <1>4 DEF Elements
  <2>2. e[i] = EmptyStore
    BY <2>1
  <2>3. \A j \in 1 .. Len(k) : k[j].type # "integer"
    BY <2>1, SchemasAssumption
  <2> DEFINE part == Part(k, EmptyStore)
  <2>4. part[1] = k /\ part[2] = EmptyStore
    BY DEF Part
  <2>5. DOMAIN EmptyStore = {} /\ EmptyStore = [j \in DOMAIN EmptyStore |-> EmptyStore[j]]
    BY DEF EmptyStore
  <2>6. Fits(k, EmptyStore, {part}) /\ Complete(k, EmptyStore)
    BY <2>3, <2>5 DEF Fits, Complete
  <2> HIDE DEF part
  <2>7. Closed({part}) /\ \A p \in {part} : Complete(p[1], p[2])
    BY <2>4, <2>6 DEF Closed
  <2> QED BY <2>2, <2>7 DEF Whole, part
<1> QED BY <1>3, <1>4

\* What a field settles to, given what the message in it does, or the list of messages.
SettledWith(field, m, n, one, list) ==
  IF n \notin DOMAIN m THEN ZeroInteger
  ELSE IF field.type # "message" THEN m[n]
  ELSE IF field.card # "many" THEN one
  ELSE list

Kept(f, m) == {n \in 1 .. Len(f) : n \in DOMAIN m \/ f[n].type = "integer"}

\* Settled, like Marshal, is the same at every level of nesting.
LEMMA SettledUnfolds ==
  ASSUME NEW f \in Schemas, NEW m
  PROVE  Settled(f, m) =
           [n \in Kept(f, m) |->
              SettledWith(f[n], m, n, Settled(f[n].fields, m[n]),
                          [i \in 1 .. Len(m[n]) |-> Settled(f[n].fields, m[n][i])])]
<1>1. ASSUME NEW k \in Level0, NEW x PROVE SettledFlat(k, x) = SettledOnce(k, x)
  <2>1. ASSUME NEW n \in Kept(k, x)
        PROVE  SettledWith(k[n], x, n, x[n], [i \in 1 .. Len(x[n]) |-> x[n][i]]) =
               SettledWith(k[n], x, n, SettledFlat(k[n].fields, x[n]),
                           [i \in 1 .. Len(x[n]) |-> SettledFlat(k[n].fields, x[n][i])])
    BY Levels DEF SettledWith, Kept
  <2> QED BY <2>1, Zenon DEF SettledFlat, SettledOnce, SettledBy, SettledWith, Kept
<1>2. ASSUME NEW k \in Level1, NEW x PROVE SettledOnce(k, x) = SettledTwice(k, x)
  <2>1. ASSUME NEW n \in Kept(k, x)
        PROVE  SettledWith(k[n], x, n, SettledFlat(k[n].fields, x[n]),
                           [i \in 1 .. Len(x[n]) |-> SettledFlat(k[n].fields, x[n][i])]) =
               SettledWith(k[n], x, n, SettledOnce(k[n].fields, x[n]),
                           [i \in 1 .. Len(x[n]) |-> SettledOnce(k[n].fields, x[n][i])])
    <3>1. k[n].type = "message" =>
            \A y : SettledFlat(k[n].fields, y) = SettledOnce(k[n].fields, y)
      BY <1>1, Levels DEF Kept
    <3> QED BY <3>1 DEF SettledWith
  <2> QED BY <2>1, Zenon DEF SettledOnce, SettledTwice, SettledBy, SettledWith, Kept
<1>3. ASSUME NEW k \in Level2, NEW x PROVE SettledTwice(k, x) = Settled(k, x)
  <2>1. ASSUME NEW n \in Kept(k, x)
        PROVE  SettledWith(k[n], x, n, SettledOnce(k[n].fields, x[n]),
                           [i \in 1 .. Len(x[n]) |-> SettledOnce(k[n].fields, x[n][i])]) =
               SettledWith(k[n], x, n, SettledTwice(k[n].fields, x[n]),
                           [i \in 1 .. Len(x[n]) |-> SettledTwice(k[n].fields, x[n][i])])
    <3>1. k[n].type = "message" =>
            \A y : SettledOnce(k[n].fields, y) = SettledTwice(k[n].fields, y)
      BY <1>2, Levels DEF Kept
    <3> QED BY <3>1 DEF SettledWith
  <2> QED BY <2>1, Zenon DEF SettledTwice, Settled, SettledBy, SettledWith, Kept
<1>4. ASSUME NEW n \in Kept(f, m)
      PROVE  SettledWith(f[n], m, n, SettledTwice(f[n].fields, m[n]),
                         [i \in 1 .. Len(m[n]) |-> SettledTwice(f[n].fields, m[n][i])]) =
             SettledWith(f[n], m, n, Settled(f[n].fields, m[n]),
                         [i \in 1 .. Len(m[n]) |-> Settled(f[n].fields, m[n][i])])
  <2>1. f[n].type = "message" =>
          \A y : SettledTwice(f[n].fields, y) = Settled(f[n].fields, y)
    BY <1>3, Levels DEF Kept
  <2> QED BY <2>1 DEF SettledWith
<1>5. Settled(f, m) =
        [n \in Kept(f, m) |->
           SettledWith(f[n], m, n, SettledTwice(f[n].fields, m[n]),
                       [i \in 1 .. Len(m[n]) |-> SettledTwice(f[n].fields, m[n][i])])]
  BY DEF Settled, SettledBy, SettledWith, Kept
<1> QED BY <1>4, <1>5, Zenon

\* What it is of each field.
SettledField(f, m, n, x) ==
  x = SettledWith(f[n], m, n, Settled(f[n].fields, m[n]),
                  [i \in 1 .. Len(m[n]) |-> Settled(f[n].fields, m[n][i])])

LEMMA SettledFields ==
  ASSUME NEW f \in Schemas, NEW m, NEW s, s = Settled(f, m)
  PROVE  /\ s = [n \in DOMAIN s |-> s[n]]
         /\ \A n : n \in DOMAIN s <=> n \in 1 .. Len(f) /\ (n \in DOMAIN m \/ f[n].type = "integer")
         /\ \A n \in DOMAIN s : SettledField(f, m, n, s[n])
<1>1. s = [n \in Kept(f, m) |->
             SettledWith(f[n], m, n, Settled(f[n].fields, m[n]),
                         [i \in 1 .. Len(m[n]) |-> Settled(f[n].fields, m[n][i])])]
  BY SettledUnfolds, Zenon
<1>2. DOMAIN s = Kept(f, m) /\ s = [n \in DOMAIN s |-> s[n]]
  BY <1>1
<1>3. \A n \in Kept(f, m) : SettledField(f, m, n, s[n])
  BY <1>1, Zenon DEF SettledField
<1> QED BY <1>2, <1>3 DEF Kept

SettlesAlike(f) == \A m : DeepFits(f, m) => Marshal(f, Settled(f, m)) = Marshal(f, m)

LEMMA SettlesFrom ==
  ASSUME NEW f \in Schemas,
         \A n \in 1 .. Len(f) : f[n].type = "message" => SettlesAlike(f[n].fields)
  PROVE  SettlesAlike(f)
<1> SUFFICES ASSUME NEW m, DeepFits(f, m) PROVE Marshal(f, Settled(f, m)) = Marshal(f, m)
  BY DEF SettlesAlike
<1>1. PICK s : s = Settled(f, m)
  OBVIOUS
<1>2. /\ \A n : n \in DOMAIN s <=> n \in 1 .. Len(f) /\ (n \in DOMAIN m \/ f[n].type = "integer")
      /\ \A n \in DOMAIN s : SettledField(f, m, n, s[n])
  BY <1>1, SettledFields
<1>3. ASSUME NEW n \in 1 .. Len(f)
      PROVE  LET d == Elements(n, f[n], s)
                 e == Elements(n, f[n], m)
             IN /\ Len(d) = Len(e)
                /\ \A i \in 1 .. Len(e) :
                     ElementWith(n, f[n], d[i], Marshal(f[n].fields, d[i])) =
                     ElementWith(n, f[n], e[i], Marshal(f[n].fields, e[i]))
  <2> DEFINE k == f[n].fields
             d == Elements(n, f[n], s)
             e == Elements(n, f[n], m)
  <2>1. CASE f[n].type # "message"
    <3>1. d = e
      <4>1. CASE n \notin DOMAIN m /\ f[n].type = "integer"
        <5>1. n \in DOMAIN s /\ s[n] = ZeroInteger
          BY <1>2, <4>1 DEF SettledField, SettledWith
        <5>2. f[n].card = "one"
          BY <4>1, SchemasAssumption
        <5> QED BY <4>1, <5>1, <5>2 DEF Elements
      <4>2. CASE n \notin DOMAIN m /\ f[n].type # "integer"
        <5>1. n \notin DOMAIN s
          BY <1>2, <4>2
        <5> QED BY <4>2, <5>1 DEF Elements
      <4>3. CASE n \in DOMAIN m
        <5>1. n \in DOMAIN s /\ s[n] = m[n]
          BY <1>2, <2>1, <4>3 DEF SettledField, SettledWith
        <5> QED BY <4>3, <5>1 DEF Elements
      <4> QED BY <4>1, <4>2, <4>3
    <3> QED BY <3>1
  <2>2. CASE f[n].type = "message" /\ n \notin DOMAIN m
    <3>1. n \notin DOMAIN s
      BY <1>2, <2>2
    <3>2. d = e
      BY <2>2, <3>1 DEF Elements
    <3> QED BY <3>2
  <2>3. CASE f[n].type = "message" /\ n \in DOMAIN m
    <3>1. ValueFits(f[n], m[n]) /\ n \in DOMAIN s
      BY <1>2, <2>3, FieldsFit
    <3>2. \A x : DeepFits(k, x) => Marshal(k, Settled(k, x)) = Marshal(k, x)
      BY <2>3 DEF SettlesAlike
    <3>3. \A x : DeepFits(k, x) =>
             ElementWith(n, f[n], Settled(k, x), Marshal(k, Settled(k, x))) =
             ElementWith(n, f[n], x, Marshal(k, x))
      BY <2>3, <3>2 DEF ElementWith, WireTypeOf, Numbers
    <3>4. CASE f[n].card # "many"
      <4>0. s[n] = Settled(k, m[n])
        BY <1>2, <2>3, <3>1, <3>4 DEF SettledField, SettledWith
      <4>1. d = <<Settled(k, m[n])>> /\ e = <<m[n]>>
        BY <2>3, <3>1, <3>4, <4>0 DEF Elements
      <4>2. DeepFits(k, m[n])
        BY <2>3, <3>1, <3>4 DEF ValueFits, ElementFits
      <4> HIDE DEF d, e, k
      <4>3. Len(d) = 1 /\ Len(e) = 1 /\ d[1] = Settled(k, m[n]) /\ e[1] = m[n]
        BY <4>1
      <4>4. \A i \in 1 .. Len(e) : i = 1
        BY <4>3
      <4>5. ElementWith(n, f[n], d[1], Marshal(k, d[1])) = ElementWith(n, f[n], e[1], Marshal(k, e[1]))
        BY <3>3, <4>2, <4>3
      <4> QED BY <4>3, <4>4, <4>5 DEF d, e, k
    <3>5. CASE f[n].card = "many"
      <4>1. d = s[n] /\ e = m[n]
        BY <2>3, <3>1, <3>5 DEF Elements
      <4>2. s[n] = [i \in 1 .. Len(m[n]) |-> Settled(k, m[n][i])]
        BY <1>2, <2>3, <3>1, <3>5, Zenon DEF SettledField, SettledWith
      <4>3. m[n] \in Seq(Range(m[n])) /\ \A i \in DOMAIN m[n] : DeepFits(k, m[n][i])
        BY <2>3, <3>1, <3>5 DEF ValueFits, ElementFits
      <4>4. Len(m[n]) \in Nat /\ DOMAIN m[n] = 1 .. Len(m[n])
        BY <4>3, LenProperties
      <4> HIDE DEF d, e, k
      <4>5. Len(d) = Len(e) /\ \A i \in 1 .. Len(e) : d[i] = Settled(k, e[i]) /\ DeepFits(k, e[i])
        BY <4>1, <4>2, <4>3, <4>4
      <4>6. \A i \in 1 .. Len(e) :
              ElementWith(n, f[n], d[i], Marshal(k, d[i])) = ElementWith(n, f[n], e[i], Marshal(k, e[i]))
        BY <3>3, <4>5
      <4> QED BY <4>5, <4>6 DEF d, e, k
    <3> QED BY <3>4, <3>5
  <2> QED BY <2>1, <2>2, <2>3
<1>4. Pieces(f, s) = Pieces(f, m)
  <2>1. ASSUME NEW n \in 1 .. Len(f)
        PROVE  LET d == Elements(n, f[n], s)
                   e == Elements(n, f[n], m)
               IN [i \in 1 .. Len(d) |-> ElementWith(n, f[n], d[i], Marshal(f[n].fields, d[i]))] =
                  [i \in 1 .. Len(e) |-> ElementWith(n, f[n], e[i], Marshal(f[n].fields, e[i]))]
    BY <1>3
  <2> QED BY <2>1, Zenon DEF Pieces, PiecesBy
<1> QED BY <1>1, <1>4, MarshalUnfolds

LEMMA SettledMarshals ==
  ASSUME NEW f \in Schemas, NEW m, DeepFits(f, m)
  PROVE  Marshal(f, Settled(f, m)) = Marshal(f, m)
<1>1. (\A k \in Level0 : k \in Schemas) /\ (\A k \in Level1 : k \in Schemas)
      /\ \A k \in Level2 : k \in Schemas
  BY DEF Level0, Level1, Level2, Embedding
<1>2. \A k \in Level0 : SettlesAlike(k)
  BY <1>1, Levels, SettlesFrom
<1>3. \A k \in Level1 : SettlesAlike(k)
  BY <1>1, <1>2, Levels, SettlesFrom
<1>4. \A k \in Level2 : SettlesAlike(k)
  BY <1>1, <1>3, Levels, SettlesFrom
<1>5. SettlesAlike(f)
  BY <1>4, Levels, SettlesFrom
<1> QED BY <1>5 DEF SettlesAlike

\* The messages in a message, settled.
SettledParts(parts) == {Part(p[1], Settled(p[1], p[2])) : p \in {p \in parts : p[1] \in Schemas}}

LEMMA PartSettles ==
  ASSUME NEW f \in Schemas, NEW m, NEW parts, Closed(parts), Fits(f, m, parts)
  PROVE  Fits(f, Settled(f, m), SettledParts(parts)) /\ Complete(f, Settled(f, m))
<1>1. PICK s : s = Settled(f, m)
  OBVIOUS
<1>2. /\ s = [n \in DOMAIN s |-> s[n]]
      /\ \A n : n \in DOMAIN s <=> n \in 1 .. Len(f) /\ (n \in DOMAIN m \/ f[n].type = "integer")
      /\ \A n \in DOMAIN s : SettledField(f, m, n, s[n])
  BY <1>1, SettledFields
<1>3. ASSUME NEW k \in Schemas, NEW x, Part(k, x) \in parts
      PROVE  Part(k, Settled(k, x)) \in SettledParts(parts)
  <2>1. Part(k, x)[1] = k /\ Part(k, x)[2] = x
    BY DEF Part
  <2> QED BY <1>3, <2>1 DEF SettledParts
<1>4. ASSUME NEW n \in DOMAIN s
      PROVE  /\ n \in 1 .. Len(f)
             /\ IF f[n].card = "many"
                THEN /\ s[n] \in Seq(Range(s[n])) \ {<<>>}
                     /\ \A i \in DOMAIN s[n] : FitsField(f[n], s[n][i], SettledParts(parts))
                ELSE ~IsZero(f[n], s[n]) /\ FitsField(f[n], s[n], SettledParts(parts))
  <2>1. n \in 1 .. Len(f) /\ (n \in DOMAIN m \/ f[n].type = "integer")
    BY <1>2
  <2>2. CASE n \notin DOMAIN m
    <3>1. f[n].type = "integer" /\ s[n] = ZeroInteger
      BY <1>2, <2>1, <2>2 DEF SettledField, SettledWith
    <3>2. f[n].card = "one"
      BY <2>1, <3>1, SchemasAssumption
    <3>3. ~IsZero(f[n], s[n]) /\ FitsField(f[n], s[n], SettledParts(parts))
      BY <3>1, CanonicalAssumption DEF IsZero, FitsField, Numbers
    <3> QED BY <2>1, <3>2, <3>3
  <2>3. CASE n \in DOMAIN m /\ f[n].type # "message"
    <3>1. s[n] = m[n]
      BY <1>2, <2>3 DEF SettledField, SettledWith
    <3>2. \A x : FitsField(f[n], x, parts) => FitsField(f[n], x, SettledParts(parts))
      BY <2>3 DEF FitsField
    <3> QED BY <2>1, <2>3, <3>1, <3>2 DEF Fits
  <2>4. CASE n \in DOMAIN m /\ f[n].type = "message"
    <3> DEFINE k == f[n].fields
    <3>1. k \in Schemas
      BY <2>1, <2>4, SchemasAssumption
    <3>2. \A x : FitsField(f[n], x, parts) => FitsField(f[n], Settled(k, x), SettledParts(parts))
      BY <1>3, <2>4, <3>1 DEF FitsField, Numbers
    <3>3. CASE f[n].card # "many"
      <4>1. s[n] = Settled(k, m[n])
        BY <1>2, <2>4, <3>3 DEF SettledField, SettledWith
      <4>2. ~IsZero(f[n], m[n]) /\ FitsField(f[n], m[n], parts)
        BY <2>4, <3>3 DEF Fits
      <4>3. ~IsZero(f[n], s[n])
        <5> SUFFICES ASSUME IsZero(f[n], s[n]) PROVE FALSE
          OBVIOUS
        <5>1. f[n].card = "one" /\ s[n] = <<>> /\ m[n] # <<>>
          BY <2>4, <4>2 DEF IsZero, Numbers
        <5>2. Fits(k, m[n], parts)
          <6>1. Part(k, m[n]) \in parts
            BY <2>4, <4>2 DEF FitsField
          <6>2. Part(k, m[n])[1] = k /\ Part(k, m[n])[2] = m[n]
            BY DEF Part
          <6>3. Fits(Part(k, m[n])[1], Part(k, m[n])[2], parts)
            BY <6>1 DEF Closed
          <6> QED BY <6>2, <6>3
        <5>3. PICK x : x = m[n]
          OBVIOUS
        <5>4. x = [j \in DOMAIN x |-> x[j]] /\ \A j \in DOMAIN x : j \in 1 .. Len(k)
          BY <5>2, <5>3 DEF Fits
        <5>5. PICK j : j \in DOMAIN x
          <6>1. DOMAIN x = {} => x = <<>>
            BY <5>4
          <6> QED BY <5>1, <5>3, <6>1
        <5>6. PICK y : y = Settled(k, x)
          OBVIOUS
        <5>7. j \in DOMAIN y
          BY <3>1, <5>4, <5>5, <5>6, SettledFields
        <5>8. y = <<>>
          BY <4>1, <5>1, <5>3, <5>6
        <5> QED BY <5>7, <5>8
      <4> QED BY <2>1, <3>2, <3>3, <4>1, <4>2, <4>3
    <3>4. CASE f[n].card = "many"
      <4>1. s[n] = [i \in 1 .. Len(m[n]) |-> Settled(k, m[n][i])]
        BY <1>2, <2>4, <3>4, Zenon DEF SettledField, SettledWith
      <4>2. /\ m[n] \in Seq(Range(m[n])) \ {<<>>}
            /\ \A i \in DOMAIN m[n] : FitsField(f[n], m[n][i], parts)
        BY <2>4, <3>4 DEF Fits
      <4>3. Len(m[n]) \in Nat \ {0} /\ DOMAIN m[n] = 1 .. Len(m[n])
        BY <4>2, EmptySeq, LenProperties
      <4>4. /\ s[n] \in Seq(Range(s[n])) /\ Len(s[n]) = Len(m[n]) /\ DOMAIN s[n] = 1 .. Len(m[n])
        <5>1. \A i \in 1 .. Len(m[n]) : s[n][i] \in Range(s[n])
          BY <4>1 DEF Range
        <5>2. DOMAIN s[n] = 1 .. Len(m[n]) /\ s[n] = [i \in 1 .. Len(m[n]) |-> s[n][i]]
          BY <4>1
        <5> QED BY <4>3, <5>1, <5>2, IsASeq
      <4>5. s[n] # <<>>
        BY <4>3, <4>4
      <4>6. \A i \in DOMAIN s[n] : FitsField(f[n], s[n][i], SettledParts(parts))
        BY <3>2, <4>1, <4>2, <4>3, <4>4
      <4> QED BY <2>1, <3>4, <4>4, <4>5, <4>6
    <3> QED BY <3>3, <3>4
  <2> QED BY <2>2, <2>3, <2>4
<1>5. Complete(f, s)
  BY <1>2 DEF Complete
<1> QED BY <1>1, <1>2, <1>4, <1>5 DEF Fits

LEMMA SettledIsWhole ==
  ASSUME NEW f \in Schemas, NEW m, DeepFits(f, m)
  PROVE  Whole(f, Settled(f, m))
<1>1. PICK parts : Part(f, m) \in parts /\ Closed(parts)
  BY DEF DeepFits
<1> DEFINE settled == SettledParts(parts)
<1>2. Part(f, Settled(f, m)) \in settled
  <2>1. Part(f, m)[1] = f /\ Part(f, m)[2] = m
    BY DEF Part
  <2> QED BY <1>1, <2>1 DEF SettledParts
<1>3. ASSUME NEW q \in settled PROVE Fits(q[1], q[2], settled) /\ Complete(q[1], q[2])
  <2>1. PICK p \in parts : p[1] \in Schemas /\ q = Part(p[1], Settled(p[1], p[2]))
    BY DEF SettledParts
  <2>2. q[1] = p[1] /\ q[2] = Settled(p[1], p[2])
    BY <2>1 DEF Part
  <2>3. Fits(p[1], p[2], parts)
    BY <1>1 DEF Closed
  <2> QED BY <1>1, <2>1, <2>2, <2>3, PartSettles
<1> QED BY <1>2, <1>3 DEF Whole, Closed

(***************************************************************************)
(* Where in the bytes the elements of a message are, and what a reader has *)
(* of it by then                                                           *)
(***************************************************************************)

Fields(f, m)   == [n \in 1 .. Len(f) |-> FlattenSeq(Pieces(f, m)[n])]
Count(f, m, n) == Len(Elements(n, f[n], m))

\* Behind the first i elements of field n.
At(f, m, n, i) == Offset(Fields(f, m), n - 1) + Offset(Pieces(f, m)[n], i)

LEMMA PiecesFit ==
  ASSUME NEW f \in Schemas, NEW m, DeepFits(f, m), NEW n \in 1 .. Len(f)
  PROVE  /\ Pieces(f, m)[n] \in Seq(Seq(Bytes)) /\ Len(Pieces(f, m)[n]) = Count(f, m, n)
         /\ Count(f, m, n) \in Nat
         /\ \A i \in 1 .. Count(f, m, n) : Len(Pieces(f, m)[n][i]) \in Nat \ {0}
<1> DEFINE b == Pieces(f, m)[n]
           c == Sizes(f, m)[n]
<1>1. EmbedsMarshalled(f)
  BY SchemasAssumption, Marshalled DEF EmbedsMarshalled
<1>2. PiecesMeasured(b, c, Len(Elements(n, f[n], m)))
  BY <1>1, PiecesAreBytes, Zenon
<1> HIDE DEF b, c
<1>3. PiecesMeasured(b, c, Count(f, m, n))
  BY <1>2 DEF Count
<1>4. /\ b \in Seq(Seq(Bytes)) /\ Len(b) = Count(f, m, n) /\ Count(f, m, n) \in Nat
      /\ \A i \in 1 .. Count(f, m, n) : Len(b[i]) \in Nat \ {0}
  BY <1>3 DEF PiecesMeasured
<1> QED BY <1>4 DEF b

LEMMA FieldsFitBytes ==
  ASSUME NEW f \in Schemas, NEW m, DeepFits(f, m)
  PROVE  /\ Fields(f, m) \in Seq(Seq(Bytes)) /\ Len(Fields(f, m)) = Len(f) /\ Len(f) \in Nat
         /\ Marshal(f, m) = FlattenSeq(Fields(f, m))
         /\ Marshal(f, m) \in Seq(Bytes) /\ Len(Marshal(f, m)) \in Nat
         /\ Len(Marshal(f, m)) = Offset(Fields(f, m), Len(f))
<1> DEFINE p == Fields(f, m)
<1>1. Len(f) \in Nat
  BY SchemasAssumption
<1>2. \A n \in 1 .. Len(f) : FlattenSeq(Pieces(f, m)[n]) \in Seq(Bytes)
  BY PiecesFit, Flattened
<1>3. p \in Seq(Seq(Bytes)) /\ Len(p) = Len(f)
  BY <1>1, <1>2, IsASeq DEF Fields
<1>4. Marshal(f, m) = FlattenSeq(p)
  BY MarshalUnfolds DEF Joined, Fields
<1> HIDE DEF p
<1>5. FlattenSeq(p) \in Seq(Bytes) /\ Len(FlattenSeq(p)) = Offset(p, Len(f))
  BY <1>3, Flattened
<1>6. Len(FlattenSeq(p)) \in Nat
  BY <1>5, LenProperties
<1> QED BY <1>1, <1>3, <1>4, <1>5, <1>6 DEF p

\* Elements follow each other without gaps.
LEMMA ElementsInTurn ==
  ASSUME NEW f \in Schemas, NEW m, DeepFits(f, m), NEW n \in 1 .. Len(f),
         NEW i \in 1 .. Count(f, m, n)
  PROVE  /\ At(f, m, n, i) = At(f, m, n, i - 1) + Len(Pieces(f, m)[n][i])
         /\ At(f, m, n, i - 1) \in Nat /\ At(f, m, n, i) \in Nat
         /\ At(f, m, n, i - 1) < At(f, m, n, i)
         /\ At(f, m, n, i) <= Len(Marshal(f, m))
<1> DEFINE p == Fields(f, m)
           b == Pieces(f, m)[n]
           c == Count(f, m, n)
<1>1. /\ p \in Seq(Seq(Bytes)) /\ Len(p) = Len(f) /\ Len(f) \in Nat
      /\ Len(Marshal(f, m)) = Offset(p, Len(f))
  BY FieldsFitBytes
<1>2. b \in Seq(Seq(Bytes)) /\ Len(b) = c /\ c \in Nat /\ Len(b[i]) \in Nat \ {0}
  BY PiecesFit
<1>3. p[n] = FlattenSeq(b)
  BY DEF Fields
<1>4. /\ At(f, m, n, i) = Offset(p, n - 1) + Offset(b, i)
      /\ At(f, m, n, i - 1) = Offset(p, n - 1) + Offset(b, i - 1)
  BY DEF At
<1> HIDE DEF p, b, c
<1>5. i \in 1 .. c /\ i - 1 \in 0 .. c /\ i \in 0 .. c /\ c \in 0 .. c
  BY <1>2 DEF c
<1>6. /\ n - 1 \in 0 .. Len(f) /\ n \in 0 .. Len(f) /\ Len(f) \in 0 .. Len(f)
  BY <1>1
<1>7. Offset(b, i) = Offset(b, i - 1) + Len(b[i]) /\ Offset(b, i - 1) \in Nat /\ Offset(b, i) \in Nat
  BY <1>2, <1>5, Offsets
<1>8. Offset(b, i) <= Offset(b, c) /\ Len(FlattenSeq(b)) = Offset(b, c) /\ Offset(b, c) \in Nat
  BY <1>2, <1>5, Offsets, OffsetsGrow, Flattened
<1>9. /\ Offset(p, n) = Offset(p, n - 1) + Len(p[n]) /\ Offset(p, n - 1) \in Nat
      /\ Offset(p, n) <= Offset(p, Len(f)) /\ Offset(p, Len(f)) \in Nat /\ Offset(p, n) \in Nat
  BY <1>1, <1>6, Offsets, OffsetsGrow
<1> DEFINE before == At(f, m, n, i - 1)
           after  == At(f, m, n, i)
<1>10. /\ after = before + Len(b[i]) /\ before \in Nat /\ after \in Nat
       /\ before < after
  <2>1. /\ after = Offset(p, n - 1) + Offset(b, i)
        /\ before = Offset(p, n - 1) + Offset(b, i - 1)
    BY <1>4
  <2> HIDE DEF after, before
  <2>2. PICK x \in Nat, y \in Nat, z \in Nat \ {0} :
          x = Offset(p, n - 1) /\ y = Offset(b, i - 1) /\ z = Len(b[i])
    BY <1>2, <1>7, <1>9
  <2>3. before = x + y /\ after = x + (y + z)
    BY <1>7, <2>1, <2>2
  <2>4. x + y \in Nat /\ x + (y + z) \in Nat /\ x + (y + z) = (x + y) + z /\ x + y < x + (y + z)
    OBVIOUS
  <2>5. before \in Nat /\ after \in Nat
    BY <2>3, <2>4
  <2>6. before < after
    BY <2>3, <2>4
  <2>7. after = before + z
    BY <2>3, <2>4
  <2> QED BY <2>2, <2>5, <2>6, <2>7
<1>11. after <= Len(Marshal(f, m))
  <2>1. after = Offset(p, n - 1) + Offset(b, i)
    BY <1>4
  <2>2. Offset(p, n) = Offset(p, n - 1) + Offset(b, c)
    BY <1>3, <1>8, <1>9
  <2> HIDE DEF after
  <2>3. PICK w \in Nat, x \in Nat, y \in Nat, z \in Nat, all \in Nat :
          /\ w = Offset(p, n - 1) /\ x = Offset(b, i) /\ y = Offset(b, c)
          /\ z = Offset(p, n) /\ all = Len(Marshal(f, m))
    BY <1>1, <1>7, <1>8, <1>9
  <2>4. after = w + x /\ z = w + y /\ x <= y /\ z <= all
    BY <1>1, <1>8, <1>9, <2>1, <2>2, <2>3
  <2>5. after <= all
    BY <2>4
  <2> QED BY <2>3, <2>5
<1> QED BY <1>10, <1>11 DEF b

\* The ends of a field.
LEMMA FieldEnds ==
  ASSUME NEW f \in Schemas, NEW m, DeepFits(f, m), NEW n \in 1 .. Len(f)
  PROVE  /\ At(f, m, n, 0) = Offset(Fields(f, m), n - 1)
         /\ At(f, m, n, Count(f, m, n)) = Offset(Fields(f, m), n)
<1> DEFINE p == Fields(f, m)
           b == Pieces(f, m)[n]
           c == Count(f, m, n)
<1>1. p \in Seq(Seq(Bytes)) /\ Len(p) = Len(f) /\ Len(f) \in Nat
  BY FieldsFitBytes
<1>2. b \in Seq(Seq(Bytes)) /\ Len(b) = c /\ c \in Nat
  BY PiecesFit
<1>3. p[n] = FlattenSeq(b)
  BY DEF Fields
<1>4. /\ At(f, m, n, c) = Offset(p, n - 1) + Offset(b, c)
      /\ At(f, m, n, 0) = Offset(p, n - 1) + Offset(b, 0)
  BY DEF At
<1> HIDE DEF p, b, c
<1>5. Offset(b, 0) = 0 /\ Len(FlattenSeq(b)) = Offset(b, c)
  BY <1>2, Offsets, Flattened
<1>6. Offset(p, n) = Offset(p, n - 1) + Len(p[n]) /\ Offset(p, n - 1) \in Nat
  <2>1. n - 1 \in 0 .. Len(f)
    BY <1>1
  <2> QED BY <1>1, <2>1, Offsets
<1> QED BY <1>3, <1>4, <1>5, <1>6 DEF p, c

\* An element is written where it should be.
LEMMA ElementWritten ==
  ASSUME NEW f \in Schemas, NEW m, DeepFits(f, m), NEW n \in 1 .. Len(f),
         NEW i \in 1 .. Count(f, m, n), NEW base \in Nat, NEW limit \in Nat,
         WrittenAt(base, Marshal(f, m), limit)
  PROVE  WrittenAt(base + At(f, m, n, i - 1), Pieces(f, m)[n][i], limit)
<1> DEFINE p == Fields(f, m)
           b == Pieces(f, m)[n]
           o == Offset(p, n - 1)
<1>1. /\ p \in Seq(Seq(Bytes)) /\ Len(p) = Len(f) /\ Len(f) \in Nat
      /\ Marshal(f, m) = FlattenSeq(p)
  BY FieldsFitBytes
<1>2. b \in Seq(Seq(Bytes)) /\ Len(b) = Count(f, m, n) /\ Len(b) \in Nat
  BY PiecesFit
<1>3. p[n] = FlattenSeq(b)
  BY DEF Fields
<1>4. At(f, m, n, i - 1) = o + Offset(b, i - 1)
  BY DEF At
<1> HIDE DEF p, b
<1>5. n - 1 \in 0 .. Len(f) /\ i - 1 \in 0 .. Len(b)
  BY <1>1, <1>2
<1>6. o \in Nat /\ Offset(b, i - 1) \in Nat
  BY <1>1, <1>2, <1>5, Offsets
<1>7. WrittenAt(base + o, FlattenSeq(b), limit)
  BY <1>1, <1>3, WrittenPart
<1> HIDE DEF o
<1>8. base + o \in Nat /\ (base + o) + Offset(b, i - 1) = base + (o + Offset(b, i - 1))
  BY <1>6
<1>9. WrittenAt((base + o) + Offset(b, i - 1), b[i], limit)
  BY <1>2, <1>7, <1>8, WrittenPart
<1> QED BY <1>4, <1>8, <1>9 DEF b

\* What a reader has of a message behind the first i elements of field n, and behind all
\* of field n.
Taken(f, m, n, i) ==
  [k \in {k \in DOMAIN m : k < n \/ (k = n /\ i > 0)} |->
     IF k = n /\ f[n].card = "many" THEN SubSeq(m[n], 1, i) ELSE m[k]]

Done(m, n) == [k \in {k \in DOMAIN m : k <= n} |-> m[k]]

\* A reader that has `value` of the message after the first `off` bytes of it.
Progress(f, m, value, off) ==
  \/ value = m /\ off = Len(Marshal(f, m))
  \/ \E n \in 1 .. Len(f) : \E i \in 1 .. Count(f, m, n) :
       value = Taken(f, m, n, i - 1) /\ off = At(f, m, n, i - 1)

\* A field that the message has takes up bytes.
LEMMA FieldTakesBytes ==
  ASSUME NEW f \in Schemas, NEW m, DeepFits(f, m), NEW n \in DOMAIN m
  PROVE  n \in 1 .. Len(f) /\ Offset(Fields(f, m), n - 1) < Offset(Fields(f, m), n)
<1>1. n \in 1 .. Len(f)
  BY FieldsFit
<1> DEFINE c == Count(f, m, n)
<1>2. c \in Nat \ {0}
  <2>1. Len(Elements(n, f[n], m)) \in Nat /\ Len(Elements(n, f[n], m)) > 0
    BY <1>1, ElementsFit
  <2> QED BY <2>1 DEF Count
<1>3. 1 \in 1 .. c /\ c \in 1 .. c
  BY <1>2
<1>4. /\ At(f, m, n, 0) = Offset(Fields(f, m), n - 1)
      /\ At(f, m, n, c) = Offset(Fields(f, m), n)
  BY <1>1, FieldEnds
<1>5. /\ At(f, m, n, 0) = Offset(Fields(f, m), n - 1) + Offset(Pieces(f, m)[n], 0)
      /\ At(f, m, n, c) = Offset(Fields(f, m), n - 1) + Offset(Pieces(f, m)[n], c)
  BY DEF At
<1> DEFINE b == Pieces(f, m)[n]
<1>6. b \in Seq(Seq(Bytes)) /\ Len(b) = c /\ Len(b[1]) \in Nat \ {0}
  BY <1>1, <1>3, PiecesFit
<1> HIDE DEF b, c
<1>7. /\ Offset(b, 1) = Offset(b, 0) + Len(b[1]) /\ Offset(b, 0) = 0
      /\ Offset(b, 1) <= Offset(b, c) /\ Offset(b, c) \in Nat
  <2>1. 1 \in 1 .. Len(b) /\ c \in 0 .. Len(b) /\ 1 \in 0 .. c
    BY <1>2, <1>6
  <2>2. 1 - 1 = 0
    OBVIOUS
  <2> QED BY <1>6, <2>1, <2>2, Offsets, OffsetsGrow
<1>8. Offset(b, c) > 0
  BY <1>6, <1>7
<1>9. Offset(Fields(f, m), n - 1) \in Nat
  <2>1. n - 1 \in 0 .. Len(f)
    BY <1>1
  <2> QED BY <2>1, FieldsFitBytes, Offsets
<1>10. Offset(Fields(f, m), n) = Offset(Fields(f, m), n - 1) + Offset(b, c)
  BY <1>4, <1>5 DEF b
<1>11. ASSUME NEW x \in Nat, NEW y \in Nat, y > 0 PROVE x < x + y
  BY <1>11
<1> QED BY <1>1, <1>7, <1>8, <1>9, <1>10, <1>11

\* Fields without bytes between are fields that the message does not have.
LEMMA NoFieldBetween ==
  ASSUME NEW f \in Schemas, NEW m, DeepFits(f, m), NEW a \in 0 .. Len(f), NEW b \in a .. Len(f),
         Offset(Fields(f, m), a) = Offset(Fields(f, m), b)
  PROVE  Done(m, b) = Done(m, a)
<1> DEFINE p == Fields(f, m)
<1>1. p \in Seq(Seq(Bytes)) /\ Len(p) = Len(f) /\ Len(f) \in Nat
  BY FieldsFitBytes
<1>2. ASSUME NEW k \in DOMAIN m, k \in a + 1 .. b PROVE FALSE
  <2>1. k \in 1 .. Len(f) /\ Offset(p, k - 1) < Offset(p, k)
    BY FieldTakesBytes
  <2> HIDE DEF p
  <2>2. /\ k - 1 \in 0 .. Len(f) /\ a \in 0 .. k - 1 /\ k \in 0 .. b /\ b \in 0 .. Len(f)
        /\ k \in 0 .. Len(f)
    BY <1>1, <1>2, <2>1
  <2>3. Offset(p, a) <= Offset(p, k - 1) /\ Offset(p, k) <= Offset(p, b)
    BY <1>1, <2>2, OffsetsGrow
  <2>4. /\ Offset(p, a) \in Nat /\ Offset(p, k - 1) \in Nat /\ Offset(p, k) \in Nat
        /\ Offset(p, b) \in Nat
    BY <1>1, <2>2, Offsets
  <2>5. Offset(p, a) = Offset(p, b)
    BY DEF p
  <2> QED BY <2>1, <2>3, <2>4, <2>5
<1>3. \A k \in DOMAIN m : k \in 1 .. Len(f)
  BY FieldsFit
<1>4. {k \in DOMAIN m : k <= b} = {k \in DOMAIN m : k <= a}
  <2>1. ASSUME NEW k \in DOMAIN m, k <= b PROVE k <= a
    BY <1>1, <1>2, <1>3, <2>1
  <2>2. ASSUME NEW k \in DOMAIN m, k <= a PROVE k <= b
    BY <1>1, <1>3, <2>2
  <2> QED BY <2>1, <2>2
<1> QED BY <1>4 DEF Done

\* Behind all of a field, a reader is in front of the next element or at the end.
LEMMA FieldDone ==
  ASSUME NEW f \in Schemas, NEW m, DeepFits(f, m), NEW n \in 0 .. Len(f)
  PROVE  Progress(f, m, Done(m, n), Offset(Fields(f, m), n))
<1> DEFINE p == Fields(f, m)
           l == Len(f)
           o == Offset(p, n)
<1>1. /\ p \in Seq(Seq(Bytes)) /\ Len(p) = l /\ l \in Nat /\ l \in 0 .. l
      /\ Len(Marshal(f, m)) = Offset(p, l)
  BY FieldsFitBytes
<1>2. /\ \A k \in 0 .. l : Offset(p, k) \in Nat
      /\ \A k \in 0 .. l : \A j \in 0 .. k : Offset(p, j) <= Offset(p, k)
  <2> HIDE DEF p
  <2> QED BY <1>1, Offsets, OffsetsGrow
<1>3. Done(m, l) = m
  <2>1. m = [k \in DOMAIN m |-> m[k]] /\ \A k \in DOMAIN m : k \in 1 .. Len(f)
    BY FieldsFit
  <2>2. {k \in DOMAIN m : k <= l} = DOMAIN m
    <3>1. \A k \in DOMAIN m : k <= l
      BY <1>1, <2>1
    <3> QED BY <3>1
  <2> QED BY <2>1, <2>2 DEF Done
<1>4. CASE o = Offset(p, l)
  <2>1. Done(m, n) = m
    BY <1>1, <1>3, <1>4, NoFieldBetween
  <2> QED BY <1>1, <1>4, <2>1 DEF Progress
<1>5. CASE o # Offset(p, l)
  <2> DEFINE later == {k \in n .. l : Offset(p, k) # o}
  <2>1. PICK k \in later : \A j \in later : k <= j
    <3>1. l \in later /\ later \in SUBSET Nat
      BY <1>1, <1>5
    <3> HIDE DEF later
    <3> QED BY <3>1, LeastMember
  <2>2. /\ k \in n + 1 .. l /\ k \in 1 .. l /\ k - 1 \in n .. l /\ k - 1 \in 0 .. l
        /\ ~(k <= k - 1)
    BY <1>1, <2>1
  <2>3. Offset(p, k - 1) = o /\ Offset(p, k) # o
    BY <2>1, <2>2
  <2>4. Done(m, k - 1) = Done(m, n)
    BY <2>2, <2>3, NoFieldBetween
  <2> DEFINE c == Count(f, m, k)
  <2>5. c \in Nat /\ At(f, m, k, 0) = o /\ At(f, m, k, c) = Offset(p, k)
    BY <2>2, <2>3, PiecesFit, FieldEnds
  <2>6. 1 \in 1 .. c
    <3>1. c # 0
      BY <2>3, <2>5
    <3> HIDE DEF c
    <3> QED BY <2>5, <3>1
  <2>7. Taken(f, m, k, 1 - 1) = Done(m, k - 1)
    <3>1. \A j \in DOMAIN m : j \in 1 .. Len(f)
      BY FieldsFit
    <3>2. {j \in DOMAIN m : j < k \/ (j = k /\ 0 > 0)} = {j \in DOMAIN m : j <= k - 1}
      BY <1>1, <2>2, <3>1
    <3>3. 1 - 1 = 0 /\ \A j \in DOMAIN m : j <= k - 1 => j # k
      BY <1>1, <2>2, <3>1
    <3> QED BY <3>2, <3>3 DEF Taken, Done
  <2>8. Done(m, n) = Taken(f, m, k, 1 - 1) /\ o = At(f, m, k, 1 - 1)
    BY <2>4, <2>5, <2>7
  <2>9. k \in 1 .. Len(f) /\ 1 \in 1 .. Count(f, m, k)
    BY <2>2, <2>6
  <2> QED BY <2>8, <2>9, Zenon DEF Progress
<1> QED BY <1>4, <1>5

\* A reader that has not started.
LEMMA NothingTaken ==
  ASSUME NEW f \in Schemas, NEW m, DeepFits(f, m)
  PROVE  Progress(f, m, EmptyStore, 0)
<1>1. 0 \in 0 .. Len(f) /\ Offset(Fields(f, m), 0) = 0
  BY FieldsFitBytes, Offsets
<1>2. Done(m, 0) = EmptyStore
  <2>1. \A k \in DOMAIN m : k \in 1 .. Len(f)
    BY FieldsFit
  <2>2. {k \in DOMAIN m : k <= 0} = {}
    BY <2>1
  <2> QED BY <2>2 DEF Done, EmptyStore
<1> QED BY <1>1, <1>2, FieldDone

\* What is written of a field in place i.
LEMMA ElementIs ==
  ASSUME NEW f \in Schemas, NEW m, DeepFits(f, m), NEW n \in 1 .. Len(f),
         NEW i \in 1 .. Count(f, m, n)
  PROVE  LET x == Elements(n, f[n], m)[i]
         IN \/ /\ n \in DOMAIN m /\ f[n].card = "many"
               /\ x = m[n][i] /\ Count(f, m, n) = Len(m[n])
               /\ m[n] \in Seq(Range(m[n])) /\ Len(m[n]) \in Nat
            \/ /\ n \in DOMAIN m /\ f[n].card # "many" /\ i = 1 /\ Count(f, m, n) = 1
               /\ x = m[n] /\ ~IsZero(f[n], x)
            \/ /\ n \notin DOMAIN m /\ f[n].card = "one" /\ f[n].type = "message"
               /\ i = 1 /\ Count(f, m, n) = 1 /\ x = EmptyStore /\ IsZero(f[n], x)
            \/ n \notin DOMAIN m /\ f[n].type = "integer"
<1> DEFINE e == Elements(n, f[n], m)
<1>1. n \in DOMAIN m => ValueFits(f[n], m[n])
  BY FieldsFit
<1>2. CASE n \in DOMAIN m /\ f[n].card = "many"
  <2>1. e = m[n] /\ m[n] \in Seq(Range(m[n]))
    BY <1>1, <1>2 DEF Elements, ValueFits
  <2>2. Len(m[n]) \in Nat
    BY <2>1, LenProperties
  <2> QED BY <1>2, <2>1, <2>2 DEF Count
<1>3. CASE n \in DOMAIN m /\ f[n].card # "many"
  <2>1. e = <<m[n]>> /\ ~IsZero(f[n], m[n])
    BY <1>1, <1>3 DEF Elements, ValueFits
  <2>2. Count(f, m, n) = 1
    BY <2>1 DEF Count
  <2>3. i = 1 /\ e[i] = m[n]
    BY <2>1, <2>2
  <2> QED BY <1>3, <2>1, <2>2, <2>3
<1>4. CASE n \notin DOMAIN m /\ f[n].type # "integer"
  <2>1. e = IF f[n].card = "one" /\ f[n].type = "message" THEN <<EmptyStore>> ELSE <<>>
    BY <1>4 DEF Elements
  <2>2. CASE ~(f[n].card = "one" /\ f[n].type = "message")
    <3>1. Count(f, m, n) = 0
      BY <2>1, <2>2 DEF Count
    <3> QED BY <3>1
  <2>3. CASE f[n].card = "one" /\ f[n].type = "message"
    <3>1. Count(f, m, n) = 1
      BY <2>1, <2>3 DEF Count
    <3>2. i = 1 /\ e[i] = EmptyStore
      BY <2>1, <2>3, <3>1
    <3>3. IsZero(f[n], EmptyStore)
      BY <2>3 DEF IsZero, Numbers, EmptyStore
    <3> QED BY <1>4, <2>3, <3>1, <3>2, <3>3
  <2> QED BY <2>2, <2>3
<1> QED BY <1>2, <1>3, <1>4

\* A reader takes the next element.
LEMMA TakeNext ==
  ASSUME NEW f \in Schemas, NEW m, DeepFits(f, m), Complete(f, m), NEW n \in 1 .. Len(f),
         NEW i \in 1 .. Count(f, m, n)
  PROVE  SetField(Taken(f, m, n, i - 1), n, f[n], Elements(n, f[n], m)[i]) = Taken(f, m, n, i)
<1> DEFINE x    == Elements(n, f[n], m)[i]
           old  == Taken(f, m, n, i - 1)
           next == Taken(f, m, n, i)
<1>1. \A k \in DOMAIN m : k \in Nat
  BY FieldsFit
<1>2. n \in Nat /\ i \in Nat \ {0} /\ i - 1 \in Nat
  BY PiecesFit
<1>3. CASE n \in DOMAIN m /\ f[n].card = "many"
  <2>1. /\ x = m[n][i] /\ i \in 1 .. Len(m[n]) /\ m[n] \in Seq(Range(m[n]))
        /\ Len(m[n]) \in Nat
    BY <1>3, ElementIs
  <2> DEFINE list == ValueOr(old, n, <<>>)
  <2>2. list = SubSeq(m[n], 1, i - 1)
    <3>1. CASE i = 1
      <4>1. n \notin DOMAIN old
        BY <1>1, <1>2, <3>1 DEF Taken
      <4>2. SubSeq(m[n], 1, 1 - 1) = <<>>
        BY <2>1
      <4> QED BY <3>1, <4>1, <4>2 DEF ValueOr
    <3>2. CASE i # 1
      <4>1. n \in DOMAIN old /\ old[n] = SubSeq(m[n], 1, i - 1)
        BY <1>2, <1>3, <3>2 DEF Taken
      <4> QED BY <4>1 DEF ValueOr
    <3> QED BY <3>1, <3>2
  <2>3. Append(SubSeq(m[n], 1, i - 1), m[n][i]) = SubSeq(m[n], 1, i)
    <3>1. PICK S, s : s = m[n] /\ s \in Seq(S)
      BY <2>1
    <3> QED BY <2>1, <3>1
  <2>4. SetField(old, n, f[n], x) = Put(old, n, SubSeq(m[n], 1, i))
    BY <1>3, <2>1, <2>2, <2>3 DEF SetField
  <2>5. Put(old, n, SubSeq(m[n], 1, i)) = next
    <3>1. DOMAIN old \cup {n} = DOMAIN next
      BY <1>1, <1>2, <1>3 DEF Taken
    <3>2. \A k \in DOMAIN old : k # n => old[k] = m[k]
      BY DEF Taken
    <3>3. \A k \in DOMAIN next : next[k] = IF k = n THEN SubSeq(m[n], 1, i) ELSE m[k]
      BY <1>3 DEF Taken
    <3>4. next = [k \in DOMAIN next |-> next[k]]
      BY DEF Taken
    <3> HIDE DEF old, next
    <3> QED BY <3>1, <3>2, <3>3, <3>4 DEF Put
  <2> QED BY <2>4, <2>5
<1>4. CASE n \in DOMAIN m /\ f[n].card # "many"
  <2>1. i = 1 /\ x = m[n] /\ ~IsZero(f[n], m[n])
    BY <1>4, ElementIs
  <2>2. SetField(old, n, f[n], x) = Put(old, n, m[n])
    BY <1>4, <2>1 DEF SetField
  <2>3. Put(old, n, m[n]) = next
    <3>1. DOMAIN old \cup {n} = DOMAIN next
      BY <1>1, <1>2, <1>4, <2>1 DEF Taken
    <3>2. \A k \in DOMAIN old : old[k] = m[k]
      BY <1>4 DEF Taken
    <3>3. \A k \in DOMAIN next : next[k] = m[k]
      BY <1>4 DEF Taken
    <3>4. next = [k \in DOMAIN next |-> next[k]]
      BY DEF Taken
    <3> HIDE DEF old, next
    <3> QED BY <3>1, <3>2, <3>3, <3>4 DEF Put
  <2> QED BY <2>2, <2>3
<1>5. CASE n \notin DOMAIN m
  <2>1. x = EmptyStore /\ IsZero(f[n], x) /\ f[n].card # "many"
    BY <1>5, ElementIs DEF Complete
  <2>2. SetField(old, n, f[n], x) = Unset(old, n)
    BY <2>1 DEF SetField
  <2>3. Unset(old, n) = next
    <3>1. DOMAIN old \ {n} = DOMAIN next
      BY <1>1, <1>2, <1>5 DEF Taken
    <3>2. \A k \in DOMAIN old : old[k] = m[k]
      BY <2>1 DEF Taken
    <3>3. \A k \in DOMAIN next : next[k] = m[k]
      BY <2>1 DEF Taken
    <3>4. next = [k \in DOMAIN next |-> next[k]]
      BY DEF Taken
    <3> HIDE DEF old, next
    <3> QED BY <3>1, <3>2, <3>3, <3>4 DEF Unset
  <2> QED BY <2>2, <2>3
<1> QED BY <1>3, <1>4, <1>5

LEMMA NextTaken ==
  ASSUME NEW f \in Schemas, NEW m, DeepFits(f, m), NEW n \in 1 .. Len(f),
         NEW i \in 1 .. Count(f, m, n)
  PROVE  Progress(f, m, Taken(f, m, n, i), At(f, m, n, i))
<1> DEFINE c == Count(f, m, n)
<1>1. c \in Nat
  BY PiecesFit
<1> HIDE DEF c
<1>2. i \in 1 .. c
  BY DEF c
<1>3. CASE i < c
  <2>1. i + 1 \in 1 .. c /\ (i + 1) - 1 = i
    BY <1>1, <1>2, <1>3
  <2>2. PICK j : j = i + 1
    OBVIOUS
  <2>3. /\ j \in 1 .. Count(f, m, n)
        /\ Taken(f, m, n, i) = Taken(f, m, n, j - 1) /\ At(f, m, n, i) = At(f, m, n, j - 1)
    BY <2>1, <2>2 DEF c
  <2> QED BY <2>3 DEF Progress
<1>4. CASE i = c
  <2>1. At(f, m, n, i) = Offset(Fields(f, m), n)
    BY <1>4, FieldEnds DEF c
  <2>2. n \in 0 .. Len(f)
    BY FieldsFitBytes
  <2>3. Taken(f, m, n, i) = Done(m, n)
    <3>1. \A k \in DOMAIN m : k \in Nat
      BY FieldsFit
    <3>2. n \in Nat /\ i > 0
      BY <1>1, <1>2, <2>2
    <3>3. {k \in DOMAIN m : k < n \/ (k = n /\ i > 0)} = {k \in DOMAIN m : k <= n}
      BY <3>1, <3>2
    <3>4. ASSUME NEW k \in DOMAIN m, k = n /\ f[n].card = "many"
          PROVE  SubSeq(m[n], 1, i) = m[k]
      <4>1. m[n] \in Seq(Range(m[n])) /\ i = Len(m[n])
        BY <1>4, <3>4, ElementIs DEF c
      <4>2. PICK S, s : s = m[n] /\ s \in Seq(S)
        BY <4>1
      <4>3. SubSeq(s, 1, Len(s)) = s
        BY <4>2
      <4> QED BY <3>4, <4>1, <4>2, <4>3
    <3> QED BY <3>3, <3>4 DEF Taken, Done
  <2> QED BY <2>1, <2>2, <2>3, FieldDone
<1> QED BY <1>1, <1>2, <1>3, <1>4

\* A reader at the end has all of the message.
LEMMA AllTaken ==
  ASSUME NEW f \in Schemas, NEW m, DeepFits(f, m), NEW value, NEW off,
         Progress(f, m, value, off)
  PROVE  /\ off \in Nat /\ off <= Len(Marshal(f, m))
         /\ off = Len(Marshal(f, m)) => value = m
<1>1. ASSUME NEW n \in 1 .. Len(f), NEW i \in 1 .. Count(f, m, n), off = At(f, m, n, i - 1)
      PROVE  off \in Nat /\ off < Len(Marshal(f, m))
  <2>1. /\ off \in Nat /\ off < At(f, m, n, i) /\ At(f, m, n, i) \in Nat
        /\ At(f, m, n, i) <= Len(Marshal(f, m))
    BY <1>1, ElementsInTurn
  <2> QED BY <2>1, FieldsFitBytes
<1>2. Len(Marshal(f, m)) \in Nat
  BY FieldsFitBytes
<1>3. CASE value = m /\ off = Len(Marshal(f, m))
  BY <1>2, <1>3
<1>4. CASE \E n \in 1 .. Len(f) : \E i \in 1 .. Count(f, m, n) :
             value = Taken(f, m, n, i - 1) /\ off = At(f, m, n, i - 1)
  <2>1. off \in Nat /\ off < Len(Marshal(f, m))
    BY <1>1, <1>4
  <2> QED BY <1>2, <2>1
<1> QED BY <1>3, <1>4 DEF Progress

\* What a reader has is a part of the message.
LEMMA TakenIsPart ==
  ASSUME NEW f \in Schemas, NEW m, DeepFits(f, m), NEW value, NEW off,
         Progress(f, m, value, off), NEW k \in DOMAIN value
  PROVE  /\ k \in DOMAIN m
         /\ IF f[k].card = "many" THEN IsPrefix(value[k], m[k]) ELSE value[k] = m[k]
<1>1. ASSUME NEW j \in DOMAIN m, f[j].card = "many", NEW i \in 0 .. Len(m[j])
      PROVE  IsPrefix(SubSeq(m[j], 1, i), m[j]) /\ IsPrefix(m[j], m[j])
  <2>1. m[j] \in Seq(Range(m[j]))
    BY <1>1, FieldsFit DEF ValueFits
  <2>2. PICK S, s : s = m[j] /\ s \in Seq(S) /\ Len(s) \in Nat
    BY <2>1, LenProperties
  <2>3. Len(SubSeq(s, 1, i)) = i /\ SubSeq(SubSeq(s, 1, i), 1, i) = SubSeq(s, 1, i)
    BY <1>1, <2>2
  <2>4. IsPrefix(SubSeq(s, 1, i), s)
    BY <1>1, <2>2, <2>3 DEF IsPrefix
  <2>5. IsPrefix(s, s)
    BY <2>2 DEF IsPrefix
  <2> QED BY <2>2, <2>4, <2>5
<1>2. CASE value = m
  <2>1. f[k].card = "many" => IsPrefix(m[k], m[k])
    <3>1. ASSUME f[k].card = "many" PROVE 0 \in 0 .. Len(m[k])
      <4>1. m[k] \in Seq(Range(m[k]))
        BY <1>2, <3>1, FieldsFit DEF ValueFits
      <4> QED BY <4>1, LenProperties
    <3> QED BY <1>1, <1>2, <3>1
  <2> QED BY <1>2, <2>1
<1>3. ASSUME NEW n \in 1 .. Len(f), NEW i \in 1 .. Count(f, m, n), value = Taken(f, m, n, i - 1)
      PROVE  /\ k \in DOMAIN m
             /\ IF f[k].card = "many" THEN IsPrefix(value[k], m[k]) ELSE value[k] = m[k]
  <2>1. k \in DOMAIN m
    BY <1>3 DEF Taken
  <2>2. value[k] = IF k = n /\ f[n].card = "many" THEN SubSeq(m[n], 1, i - 1) ELSE m[k]
    BY <1>3 DEF Taken
  <2>3. ASSUME f[k].card = "many" PROVE IsPrefix(value[k], m[k])
    <3>1. CASE k = n
      <4>1. i - 1 \in 0 .. Len(m[n])
        BY <1>3, <2>1, <2>3, <3>1, ElementIs
      <4> QED BY <1>1, <2>1, <2>2, <2>3, <3>1, <4>1
    <3>2. CASE k # n
      <4>1. 0 \in 0 .. Len(m[k])
        <5>1. m[k] \in Seq(Range(m[k]))
          BY <2>1, <2>3, FieldsFit DEF ValueFits
        <5> QED BY <5>1, LenProperties
      <4> QED BY <1>1, <2>1, <2>2, <2>3, <3>2, <4>1
    <3> QED BY <3>1, <3>2
  <2>4. f[k].card # "many" => value[k] = m[k]
    BY <2>2
  <2> QED BY <2>1, <2>3, <2>4
<1> QED BY <1>2, <1>3 DEF Progress

(***************************************************************************)
(* The token of an element                                                 *)
(***************************************************************************)

LEMMA WrittenBefore ==
  ASSUME NEW p, NEW bytes, NEW limit \in Nat, NEW less \in Nat, less <= limit,
         p \in Nat, WrittenAt(p, bytes, limit)
  PROVE  WrittenAt(p, bytes, less)
BY DEF WrittenAt

\* What the field of an element holds on the wire.
ContentOf(field, x) ==
  CASE field.type \in Numbers -> AsUint64(x)
    [] field.type \in {"text", "integer"} -> x
    [] field.type = "message" -> Marshal(field.fields, x)

\* What is written of an element: a field with its number.
LEMMA PieceIs ==
  ASSUME NEW f \in Schemas, NEW m, DeepFits(f, m), NEW n \in 1 .. Len(f),
         NEW i \in 1 .. Count(f, m, n), InMemory(Marshal(f, m)),
         NEW x, x = Elements(n, f[n], m)[i],
         NEW wire, wire = WireTypeOf(f[n]), NEW c, c = ContentOf(f[n], x)
  PROVE  /\ Pieces(f, m)[n][i] = Written(n, wire, c)
         /\ n \in FieldNumbers /\ wire \in {0, 2}
         /\ f[n].type \in Numbers <=> wire = 0
         /\ c \in Contents(wire)
         /\ ElementFits(f[n], x)
<1> DEFINE e == Elements(n, f[n], m)
           b == Pieces(f, m)[n][i]
<1>1. i \in 1 .. Len(e) /\ ElementFits(f[n], x)
  BY ElementsFit DEF Count
<1>2. b = Written(n, wire, c)
  BY <1>1 DEF Pieces, PiecesBy, ElementWith, ContentOf
<1>3. n \in FieldNumbers /\ f[n].type \in Numbers \cup {"text", "integer", "message"}
  BY NestingAssumption, SchemasAssumption
<1> HIDE DEF b, e
<1>4. CASE f[n].type \in Numbers
  <2>1. wire = 0 /\ c = AsUint64(x)
    BY <1>4 DEF WireTypeOf, Numbers, ContentOf
  <2>2. AsUint64(x) \in 0 .. Wide - 1
    BY <1>1, <1>4, HeldAsSent DEF ElementFits
  <2>3. Contents(0) = 0 .. Wide - 1
    BY DEF Contents
  <2> QED BY <1>1, <1>2, <1>3, <1>4, <2>1, <2>2, <2>3 DEF b
<1>5. CASE f[n].type \in {"text", "integer", "message"}
  <2>1. /\ wire = 2 /\ f[n].type \notin Numbers
        /\ c = IF f[n].type \in {"text", "integer"} THEN x ELSE Marshal(f[n].fields, x)
    BY <1>5 DEF WireTypeOf, Numbers, ContentOf
  <2>2. c \in Seq(Bytes)
    <3>1. CASE f[n].type \in {"text", "integer"}
      BY <1>1, <2>1, <3>1, IntegersAreBytes DEF ElementFits
    <3>2. CASE f[n].type = "message"
      <4>1. DeepFits(f[n].fields, x) /\ f[n].fields \in Schemas
        BY <1>1, <3>2, SchemasAssumption DEF ElementFits
      <4>2. Marshal(f[n].fields, x) \in Seq(Bytes)
        BY <4>1, FieldsFitBytes
      <4> QED BY <2>1, <3>2, <4>2
    <3> QED BY <1>5, <3>1, <3>2
  <2>3. InMemory(c)
    <3> DEFINE t == Tag(n, 2)
               v == VarintBytes(AsUint64(Len(c)))
    <3>1. b = t \o (v \o c)
      <4>1. b = Written(n, 2, c)
        BY <1>2, <2>1
      <4>2. Written(n, 2, c) = Tag(n, 2) \o Prefixed(c)
        BY DEF Written
      <4>3. Prefixed(c) = v \o c
        BY DEF Prefixed
      <4> QED BY <4>1, <4>2, <4>3
    <3>2. Len(c) \in Nat
      BY <2>2, LenProperties
    <3>3. t \in Seq(Bytes) /\ v \in Seq(Bytes)
      <4>1. t \in Seq(Bytes)
        <5>1. wire \in 0 .. 5 /\ (wire = 0 => c \in 0 .. Wide - 1)
          BY <2>1
        <5> QED BY <1>3, <2>1, <2>2, <5>1, WrittenIsBytes
      <4>2. AsUint64(Len(c)) \in 0 .. Wide - 1
        BY <3>2, AsUint64Fits
      <4> QED BY <4>1, <4>2, VarintWritten
    <3> HIDE DEF t, v
    <3>4. v \o c \in Seq(Bytes) /\ Len(v \o c) = Len(v) + Len(c) /\ Len(b) = Len(t) + Len(v \o c)
      BY <2>2, <3>1, <3>3, ConcatProperties
    <3>5. Len(v) \in Nat /\ Len(t) \in Nat
      BY <3>3, LenProperties
    <3>6. Len(c) <= Len(b) /\ Len(b) \in Nat
      BY <3>2, <3>4, <3>5
    <3>7. /\ At(f, m, n, i) = At(f, m, n, i - 1) + Len(b) /\ At(f, m, n, i - 1) \in Nat
          /\ At(f, m, n, i) <= Len(Marshal(f, m)) /\ At(f, m, n, i) \in Nat
      BY ElementsInTurn DEF b
    <3>8. Len(Marshal(f, m)) \in Nat
      BY FieldsFitBytes
    <3>9. PICK half : half = Wide \div 2
      OBVIOUS
    <3>10. half \in Nat /\ Len(Marshal(f, m)) < half
      BY <3>9, Halves DEF InMemory
    <3>11. Len(c) < half
      BY <3>2, <3>6, <3>7, <3>8, <3>10
    <3> QED BY <3>9, <3>11 DEF InMemory
  <2>4. Contents(2) = {s \in Seq(Bytes) : InMemory(s)}
    BY DEF Contents
  <2>5. c \in Contents(2)
    BY <2>2, <2>3, <2>4
  <2> QED BY <1>1, <1>2, <1>3, <1>5, <2>1, <2>5 DEF b
<1> QED BY <1>3, <1>4, <1>5

\* A token of an element of a field of a message.
ElementHeld(t, field, n, x, end) ==
  /\ t.field = n /\ t.wire = WireTypeOf(field) /\ t.next = end
  /\ field.type \in Numbers => Held(field.type, t.number) = x
  /\ field.type \in {"text", "integer"} => SubSeq(input, t.start + 1, t.next) = x
  /\ field.type = "message" =>
       /\ SubSeq(input, t.start + 1, t.next) = Marshal(field.fields, x)
       /\ t.start = end - Len(Marshal(field.fields, x))
       /\ InMemory(Marshal(field.fields, x))

\* Where an element of a message was written there is its token, as far as it is
\* there whole, and no other.
LEMMA ElementToken ==
  ASSUME NEW f \in Schemas, NEW m, DeepFits(f, m), InMemory(Marshal(f, m)),
         NEW n \in 1 .. Len(f), NEW i \in 1 .. Count(f, m, n),
         input \in Seq(Bytes), InMemory(input), NEW base \in Nat, NEW limit \in Nat, limit <= Len(input),
         WrittenAt(base, Marshal(f, m), Len(input)),
         NEW p, p = base + At(f, m, n, i - 1), NEW end, end = base + At(f, m, n, i),
         NEW x, x = Elements(n, f[n], m)[i]
  PROVE  /\ Tokens(p, limit) # {} <=> end <= limit
         /\ \A t \in Tokens(p, limit) : ElementHeld(t, f[n], n, x, end)
         /\ ElementFits(f[n], x)
<1>0. PICK wire, c, b : wire = WireTypeOf(f[n]) /\ c = ContentOf(f[n], x)
                        /\ b = Pieces(f, m)[n][i]
  OBVIOUS
<1>1. /\ b = Written(n, wire, c) /\ n \in FieldNumbers /\ wire \in {0, 2}
      /\ f[n].type \in Numbers <=> wire = 0
      /\ c \in Contents(wire) /\ ElementFits(f[n], x)
  BY <1>0, PieceIs
<1>2. /\ f[n].type \in Numbers => c = AsUint64(x)
      /\ f[n].type \in {"text", "integer"} => c = x /\ f[n].type \notin Numbers
      /\ f[n].type = "message" => c = Marshal(f[n].fields, x) /\ f[n].type \notin Numbers
  BY <1>0 DEF Numbers, ContentOf
<1>3. /\ At(f, m, n, i) = At(f, m, n, i - 1) + Len(b) /\ Len(b) \in Nat
      /\ At(f, m, n, i - 1) \in Nat /\ At(f, m, n, i) \in Nat
  BY <1>0, ElementsInTurn, PiecesFit
<1>4. p \in Nat /\ end = p + Len(b)
  <2>1. end = base + (At(f, m, n, i - 1) + Len(b))
    BY <1>3
  <2>2. \A u, v \in Nat : base + u \in Nat /\ base + (u + v) = (base + u) + v
    OBVIOUS
  <2> QED BY <1>3, <2>1, <2>2
<1>5. WrittenAt(p, b, limit)
  <2>1. Len(input) \in Nat
    BY LenProperties
  <2>2. WrittenAt(base, Marshal(f, m), limit)
    BY <2>1, WrittenBefore
  <2> QED BY <1>0, <2>2, ElementWritten
<1>6. wire \in 0 .. 5
  BY <1>1
<1>7. /\ Tokens(p, limit) # {} <=> end <= limit
      /\ \A t \in Tokens(p, limit) : TokenHolds(t, n, wire, c, end)
  BY <1>1, <1>4, <1>5, <1>6, FieldReadsBack
<1>8. f[n].type \in Numbers => Held(f[n].type, c) = x
  BY <1>1, <1>2, HeldAsSent DEF ElementFits
<1>9. f[n].type = "message" => InMemory(c)
  BY <1>1, <1>2, ContentsAreBytes
<1>10. f[n].type \in {"text", "integer", "message"} => wire = 2
  BY <1>1, <1>2
<1>11. ASSUME NEW t \in Tokens(p, limit) PROVE ElementHeld(t, f[n], n, x, end)
  <2>1. TokenHolds(t, n, wire, c, end)
    BY <1>7
  <2> QED BY <1>0, <1>1, <1>2, <1>8, <1>9, <1>10, <2>1 DEF TokenHolds, ElementHeld
<1> QED BY <1>1, <1>7, <1>11

(***************************************************************************)
(* Extensions                                                              *)
(***************************************************************************)

\* The fields of an extension as they are written.
Behind(e) == [k \in 1 .. Len(e) |-> Written(e[k].field, e[k].wire, e[k].content)]

\* How many groups are open behind each field of an extension.
Grouping(e, groups) ==
  /\ groups \in [0 .. Len(e) -> 0 .. Len(e)]
  /\ groups[0] = 0 /\ groups[Len(e)] = 0
  /\ \A k \in 1 .. Len(e) :
       /\ groups[k] - groups[k - 1] =
            IF e[k].wire = 3 THEN 1 ELSE IF e[k].wire = 4 THEN -1 ELSE 0
       /\ groups[k - 1] = 0 => \A fields \in Schemas : e[k].field > Len(fields)

\* An extension, which may have no fields.
Extension(e) ==
  /\ Len(e) \in Nat
  /\ \A k \in 1 .. Len(e) : /\ e[k].field \in FieldNumbers /\ e[k].wire \in 0 .. 5
                            /\ e[k].content \in Contents(e[k].wire)
  /\ \E groups : Grouping(e, groups)

LEMMA ExtensionsAre == ASSUME NEW e \in Extensions PROVE Extension(e)
<1>1. e \in Seq(Range(e))
  BY ExtensionsAssumption
<1>2. Len(e) \in Nat
  BY <1>1, LenProperties
<1>3. \E groups : Grouping(e, groups)
  BY ExtensionsAssumption DEF Grouping
<1> QED BY <1>2, <1>3, ExtensionsAssumption DEF Extension

LEMMA NoExtension == Extension(<<>>) /\ ExtensionBytes(<<>>) = <<>>
<1> DEFINE groups == [k \in 0 .. 0 |-> 0]
<1>1. Len(<<>>) = 0
  OBVIOUS
<1>2. groups \in [0 .. 0 -> 0 .. 0] /\ groups[0] = 0
  OBVIOUS
<1> HIDE DEF groups
<1>3. Grouping(<<>>, groups)
  BY <1>1, <1>2 DEF Grouping
<1> DEFINE b == Behind(<<>>)
<1>4. b \in Seq({}) /\ Len(b) = 0 /\ b = <<>>
  <2>1. 1 .. 0 = {}
    OBVIOUS
  <2>2. b = [k \in {} |-> Written(<<>>[k].field, <<>>[k].wire, <<>>[k].content)]
    BY <1>1, <2>1 DEF Behind
  <2>3. <<>> = [k \in {} |-> Written(<<>>[k].field, <<>>[k].wire, <<>>[k].content)]
    OBVIOUS
  <2>4. b = <<>>
    BY <2>2, <2>3
  <2> HIDE DEF b
  <2> QED BY <2>4
<1>5. ExtensionBytes(<<>>) = FlattenSeq(b)
  BY DEF ExtensionBytes, Behind
<1> HIDE DEF b
<1>6. FlattenSeq(b) = <<>>
  BY <1>4, FlattenJoins
<1> QED BY <1>1, <1>3, <1>5, <1>6 DEF Extension

LEMMA ExtensionIsBytes ==
  ASSUME NEW e, Extension(e)
  PROVE  /\ Behind(e) \in Seq(Seq(Bytes)) /\ Len(Behind(e)) = Len(e)
         /\ ExtensionBytes(e) = FlattenSeq(Behind(e))
         /\ ExtensionBytes(e) \in Seq(Bytes) /\ Len(ExtensionBytes(e)) \in Nat
         /\ Len(ExtensionBytes(e)) = Offset(Behind(e), Len(e))
<1>1. Len(e) \in Nat
  BY DEF Extension
<1>2. ASSUME NEW k \in 1 .. Len(e)
      PROVE  Written(e[k].field, e[k].wire, e[k].content) \in Seq(Bytes)
  <2>1. PICK n, wire, x : n = e[k].field /\ wire = e[k].wire /\ x = e[k].content
    OBVIOUS
  <2>2. n \in FieldNumbers /\ wire \in 0 .. 5 /\ x \in Contents(wire)
    BY <2>1 DEF Extension
  <2>3. Written(n, wire, x) \in Seq(Bytes)
    BY <2>2, ContentsAreBytes, WrittenIsBytes
  <2> QED BY <2>1, <2>3
<1>3. Behind(e) \in Seq(Seq(Bytes)) /\ Len(Behind(e)) = Len(e)
  BY <1>1, <1>2, IsASeq DEF Behind
<1>4. ExtensionBytes(e) = FlattenSeq(Behind(e))
  BY DEF ExtensionBytes, Behind
<1>5. /\ FlattenSeq(Behind(e)) \in Seq(Bytes)
      /\ Len(FlattenSeq(Behind(e))) = Offset(Behind(e), Len(Behind(e)))
  BY <1>3, Flattened
<1>6. Len(FlattenSeq(Behind(e))) \in Nat
  BY <1>5, LenProperties
<1> QED BY <1>3, <1>4, <1>5, <1>6

\* Where the bytes of an extension are there is the token of each field of it, and
\* no other.
LEMMA ExtensionToken ==
  ASSUME NEW e, Extension(e), NEW k \in 1 .. Len(e), input \in Seq(Bytes), InMemory(input),
         NEW p \in Nat, WrittenAt(p, ExtensionBytes(e), Len(input)),
         p + Len(ExtensionBytes(e)) <= Len(input),
         NEW q, q = p + Offset(Behind(e), k - 1), NEW end, end = p + Offset(Behind(e), k)
  PROVE  /\ q \in Nat /\ end \in Nat /\ q < end /\ end <= Len(input)
         /\ Tokens(q, Len(input)) # {}
         /\ \A t \in Tokens(q, Len(input)) :
              t.field = e[k].field /\ t.wire = e[k].wire /\ t.next = end
<1>0. PICK n, wire, x, b : /\ n = e[k].field /\ wire = e[k].wire /\ x = e[k].content
                           /\ b = Behind(e)[k]
  OBVIOUS
<1>1. n \in FieldNumbers /\ wire \in 0 .. 5 /\ x \in Contents(wire) /\ b = Written(n, wire, x)
  BY <1>0 DEF Extension, Behind
<1>2. /\ Behind(e) \in Seq(Seq(Bytes)) /\ Len(Behind(e)) = Len(e) /\ Len(e) \in Nat
      /\ ExtensionBytes(e) = FlattenSeq(Behind(e))
      /\ Len(ExtensionBytes(e)) = Offset(Behind(e), Len(e))
      /\ Len(ExtensionBytes(e)) \in Nat
  BY ExtensionIsBytes DEF Extension
<1>3. /\ Offset(Behind(e), k - 1) \in Nat /\ Offset(Behind(e), k) \in Nat
      /\ Offset(Behind(e), k) = Offset(Behind(e), k - 1) + Len(b)
      /\ Offset(Behind(e), k) <= Offset(Behind(e), Len(e))
  <2>1. k - 1 \in 0 .. Len(e) /\ k \in 0 .. Len(e) /\ Len(e) \in 0 .. Len(e)
    BY <1>2
  <2> QED BY <1>0, <1>2, <2>1, Offsets, OffsetsGrow
<1>4. Len(b) \in Nat \ {0}
  <2>1. b \in Seq(Bytes) /\ Len(b) > 0
    BY <1>1, ContentsAreBytes, WrittenIsBytes
  <2> QED BY <2>1, LenProperties
<1>5. WrittenAt(q, b, Len(input))
  <2>1. Len(input) \in Nat
    BY LenProperties
  <2> QED BY <1>0, <1>2, <2>1, WrittenPart
<1>6. Len(input) \in Nat
  BY LenProperties
<1>7. q \in Nat /\ end \in Nat /\ end = q + Len(b) /\ q < end /\ end <= Len(input)
  <2>1. end = p + (Offset(Behind(e), k - 1) + Len(b))
    BY <1>3
  <2>2. \A u \in Nat, v \in Nat \ {0} :
          p + u \in Nat /\ p + (u + v) = (p + u) + v /\ p + (u + v) \in Nat /\ p + u < p + (u + v)
    OBVIOUS
  <2>3. Offset(Behind(e), k) \in Nat /\ Offset(Behind(e), k) <= Len(ExtensionBytes(e))
    BY <1>2, <1>3
  <2>4. \A v, w \in Nat : v <= w => p + v <= p + w
    OBVIOUS
  <2>5. end <= p + Len(ExtensionBytes(e)) /\ p + Len(ExtensionBytes(e)) \in Nat
    BY <1>2, <2>3, <2>4
  <2>6. q \in Nat /\ end \in Nat /\ end = q + Len(b) /\ q < end
    BY <1>3, <1>4, <2>1, <2>2
  <2>7. \A u, v, w \in Nat : u <= v /\ v <= w => u <= w
    OBVIOUS
  <2> QED BY <1>6, <2>5, <2>6, <2>7
<1>8. /\ Tokens(q, Len(input)) # {} <=> end <= Len(input)
      /\ \A t \in Tokens(q, Len(input)) : TokenHolds(t, n, wire, x, end)
  <2>1. PICK limit : limit = Len(input)
    OBVIOUS
  <2>2. limit \in Nat /\ limit <= Len(input) /\ WrittenAt(q, b, limit)
    BY <1>5, <1>6, <2>1
  <2>3. /\ Tokens(q, limit) # {} <=> end <= limit
        /\ \A t \in Tokens(q, limit) : TokenHolds(t, n, wire, x, end)
    BY <1>1, <1>7, <2>2, FieldReadsBack
  <2> QED BY <2>1, <2>3
<1> QED BY <1>0, <1>7, <1>8 DEF TokenHolds

(***************************************************************************)
(* What arrives                                                            *)
(***************************************************************************)

\* The bytes that were marshalled of `sent`, with an extension, or cut off.
Delivered(e) ==
  LET bytes == Marshal(schema, sent)
  IN \/ fault = "none" /\ e = <<>> /\ input = bytes
     \/ /\ fault = "extended" /\ e \in Extensions
        /\ input = ExtensionBytes(e) \o bytes \o ExtensionBytes(e)
     \/ /\ fault = "cut" /\ e = <<>>
        /\ \E k \in 0 .. Len(bytes) - 1 : input = SubSeq(bytes, 1, k)

LEMMA WrittenParts ==
  ASSUME NEW a \in Seq(Bytes), NEW b \in Seq(Bytes), NEW c \in Seq(Bytes),
         input = a \o b \o c
  PROVE  /\ Len(input) = Len(a) + Len(b) + Len(c)
         /\ WrittenAt(0, a, Len(input))
         /\ WrittenAt(Len(a), b, Len(input))
         /\ WrittenAt(Len(a) + Len(b), c, Len(input))
<1>1. Len(a) \in Nat /\ Len(b) \in Nat /\ Len(c) \in Nat
  BY LenProperties
<1>2. /\ a \o b \in Seq(Bytes) /\ Len(a \o b) = Len(a) + Len(b)
      /\ \A i \in 1 .. Len(a) : (a \o b)[i] = a[i]
      /\ \A i \in 1 .. Len(b) : (a \o b)[Len(a) + i] = b[i]
  BY <1>1
<1> DEFINE ab == a \o b
<1> HIDE DEF ab
<1>3. /\ Len(ab \o c) = Len(ab) + Len(c)
      /\ \A i \in 1 .. Len(ab) : (ab \o c)[i] = ab[i]
      /\ \A i \in 1 .. Len(c) : (ab \o c)[Len(ab) + i] = c[i]
  BY <1>1, <1>2 DEF ab
<1>4. input = ab \o c
  BY DEF ab
<1>5. \A i \in 1 .. Len(a) : i \in 1 .. Len(ab) /\ ab[i] = a[i]
  BY <1>1, <1>2 DEF ab
<1>6. \A i \in 1 .. Len(b) : Len(a) + i \in 1 .. Len(ab) /\ ab[Len(a) + i] = b[i]
  BY <1>1, <1>2 DEF ab
<1>7. Len(ab) = Len(a) + Len(b)
  BY <1>2 DEF ab
<1>8. \A i \in 1 .. Len(a) : 0 + i = i
  BY <1>1
<1> QED BY <1>1, <1>3, <1>4, <1>5, <1>6, <1>7, <1>8 DEF WrittenAt

\* Where the bytes of the message and of the extension are.
LEMMA BytesInPlace ==
  ASSUME schema \in Schemas, DeepFits(schema, sent), NEW e, Delivered(e),
         NEW x, x = ExtensionBytes(e), NEW bytes, bytes = Marshal(schema, sent)
  PROVE  /\ Extension(e) /\ input \in Seq(Bytes)
         /\ Len(x) \in Nat /\ Len(bytes) \in Nat /\ Len(input) \in Nat
         /\ WrittenAt(Len(x), bytes, Len(input))
         /\ \/ /\ fault \in {"none", "extended"}
               /\ Len(input) = Len(x) + Len(bytes) + Len(x)
               /\ WrittenAt(0, x, Len(input))
               /\ WrittenAt(Len(x) + Len(bytes), x, Len(input))
            \/ fault = "cut" /\ Len(e) = 0 /\ Len(x) = 0 /\ Len(input) < Len(bytes)
<1>1. bytes \in Seq(Bytes) /\ Len(bytes) \in Nat
  BY FieldsFitBytes
<1>2. Extension(e)
  BY ExtensionsAre, NoExtension DEF Delivered
<1>3. x \in Seq(Bytes) /\ Len(x) \in Nat
  BY <1>2, ExtensionIsBytes
<1>4. CASE fault \in {"none", "extended"}
  <2>1. input = x \o bytes \o x
    <3>1. CASE e = <<>> /\ input = bytes
      <4>1. x = <<>>
        BY <3>1, NoExtension
      <4>2. \A s \in Seq(Bytes) : <<>> \o s \o <<>> = s
        OBVIOUS
      <4> QED BY <1>1, <3>1, <4>1, <4>2
    <3>2. CASE input = x \o bytes \o x
      BY <3>2
    <3> QED BY <1>4, <3>1, <3>2 DEF Delivered
  <2>2. x \o bytes \in Seq(Bytes)
    BY <1>1, <1>3
  <2>3. input \in Seq(Bytes)
    <3>1. PICK y : y = x \o bytes
      OBVIOUS
    <3> QED BY <1>3, <2>1, <2>2, <3>1
  <2>4. /\ Len(input) = Len(x) + Len(bytes) + Len(x)
        /\ WrittenAt(0, x, Len(input))
        /\ WrittenAt(Len(x), bytes, Len(input))
        /\ WrittenAt(Len(x) + Len(bytes), x, Len(input))
    BY <1>1, <1>3, <2>1, WrittenParts
  <2>5. Len(input) \in Nat
    BY <2>3, LenProperties
  <2> QED BY <1>1, <1>2, <1>3, <1>4, <2>3, <2>4, <2>5
<1>5. CASE fault \notin {"none", "extended"}
  <2>1. /\ fault = "cut" /\ e = <<>>
        /\ \E k \in 0 .. Len(bytes) - 1 : input = SubSeq(bytes, 1, k)
    BY <1>5 DEF Delivered
  <2>2. PICK k \in 0 .. Len(bytes) - 1 : input = SubSeq(bytes, 1, k)
    BY <2>1
  <2>3. /\ input \in Seq(Bytes) /\ Len(input) = k
        /\ \A i \in 1 .. k : input[i] = bytes[i]
    BY <1>1, <2>2
  <2>4. x = <<>> /\ Len(x) = 0 /\ Len(e) = 0
    BY <2>1, NoExtension
  <2>5. WrittenAt(0, bytes, Len(input))
    <3>1. \A i \in 1 .. Len(bytes) : 0 + i = i /\ (i <= k => i \in 1 .. k)
      BY <1>1
    <3> QED BY <2>3, <3>1 DEF WrittenAt
  <2> QED BY <1>1, <1>2, <2>1, <2>3, <2>4, <2>5
<1> QED BY <1>4, <1>5

(***************************************************************************)
(* The calls that read what was marshalled                                 *)
(***************************************************************************)

\* A call that reads the message m from the bytes behind b.
ReadsMessage(call, b, m) ==
  /\ Whole(call.schema, m) /\ InMemory(Marshal(call.schema, m))
  /\ b \in Nat /\ WrittenAt(b, Marshal(call.schema, m), Len(input))

\* A call that has read m as far as element i of field n.
ReadsUpTo(call, m, n, i) ==
  /\ n \in 1 .. Len(call.schema) /\ i \in 1 .. Count(call.schema, m, n)
  /\ call.value = Taken(call.schema, m, n, i - 1)

\* Call `inner` reads that element, x, which is behind c.
ReadsElement(inner, c, x, outer, b, m, n, i) ==
  /\ inner.field = n /\ x = Elements(n, outer.schema[n], m)[i]
  /\ inner.limit = b + At(outer.schema, m, n, i)
  /\ inner.limit = c + Len(Marshal(inner.schema, x))

\* Each call reads an element of the message that the call before it reads.
Readers(calls, base, message, start, m) ==
  /\ base[1] = start /\ message[1] = m
  /\ \A k \in 1 .. Len(calls) : ReadsMessage(calls[k], base[k], message[k])
  /\ \A k \in 1 .. Len(calls) - 1 :
       \E n, i : /\ ReadsUpTo(calls[k], message[k], n, i)
                 /\ ReadsElement(calls[k + 1], base[k + 1], message[k + 1],
                                 calls[k], base[k], message[k], n, i)

\* The calls read m, which is behind `start`, and are at position p.
AreAt(calls, p, start, m) ==
  \E base, message :
    /\ Readers(calls, base, message, start, m)
    /\ LET l == Len(calls)
       IN \E off : /\ Progress(calls[l].schema, message[l], calls[l].value, off)
                   /\ p = base[l] + off

\* The stack with another value for its last call, call by call.
WithValue(calls, value) == [calls EXCEPT ![Len(calls)].value = value]

LEMMA OtherValue ==
  ASSUME NEW calls, CallsFit(calls), NEW l, l = Len(calls), NEW value,
         NEW new, new = WithValue(calls, value)
  PROVE  /\ Len(new) = l
         /\ \A k \in 1 .. l - 1 : new[k] = calls[k]
         /\ new[l].schema = calls[l].schema /\ new[l].field = calls[l].field
         /\ new[l].limit = calls[l].limit /\ new[l].value = value
<1>1. PICK S : calls \in Seq(S)
  BY DEF CallsFit, IsStack
<1>2. Len(calls) \in Nat \ {0} /\ Len(calls) \in 1 .. Len(calls)
  BY DEF CallsFit, IsStack
<1>3. PICK top, call : top = calls[Len(calls)] /\ call = [top EXCEPT !.value = value]
  OBVIOUS
<1>4. top = Frame(top.schema, top.field, top.limit, top.value)
  BY <1>2, <1>3 DEF CallsFit, CallFits
<1>5. call = Frame(top.schema, top.field, top.limit, value)
  BY <1>3, <1>4 DEF Frame
<1>6. /\ call.schema = top.schema /\ call.field = top.field /\ call.limit = top.limit
      /\ call.value = value
  BY <1>5 DEF Frame
<1>7. new = [calls EXCEPT ![Len(calls)] = call]
  BY <1>3 DEF WithValue
<1>8. calls \in Seq(S \cup {call})
  <2>1. S \subseteq S \cup {call}
    OBVIOUS
  <2> QED BY <1>1, <2>1
<1>9. /\ Len(new) = Len(calls)
      /\ \A j \in 1 .. Len(calls) : new[j] = IF j = Len(calls) THEN call ELSE calls[j]
  BY <1>2, <1>7, <1>8, ExceptSeq
<1>10. \A k \in 1 .. Len(calls) - 1 : k \in 1 .. Len(calls) /\ k # Len(calls)
  BY <1>2
<1> QED BY <1>2, <1>3, <1>6, <1>9, <1>10

\* One call that has nothing yet.
LEMMA StartsAt ==
  ASSUME NEW calls, CallsFit(calls), Len(calls) = 1, calls[1].value = EmptyStore,
         NEW start, NEW m, ReadsMessage(calls[1], start, m)
  PROVE  AreAt(calls, start, start, m)
<1>1. calls[1].schema \in Schemas
  BY DEF CallsFit, CallFits
<1>2. DeepFits(calls[1].schema, m) /\ start \in Nat
  BY WholeFits DEF ReadsMessage
<1>3. Progress(calls[1].schema, m, calls[1].value, 0)
  BY <1>1, <1>2, NothingTaken
<1> DEFINE base    == [k \in 1 .. 1 |-> start]
           message == [k \in 1 .. 1 |-> m]
<1>4. base[1] = start /\ message[1] = m
  OBVIOUS
<1> HIDE DEF base, message
<1>5. \A k \in 1 .. Len(calls) : ReadsMessage(calls[k], base[k], message[k])
  BY <1>4
<1>6. Readers(calls, base, message, start, m)
  BY <1>4, <1>5 DEF Readers
<1>7. start = base[1] + 0
  BY <1>2, <1>4
<1>8. Len(calls) = 1 /\ Progress(calls[1].schema, message[1], calls[1].value, 0)
  BY <1>3, <1>4
<1> QED BY <1>6, <1>7, <1>8 DEF AreAt

\* Calls that differ from others at most in what the last one has read.
SameCalls(new, calls, l) ==
  /\ Len(new) = l
  /\ \A k \in 1 .. l - 1 : new[k] = calls[k]
  /\ \A k \in 1 .. l : /\ new[k].schema = calls[k].schema /\ new[k].field = calls[k].field
                       /\ new[k].limit = calls[k].limit

\* They read the same messages.
LEMMA ReadersKept ==
  ASSUME NEW calls, NEW l \in Nat \ {0}, l = Len(calls), NEW new, SameCalls(new, calls, l),
         NEW base, NEW message, NEW start, NEW m, Readers(calls, base, message, start, m)
  PROVE  Readers(new, base, message, start, m)
<1>1. \A k \in 1 .. l - 1 : k \in 1 .. l /\ k + 1 \in 1 .. l
  OBVIOUS
<1>2. ASSUME NEW k \in 1 .. l PROVE ReadsMessage(new[k], base[k], message[k])
  <2>1. ReadsMessage(calls[k], base[k], message[k]) /\ new[k].schema = calls[k].schema
    BY DEF Readers, SameCalls
  <2> QED BY <2>1 DEF ReadsMessage
<1>3. ASSUME NEW k \in 1 .. l - 1
      PROVE  \E j, h : /\ ReadsUpTo(new[k], message[k], j, h)
                       /\ ReadsElement(new[k + 1], base[k + 1], message[k + 1],
                                       new[k], base[k], message[k], j, h)
  <2>1. PICK j, h : /\ ReadsUpTo(calls[k], message[k], j, h)
                    /\ ReadsElement(calls[k + 1], base[k + 1], message[k + 1],
                                    calls[k], base[k], message[k], j, h)
    BY DEF Readers
  <2>2. new[k] = calls[k]
    BY DEF SameCalls
  <2>3. /\ new[k + 1].schema = calls[k + 1].schema /\ new[k + 1].field = calls[k + 1].field
        /\ new[k + 1].limit = calls[k + 1].limit
    BY <1>1 DEF SameCalls
  <2>4. ReadsElement(new[k + 1], base[k + 1], message[k + 1],
                     new[k], base[k], message[k], j, h)
    BY <2>1, <2>2, <2>3 DEF ReadsElement
  <2> QED BY <2>1, <2>2, <2>4
<1>4. base[1] = start /\ message[1] = m
  BY DEF Readers
<1>5. Len(new) = l
  BY DEF SameCalls
<1> QED BY <1>2, <1>3, <1>4, <1>5 DEF Readers

\* Element i of field n of m, which is x, is the next one for a call, and ends at `end`.
IsNext(call, b, m, n, i, x, end) ==
  /\ ReadsUpTo(call, m, n, i)
  /\ x = Elements(n, call.schema[n], m)[i]
  /\ end = b + At(call.schema, m, n, i)

\* What the call has when it has read x for field n.
WithElement(call, n, x) == SetField(call.value, n, call.schema[n], x)

LEMMA ElementAdded ==
  ASSUME NEW call, call.schema \in Schemas, NEW b, NEW m, ReadsMessage(call, b, m),
         NEW n, NEW i, NEW x, NEW end, IsNext(call, b, m, n, i, x, end)
  PROVE  \E off : Progress(call.schema, m, WithElement(call, n, x), off) /\ end = b + off
<1>1. PICK f : f = call.schema
  OBVIOUS
<1>2. f \in Schemas /\ DeepFits(f, m) /\ Complete(f, m)
  BY <1>1, WholeFits DEF ReadsMessage
<1>3. n \in 1 .. Len(f) /\ i \in 1 .. Count(f, m, n) /\ call.value = Taken(f, m, n, i - 1)
  BY <1>1 DEF IsNext, ReadsUpTo
<1>4. x = Elements(n, f[n], m)[i] /\ end = b + At(f, m, n, i)
  BY <1>1 DEF IsNext
<1>5. WithElement(call, n, x) = SetField(Taken(f, m, n, i - 1), n, f[n], Elements(n, f[n], m)[i])
  BY <1>1, <1>3, <1>4 DEF WithElement
<1>6. WithElement(call, n, x) = Taken(f, m, n, i)
  BY <1>2, <1>3, <1>5, TakeNext
<1>7. Progress(f, m, Taken(f, m, n, i), At(f, m, n, i))
  BY <1>2, <1>3, NextTaken
<1> QED BY <1>1, <1>4, <1>6, <1>7

\* The calls read m as before, and the last of them is at that element.
ReadNext(calls, base, message, start, m, l, n, i, x, end) ==
  /\ CallsFit(calls) /\ Readers(calls, base, message, start, m)
  /\ l = Len(calls) /\ IsNext(calls[l], base[l], message[l], n, i, x, end)

\* It takes the element.
LEMMA ElementTaken ==
  ASSUME NEW calls, NEW base, NEW message, NEW start, NEW m, NEW l, NEW n, NEW i, NEW x,
         NEW end, ReadNext(calls, base, message, start, m, l, n, i, x, end)
  PROVE  AreAt(WithValue(calls, WithElement(calls[l], n, x)), end, start, m)
<1>0. /\ CallsFit(calls) /\ Readers(calls, base, message, start, m)
      /\ l = Len(calls) /\ IsNext(calls[l], base[l], message[l], n, i, x, end)
  BY DEF ReadNext
<1>1. l \in Nat \ {0} /\ l \in 1 .. l
  BY <1>0 DEF CallsFit, IsStack
<1>2. PICK call, b, part : call = calls[l] /\ b = base[l] /\ part = message[l]
  OBVIOUS
<1>3. call.schema \in Schemas /\ ReadsMessage(call, b, part)
  BY <1>0, <1>1, <1>2 DEF CallsFit, CallFits, Readers
<1>4. PICK value, new : value = WithElement(call, n, x) /\ new = WithValue(calls, value)
  OBVIOUS
<1>5. PICK off : Progress(call.schema, part, value, off) /\ end = b + off
  BY <1>0, <1>2, <1>3, <1>4, ElementAdded
<1>6. /\ Len(new) = l
      /\ \A k \in 1 .. l - 1 : new[k] = calls[k]
      /\ new[l].schema = calls[l].schema /\ new[l].field = calls[l].field
      /\ new[l].limit = calls[l].limit /\ new[l].value = value
  BY <1>0, <1>4, OtherValue
<1>7. SameCalls(new, calls, l)
  <2>1. \A k \in 1 .. l : k # l => k \in 1 .. l - 1
    BY <1>1
  <2> QED BY <1>6, <2>1 DEF SameCalls
<1>8. Readers(new, base, message, start, m)
  BY <1>0, <1>1, <1>7, ReadersKept
<1>9. Progress(new[l].schema, message[l], new[l].value, off) /\ end = base[l] + off
  BY <1>2, <1>5, <1>6
<1>10. Len(new) = l
  BY <1>6
<1>11. AreAt(new, end, start, m)
  BY <1>8, <1>9, <1>10 DEF AreAt
<1> QED BY <1>2, <1>4, <1>11

\* A further call reads the element that the last call is at.
LEMMA ElementOpened ==
  ASSUME NEW calls, CallsFit(calls), NEW base, NEW message, NEW start, NEW m,
         Readers(calls, base, message, start, m),
         NEW l, l = Len(calls), NEW n, NEW i, ReadsUpTo(calls[l], message[l], n, i),
         NEW call, call.schema \in Schemas, call.value = EmptyStore,
         NEW c, NEW x, ReadsMessage(call, c, x),
         ReadsElement(call, c, x, calls[l], base[l], message[l], n, i)
  PROVE  AreAt(Append(calls, call), c, start, m)
<1> DEFINE new == Append(calls, call)
           at  == [k \in 1 .. l + 1 |-> IF k = l + 1 THEN c ELSE base[k]]
           of  == [k \in 1 .. l + 1 |-> IF k = l + 1 THEN x ELSE message[k]]
<1>1. l \in Nat \ {0} /\ l \in 1 .. l
  BY DEF CallsFit, IsStack
<1>2. PICK S : calls \in Seq(S)
  BY DEF CallsFit, IsStack
<1>3. /\ Len(new) = l + 1 /\ new[l + 1] = call
      /\ \A k \in 1 .. l : new[k] = calls[k]
  <2>1. calls \in Seq(S \cup {call})
    <3>1. S \subseteq S \cup {call}
      OBVIOUS
    <3> QED BY <1>2, <3>1
  <2> QED BY <2>1, AppendProperties
<1>4. /\ at[l + 1] = c /\ of[l + 1] = x
      /\ \A k \in 1 .. l : at[k] = base[k] /\ of[k] = message[k]
  BY <1>1
<1> HIDE DEF new, at, of
<1>5. ASSUME NEW k \in 1 .. l + 1 PROVE ReadsMessage(new[k], at[k], of[k])
  <2>1. CASE k = l + 1
    BY <1>3, <1>4, <2>1
  <2>2. CASE k \in 1 .. l
    BY <1>3, <1>4, <2>2 DEF Readers
  <2> QED BY <1>1, <2>1, <2>2
<1>6. ASSUME NEW k \in 1 .. l
      PROVE  \E j, h : /\ ReadsUpTo(new[k], of[k], j, h)
                       /\ ReadsElement(new[k + 1], at[k + 1], of[k + 1],
                                       new[k], at[k], of[k], j, h)
  <2>1. CASE k = l
    <3>1. ReadsUpTo(new[k], of[k], n, i)
      BY <1>3, <1>4, <2>1
    <3>2. ReadsElement(new[k + 1], at[k + 1], of[k + 1], new[k], at[k], of[k], n, i)
      BY <1>3, <1>4, <2>1
    <3> QED BY <3>1, <3>2
  <2>2. CASE k # l
    <3>1. k \in 1 .. l - 1 /\ k + 1 \in 1 .. l
      BY <1>1, <2>2
    <3>2. PICK j, h : /\ ReadsUpTo(calls[k], message[k], j, h)
                      /\ ReadsElement(calls[k + 1], base[k + 1], message[k + 1],
                                      calls[k], base[k], message[k], j, h)
      BY <3>1 DEF Readers
    <3> QED BY <1>3, <1>4, <3>1, <3>2
  <2> QED BY <2>1, <2>2
<1>7. at[1] = start /\ of[1] = m
  <2>1. 1 \in 1 .. l
    BY <1>1
  <2> QED BY <1>4, <2>1 DEF Readers
<1>8. Readers(new, at, of, start, m)
  <2>1. Len(new) - 1 = l
    BY <1>1, <1>3
  <2> QED BY <1>3, <1>5, <1>6, <1>7, <2>1 DEF Readers
<1>9. Progress(call.schema, x, call.value, 0)
  BY NothingTaken, WholeFits DEF ReadsMessage
<1>10. c = at[l + 1] + 0
  BY <1>4 DEF ReadsMessage
<1>11. Len(new) = l + 1 /\ Progress(new[l + 1].schema, of[l + 1], new[l + 1].value, 0)
  BY <1>3, <1>4, <1>9
<1> QED BY <1>8, <1>10, <1>11 DEF AreAt, new

\* The last call has all of its element, and the call before it takes it.
LEMMA ElementClosed ==
  ASSUME NEW calls, CallsFit(calls), NEW base, NEW message, NEW start, NEW m,
         Readers(calls, base, message, start, m),
         NEW l, l = Len(calls), l > 1, calls[l].value = message[l],
         NEW outer, outer = SubSeq(calls, 1, l - 1), NEW o, o = Len(outer),
         NEW new, new = WithValue(outer, WithElement(outer[o], calls[l].field, calls[l].value))
  PROVE  AreAt(new, calls[l].limit, start, m)
<1>1. l \in Nat \ {0} /\ l - 1 \in Nat \ {0}
  BY DEF CallsFit, IsStack
<1>2. CallsFit(outer) /\ Len(outer) = l - 1
  BY NoCall
<1>3. \A k \in 1 .. l - 1 : outer[k] = calls[k]
  <2>1. PICK S : calls \in Seq(S)
    BY DEF CallsFit, IsStack
  <2> QED BY <1>1, <2>1
<1>4. Readers(outer, base, message, start, m)
  <2>1. \A k \in 1 .. l - 1 : k \in 1 .. l /\ outer[k] = calls[k]
    BY <1>1, <1>3
  <2>2. ASSUME NEW k \in 1 .. l - 1 PROVE ReadsMessage(outer[k], base[k], message[k])
    BY <2>1 DEF Readers
  <2>3. ASSUME NEW k \in 1 .. (l - 1) - 1
        PROVE  \E n, i : /\ ReadsUpTo(outer[k], message[k], n, i)
                         /\ ReadsElement(outer[k + 1], base[k + 1], message[k + 1],
                                         outer[k], base[k], message[k], n, i)
    <3>1. k \in 1 .. l - 1 /\ k + 1 \in 1 .. l - 1
      BY <1>1
    <3>2. outer[k] = calls[k] /\ outer[k + 1] = calls[k + 1]
      BY <2>1, <3>1
    <3> QED BY <3>1, <3>2 DEF Readers
  <2> QED BY <1>2, <2>2, <2>3 DEF Readers
<1>5. o = l - 1
  BY <1>2
<1>6. o \in 1 .. l - 1 /\ o + 1 = l /\ outer[o] = calls[o]
  BY <1>1, <1>3, <1>5
<1>7. PICK n, i : /\ ReadsUpTo(calls[o], message[o], n, i)
                  /\ ReadsElement(calls[o + 1], base[o + 1], message[o + 1],
                                  calls[o], base[o], message[o], n, i)
  BY <1>6 DEF Readers
<1>8. PICK x, end : x = message[l] /\ end = calls[l].limit
  OBVIOUS
<1>9. calls[l].field = n /\ IsNext(outer[o], base[o], message[o], n, i, x, end)
  BY <1>6, <1>7, <1>8 DEF ReadsElement, IsNext
<1>10. new = WithValue(outer, WithElement(outer[o], n, x))
  BY <1>8, <1>9
<1>11. ReadNext(outer, base, message, start, m, o, n, i, x, end)
  BY <1>2, <1>4, <1>9 DEF ReadNext
<1>12. AreAt(WithValue(outer, WithElement(outer[o], n, x)), end, start, m)
  BY <1>11, ElementTaken
<1> QED BY <1>8, <1>10, <1>12

(***************************************************************************)
(* The invariant                                                           *)
(***************************************************************************)

\* The message that is to arrive.
Due == Settled(schema, sent)

\* The position is at a field of the extension, before the message or behind it.
AmongUnknown(e) ==
  /\ Len(stack) = 1
  /\ \E groups : \E k \in 0 .. Len(e) :
       /\ Grouping(e, groups) /\ depth = groups[k]
       /\ \/ k < Len(e) /\ pos = Offset(Behind(e), k) /\ Top.value = EmptyStore
          \/ /\ pos = Len(ExtensionBytes(e)) + Len(Marshal(schema, sent)) + Offset(Behind(e), k)
             /\ Top.value = Due

\* The position is in the message.
AmongKnown(e) == depth = 0 /\ AreAt(stack, pos, Len(ExtensionBytes(e)), Due)

Place(e) == AmongUnknown(e) \/ AmongKnown(e)

\* The message on its way, and the extension it came with.
OnItsWay(e) ==
  /\ WireInv /\ stack[1].schema = schema
  /\ DeepFits(schema, sent) /\ InMemory(Marshal(schema, sent))
  /\ Delivered(e)

CodecInv ==
  /\ WireInv /\ stack[1].schema = schema
  /\ fault \in {"none", "extended", "cut", "raw"}
  /\ status = "decoded" => depth = 0 /\ pos = Top.limit /\ Len(stack) = 1
  /\ status = "rejected" => fault \in {"cut", "raw"}
  /\ fault # "raw" => \E e : OnItsWay(e) /\ Place(e)

LEMMA OnItsWayFits ==
  ASSUME NEW e, OnItsWay(e)
  PROVE  /\ CallsFit(stack) /\ schema \in Schemas /\ input \in Seq(Bytes)
         /\ Len(stack) \in Nat \ {0} /\ Top = stack[Len(stack)]
         /\ Top.limit \in Nat /\ Top.limit <= Len(input)
         /\ Len(stack) = 1 => Top.limit = Len(input) /\ Top.schema = schema
         /\ pos \in Nat /\ pos <= Top.limit
         /\ Extension(e) /\ InMemory(input)
<1>1. WireInv /\ stack[1].schema = schema
  BY DEF OnItsWay
<1>2. CallsFit(stack) /\ Len(stack) \in Nat \ {0} /\ 1 \in 1 .. Len(stack)
  BY <1>1, TopFits DEF WireInv
<1>3. schema \in Schemas
  BY <1>1, <1>2 DEF CallsFit, CallFits
<1>4. Len(stack) = 1 => Top.limit = Len(input) /\ Top.schema = schema
  BY <1>1, <1>2 DEF CallsFit, Top
<1>5. Extension(e)
  BY ExtensionsAre, NoExtension DEF OnItsWay, Delivered
<1> QED BY <1>1, <1>2, <1>3, <1>4, <1>5, TopFits DEF WireInv, Top

\* The message that is to arrive is without nil integers, and of the same bytes.
LEMMA DueFits ==
  ASSUME NEW e, OnItsWay(e)
  PROVE  /\ Whole(schema, Due) /\ DeepFits(schema, Due)
         /\ Marshal(schema, Due) = Marshal(schema, sent)
<1>1. schema \in Schemas /\ DeepFits(schema, sent)
  BY OnItsWayFits DEF OnItsWay
<1>2. Whole(schema, Due) /\ Marshal(schema, Due) = Marshal(schema, sent)
  BY <1>1, SettledIsWhole, SettledMarshals DEF Due
<1> QED BY <1>2, WholeFits

\* The position is in the message after a step that leaves the input alone.
LEMMA ThenKnown ==
  ASSUME NEW e, NEW calls, NEW p, AreAt(calls, p, Len(ExtensionBytes(e)), Due),
         stack' = calls, pos' = p, depth' = 0, UNCHANGED <<schema, input, sent>>
  PROVE  Place(e)'
<1>1. Due' = Due
  BY DEF Due
<1>2. PICK base, message :
        /\ Readers(calls, base, message, Len(ExtensionBytes(e)), Due)
        /\ \E off : /\ Progress(calls[Len(calls)].schema, message[Len(calls)],
                                calls[Len(calls)].value, off)
                    /\ p = base[Len(calls)] + off
  BY DEF AreAt
<1>3. \A k \in 1 .. Len(calls) : ReadsMessage(calls[k], base[k], message[k])'
  <2>1. ASSUME NEW k \in 1 .. Len(calls) PROVE ReadsMessage(calls[k], base[k], message[k])'
    <3>1. ReadsMessage(calls[k], base[k], message[k])
      BY <1>2 DEF Readers
    <3> QED BY <3>1 DEF ReadsMessage, WrittenAt
  <2> QED BY <2>1
<1>4. Readers(calls, base, message, Len(ExtensionBytes(e)), Due)'
  BY <1>1, <1>2, <1>3 DEF Readers
<1>5. AmongKnown(e)'
  BY <1>2, <1>4 DEF AmongKnown, AreAt
<1> QED BY <1>5 DEF Place

LEMMA SamePlace ==
  ASSUME NEW e, Place(e), UNCHANGED <<schema, input, pos, stack, depth, sent>>
  PROVE  Place(e)'
<1>1. CASE AmongUnknown(e)
  <2>1. AmongUnknown(e)'
    BY <1>1 DEF AmongUnknown, Top, Due
  <2> QED BY <2>1 DEF Place
<1>2. CASE AmongKnown(e)
  <2>1. PICK calls, p : calls = stack /\ p = pos
    OBVIOUS
  <2> QED BY <1>2, <2>1, ThenKnown DEF AmongKnown
<1> QED BY <1>1, <1>2 DEF Place

\* At the end of the input there is nothing to read.
LEMMA NothingLeft ==
  ASSUME WireInv, pos = Top.limit, NEW t
  PROVE  ~Reads(t)
<1>1. ASSUME Reads(t) PROVE FALSE
  <2>1. pos < t.start /\ t.start <= t.next /\ t.next <= Top.limit /\ t.start \in Nat /\ t.next \in Nat
    BY <1>1, ReadsToken
  <2>2. pos \in Nat
    BY DEF WireInv
  <2> QED BY <2>1, <2>2
<1> QED BY <1>1

\* The message is next if there is nothing of an extension before it.
LEMMA MessageNext ==
  ASSUME NEW e, OnItsWay(e), Len(stack) = 1, Top.value = EmptyStore
  PROVE  AreAt(stack, Len(ExtensionBytes(e)), Len(ExtensionBytes(e)), Due)
<1>1. PICK start, m : start = Len(ExtensionBytes(e)) /\ m = Marshal(schema, sent)
  OBVIOUS
<1>2. /\ CallsFit(stack) /\ schema \in Schemas /\ Top.schema = schema /\ Top = stack[1]
  BY OnItsWayFits
<1>3. start \in Nat /\ WrittenAt(start, m, Len(input))
  BY <1>1, <1>2, BytesInPlace DEF OnItsWay
<1>4. ReadsMessage(stack[1], start, Due)
  BY <1>1, <1>2, <1>3, DueFits DEF ReadsMessage, OnItsWay
<1>5. AreAt(stack, start, start, Due)
  BY <1>2, <1>4, StartsAt
<1> QED BY <1>1, <1>5

\* The loop goes on with a token that no field of the message has, to position `next`
\* with `level` open groups.
PassesOver(next, level) ==
  /\ pos < Top.limit
  /\ \E t \in Tokens(pos, Top.limit) : Acceptable(t)
  /\ \A t \in Tokens(pos, Top.limit) :
       ~(depth = 0 /\ Known(t)) /\ t.next = next /\ DepthAfter(t) = level

\* A field of the extension is read as what it is, and is not a known one.
LEMMA UnknownNext ==
  ASSUME NEW e, OnItsWay(e), Len(stack) = 1, NEW groups, Grouping(e, groups),
         NEW k \in 1 .. Len(e), depth = groups[k - 1],
         NEW p \in {0, Len(ExtensionBytes(e)) + Len(Marshal(schema, sent))},
         pos = p + Offset(Behind(e), k - 1)
  PROVE  PassesOver(p + Offset(Behind(e), k), groups[k])
<1>1. PICK x, bytes : x = ExtensionBytes(e) /\ bytes = Marshal(schema, sent)
  OBVIOUS
<1>2. /\ schema \in Schemas /\ Top.limit = Len(input) /\ Top.schema = schema
      /\ input \in Seq(Bytes) /\ InMemory(input) /\ Extension(e)
  BY OnItsWayFits
<1>3. /\ Len(x) \in Nat /\ Len(bytes) \in Nat /\ Len(input) \in Nat
      /\ Len(input) = Len(x) + Len(bytes) + Len(x)
      /\ WrittenAt(0, x, Len(input)) /\ WrittenAt(Len(x) + Len(bytes), x, Len(input))
  <2>1. Len(e) # 0
    BY <1>2 DEF Extension
  <2> QED BY <1>1, <1>2, <2>1, BytesInPlace DEF OnItsWay
<1>4. p \in Nat /\ WrittenAt(p, x, Len(input)) /\ p + Len(x) <= Len(input)
  BY <1>1, <1>3
<1>5. PICK end : end = p + Offset(Behind(e), k)
  OBVIOUS
<1>6. /\ end \in Nat /\ pos < end /\ end <= Len(input) /\ pos \in Nat
      /\ Tokens(pos, Len(input)) # {}
      /\ \A t \in Tokens(pos, Len(input)) :
           t.field = e[k].field /\ t.wire = e[k].wire /\ t.next = end
  BY <1>1, <1>2, <1>4, <1>5, ExtensionToken
<1>7. pos < Top.limit
  BY <1>2, <1>3, <1>6
<1>8. /\ Len(e) \in Nat /\ groups[k - 1] \in Nat /\ groups[k] \in Nat
      /\ groups[k] - groups[k - 1] = IF e[k].wire = 3 THEN 1 ELSE IF e[k].wire = 4 THEN -1 ELSE 0
      /\ groups[k - 1] = 0 => e[k].field > Len(schema)
      /\ Len(schema) \in Nat
  <2>1. Len(e) \in Nat /\ Len(schema) \in Nat
    BY <1>2, SchemasAssumption DEF Extension
  <2>2. k - 1 \in 0 .. Len(e) /\ k \in 0 .. Len(e)
    BY <2>1
  <2>3. \A i \in 0 .. Len(e) : groups[i] \in 0 .. Len(e)
    BY DEF Grouping
  <2>4. groups[k - 1] \in Nat /\ groups[k] \in Nat
    BY <2>1, <2>2, <2>3
  <2>5. groups[k] - groups[k - 1] = IF e[k].wire = 3 THEN 1 ELSE IF e[k].wire = 4 THEN -1 ELSE 0
    BY DEF Grouping
  <2>6. groups[k - 1] = 0 => e[k].field > Len(schema)
    BY <1>2 DEF Grouping
  <2> QED BY <2>1, <2>4, <2>5, <2>6
<1>9. ASSUME NEW t \in Tokens(pos, Top.limit)
      PROVE  /\ ~(depth = 0 /\ Known(t)) /\ t.next = end
             /\ DepthAfter(t) = groups[k] /\ Acceptable(t)
  <2>1. t.field = e[k].field /\ t.wire = e[k].wire /\ t.next = end
    BY <1>2, <1>6
  <2>2. ASSUME depth = 0 PROVE t.field > Len(schema)
    BY <1>8, <2>1, <2>2
  <2>3. e[k].field \in Nat
    BY <1>2 DEF Extension, FieldNumbers
  <2>4. ~(depth = 0 /\ Known(t))
    BY <1>2, <1>8, <2>1, <2>2, <2>3 DEF Known
  <2>5. DepthAfter(t) = groups[k]
    <3>1. PICK a, b : a = groups[k - 1] /\ b = groups[k]
      OBVIOUS
    <3>2. depth = a /\ a \in Nat /\ b \in Nat
          /\ b - a = IF t.wire = 3 THEN 1 ELSE IF t.wire = 4 THEN -1 ELSE 0
      BY <1>8, <2>1, <3>1
    <3>3. DepthAfter(t) = b
      BY <3>2 DEF DepthAfter
    <3> QED BY <3>1, <3>3
  <2>6. Acceptable(t)
    <3>1. CASE depth = 0
      <4>1. t.wire # 4
        BY <1>8, <2>1, <3>1
      <4>2. t.field > 0
        BY <1>8, <2>1, <2>2, <2>3, <3>1
      <4> QED BY <2>4, <3>1, <4>1, <4>2 DEF Acceptable
    <3>2. CASE depth # 0
      BY <1>8, <3>2 DEF Acceptable
    <3> QED BY <3>1, <3>2
  <2> QED BY <2>1, <2>4, <2>5, <2>6
<1> QED BY <1>2, <1>5, <1>6, <1>7, <1>9 DEF PassesOver

\* A step among unknown fields passes over one of them, or ends the call.
LEMMA UnknownStep ==
  ASSUME NEW e, OnItsWay(e), AmongUnknown(e), status = "reading",
         Decode, UNCHANGED <<sent, fault>>
  PROVE  /\ Place(e)' /\ UNCHANGED <<schema, input>> /\ ~Reject
         /\ Finish \/ status' = "reading"
<1> DEFINE x == Len(ExtensionBytes(e))
           all == Len(Marshal(schema, sent))
<1>1. PICK groups : \E k \in 0 .. Len(e) :
        /\ Grouping(e, groups) /\ depth = groups[k]
        /\ \/ k < Len(e) /\ pos = Offset(Behind(e), k) /\ Top.value = EmptyStore
           \/ pos = x + all + Offset(Behind(e), k) /\ Top.value = Due
  BY DEF AmongUnknown
<1>2. PICK k \in 0 .. Len(e) :
        /\ Grouping(e, groups) /\ depth = groups[k]
        /\ \/ k < Len(e) /\ pos = Offset(Behind(e), k) /\ Top.value = EmptyStore
           \/ pos = x + all + Offset(Behind(e), k) /\ Top.value = Due
  BY <1>1
<1>3. /\ Len(stack) = 1 /\ Extension(e) /\ Len(e) \in Nat /\ schema \in Schemas
      /\ Top = stack[1] /\ Top.limit = Len(input) /\ pos <= Len(input)
  BY OnItsWayFits DEF AmongUnknown, Extension
<1>4. /\ x \in Nat /\ all \in Nat /\ x = Offset(Behind(e), Len(e))
      /\ Offset(Behind(e), k) \in Nat
  <2>1. Behind(e) \in Seq(Seq(Bytes)) /\ Len(Behind(e)) = Len(e)
    BY <1>3, ExtensionIsBytes
  <2> QED BY <1>3, <2>1, ExtensionIsBytes, FieldsFitBytes, Offsets DEF OnItsWay
<1>5. ~CloseMessage
  BY <1>3 DEF CloseMessage
<1>6. CASE k < Len(e)
  <2>1. PICK p : \/ p = 0 /\ pos = p + Offset(Behind(e), k) /\ Top.value = EmptyStore
                 \/ p = x + all /\ pos = p + Offset(Behind(e), k) /\ Top.value = Due
    <3>1. CASE pos = Offset(Behind(e), k) /\ Top.value = EmptyStore
      <4>1. pos = 0 + Offset(Behind(e), k)
        BY <1>4, <3>1
      <4> QED BY <3>1, <4>1
    <3>2. CASE pos = x + all + Offset(Behind(e), k) /\ Top.value = Due
      BY <3>2
    <3> QED BY <1>2, <3>1, <3>2
  <2>2. PICK j : j = k + 1
    OBVIOUS
  <2>3. j \in 1 .. Len(e) /\ j - 1 = k /\ j \in 0 .. Len(e)
    BY <1>3, <1>6, <2>2
  <2>4. PassesOver(p + Offset(Behind(e), j), groups[j])
    <3>1. depth = groups[j - 1] /\ pos = p + Offset(Behind(e), j - 1)
      BY <1>2, <2>1, <2>3
    <3>2. p \in {0, Len(ExtensionBytes(e)) + Len(Marshal(schema, sent))}
      BY <2>1
    <3>3. Len(stack) = 1 /\ Grouping(e, groups) /\ j \in 1 .. Len(e)
      BY <1>2, <1>3, <2>3
    <3> HIDE DEF x, all
    <3> QED BY <3>1, <3>2, <3>3, UnknownNext
  <2>5. ~Finish /\ ~Reject
    <3>1. pos # Top.limit
      <4>1. pos \in Nat /\ Top.limit \in Nat
        BY OnItsWayFits
      <4> QED BY <2>4, <4>1 DEF PassesOver
    <3> QED BY <2>4, <3>1 DEF PassesOver, Finish, Reject, Malformed
  <2>6. PICK t \in Tokens(pos, Top.limit) : Skip(t)
    BY <1>5, <2>4, <2>5 DEF PassesOver, Decode, ReadNumber, ReadText, ReadInteger, OpenMessage
  <2>7. /\ depth' = groups[j] /\ pos' = p + Offset(Behind(e), j)
        /\ UNCHANGED <<schema, input, stack, status>>
    BY <2>4, <2>6 DEF PassesOver, Skip
  <2>8. CASE p = x + all /\ Top.value = Due
    <3>1. pos' = x + all + Offset(Behind(e), j) /\ Top' = Top
      BY <2>7, <2>8 DEF Top
    <3>2. AmongUnknown(e)'
      BY <1>2, <1>3, <2>3, <2>7, <2>8, <3>1 DEF AmongUnknown, Due
    <3> QED BY <2>5, <2>7, <3>2 DEF Place
  <2>9. CASE p = 0 /\ Top.value = EmptyStore
    <3>1. Offset(Behind(e), j) \in Nat
      <4>1. Behind(e) \in Seq(Seq(Bytes)) /\ Len(Behind(e)) = Len(e)
        BY <1>3, ExtensionIsBytes
      <4> QED BY <2>3, <4>1, Offsets
    <3>2. pos' = Offset(Behind(e), j) /\ Top' = Top
      BY <2>7, <2>9, <3>1 DEF Top
    <3>3. CASE j < Len(e)
      <4>1. AmongUnknown(e)'
        BY <1>2, <1>3, <2>3, <2>7, <2>9, <3>2, <3>3 DEF AmongUnknown, Due
      <4> QED BY <2>5, <2>7, <4>1 DEF Place
    <3>4. CASE j = Len(e)
      <4>1. depth' = 0 /\ pos' = x
        BY <1>2, <1>4, <2>7, <3>2, <3>4 DEF Grouping
      <4>2. AreAt(stack, x, x, Due)
        BY <1>3, <2>9, MessageNext
      <4>3. Place(e)'
        <5>1. PICK calls, p1 : calls = stack /\ p1 = x
          OBVIOUS
        <5> QED BY <2>7, <4>1, <4>2, <5>1, ThenKnown
      <4> QED BY <2>5, <2>7, <4>3
    <3> QED BY <1>3, <2>3, <3>3, <3>4
  <2> QED BY <2>1, <2>8, <2>9
<1>7. CASE ~(k < Len(e))
  <2>1. k = Len(e) /\ pos = x + all + x /\ depth = 0
    BY <1>2, <1>3, <1>4, <1>7 DEF Grouping
  <2>2. pos = Top.limit
    <3>1. \/ Len(input) = x + all + x
          \/ Len(input) < all /\ Len(input) \in Nat
      BY <1>3, BytesInPlace DEF OnItsWay
    <3> HIDE DEF x, all
    <3> QED BY <1>3, <1>4, <2>1, <3>1
  <2>3. \A t : ~Reads(t)
    BY <2>2, NothingLeft DEF OnItsWay
  <2>4. ~Reject
    BY <2>1, <2>2 DEF Reject, Malformed
  <2>5. Finish
    BY <1>5, <2>3, <2>4 DEF Decode, ReadNumber, ReadText, ReadInteger, OpenMessage, Skip
  <2>6. UNCHANGED <<schema, input, pos, stack, depth>>
    BY <2>5 DEF Finish
  <2> QED BY <2>4, <2>5, <2>6, SamePlace DEF Place
<1> QED BY <1>6, <1>7

\* A call that has read all of its message is at its end.
LEMMA CallEnds ==
  ASSUME NEW calls, CallsFit(calls), NEW base, NEW message, NEW start, NEW m,
         Readers(calls, base, message, start, m), NEW l, l = Len(calls), l > 1
  PROVE  calls[l].limit = base[l] + Len(Marshal(calls[l].schema, message[l]))
<1>1. l \in Nat
  BY DEF CallsFit, IsStack
<1>2. PICK o : o = l - 1
  OBVIOUS
<1>3. o \in 1 .. l - 1 /\ o + 1 = l
  BY <1>1, <1>2
<1>4. PICK n, i : ReadsElement(calls[o + 1], base[o + 1], message[o + 1],
                               calls[o], base[o], message[o], n, i)
  BY <1>3 DEF Readers
<1> QED BY <1>3, <1>4 DEF ReadsElement

\* What a slice holds is written there.
LEMMA SliceWritten ==
  ASSUME input \in Seq(Bytes), NEW c \in Nat, NEW l \in Nat, c + l <= Len(input),
         NEW bytes, Len(bytes) = l, SubSeq(input, c + 1, c + l) = bytes
  PROVE  WrittenAt(c, bytes, Len(input))
<1>1. \A i \in 1 .. l : SubSeq(input, c + 1, c + l)[i] = input[c + i]
  BY LenProperties
<1> QED BY <1>1 DEF WrittenAt

\* The call that has read all of the message itself is behind it.
LEMMA MessageRead ==
  ASSUME NEW e, OnItsWay(e), depth = 0, Len(stack) = 1, Top.value = Due,
         pos = Len(ExtensionBytes(e)) + Len(Marshal(schema, sent))
  PROVE  AmongUnknown(e)
<1>1. PICK x, all : x = Len(ExtensionBytes(e)) /\ all = Len(Marshal(schema, sent))
  OBVIOUS
<1>2. Extension(e) /\ Len(e) \in Nat /\ schema \in Schemas
  BY OnItsWayFits DEF Extension
<1>3. PICK groups : Grouping(e, groups)
  BY <1>2 DEF Extension
<1>4. groups[0] = 0 /\ 0 \in 0 .. Len(e)
  BY <1>2, <1>3 DEF Grouping
<1>5. Offset(Behind(e), 0) = 0
  <2>1. Behind(e) \in Seq(Seq(Bytes))
    BY <1>2, ExtensionIsBytes
  <2> QED BY <2>1, Offsets
<1>6. x \in Nat /\ all \in Nat
  BY <1>1, <1>2, ExtensionIsBytes, FieldsFitBytes DEF OnItsWay
<1>7. pos = x + all + Offset(Behind(e), 0)
  BY <1>1, <1>5, <1>6
<1> QED BY <1>1, <1>3, <1>4, <1>7 DEF AmongUnknown

\* The running call is at an element of its message, which ends at `end`.
AtElement(n, x, end) ==
  /\ n \in 1 .. Len(Top.schema) /\ ElementFits(Top.schema[n], x)
  /\ Top.schema[n].type = "message" => Whole(Top.schema[n].fields, x)
  /\ pos < Top.limit \/ fault = "cut"
  /\ Tokens(pos, Top.limit) # {} \/ fault = "cut"
  /\ Len(stack) > 1 => pos < Top.limit
  /\ \A t \in Tokens(pos, Top.limit) : ElementHeld(t, Top.schema[n], n, x, end)

LEMMA KnownNext ==
  ASSUME NEW e, OnItsWay(e), NEW base, NEW message,
         Readers(stack, base, message, Len(ExtensionBytes(e)), Due),
         NEW l, l = Len(stack), NEW n, NEW i, ReadsUpTo(stack[l], message[l], n, i),
         pos = base[l] + At(stack[l].schema, message[l], n, i - 1),
         NEW x, x = Elements(n, stack[l].schema[n], message[l])[i],
         NEW end, end = base[l] + At(stack[l].schema, message[l], n, i)
  PROVE  AtElement(n, x, end)
<1>1. PICK f, m, b : f = stack[l].schema /\ m = message[l] /\ b = base[l]
  OBVIOUS
<1>2. /\ CallsFit(stack) /\ input \in Seq(Bytes) /\ InMemory(input)
      /\ l \in Nat \ {0} /\ l \in 1 .. l
      /\ Top = stack[l] /\ Top.limit \in Nat /\ Top.limit <= Len(input) /\ pos \in Nat
  BY OnItsWayFits
<1>3. /\ f \in Schemas /\ Whole(f, m) /\ DeepFits(f, m) /\ InMemory(Marshal(f, m))
      /\ b \in Nat /\ WrittenAt(b, Marshal(f, m), Len(input))
  BY <1>1, <1>2, WholeFits DEF CallsFit, CallFits, Readers, ReadsMessage
<1>4. n \in 1 .. Len(f) /\ i \in 1 .. Count(f, m, n)
  BY <1>1 DEF ReadsUpTo
<1>5. PICK u, v, all : u = At(f, m, n, i - 1) /\ v = At(f, m, n, i) /\ all = Len(Marshal(f, m))
  OBVIOUS
<1>6. u \in Nat /\ v \in Nat /\ u < v /\ v <= all /\ all \in Nat
  BY <1>3, <1>4, <1>5, ElementsInTurn, FieldsFitBytes
<1>7. pos = b + u /\ end = b + v
  BY <1>1, <1>5
<1>8. PICK limit : limit = Top.limit
  OBVIOUS
<1>9. /\ Tokens(pos, limit) # {} <=> end <= limit
      /\ \A t \in Tokens(pos, limit) : ElementHeld(t, f[n], n, x, end)
      /\ ElementFits(f[n], x)
  <2>1. /\ pos = b + At(f, m, n, i - 1) /\ end = b + At(f, m, n, i)
        /\ x = Elements(n, f[n], m)[i]
    BY <1>1
  <2>2. limit \in Nat /\ limit <= Len(input)
    BY <1>2, <1>8
  <2> QED BY <1>2, <1>3, <1>4, <2>1, <2>2, ElementToken
<1>10. l > 1 => b + all <= limit
  <2> SUFFICES ASSUME l > 1 PROVE b + all <= limit
    OBVIOUS
  <2>1. stack[l].limit = base[l] + Len(Marshal(stack[l].schema, message[l]))
    BY <1>2, CallEnds
  <2>2. limit = b + all
    BY <1>1, <1>2, <1>5, <1>8, <2>1
  <2> QED BY <1>3, <1>6, <2>2
<1>11. l = 1 /\ fault # "cut" => b + all <= limit
  <2> SUFFICES ASSUME l = 1, fault # "cut" PROVE b + all <= limit
    OBVIOUS
  <2>1. f = schema /\ m = Due /\ b = Len(ExtensionBytes(e)) /\ limit = Len(input)
    BY <1>1, <1>2, <1>8, OnItsWayFits DEF Readers
  <2>2. schema \in Schemas /\ all = Len(Marshal(schema, sent))
    BY <1>5, <2>1, OnItsWayFits, DueFits
  <2>3. Len(input) = b + all + b
    BY <2>1, <2>2, BytesInPlace DEF OnItsWay
  <2> QED BY <1>3, <1>6, <2>1, <2>3
<1>12. b + all <= limit => pos < limit /\ end <= limit
  BY <1>2, <1>3, <1>6, <1>7, <1>8
<1>13. l > 1 \/ fault # "cut" => pos < limit /\ end <= limit
  BY <1>2, <1>10, <1>11, <1>12
<1>14. Top.schema = f /\ Len(stack) = l
  BY <1>1, <1>2
<1>15. f[n].type = "message" => Whole(f[n].fields, x)
  <2>1. x = Elements(n, f[n], m)[i] /\ i \in 1 .. Len(Elements(n, f[n], m))
    BY <1>1, <1>4 DEF Count
  <2> QED BY <1>3, <1>4, <2>1, ElementsWhole
<1> QED BY <1>4, <1>8, <1>9, <1>13, <1>14, <1>15 DEF AtElement

\* A value is read for a field.
LEMMA ValueStep ==
  ASSUME NEW e, OnItsWay(e), NEW base, NEW message,
         Readers(stack, base, message, Len(ExtensionBytes(e)), Due),
         NEW l, l = Len(stack), NEW n, NEW i, NEW x, NEW end,
         IsNext(stack[l], base[l], message[l], n, i, x, end),
         ElementFits(Top.schema[n], x), NEW t, ElementHeld(t, Top.schema[n], n, x, end),
         ReadNumber(t) \/ ReadText(t) \/ ReadInteger(t), UNCHANGED sent
  PROVE  Place(e)'
<1>1. t.field = n /\ t.next = end /\ CallsFit(stack) /\ Top = stack[l]
  BY OnItsWayFits DEF ElementHeld
<1>2. \/ Assign(t, Held(Top.schema[n].type, t.number)) /\ Top.schema[n].type \in Numbers
      \/ Assign(t, Slice(t)) /\ Top.schema[n].type = "text"
      \/ /\ Top.schema[n].type = "integer"
         /\ Slice(t) # <<>> => Assign(t, Canonical[Slice(t)])
  BY <1>1 DEF ReadNumber, ReadText, ReadInteger
<1>3. Assign(t, x)
  <2>1. CASE Top.schema[n].type = "integer"
    <3>1. Slice(t) = x /\ x \in Range(Canonical)
      BY <2>1 DEF ElementHeld, ElementFits, Slice
    <3>2. x # <<>> /\ Canonical[x] = x
      BY <3>1, IntegersAreBytes, CanonicalAssumption
    <3> QED BY <1>2, <2>1, <3>1, <3>2 DEF Numbers
  <2>2. CASE Top.schema[n].type # "integer"
    BY <1>2, <2>2 DEF ElementHeld, Slice
  <2> QED BY <2>1, <2>2
<1>4. pos' = end /\ depth' = 0 /\ UNCHANGED <<schema, input>>
  BY <1>1 DEF ReadNumber, ReadText, ReadInteger
<1>5. PICK value : value = WithElement(stack[l], n, x)
  OBVIOUS
<1>6. stack' = WithValue(stack, value)
  BY <1>1, <1>3, <1>5 DEF Assign, WithValue, WithElement
<1>7. AreAt(stack', end, Len(ExtensionBytes(e)), Due)
  <2>1. ReadNext(stack, base, message, Len(ExtensionBytes(e)), Due, l, n, i, x, end)
    BY <1>1 DEF ReadNext
  <2>2. AreAt(WithValue(stack, WithElement(stack[l], n, x)), end, Len(ExtensionBytes(e)), Due)
    BY <2>1, ElementTaken
  <2> QED BY <1>5, <1>6, <2>2
<1>8. PICK calls : calls = stack'
  OBVIOUS
<1> QED BY <1>4, <1>7, <1>8, ThenKnown

\* A call for an embedded message starts with nothing, and on the bytes of it.
LEMMA OpenStep ==
  ASSUME NEW e, OnItsWay(e), NEW base, NEW message,
         Readers(stack, base, message, Len(ExtensionBytes(e)), Due),
         NEW l, l = Len(stack), NEW n, NEW i, NEW x, NEW end,
         IsNext(stack[l], base[l], message[l], n, i, x, end),
         Top.schema[n].type = "message" => Whole(Top.schema[n].fields, x),
         NEW t, ElementHeld(t, Top.schema[n], n, x, end), OpenMessage(t), UNCHANGED sent
  PROVE  Place(e)'
<1>1. PICK field : field = stack[l].schema[n]
  OBVIOUS
<1>2. /\ CallsFit(stack) /\ Top = stack[l] /\ input \in Seq(Bytes) /\ Len(input) \in Nat
      /\ l \in Nat \ {0} /\ l \in 1 .. l /\ Top.limit \in Nat /\ Top.limit <= Len(input)
  BY OnItsWayFits, LenProperties
<1>3. /\ t.field = n /\ t.next = end /\ field.type = "message"
      /\ t.start = end - Len(Marshal(field.fields, x))
      /\ SubSeq(input, t.start + 1, t.next) = Marshal(field.fields, x)
      /\ InMemory(Marshal(field.fields, x))
      /\ Whole(field.fields, x) /\ DeepFits(field.fields, x)
  BY <1>1, <1>2, WholeFits DEF ElementHeld, OpenMessage
<1>4. /\ t.start \in Nat /\ t.next \in Nat /\ t.next <= Top.limit
  BY ReadsToken DEF OpenMessage, OnItsWay
<1>5. stack[l].schema \in Schemas /\ DeepFits(stack[l].schema, message[l])
  <2>1. CallFits(stack[l]) /\ ReadsMessage(stack[l], base[l], message[l])
    BY <1>2 DEF CallsFit, Readers
  <2> QED BY <2>1, WholeFits DEF CallFits, ReadsMessage
<1>6. field.fields \in Schemas
  <2>1. PICK fields : fields = stack[l].schema
    OBVIOUS
  <2>2. n \in 1 .. Len(fields) /\ fields \in Schemas /\ field = fields[n]
    BY <1>1, <1>5, <2>1 DEF IsNext, ReadsUpTo
  <2> QED BY <1>3, <2>2, SchemasAssumption
<1>7. Marshal(field.fields, x) \in Seq(Bytes) /\ Len(Marshal(field.fields, x)) \in Nat
  BY <1>3, <1>6, FieldsFitBytes
<1>8. (IF field.card = "many" THEN EmptyStore ELSE ValueOr(Top.value, n, EmptyStore)) = EmptyStore
  <2> SUFFICES ASSUME field.card # "many" PROVE ValueOr(Top.value, n, EmptyStore) = EmptyStore
    OBVIOUS
  <2>1. /\ n \in 1 .. Len(stack[l].schema) /\ i \in 1 .. Count(stack[l].schema, message[l], n)
        /\ Top.value = Taken(stack[l].schema, message[l], n, i - 1)
    BY <1>2 DEF IsNext, ReadsUpTo
  <2>2. Count(stack[l].schema, message[l], n) <= 1 /\ Count(stack[l].schema, message[l], n) \in Nat
    BY <1>1, <1>5, <2>1, ElementsFit DEF Count
  <2>3. i = 1
    BY <2>1, <2>2
  <2>4. n \notin DOMAIN Top.value
    BY <2>1, <2>3 DEF Taken
  <2> QED BY <2>4 DEF ValueOr
<1>9. PICK call : call = Frame(field.fields, n, end, EmptyStore)
  OBVIOUS
<1>10. /\ call.schema = field.fields /\ call.field = n /\ call.limit = end
       /\ call.value = EmptyStore
  BY <1>9 DEF Frame
<1>11. /\ stack' = Append(stack, call) /\ pos' = t.start /\ depth' = 0
       /\ UNCHANGED <<schema, input>>
  <2>1. Top.schema[t.field] = field
    BY <1>1, <1>2, <1>3
  <2>2. stack' = Append(stack, Frame(field.fields, n, end, EmptyStore))
    BY <1>3, <1>8, <2>1 DEF OpenMessage
  <2> QED BY <1>9, <2>2 DEF OpenMessage
<1>12. PICK c, bytes : c = t.start /\ bytes = Marshal(field.fields, x)
  OBVIOUS
<1>13. c \in Nat /\ Len(bytes) \in Nat /\ end = c + Len(bytes) /\ end <= Len(input)
  <2>1. \A u, v, w \in Nat : u = v - w => v = u + w
    OBVIOUS
  <2>2. PICK next, limit, l0, l1 :
          next = t.next /\ limit = Top.limit /\ l0 = Len(input) /\ l1 = Len(bytes)
    OBVIOUS
  <2>3. /\ next \in Nat /\ limit \in Nat /\ l0 \in Nat /\ next <= limit /\ limit <= l0
        /\ end = next /\ c \in Nat /\ l1 \in Nat /\ c = next - l1
    BY <1>2, <1>3, <1>4, <1>7, <1>12, <2>2
  <2>4. next = c + l1 /\ next <= l0
    BY <2>1, <2>3
  <2> QED BY <2>2, <2>3, <2>4
<1>14. WrittenAt(c, bytes, Len(input))
  <2>1. SubSeq(input, c + 1, c + Len(bytes)) = bytes
    BY <1>3, <1>12, <1>13
  <2>2. PICK k : k = Len(bytes)
    OBVIOUS
  <2> QED BY <1>2, <1>13, <2>1, <2>2, SliceWritten
<1>15. ReadsMessage(call, c, x)
  BY <1>3, <1>10, <1>12, <1>13, <1>14 DEF ReadsMessage
<1>16. ReadsElement(call, c, x, stack[l], base[l], message[l], n, i)
  BY <1>10, <1>12, <1>13 DEF ReadsElement, IsNext
<1>17. AreAt(Append(stack, call), c, Len(ExtensionBytes(e)), Due)
  <2>1. call.schema \in Schemas
    BY <1>6, <1>10
  <2>2. ReadsUpTo(stack[l], message[l], n, i)
    BY DEF IsNext
  <2> QED BY <1>2, <1>10, <1>15, <1>16, <2>1, <2>2, ElementOpened
<1>18. PICK calls : calls = Append(stack, call)
  OBVIOUS
<1> QED BY <1>11, <1>12, <1>17, <1>18, ThenKnown

\* A call for an embedded message ends with all of it.
LEMMA CloseStep ==
  ASSUME NEW e, OnItsWay(e), NEW base, NEW message,
         Readers(stack, base, message, Len(ExtensionBytes(e)), Due),
         Top.value = message[Len(stack)], CloseMessage, UNCHANGED sent
  PROVE  Place(e)'
<1>1. PICK l : l = Len(stack)
  OBVIOUS
<1>2. CallsFit(stack) /\ Top = stack[l] /\ l > 1
  BY <1>1, OnItsWayFits DEF CloseMessage
<1>3. PICK outer : outer = SubSeq(stack, 1, l - 1)
  OBVIOUS
<1>4. PICK o : o = Len(outer)
  OBVIOUS
<1>5. PICK value : value = WithElement(outer[o], stack[l].field, stack[l].value)
  OBVIOUS
<1>6. PICK new : new = WithValue(outer, value)
  OBVIOUS
<1>7. AreAt(new, stack[l].limit, Len(ExtensionBytes(e)), Due)
  <2>1. stack[l].value = message[l]
    BY <1>1, <1>2
  <2> QED BY <1>1, <1>2, <1>3, <1>4, <1>5, <1>6, <2>1, ElementClosed
<1>8. stack' = new
  BY <1>1, <1>2, <1>3, <1>4, <1>5, <1>6 DEF CloseMessage, WithValue, WithElement
<1>9. pos' = stack[l].limit /\ depth' = 0 /\ UNCHANGED <<schema, input>>
  BY <1>2 DEF CloseMessage
<1>10. PICK p : p = stack[l].limit
  OBVIOUS
<1> QED BY <1>7, <1>8, <1>9, <1>10, ThenKnown

\* A step in the message reads an element of it, ends a call, or meets the place
\* where the bytes are cut off.
LEMMA KnownStep ==
  ASSUME NEW e, OnItsWay(e), AmongKnown(e), status = "reading",
         Decode, UNCHANGED <<sent, fault>>
  PROVE  /\ Place(e)' /\ UNCHANGED <<schema, input>> /\ (Reject => fault = "cut")
         /\ Finish \/ Reject \/ status' = "reading"
<1>1. UNCHANGED <<schema, input>> /\ (Finish \/ Reject \/ status' = "reading")
  BY DEF Decode, ReadNumber, ReadText, ReadInteger, OpenMessage, CloseMessage, Skip, Finish, Reject
<1>2. ASSUME Finish \/ Reject PROVE Place(e)'
  <2>1. UNCHANGED <<schema, input, pos, stack, depth>>
    BY <1>2 DEF Finish, Reject
  <2> QED BY <2>1, SamePlace DEF Place
<1>3. PICK base, message, off :
        /\ Readers(stack, base, message, Len(ExtensionBytes(e)), Due)
        /\ Progress(stack[Len(stack)].schema, message[Len(stack)], stack[Len(stack)].value, off)
        /\ pos = base[Len(stack)] + off
  BY DEF AmongKnown, AreAt
<1>4. PICK l : l = Len(stack)
  OBVIOUS
<1>5. /\ depth = 0 /\ CallsFit(stack) /\ schema \in Schemas /\ Top = stack[l]
      /\ l \in Nat \ {0} /\ pos \in Nat /\ Top.limit \in Nat
  BY <1>4, OnItsWayFits DEF AmongKnown
<1>6. CASE stack[l].value = message[l] /\ off = Len(Marshal(stack[l].schema, message[l]))
  <2>1. CASE l = 1
    <3>1. AmongUnknown(e)
      <4>1. message[1] = Due /\ base[1] = Len(ExtensionBytes(e)) /\ stack[1].schema = schema
        BY <1>3 DEF Readers, OnItsWay
      <4>2. Len(stack) = 1 /\ Top.value = Due
        BY <1>4, <1>5, <1>6, <2>1, <4>1
      <4>3. pos = Len(ExtensionBytes(e)) + Len(Marshal(schema, sent))
        BY <1>3, <1>4, <1>6, <2>1, <4>1, DueFits
      <4> QED BY <1>5, <4>2, <4>3, MessageRead
    <3> QED BY <3>1, UnknownStep
  <2>2. CASE l # 1
    <3>1. l > 1
      BY <1>5, <2>2
    <3>2. pos = Top.limit
      <4>1. stack[l].limit = base[l] + Len(Marshal(stack[l].schema, message[l]))
        BY <1>3, <1>4, <1>5, <3>1, CallEnds
      <4> QED BY <1>3, <1>4, <1>5, <1>6, <4>1
    <3>3. \A t : ~Reads(t)
      BY <3>2, NothingLeft DEF OnItsWay
    <3>4. ~Reject /\ ~Finish
      BY <1>4, <1>5, <2>2, <3>2 DEF Reject, Malformed, Finish
    <3>5. CloseMessage
      BY <3>3, <3>4 DEF Decode, ReadNumber, ReadText, ReadInteger, OpenMessage, Skip
    <3>6. Place(e)'
      BY <1>3, <1>4, <1>5, <1>6, <3>5, CloseStep
    <3> QED BY <1>1, <3>4, <3>6
  <2> QED BY <2>1, <2>2
<1>7. CASE \E n \in 1 .. Len(stack[l].schema) :
             \E i \in 1 .. Count(stack[l].schema, message[l], n) :
               /\ stack[l].value = Taken(stack[l].schema, message[l], n, i - 1)
               /\ off = At(stack[l].schema, message[l], n, i - 1)
  <2>1. PICK n, i : /\ ReadsUpTo(stack[l], message[l], n, i)
                    /\ off = At(stack[l].schema, message[l], n, i - 1)
    BY <1>7 DEF ReadsUpTo
  <2>2. PICK x : x = Elements(n, stack[l].schema[n], message[l])[i]
    OBVIOUS
  <2>3. PICK end : end = base[l] + At(stack[l].schema, message[l], n, i)
    OBVIOUS
  <2>4. AtElement(n, x, end)
    <3>1. pos = base[l] + At(stack[l].schema, message[l], n, i - 1)
      BY <1>3, <1>4, <2>1
    <3> QED BY <1>3, <1>4, <2>1, <2>2, <2>3, <3>1, KnownNext
  <2>5. ASSUME NEW t \in Tokens(pos, Top.limit) PROVE Known(t) /\ Acceptable(t)
    <3>1. t.field = n /\ t.wire = WireTypeOf(Top.schema[n])
      BY <2>4 DEF AtElement, ElementHeld
    <3>2. n \in 1 .. Len(Top.schema)
      BY <2>4 DEF AtElement
    <3>3. t.wire # 4
      BY <3>1 DEF WireTypeOf
    <3>4. Known(t)
      BY <3>1, <3>2 DEF Known
    <3>5. t.field > 0
      BY <3>1, <3>2
    <3>6. Top.schema[n].type = "integer" => Slice(t) \in DOMAIN Canonical
      BY <2>4, CanonicalAssumption DEF AtElement, ElementHeld, ElementFits, Slice
    <3> QED BY <3>1, <3>3, <3>4, <3>5, <3>6 DEF Acceptable
  <2>6. Reject => fault = "cut"
    <3>1. ASSUME Reject, fault # "cut" PROVE FALSE
      <4>1. pos < Top.limit /\ Tokens(pos, Top.limit) # {}
        BY <2>4, <3>1 DEF AtElement
      <4>2. pos # Top.limit
        BY <1>5, <4>1
      <4> QED BY <2>5, <3>1, <4>1, <4>2 DEF Reject, Malformed
    <3> QED BY <3>1
  <2>7. ~CloseMessage
    <3>1. ASSUME CloseMessage PROVE FALSE
      <4>1. pos = Top.limit /\ pos < Top.limit
        BY <2>4, <3>1 DEF CloseMessage, AtElement
      <4> QED BY <1>5, <4>1
    <3> QED BY <3>1
  <2>8. ASSUME NEW t \in Tokens(pos, Top.limit),
               ReadNumber(t) \/ ReadText(t) \/ ReadInteger(t) \/ OpenMessage(t)
        PROVE  Place(e)'
    <3>1. /\ ElementHeld(t, Top.schema[n], n, x, end) /\ ElementFits(Top.schema[n], x)
          /\ Top.schema[n].type = "message" => Whole(Top.schema[n].fields, x)
      BY <2>4 DEF AtElement
    <3>2. IsNext(stack[l], base[l], message[l], n, i, x, end)
      BY <2>1, <2>2, <2>3 DEF IsNext
    <3>3. CASE ReadNumber(t) \/ ReadText(t) \/ ReadInteger(t)
      BY <1>3, <1>4, <3>1, <3>2, <3>3, ValueStep
    <3>4. CASE OpenMessage(t)
      BY <1>3, <1>4, <3>1, <3>2, <3>4, OpenStep
    <3> QED BY <2>8, <3>3, <3>4
  <2>9. ASSUME NEW t \in Tokens(pos, Top.limit) PROVE ~Skip(t)
    BY <1>5, <2>5 DEF Skip
  <2>10. Place(e)'
    BY <1>2, <2>7, <2>8, <2>9 DEF Decode
  <2> QED BY <1>1, <2>6, <2>10
<1> QED BY <1>3, <1>4, <1>6, <1>7 DEF Progress

(***************************************************************************)
(* Induction                                                               *)
(***************************************************************************)

\* A message that has just been sent, or bytes that were never one.
Begun ==
  /\ DecoderInit /\ stack[1].schema = schema
  /\ fault \in {"none", "extended", "cut", "raw"}
  /\ fault # "raw" =>
       /\ DeepFits(schema, sent) /\ InMemory(Marshal(schema, sent))
       /\ \E e : Delivered(e)

LEMMA BegunIsInv == Begun => CodecInv
<1> SUFFICES ASSUME Begun PROVE CodecInv
  OBVIOUS
<1>1. WireInv /\ stack[1].schema = schema /\ fault \in {"none", "extended", "cut", "raw"}
  BY WireInit DEF Begun
<1>2. PICK call : stack = <<call>> /\ call.value = EmptyStore
  <2>1. PICK fields, bytes : Start(fields, bytes)
    BY DEF Begun, DecoderInit
  <2>2. stack = <<Frame(fields, 0, Len(bytes), EmptyStore)>>
    BY <2>1 DEF Start
  <2> QED BY <2>2 DEF Frame
<1>3. pos = 0 /\ depth = 0 /\ status = "reading"
  BY DEF Begun, DecoderInit, Start
<1>4. Len(stack) = 1 /\ Top.value = EmptyStore
  BY <1>2 DEF Top
<1>5. ASSUME NEW e, OnItsWay(e) PROVE Place(e)
  <2>1. Extension(e) /\ Len(e) \in Nat
    BY <1>5, OnItsWayFits DEF Extension
  <2>2. Behind(e) \in Seq(Seq(Bytes)) /\ Len(ExtensionBytes(e)) = Offset(Behind(e), Len(e))
    BY <2>1, ExtensionIsBytes
  <2>3. Offset(Behind(e), 0) = 0
    BY <2>2, Offsets
  <2>4. CASE Len(e) = 0
    <3>1. AmongKnown(e)
      BY <1>3, <1>4, <1>5, <2>2, <2>3, <2>4, MessageNext DEF AmongKnown
    <3> QED BY <3>1 DEF Place
  <2>5. CASE Len(e) # 0
    <3>1. PICK groups : Grouping(e, groups)
      BY <2>1 DEF Extension
    <3>2. groups[0] = 0
      BY <3>1 DEF Grouping
    <3>3. 0 \in 0 .. Len(e) /\ 0 < Len(e)
      BY <2>1, <2>5
    <3>4. AmongUnknown(e)
      BY <1>3, <1>4, <2>3, <3>1, <3>2, <3>3 DEF AmongUnknown
    <3> QED BY <3>4 DEF Place
  <2> QED BY <2>4, <2>5
<1>6. ASSUME fault # "raw" PROVE \E e : OnItsWay(e) /\ Place(e)
  <2>1. PICK e : OnItsWay(e)
    BY <1>1, <1>6 DEF Begun, OnItsWay
  <2> QED BY <1>5, <2>1
<1> QED BY <1>1, <1>3, <1>6 DEF CodecInv

LEMMA SamplesFit ==
  ASSUME NEW s \in Samples
  PROVE  s[1] \in Schemas /\ DeepFits(s[1], s[2]) /\ InMemory(Marshal(s[1], s[2]))
<1> DEFINE parts == Samples \cup {Part(p[1], p[2]) : p \in Samples}
<1>1. ASSUME NEW part \in parts PROVE Fits(part[1], part[2], parts)
  <2>1. PICK p \in Samples : part[1] = p[1] /\ part[2] = p[2]
    BY DEF Part
  <2>2. Fits(p[1], p[2], Samples)
    BY SamplesAssumption DEF Closed
  <2>3. Samples \subseteq parts
    OBVIOUS
  <2> HIDE DEF parts
  <2> QED BY <2>1, <2>2, <2>3, MoreParts
<1>2. Part(s[1], s[2]) \in parts
  OBVIOUS
<1> HIDE DEF parts
<1>3. Closed(parts)
  BY <1>1 DEF Closed
<1> QED BY <1>2, <1>3, SamplesAssumption DEF DeepFits

LEMMA SendBegins ==
  ASSUME NEW fields \in Schemas, NEW message, NEW bytes \in Seq(Bytes),
         NEW how \in {"none", "extended", "cut", "raw"}, Send(fields, message, bytes, how),
         how # "raw" => /\ DeepFits(fields, message) /\ InMemory(Marshal(fields, message))
                        /\ \E e : Delivered(e)
  PROVE  Begun
<1>1. sent = message /\ fault = how /\ Start(fields, bytes)
  BY DEF Send
<1>2. DecoderInit
  BY <1>1 DEF DecoderInit
<1>3. schema = fields /\ stack = <<Frame(fields, 0, Len(bytes), EmptyStore)>>
  BY <1>1 DEF Start
<1>4. stack[1].schema = schema
  BY <1>3 DEF Frame
<1> QED BY <1>1, <1>2, <1>3, <1>4 DEF Begun

LEMMA InitBegins == Init => Begun
<1>1. ASSUME NEW s \in Samples, NEW fields, NEW message, NEW bytes, fields = s[1],
             message = s[2], bytes = Marshal(fields, message)
      PROVE  /\ Send(fields, message, bytes, "none") => Begun
             /\ \A e \in Extensions :
                  Send(fields, message, ExtensionBytes(e) \o bytes \o ExtensionBytes(e), "extended")
                    => Begun
             /\ \A k \in 0 .. Len(bytes) - 1 :
                  Send(fields, message, SubSeq(bytes, 1, k), "cut") => Begun
  <2>1. /\ fields \in Schemas /\ DeepFits(fields, message)
        /\ InMemory(Marshal(fields, message))
    BY <1>1, SamplesFit
  <2>2. bytes \in Seq(Bytes)
    BY <1>1, <2>1, FieldsFitBytes
  <2>3. ASSUME Send(fields, message, bytes, "none") PROVE Begun
    <3>1. Delivered(<<>>)
      BY <1>1, <2>3 DEF Send, Start, Delivered
    <3> QED BY <2>1, <2>2, <2>3, <3>1, SendBegins
  <2>4. ASSUME NEW e \in Extensions, NEW all, all = ExtensionBytes(e) \o bytes \o ExtensionBytes(e),
               Send(fields, message, all, "extended")
        PROVE  Begun
    <3>1. Delivered(e)
      BY <1>1, <2>4 DEF Send, Start, Delivered
    <3>2. PICK x : x = ExtensionBytes(e) /\ x \in Seq(Bytes)
      BY ExtensionsAre, ExtensionIsBytes
    <3>3. x \o bytes \in Seq(Bytes)
      BY <2>2, <3>2
    <3>4. PICK y : y = x \o bytes /\ y \in Seq(Bytes)
      BY <3>3
    <3>5. y \o x \in Seq(Bytes)
      BY <3>2, <3>4
    <3>6. all \in Seq(Bytes)
      BY <2>4, <3>2, <3>4, <3>5
    <3> QED BY <2>1, <2>4, <3>1, <3>6, SendBegins
  <2>5. ASSUME NEW k \in 0 .. Len(bytes) - 1, NEW part, part = SubSeq(bytes, 1, k),
               Send(fields, message, part, "cut")
        PROVE  Begun
    <3>1. Delivered(<<>>)
      BY <1>1, <2>5 DEF Send, Start, Delivered
    <3>2. part \in Seq(Bytes)
      BY <2>2, <2>5
    <3> QED BY <2>1, <2>5, <3>1, <3>2, SendBegins
  <2> QED BY <2>3, <2>4, <2>5
<1>2. ASSUME NEW fields \in RawMessages, NEW l \in 0 .. MaxRaw, NEW bytes \in [1 .. l -> RawBytes],
             Send(fields, EmptyStore, bytes, "raw")
      PROVE  Begun
  <2>1. fields \in Schemas /\ l \in Nat /\ bytes \in [1 .. l -> Bytes]
    BY RawAssumption
  <2>2. bytes \in Seq(Bytes)
    BY <2>1
  <2> QED BY <1>2, <2>1, <2>2, SendBegins
<1> QED BY <1>1, <1>2 DEF Init

LEMMA PersistBegins == CodecInv /\ Persist => Begun'
<1> SUFFICES ASSUME CodecInv, Persist PROVE Begun'
  OBVIOUS
<1>1. /\ WireInv /\ stack[1].schema = schema /\ depth = 0
  BY DEF CodecInv, Persist
<1>2. 1 \in 1 .. Len(stack)
  BY <1>1, TopFits
<1>3. schema \in Schemas /\ DeepFits(schema, Message)
  BY <1>1, <1>2 DEF WireInv, CallsFit, CallFits, Message
<1>4. PICK message, bytes : message = Message /\ bytes = Marshal(schema, Message)
  OBVIOUS
<1>5. /\ sent' = message /\ fault' = "none" /\ input' = bytes /\ pos' = 0 /\ depth' = 0
      /\ stack' = <<Frame(schema, 0, Len(bytes), EmptyStore)>>
      /\ status' = "reading" /\ schema' = schema /\ InMemory(bytes)
  BY <1>1, <1>4 DEF Persist
<1>6. bytes \in Seq(Bytes) /\ bytes = Marshal(schema, message)
  BY <1>3, <1>4, FieldsFitBytes
<1>7. DecoderInit'
  BY <1>3, <1>5, <1>6 DEF DecoderInit, Start
<1>8. stack'[1].schema = schema
  BY <1>5 DEF Frame
<1>9. Delivered(<<>>)'
  BY <1>5, <1>6 DEF Delivered
<1> QED BY <1>3, <1>4, <1>5, <1>6, <1>7, <1>8, <1>9 DEF Begun

\* The first call is for the message that arrives, from the beginning to the end.
LEMMA FirstCallStays ==
  ASSUME WireInv, Decode PROVE stack'[1].schema = stack[1].schema
<1>1. CallsFit(stack) /\ Len(stack) \in Nat \ {0} /\ Top = stack[Len(stack)]
  BY TopFits DEF WireInv, Top
<1>2. ASSUME NEW calls, CallsFit(calls), NEW value, NEW new, new = WithValue(calls, value)
      PROVE  new[1].schema = calls[1].schema
  <2>1. PICK l : l = Len(calls)
    OBVIOUS
  <2>2. l \in Nat \ {0}
    BY <1>2, <2>1 DEF CallsFit, IsStack
  <2>3. /\ \A k \in 1 .. l - 1 : new[k] = calls[k]
        /\ new[l].schema = calls[l].schema
    BY <1>2, <2>1, OtherValue
  <2>4. l = 1 \/ 1 \in 1 .. l - 1
    BY <2>2
  <2> QED BY <2>3, <2>4
<1>3. ASSUME NEW t, NEW x, Assign(t, x) PROVE stack'[1].schema = stack[1].schema
  <2>1. PICK value, new : /\ value = SetField(Top.value, t.field, Top.schema[t.field], x)
                          /\ new = WithValue(stack, value)
    OBVIOUS
  <2>2. stack' = new
    BY <1>1, <1>3, <2>1 DEF Assign, WithValue
  <2> QED BY <1>1, <1>2, <2>1, <2>2
<1>4. ASSUME NEW t, OpenMessage(t) PROVE stack'[1].schema = stack[1].schema
  <2>1. PICK call : stack' = Append(stack, call)
    BY <1>4 DEF OpenMessage
  <2>2. PICK S : stack \in Seq(S)
    BY <1>1 DEF CallsFit, IsStack
  <2>3. stack \in Seq(S \cup {call})
    <3>1. S \subseteq S \cup {call}
      OBVIOUS
    <3> QED BY <2>2, <3>1
  <2>4. Append(stack, call)[1] = stack[1]
    BY <1>1, <2>3, AppendProperties
  <2> QED BY <2>1, <2>4
<1>5. ASSUME CloseMessage PROVE stack'[1].schema = stack[1].schema
  <2>1. PICK outer : outer = SubSeq(stack, 1, Len(stack) - 1)
    OBVIOUS
  <2>2. PICK value, new :
          /\ value = SetField(outer[Len(outer)].value, Top.field,
                              outer[Len(outer)].schema[Top.field], Top.value)
          /\ new = WithValue(outer, value)
    OBVIOUS
  <2>3. stack' = new
    BY <1>5, <2>1, <2>2 DEF CloseMessage, WithValue
  <2>4. CallsFit(outer)
    BY <1>1, <1>5, <2>1, NoCall DEF CloseMessage
  <2>5. outer[1] = stack[1]
    <3>1. PICK S : stack \in Seq(S)
      BY <1>1 DEF CallsFit, IsStack
    <3>2. Len(stack) > 1
      BY <1>5 DEF CloseMessage
    <3> QED BY <1>1, <2>1, <3>1, <3>2
  <2> QED BY <1>2, <2>2, <2>3, <2>4, <2>5
<1> QED BY <1>3, <1>4, <1>5 DEF Decode, ReadNumber, ReadText, ReadInteger, Skip, Finish, Reject

\* The message is still on its way when nothing of it changes.
LEMMA StillOnItsWay ==
  ASSUME NEW e, OnItsWay(e), WireInv', stack'[1].schema = stack[1].schema,
         UNCHANGED <<schema, input, sent, fault>>
  PROVE  OnItsWay(e)'
<1>1. Delivered(e)'
  BY DEF OnItsWay, Delivered
<1> QED BY <1>1 DEF OnItsWay

LEMMA UnmarshalKeeps ==
  ASSUME CodecInv, Unmarshal PROVE CodecInv'
<1>1. WireInv /\ Decode /\ UNCHANGED <<sent, fault>>
  BY DEF CodecInv, Unmarshal
<1>2. WireInv' /\ stack'[1].schema = stack[1].schema
  BY <1>1, WireNext, FirstCallStays
<1>3. status = "reading" /\ schema' = schema
  BY <1>1 DEF Decode, ReadNumber, ReadText, ReadInteger, OpenMessage, CloseMessage, Skip, Finish, Reject, Reads
<1>4. Finish \/ Reject \/ status' = "reading"
  BY <1>1, <1>3 DEF Decode, ReadNumber, ReadText, ReadInteger, OpenMessage, CloseMessage, Skip
<1>5. ASSUME status' = "decoded" PROVE depth' = 0 /\ pos' = Top'.limit /\ Len(stack') = 1
  <2>1. Finish
    BY <1>4, <1>5 DEF Reject
  <2> QED BY <2>1 DEF Finish, Top
<1>6. ASSUME fault # "raw"
      PROVE  /\ (\E e : OnItsWay(e) /\ Place(e))'
             /\ Reject => fault = "cut"
  <2>1. PICK e : OnItsWay(e) /\ Place(e)
    BY <1>6 DEF CodecInv
  <2>2. Place(e)' /\ UNCHANGED <<schema, input>> /\ (Reject => fault = "cut")
    BY <1>1, <1>3, <2>1, UnknownStep, KnownStep DEF Place
  <2>3. OnItsWay(e)'
    BY <1>1, <1>2, <2>1, <2>2, StillOnItsWay
  <2> QED BY <2>2, <2>3
<1>7. status' = "rejected" => fault' \in {"cut", "raw"}
  <2>1. status' = "rejected" => Reject
    BY <1>4 DEF Finish
  <2> QED BY <1>1, <1>6, <2>1
<1> QED BY <1>1, <1>2, <1>3, <1>5, <1>6, <1>7 DEF CodecInv

LEMMA CodecNext == CodecInv /\ [Next]_vars => CodecInv' \/ Begun'
<1> SUFFICES ASSUME CodecInv, [Next]_vars PROVE CodecInv' \/ Begun'
  OBVIOUS
<1>1. CASE Unmarshal
  BY <1>1, UnmarshalKeeps
<1>2. CASE Persist
  BY <1>2, PersistBegins
<1>3. CASE UNCHANGED vars
  <2>1. UNCHANGED <<schema, input, pos, stack, depth, status, sent, fault>>
    BY <1>3 DEF vars, decoderVars
  <2>2. WireInv'
    BY <2>1, SameStack DEF CodecInv
  <2>3. ASSUME NEW e, OnItsWay(e), Place(e) PROVE OnItsWay(e)' /\ Place(e)'
    BY <2>1, <2>2, <2>3, StillOnItsWay, SamePlace
  <2>4. (fault # "raw" => \E e : OnItsWay(e) /\ Place(e))'
    BY <2>1, <2>3 DEF CodecInv
  <2> QED BY <2>1, <2>2, <2>4 DEF CodecInv, Top
<1> QED BY <1>1, <1>2, <1>3 DEF Next

LEMMA CodecInvHolds == Spec => []CodecInv
BY InitBegins, BegunIsInv, CodecNext, PTL DEF Spec

(***************************************************************************)
(* What has arrived                                                        *)
(***************************************************************************)

\* At the end of the bytes the outermost call has read as much of the message as there
\* was to read.
LEMMA MessageArrived ==
  ASSUME NEW e, OnItsWay(e), Place(e), Len(stack) = 1, pos = Top.limit
  PROVE  /\ \E off : Progress(schema, Due, Message, off)
         /\ fault # "cut" => Message = Due
<1> DEFINE x == Len(ExtensionBytes(e))
           all == Len(Marshal(schema, sent))
<1>1. /\ schema \in Schemas /\ DeepFits(schema, Due) /\ Extension(e) /\ Len(e) \in Nat
      /\ Marshal(schema, Due) = Marshal(schema, sent)
      /\ Top = stack[1] /\ Top.limit = Len(input) /\ Top.schema = schema
      /\ Message = Top.value /\ Top.limit \in Nat
  BY OnItsWayFits, DueFits DEF Extension, Message
<1>2. all = Len(Marshal(schema, Due)) /\ all \in Nat
  BY <1>1, FieldsFitBytes
<1>3. CASE AmongUnknown(e)
  <2>1. PICK groups : \E k \in 0 .. Len(e) :
          /\ Grouping(e, groups) /\ depth = groups[k]
          /\ \/ k < Len(e) /\ pos = Offset(Behind(e), k) /\ Top.value = EmptyStore
             \/ Top.value = Due
    BY <1>3 DEF AmongUnknown
  <2>2. PICK k \in 0 .. Len(e) :
          /\ Grouping(e, groups) /\ depth = groups[k]
          /\ \/ k < Len(e) /\ pos = Offset(Behind(e), k) /\ Top.value = EmptyStore
             \/ Top.value = Due
    BY <2>1
  <2>3. ASSUME k < Len(e), pos = Offset(Behind(e), k) PROVE FALSE
    <3>1. PICK j : j = k + 1
      OBVIOUS
    <3>2. j \in 1 .. Len(e) /\ j - 1 = k
      BY <1>1, <2>3, <3>1
    <3>3. PICK p : p = 0
      OBVIOUS
    <3>4. Offset(Behind(e), k) \in Nat
      <4>1. Behind(e) \in Seq(Seq(Bytes)) /\ Len(Behind(e)) = Len(e)
        BY <1>1, ExtensionIsBytes
      <4> QED BY <4>1, Offsets
    <3>5. pos = p + Offset(Behind(e), j - 1) /\ depth = groups[j - 1]
      BY <2>2, <2>3, <3>2, <3>3, <3>4
    <3>6. p \in {0, Len(ExtensionBytes(e)) + Len(Marshal(schema, sent))}
      BY <3>3
    <3>7. PassesOver(p + Offset(Behind(e), j), groups[j])
      BY <2>2, <3>2, <3>5, <3>6, UnknownNext
    <3> QED BY <1>1, <3>7 DEF PassesOver
  <2>4. Message = Due
    BY <1>1, <2>2, <2>3
  <2>5. Progress(schema, Due, Message, all)
    BY <1>2, <2>4 DEF Progress
  <2> QED BY <2>4, <2>5
<1>4. CASE AmongKnown(e)
  <2>1. PICK base, message, off :
          /\ Readers(stack, base, message, x, Due)
          /\ Progress(Top.schema, message[1], Top.value, off)
          /\ pos = base[1] + off
    BY <1>1, <1>4 DEF AmongKnown, AreAt
  <2>2. base[1] = x /\ message[1] = Due
    BY <2>1 DEF Readers
  <2>3. Progress(schema, Due, Message, off)
    BY <1>1, <2>1, <2>2
  <2>4. off \in Nat /\ off <= all /\ (off = all => Message = Due)
    BY <1>1, <1>2, <2>3, AllTaken
  <2>5. fault # "cut" => x \in Nat /\ Len(input) = x + all + x
    BY <1>1, BytesInPlace DEF OnItsWay
  <2>6. Len(input) = x + off
    BY <1>1, <2>1, <2>2
  <2> HIDE DEF x, all
  <2>7. ASSUME fault # "cut" PROVE off = all
    <3>1. x + all + x = x + off
      BY <2>5, <2>6, <2>7
    <3> QED BY <1>2, <2>4, <2>5, <2>7, <3>1
  <2> QED BY <2>3, <2>4, <2>7
<1> QED BY <1>3, <1>4 DEF Place

\* What is decoded is the message that was to arrive, or a part of it.
LEMMA DecodedIsDue ==
  ASSUME CodecInv, status = "decoded", fault # "raw"
  PROVE  /\ schema \in Schemas /\ DeepFits(schema, Due)
         /\ \E off : Progress(schema, Due, Message, off)
         /\ fault # "cut" => Message = Due
<1>1. pos = Top.limit /\ Len(stack) = 1
  BY DEF CodecInv
<1>2. PICK e : OnItsWay(e) /\ Place(e)
  BY DEF CodecInv
<1>3. schema \in Schemas /\ DeepFits(schema, Due)
  BY <1>2, OnItsWayFits, DueFits
<1> QED BY <1>1, <1>2, <1>3, MessageArrived

\* Of any message, with fields of a later version around it or not, the other end reads
\* what was marshalled, with zero for every nil amount in it; and so does a node that reads
\* what it has stored of bytes that were altered on their way.
THEOREM ArrivesAsSentHolds == Spec => []ArrivesAsSent
<1>1. CodecInv => ArrivesAsSent
  BY DecodedIsDue DEF ArrivesAsSent, Due
<1> QED BY <1>1, CodecInvHolds, PTL

\* Unmarshal reports no error of bytes that Marshal has written, nor of those of a later
\* version of the protocol.
THEOREM NothingSentIsRejectedHolds == Spec => []NothingSentIsRejected
<1>1. CodecInv => NothingSentIsRejected
  BY DEF CodecInv, NothingSentIsRejected
<1> QED BY <1>1, CodecInvHolds, PTL

\* Bytes that are cut off anywhere, inside of a number, of a tag or of an embedded
\* message, are rejected or understood as the fields and elements before the cut.
THEOREM CutMessagesArePartsHolds == Spec => []CutMessagesAreParts
<1>1. CodecInv => CutMessagesAreParts
  <2> SUFFICES ASSUME CodecInv, status = "decoded", fault = "cut" PROVE PartOf(Due)
    BY DEF CutMessagesAreParts, Due
  <2>1. PICK off : Progress(schema, Due, Message, off)
    BY DecodedIsDue
  <2>2. schema \in Schemas /\ DeepFits(schema, Due)
    BY DecodedIsDue
  <2>3. ASSUME NEW n \in DOMAIN Message
        PROVE  /\ n \in DOMAIN Due
               /\ IF schema[n].card = "many" THEN IsPrefix(Message[n], Due[n])
                  ELSE Message[n] = Due[n]
    BY <2>1, <2>2, TakenIsPart
  <2> QED BY <2>3 DEF PartOf
<1> QED BY <1>1, CodecInvHolds, PTL

\* The bytes that Size counts, and Marshal allocates, are those that it writes: none is
\* left and none is missing.
THEOREM SizeIsExactHolds == Spec => []SizeIsExact
<1>1. CodecInv => SizeIsExact
  <2> SUFFICES ASSUME CodecInv, fault = "none" PROVE Size(schema, sent) = Len(input)
    BY DEF SizeIsExact
  <2>1. PICK e : OnItsWay(e)
    BY DEF CodecInv
  <2>2. schema \in Schemas /\ DeepFits(schema, sent) /\ input = Marshal(schema, sent)
    BY <2>1, OnItsWayFits DEF OnItsWay, Delivered
  <2> QED BY <2>2, Marshalled DEF IsMarshalled
<1> QED BY <1>1, CodecInvHolds, PTL
=============================================================================
