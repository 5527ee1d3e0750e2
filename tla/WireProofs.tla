------------------------------ MODULE WireProofs ------------------------------
(***************************************************************************)
(* Sums, wires and readers, for any number of elements: what a sum is, how *)
(* many bytes a wire has that was put together from fields and arrays, and *)
(* that a reader gets back what was written for it.                        *)
(*                                                                         *)
(* Sums, flattened arrays and readers in turn are recursive functions of a *)
(* number: that there is a function that satisfies the equation, and what  *)
(* it returns, is proved by induction over a set of numbers: one that is   *)
(* not in it has a least one before it.                                    *)
(***************************************************************************)
EXTENDS Formats, TLAPS, SequenceTheorems, WellFoundedInduction

USE DEF Wires

-----------------------------------------------------------------------------
(* Induction, over a set of numbers. *)
LEMMA SetInduction ==
    ASSUME NEW S, 0 \in S, \A n \in Nat : n \in S => n + 1 \in S
    PROVE  Nat \subseteq S
<1> DEFINE T == Nat \ S
           Less == {pair \in Nat \X Nat : pair[1] < pair[2]}
<1>1. SUFFICES ASSUME T # {} PROVE FALSE
  OBVIOUS
<1>2. IsWellFoundedOn(Less, Nat)
  BY NatLessThanWellFounded DEF OpToRel
<1>3. PICK x \in T : \A y \in T : <<y, x>> \notin Less
  <2> HIDE DEF T, Less
  <2>1. T \subseteq Nat BY DEF T
  <2> QED BY <1>1, <1>2, <2>1, WFMin
<1>4. x \in Nat /\ x # 0 /\ x - 1 \in Nat /\ x - 1 \notin T
  <2>1. x \in Nat /\ x # 0 /\ x - 1 \in Nat
    BY <1>3
  <2>2. <<x - 1, x>> \in Less
    BY <2>1
  <2> QED BY <1>3, <2>1, <2>2
<1> QED BY <1>3, <1>4

-----------------------------------------------------------------------------
(* SumOfFirst is defined by recursion: that there is a function that       *)
(* satisfies the equation.                                                 *)
SumsTo(f, n, h) ==
    h = [i \in 0 .. n |-> IF i = 0 THEN 0 ELSE h[i - 1] + f[i]]

LEMMA SumsExist ==
    ASSUME NEW f
    PROVE  \A n \in Nat : \E h : SumsTo(f, n, h)
<1> DEFINE S == {n \in Nat : \E h : SumsTo(f, n, h)}
<1>1. 0 \in S
  <2> DEFINE h == [i \in 0 .. 0 |-> 0]
  <2>1. SumsTo(f, 0, h)
    BY DEF SumsTo
  <2> QED BY <2>1
<1>2. ASSUME NEW n \in Nat, n \in S PROVE n + 1 \in S
  <2>1. PICK h : SumsTo(f, n, h)
    BY <1>2
  <2> DEFINE g == [i \in 0 .. n + 1 |-> IF i = n + 1 THEN h[n] + f[n + 1] ELSE h[i]]
  <2>2. \A i \in 0 .. n + 1 : g[i] = IF i = 0 THEN 0 ELSE g[i - 1] + f[i]
    <3> SUFFICES ASSUME NEW i \in 0 .. n + 1
                 PROVE  g[i] = IF i = 0 THEN 0 ELSE g[i - 1] + f[i]
      OBVIOUS
    <3>1. CASE i = n + 1
      BY <3>1
    <3>2. CASE i # n + 1
      BY <2>1, <3>2 DEF SumsTo
    <3> QED BY <3>1, <3>2
  <2>3. SumsTo(f, n + 1, g)
    BY <2>2 DEF SumsTo
  <2> QED BY <2>3
<1> HIDE DEF S
<1>3. Nat \subseteq S
  BY <1>1, <1>2, SetInduction
<1> QED BY <1>3 DEF S

LEMMA SumsUnique ==
    ASSUME NEW f, NEW n \in Nat, NEW m \in Nat, n <= m, NEW g, NEW h,
           SumsTo(f, n, g), SumsTo(f, m, h)
    PROVE  g[n] = h[n]
<1> DEFINE S == {i \in Nat : i <= n => g[i] = h[i]}
<1>1. 0 \in S
  BY DEF SumsTo
<1>2. ASSUME NEW i \in Nat, i \in S PROVE i + 1 \in S
  BY <1>2 DEF SumsTo
<1> HIDE DEF S
<1>3. Nat \subseteq S
  BY <1>1, <1>2, SetInduction
<1> QED BY <1>3 DEF S

LEMMA SumOfFirstNext ==
    ASSUME NEW f
    PROVE  /\ SumOfFirst(f, 0) = 0
           /\ \A n \in Nat : SumOfFirst(f, n + 1) = SumOfFirst(f, n) + f[n + 1]
<1> DEFINE Total(h) == h = [i \in Nat |-> IF i = 0 THEN 0 ELSE h[i - 1] + f[i]]
           total == CHOOSE h : Total(h)
           upTo(n) == CHOOSE h : SumsTo(f, n, h)
           t == [n \in Nat |-> upTo(n)[n]]
<1>1. \A n \in Nat : SumsTo(f, n, upTo(n))
  BY SumsExist
<1> HIDE DEF upTo
<1>2. \A n \in Nat : t[n] = IF n = 0 THEN 0 ELSE t[n - 1] + f[n]
  <2> SUFFICES ASSUME NEW n \in Nat PROVE t[n] = IF n = 0 THEN 0 ELSE t[n - 1] + f[n]
    OBVIOUS
  <2>1. \A m \in 0 .. n : upTo(n)[m] = IF m = 0 THEN 0 ELSE upTo(n)[m - 1] + f[m]
    <3>1. SumsTo(f, n, upTo(n))
      BY <1>1
    <3> QED BY <3>1 DEF SumsTo
  <2>2. CASE n = 0
    BY <2>1, <2>2
  <2>3. CASE n # 0
    <3>1. SumsTo(f, n - 1, upTo(n - 1)) /\ SumsTo(f, n, upTo(n))
      BY <1>1, <2>3
    <3>2. upTo(n - 1)[n - 1] = upTo(n)[n - 1]
      BY <3>1, <2>3, SumsUnique
    <3> QED BY <2>1, <3>2, <2>3
  <2> QED BY <2>2, <2>3
<1>3. Total(t)
  BY <1>2
<1>4. Total(total)
  <2> HIDE DEF Total, t
  <2> QED BY <1>3
<1>5. \A n \in Nat : SumOfFirst(f, n) = total[n]
  BY DEF SumOfFirst
<1> HIDE DEF total
<1>6. \A n \in Nat : total[n] = IF n = 0 THEN 0 ELSE total[n - 1] + f[n]
  BY <1>4
<1> QED BY <1>5, <1>6

LEMMA SumSame ==
    ASSUME NEW f, NEW g, NEW n \in Nat, \A i \in 1 .. n : f[i] = g[i]
    PROVE  SumOfFirst(f, n) = SumOfFirst(g, n)
<1> DEFINE S == {i \in Nat : i <= n => SumOfFirst(f, i) = SumOfFirst(g, i)}
<1>1. 0 \in S
  BY SumOfFirstNext
<1>2. ASSUME NEW i \in Nat, i \in S PROVE i + 1 \in S
  BY <1>2, SumOfFirstNext
<1> HIDE DEF S
<1>3. Nat \subseteq S
  BY <1>1, <1>2, SetInduction
<1> QED BY <1>3 DEF S

LEMMA SumIncreases ==
    ASSUME NEW f, NEW n \in Nat, \A i \in 1 .. n : f[i] \in Nat \ {0}
    PROVE  \A m \in 0 .. n :
              /\ SumOfFirst(f, m) \in Nat
              /\ \A k \in 0 .. m : k < m => SumOfFirst(f, k) < SumOfFirst(f, m)
<1> DEFINE Up(m) == \A k \in 0 .. m :
                       SumOfFirst(f, k) \in Nat /\ (k < m => SumOfFirst(f, k) < SumOfFirst(f, m))
           S == {m \in Nat : m <= n => Up(m)}
<1>1. 0 \in S
  BY SumOfFirstNext
<1>2. ASSUME NEW m \in Nat, m \in S PROVE m + 1 \in S
  <2> SUFFICES ASSUME m + 1 <= n PROVE Up(m + 1)
    OBVIOUS
  <2>1. Up(m)
    BY <1>2
  <2>2. /\ SumOfFirst(f, m + 1) = SumOfFirst(f, m) + f[m + 1]
        /\ f[m + 1] \in Nat \ {0}
        /\ SumOfFirst(f, m) \in Nat
    BY <2>1, SumOfFirstNext
  <2>3. ASSUME NEW k \in 0 .. m
        PROVE  SumOfFirst(f, k) \in Nat /\ SumOfFirst(f, k) < SumOfFirst(f, m + 1)
    <3>1. CASE k = m
      BY <2>2, <3>1
    <3>2. CASE k < m
      BY <2>1, <2>2, <3>2
    <3> QED BY <3>1, <3>2
  <2>4. ASSUME NEW k \in 0 .. m + 1
        PROVE  SumOfFirst(f, k) \in Nat /\ (k < m + 1 => SumOfFirst(f, k) < SumOfFirst(f, m + 1))
    <3>1. CASE k = m + 1
      BY <2>2, <3>1
    <3>2. CASE k \in 0 .. m
      BY <2>3, <3>2
    <3> QED BY <3>1, <3>2
  <2> QED BY <2>4
<1> HIDE DEF S
<1>3. Nat \subseteq S
  BY <1>1, <1>2, SetInduction
<1> QED BY <1>3 DEF S

(* Elements of the same size. *)
LEMMA SumOfEqual ==
    ASSUME NEW f, NEW n \in Nat, NEW c \in Nat, \A i \in 1 .. n : f[i] = c
    PROVE  SumOfFirst(f, n) = n * c
<1> DEFINE S == {i \in Nat : i <= n => SumOfFirst(f, i) = i * c}
<1>1. 0 \in S
  BY SumOfFirstNext
<1>2. ASSUME NEW i \in Nat, i \in S PROVE i + 1 \in S
  <2> SUFFICES ASSUME i + 1 <= n PROVE SumOfFirst(f, i + 1) = (i + 1) * c
    OBVIOUS
  <2>1. SumOfFirst(f, i) = i * c /\ SumOfFirst(f, i + 1) = SumOfFirst(f, i) + c
    BY <1>2, SumOfFirstNext
  <2>2. (i + 1) * c = i * c + c
    OBVIOUS
  <2> QED BY <2>1, <2>2
<1> HIDE DEF S
<1>3. Nat \subseteq S
  BY <1>1, <1>2, SetInduction
<1> QED BY <1>3 DEF S

(* Elements none of which has more than so much, and four times another. *)
AtMost(f, g, n, c) ==
    \A i \in 1 .. n : f[i] \in Nat /\ g[i] \in Nat /\ f[i] <= c + 4 * g[i]

LEMMA SumAtMost ==
    ASSUME NEW f, NEW g, NEW n \in Nat, NEW c \in Nat, AtMost(f, g, n, c)
    PROVE  /\ SumOfFirst(f, n) \in Nat /\ SumOfFirst(g, n) \in Nat
           /\ SumOfFirst(f, n) <= n * c + 4 * SumOfFirst(g, n)
<1> DEFINE Bound(i) == /\ SumOfFirst(f, i) \in Nat /\ SumOfFirst(g, i) \in Nat
                       /\ SumOfFirst(f, i) <= i * c + 4 * SumOfFirst(g, i)
           S == {i \in Nat : i <= n => Bound(i)}
<1>1. 0 \in S
  BY SumOfFirstNext
<1>2. ASSUME NEW i \in Nat, i \in S PROVE i + 1 \in S
  <2> SUFFICES ASSUME i + 1 <= n PROVE Bound(i + 1)
    OBVIOUS
  <2>1. Bound(i)
    BY <1>2
  <2>2. /\ SumOfFirst(f, i + 1) = SumOfFirst(f, i) + f[i + 1]
        /\ SumOfFirst(g, i + 1) = SumOfFirst(g, i) + g[i + 1]
    BY SumOfFirstNext
  <2>3. f[i + 1] \in Nat /\ g[i + 1] \in Nat /\ f[i + 1] <= c + 4 * g[i + 1]
    BY DEF AtMost
  <2>4. (i + 1) * c = i * c + c /\ i * c \in Nat
    OBVIOUS
  <2> QED BY <2>1, <2>2, <2>3, <2>4
<1> HIDE DEF S
<1>3. Nat \subseteq S
  BY <1>1, <1>2, SetInduction
<1> QED BY <1>3 DEF S

(* h has the first m elements of f, and then the first n of g. *)
Joins(f, m, g, n, h) ==
    /\ \A i \in 1 .. m : h[i] = f[i]
    /\ \A i \in 1 .. n : h[m + i] = g[i]
    /\ \A i \in 1 .. n : g[i] \in Int

LEMMA SumOfBoth ==
    ASSUME NEW f, NEW g, NEW h, NEW m \in Nat, NEW n \in Nat,
           Joins(f, m, g, n, h), SumOfFirst(f, m) \in Int
    PROVE  SumOfFirst(h, m + n) = SumOfFirst(f, m) + SumOfFirst(g, n)
<1> DEFINE S == {i \in Nat : i <= n =>
                    /\ SumOfFirst(g, i) \in Int
                    /\ SumOfFirst(h, m + i) = SumOfFirst(f, m) + SumOfFirst(g, i)}
<1>0. /\ \A i \in 1 .. m : h[i] = f[i]
      /\ \A i \in 1 .. n : h[m + i] = g[i] /\ g[i] \in Int
  BY DEF Joins
<1>1. 0 \in S
  <2>1. SumOfFirst(h, m) = SumOfFirst(f, m)
    BY <1>0, SumSame
  <2> QED BY <2>1, SumOfFirstNext
<1>2. ASSUME NEW i \in Nat, i \in S PROVE i + 1 \in S
  <2> SUFFICES ASSUME i + 1 <= n
               PROVE  /\ SumOfFirst(g, i + 1) \in Int
                      /\ SumOfFirst(h, m + (i + 1)) = SumOfFirst(f, m) + SumOfFirst(g, i + 1)
    OBVIOUS
  <2>1. /\ SumOfFirst(g, i) \in Int
        /\ SumOfFirst(h, m + i) = SumOfFirst(f, m) + SumOfFirst(g, i)
    BY <1>2
  <2>2. /\ SumOfFirst(g, i + 1) = SumOfFirst(g, i) + g[i + 1]
        /\ SumOfFirst(h, (m + i) + 1) = SumOfFirst(h, m + i) + h[(m + i) + 1]
    BY SumOfFirstNext
  <2>3. h[(m + i) + 1] = g[i + 1] /\ g[i + 1] \in Int /\ (m + i) + 1 = m + (i + 1)
    BY <1>0
  <2> QED BY <2>1, <2>2, <2>3
<1> HIDE DEF S
<1>3. Nat \subseteq S
  BY <1>1, <1>2, SetInduction
<1> QED BY <1>3 DEF S

-----------------------------------------------------------------------------
(* Wires, and the bytes they have. *)
Widths(wire) == [i \in DOMAIN wire |-> wire[i].bytes]

LEMMA BytesAdd == \A wire : ByteCount(wire) = SumOfFirst(Widths(wire), Len(wire))
BY DEF ByteCount, SumOf, Widths

LEMMA WidthsOK ==
    ASSUME NEW wire \in Wires
    PROVE  /\ Len(wire) \in Nat /\ DOMAIN wire = 1 .. Len(wire)
           /\ \A i \in 1 .. Len(wire) : Widths(wire)[i] = wire[i].bytes /\ wire[i].bytes \in Nat
<1>1. Len(wire) \in Nat /\ DOMAIN wire = 1 .. Len(wire) /\ \A i \in 1 .. Len(wire) : wire[i] \in Fields
  BY LenProperties, ElementOfSeq
<1> QED BY <1>1 DEF Widths, Fields

LEMMA BytesType == ASSUME NEW wire \in Wires PROVE ByteCount(wire) \in Nat
<1> DEFINE S == {i \in Nat : i <= Len(wire) => SumOfFirst(Widths(wire), i) \in Nat}
<1>1. 0 \in S
  BY SumOfFirstNext
<1>2. ASSUME NEW i \in Nat, i \in S PROVE i + 1 \in S
  <2> SUFFICES ASSUME i + 1 <= Len(wire) PROVE SumOfFirst(Widths(wire), i + 1) \in Nat
    OBVIOUS
  <2>1. SumOfFirst(Widths(wire), i + 1) = SumOfFirst(Widths(wire), i) + Widths(wire)[i + 1]
    BY SumOfFirstNext
  <2>2. SumOfFirst(Widths(wire), i) \in Nat /\ Widths(wire)[i + 1] \in Nat
    BY <1>2, WidthsOK
  <2> QED BY <2>1, <2>2
<1> HIDE DEF S
<1>3. Nat \subseteq S
  BY <1>1, <1>2, SetInduction
<1> QED BY <1>3, WidthsOK, BytesAdd DEF S

LEMMA BytesOfNone == <<>> \in Wires /\ ByteCount(<<>>) = 0
<1>1. <<>> \in Wires /\ Len(<<>>) = 0
  BY EmptySeq
<1> QED BY <1>1, BytesAdd, SumOfFirstNext

LEMMA BytesOfField ==
    ASSUME NEW bytes \in Nat, NEW number \in Int
    PROVE  Field(bytes, number) \in Wires /\ ByteCount(Field(bytes, number)) = bytes
<1>1. CASE bytes = 0
  BY <1>1, BytesOfNone DEF Field
<1>2. CASE bytes # 0
  <2> DEFINE wire == <<[bytes |-> bytes, number |-> number]>>
  <2>1. wire \in Wires /\ Len(wire) = 1 /\ wire[1].bytes = bytes
    BY DEF Fields
  <2>2. Field(bytes, number) = wire
    BY <1>2 DEF Field
  <2> HIDE DEF wire
  <2>3. Widths(wire)[1] = bytes
    <3>1. 1 \in 1 .. Len(wire) /\ wire[1].bytes = bytes
      BY <2>1
    <3>2. Widths(wire)[1] = wire[1].bytes
      BY <2>1, <3>1, WidthsOK
    <3> QED BY <3>1, <3>2
  <2>4. SumOfFirst(Widths(wire), 1) = bytes
    <3>1. SumOfFirst(Widths(wire), 0 + 1) = SumOfFirst(Widths(wire), 0) + Widths(wire)[0 + 1]
          /\ SumOfFirst(Widths(wire), 0) = 0
      BY SumOfFirstNext
    <3> QED BY <2>3, <3>1
  <2>5. ByteCount(wire) = bytes
    BY <2>1, <2>4, BytesAdd
  <2> QED BY <2>1, <2>2, <2>5
<1> QED BY <1>1, <1>2

LEMMA BytesOfBoth ==
    ASSUME NEW a \in Wires, NEW b \in Wires
    PROVE  /\ a \o b \in Wires
           /\ ByteCount(a \o b) = ByteCount(a) + ByteCount(b)
           /\ ByteCount(a) \in Nat /\ ByteCount(b) \in Nat
<1> DEFINE c == a \o b
<1>1. /\ c \in Wires /\ Len(c) = Len(a) + Len(b)
      /\ Len(a) \in Nat /\ Len(b) \in Nat
      /\ \A i \in 1 .. Len(a) : c[i] = a[i]
      /\ \A i \in 1 .. Len(b) : c[Len(a) + i] = b[i]
  BY ConcatProperties, LenProperties
<1> HIDE DEF c
<1>2. \A i \in 1 .. Len(a) : Widths(c)[i] = Widths(a)[i]
  BY <1>1, WidthsOK
<1>3. \A i \in 1 .. Len(b) : Widths(c)[Len(a) + i] = Widths(b)[i] /\ Widths(b)[i] \in Int
  <2> SUFFICES ASSUME NEW i \in 1 .. Len(b)
               PROVE  Widths(c)[Len(a) + i] = Widths(b)[i] /\ Widths(b)[i] \in Int
    OBVIOUS
  <2>1. Len(a) + i \in 1 .. Len(c)
    BY <1>1
  <2>2. Widths(c)[Len(a) + i] = c[Len(a) + i].bytes
    BY <1>1, <2>1, WidthsOK
  <2>3. Widths(b)[i] = b[i].bytes /\ b[i].bytes \in Nat
    BY WidthsOK
  <2> QED BY <1>1, <2>2, <2>3
<1>4. SumOfFirst(Widths(a), Len(a)) \in Nat
  BY BytesType, BytesAdd
<1>5. SumOfFirst(Widths(c), Len(a) + Len(b))
        = SumOfFirst(Widths(a), Len(a)) + SumOfFirst(Widths(b), Len(b))
  <2>1. Len(a) \in Nat /\ Len(b) \in Nat /\ SumOfFirst(Widths(a), Len(a)) \in Int
    BY <1>1, <1>4
  <2>2. Joins(Widths(a), Len(a), Widths(b), Len(b), Widths(c))
    BY <1>2, <1>3 DEF Joins
  <2> QED BY <2>1, <2>2, SumOfBoth
<1> QED BY <1>1, <1>5, BytesAdd, BytesType DEF c

(* The elements of an array are written one after the other. *)
FlattensTo(wires, n, flat) ==
    flat = [i \in 1 .. n |-> IF i = 1 THEN wires[i] ELSE flat[i - 1] \o wires[i]]

LEMMA FlattenExists ==
    ASSUME NEW wires, NEW n \in Nat
    PROVE  \E flat : FlattensTo(wires, n, flat)
<1> DEFINE S == {m \in Nat : \E flat : FlattensTo(wires, m, flat)}
<1>1. 0 \in S
  <2>1. FlattensTo(wires, 0, [i \in 1 .. 0 |-> i])
    BY DEF FlattensTo
  <2> QED BY <2>1
<1>2. ASSUME NEW m \in Nat, m \in S PROVE m + 1 \in S
  <2>1. PICK flat : FlattensTo(wires, m, flat)
    BY <1>2
  <2> DEFINE next == [i \in 1 .. m + 1 |->
                IF i = m + 1 THEN IF i = 1 THEN wires[i] ELSE flat[m] \o wires[i] ELSE flat[i]]
  <2>2. \A i \in 1 .. m + 1 : next[i] = IF i = 1 THEN wires[i] ELSE next[i - 1] \o wires[i]
    <3> SUFFICES ASSUME NEW i \in 1 .. m + 1
                 PROVE  next[i] = IF i = 1 THEN wires[i] ELSE next[i - 1] \o wires[i]
      OBVIOUS
    <3>1. CASE i = m + 1
      BY <3>1
    <3>2. CASE i # m + 1
      <4>1. i \in 1 .. m /\ next[i] = flat[i] /\ (i # 1 => i - 1 \in 1 .. m)
        BY <3>2
      <4>2. i # 1 => next[i - 1] = flat[i - 1]
        BY <4>1
      <4>3. flat[i] = IF i = 1 THEN wires[i] ELSE flat[i - 1] \o wires[i]
        BY <2>1, <4>1 DEF FlattensTo
      <4> QED BY <4>1, <4>2, <4>3
    <3> QED BY <3>1, <3>2
  <2>3. FlattensTo(wires, m + 1, next)
    BY <2>2 DEF FlattensTo
  <2> QED BY <2>3
<1> HIDE DEF S
<1>3. Nat \subseteq S
  BY <1>1, <1>2, SetInduction
<1> QED BY <1>3 DEF S

LEMMA BytesOfAll ==
    ASSUME NEW wires, NEW n \in Nat, Len(wires) = n, wires = <<>> <=> n = 0,
           \A i \in 1 .. n : wires[i] \in Wires,
           NEW sizes, \A i \in 1 .. n : ByteCount(wires[i]) = sizes[i]
    PROVE  FlattenSeq(wires) \in Wires /\ ByteCount(FlattenSeq(wires)) = SumOfFirst(sizes, n)
<1>1. CASE n = 0
  BY <1>1, BytesOfNone, SumOfFirstNext DEF FlattenSeq
<1>2. CASE n # 0
  <2> DEFINE flatten == CHOOSE flat : FlattensTo(wires, n, flat)
  <2>1. FlattensTo(wires, n, flatten)
    BY FlattenExists
  <2>2. FlattenSeq(wires) = flatten[n]
    BY <1>2 DEF FlattenSeq, FlattensTo
  <2> HIDE DEF flatten
  <2>3. \A i \in 1 .. n : flatten[i] = IF i = 1 THEN wires[i] ELSE flatten[i - 1] \o wires[i]
    BY <2>1 DEF FlattensTo
  <2> DEFINE S == {i \in Nat : i \in 1 .. n => /\ flatten[i] \in Wires
                                               /\ ByteCount(flatten[i]) = SumOfFirst(sizes, i)}
  <2>4. 0 \in S
    OBVIOUS
  <2>5. ASSUME NEW i \in Nat, i \in S PROVE i + 1 \in S
    <3> SUFFICES ASSUME i + 1 \in 1 .. n
                 PROVE  /\ flatten[i + 1] \in Wires
                        /\ ByteCount(flatten[i + 1]) = SumOfFirst(sizes, i + 1)
      OBVIOUS
    <3>1. SumOfFirst(sizes, i + 1) = SumOfFirst(sizes, i) + sizes[i + 1] /\ SumOfFirst(sizes, 0) = 0
      BY SumOfFirstNext
    <3>2. wires[i + 1] \in Wires /\ ByteCount(wires[i + 1]) = sizes[i + 1]
          /\ ByteCount(wires[i + 1]) \in Nat
      BY BytesType
    <3>3. CASE i = 0
      <4>1. flatten[i + 1] = wires[i + 1]
        BY <2>3, <3>3
      <4> QED BY <3>1, <3>2, <3>3, <4>1
    <3>4. CASE i # 0
      <4>1. flatten[i + 1] = flatten[i] \o wires[i + 1]
        <5>1. i + 1 # 1 /\ (i + 1) - 1 = i
          BY <3>4
        <5>2. flatten[i + 1] = flatten[(i + 1) - 1] \o wires[i + 1]
          BY <2>3, <5>1
        <5> QED BY <5>1, <5>2
      <4>2. flatten[i] \in Wires /\ ByteCount(flatten[i]) = SumOfFirst(sizes, i)
        BY <2>5, <3>4
      <4> QED BY <3>1, <3>2, <4>1, <4>2, BytesOfBoth
    <3> QED BY <3>3, <3>4
  <2> HIDE DEF S
  <2>6. Nat \subseteq S
    BY <2>4, <2>5, SetInduction
  <2>7. n \in S /\ n \in 1 .. n
    BY <1>2, <2>6
  <2> QED BY <2>2, <2>7 DEF S
<1> QED BY <1>1, <1>2

-----------------------------------------------------------------------------
(* A wire takes so many bytes. *)
Takes(wire, bytes) == wire \in Wires /\ bytes \in Nat /\ ByteCount(wire) = bytes

LEMMA FieldTakes == \A bytes \in Nat, number \in Int : Takes(Field(bytes, number), bytes)
BY BytesOfField DEF Takes

LEMMA IntsTake ==
    \A number \in Int :
        Takes(Int16(number), 2) /\ Takes(Int32(number), 4) /\ Takes(Int64(number), 8)
BY FieldTakes DEF Int16, Int32, Int64

LEMMA BothTake ==
    \A a, b, m, n : Takes(a, m) /\ Takes(b, n) => Takes(a \o b, m + n)
<1> SUFFICES ASSUME NEW a, NEW b, NEW m, NEW n, Takes(a, m), Takes(b, n)
             PROVE  Takes(a \o b, m + n)
  OBVIOUS
<1>1. a \in Wires /\ b \in Wires /\ m \in Nat /\ n \in Nat
      /\ ByteCount(a) = m /\ ByteCount(b) = n
  BY DEF Takes
<1>2. a \o b \in Wires /\ ByteCount(a \o b) = m + n
  BY <1>1, BytesOfBoth
<1> QED BY <1>1, <1>2 DEF Takes

LEMMA StringTakes == \A length \in Nat : Takes(String(length), 2 + length)
<1> SUFFICES ASSUME NEW length \in Nat PROVE Takes(String(length), 2 + length)
  OBVIOUS
<1>1. Takes(Int16(length), 2) /\ Takes(Field(length, length), length)
  BY IntsTake, FieldTakes
<1> QED BY <1>1, BothTake DEF String

(* An array of n elements, the i-th of which takes sizes[i] bytes. *)
LEMMA ElementsTake ==
    ASSUME NEW n \in Nat, NEW wires, NEW sizes, wires \in Seq(Wires), Len(wires) = n,
           \A i \in 1 .. n : Takes(wires[i], sizes[i])
    PROVE  Takes(Int32(n) \o FlattenSeq(wires), 4 + SumOfFirst(sizes, n))
<1>1. wires = <<>> <=> n = 0
  BY EmptySeq
<1>2. \A i \in 1 .. n : wires[i] \in Wires /\ ByteCount(wires[i]) = sizes[i]
  BY DEF Takes
<1>3. FlattenSeq(wires) \in Wires /\ ByteCount(FlattenSeq(wires)) = SumOfFirst(sizes, n)
  BY <1>1, <1>2, BytesOfAll
<1>4. Takes(FlattenSeq(wires), SumOfFirst(sizes, n))
  BY <1>3, BytesType DEF Takes
<1>5. Takes(Int32(n), 4)
  BY IntsTake
<1> QED BY <1>4, <1>5, BothTake

(* The same where all of them take as many. *)
LEMMA EqualsTake ==
    ASSUME NEW n \in Nat, NEW wires, NEW bytes \in Nat, wires \in Seq(Wires), Len(wires) = n,
           \A i \in 1 .. n : Takes(wires[i], bytes)
    PROVE  Takes(Int32(n) \o FlattenSeq(wires), 4 + n * bytes)
<1> DEFINE sizes == [i \in 1 .. n |-> bytes]
<1>1. \A i \in 1 .. n : sizes[i] = bytes
  OBVIOUS
<1> HIDE DEF sizes
<1>2. \A i \in 1 .. n : Takes(wires[i], sizes[i])
  BY <1>1
<1>3. Takes(Int32(n) \o FlattenSeq(wires), 4 + SumOfFirst(sizes, n))
  BY <1>2, ElementsTake
<1>4. SumOfFirst(sizes, n) = n * bytes
  BY <1>1, SumOfEqual
<1> QED BY <1>3, <1>4

LEMMA OneTakes ==
    ASSUME NEW wire, NEW bytes, Takes(wire, bytes)
    PROVE  Takes(Int32(1) \o FlattenSeq(<<wire>>), 4 + bytes)
<1>1. wire \in Wires /\ bytes \in Nat
  BY DEF Takes
<1>2. <<wire>> \in Seq(Wires) /\ Len(<<wire>>) = 1 /\ <<wire>>[1] = wire
  BY <1>1
<1>3. \A i \in 1 .. 1 : Takes(<<wire>>[i], bytes)
  BY <1>2
<1>4. Takes(Int32(1) \o FlattenSeq(<<wire>>), 4 + 1 * bytes)
  BY <1>1, <1>2, <1>3, EqualsTake
<1> QED BY <1>1, <1>4

-----------------------------------------------------------------------------
(* What readers get off the front of a wire. *)
LEMMA FieldFirst ==
    ASSUME NEW bytes \in Nat \ {0}, NEW number \in Int, NEW rest \in Wires
    PROVE  LET wire == Field(bytes, number) \o rest
           IN  /\ wire \in Wires
               /\ StartsWith(wire, bytes)
               /\ Head(wire).number = number
               /\ Tail(wire) = rest
<1> DEFINE field == [bytes |-> bytes, number |-> number]
           wire == <<field>> \o rest
<1>1. field \in Fields /\ Field(bytes, number) = <<field>>
  BY DEF Field, Fields
<1>2. field.bytes = bytes /\ field.number = number
  OBVIOUS
<1> HIDE DEF field
<1>3. /\ wire \in Wires /\ Len(wire) = 1 + Len(rest) /\ wire[1] = field
      /\ \A i \in 1 .. Len(rest) : wire[i + 1] = rest[i]
  <2>1. <<field>> \in Seq(Fields) /\ Len(<<field>>) = 1 /\ <<field>>[1] = field
    BY <1>1
  <2>2. Len(rest) \in Nat
    BY LenProperties
  <2>3. wire \in Seq(Fields) /\ Len(wire) = Len(<<field>>) + Len(rest)
    BY <2>1, ConcatProperties
  <2>4. \A i \in 1 .. Len(<<field>>) + Len(rest) :
            wire[i] = IF i <= Len(<<field>>) THEN <<field>>[i] ELSE rest[i - Len(<<field>>)]
    BY <2>1, ConcatProperties
  <2> HIDE DEF wire
  <2>5. wire[1] = field
    BY <2>1, <2>2, <2>4
  <2>6. ASSUME NEW i \in 1 .. Len(rest) PROVE wire[i + 1] = rest[i]
    <3>1. i + 1 \in 1 .. 1 + Len(rest) /\ ~(i + 1 <= 1) /\ (i + 1) - 1 = i
      BY <2>2
    <3> QED BY <2>1, <2>4, <3>1
  <2> QED BY <2>1, <2>3, <2>5, <2>6
<1> HIDE DEF wire
<1>4. Len(rest) \in Nat /\ wire # <<>> /\ Head(wire) = field
  <2>1. Len(rest) \in Nat
    BY LenProperties
  <2>2. wire # <<>>
    BY <1>3, <2>1, EmptySeq
  <2> QED BY <1>3, <2>1, <2>2
<1>5. Tail(wire) = rest
  <2>1. Tail(wire) \in Seq(Fields) /\ Len(Tail(wire)) = Len(rest)
        /\ \A i \in 1 .. Len(rest) : Tail(wire)[i] = wire[i + 1]
    BY <1>3, <1>4, HeadTailProperties
  <2> QED BY <1>3, <2>1, SeqEqual
<1>6. wire \in Wires /\ StartsWith(wire, bytes) /\ Head(wire).number = number /\ Tail(wire) = rest
  BY <1>2, <1>3, <1>4, <1>5 DEF StartsWith
<1> QED BY <1>1, <1>6 DEF wire

(* A reader gets a value off the front of a wire, whatever follows. *)
Reads(reader, wire, value) ==
    /\ wire \in Wires
    /\ \A rest \in Wires : reader[wire \o rest] = Got(value, rest)

LEMMA NumberReads ==
    \A bytes \in Nat \ {0}, number \in Int : Reads(Number(bytes), Field(bytes, number), number)
<1> SUFFICES ASSUME NEW bytes \in Nat \ {0}, NEW number \in Int
             PROVE  Reads(Number(bytes), Field(bytes, number), number)
  OBVIOUS
<1>1. Field(bytes, number) \in Wires
  BY BytesOfField
<1>2. ASSUME NEW rest \in Wires
      PROVE  Number(bytes)[Field(bytes, number) \o rest] = Got(number, rest)
  <2> DEFINE wire == Field(bytes, number) \o rest
  <2>1. wire \in Wires /\ StartsWith(wire, bytes) /\ Head(wire).number = number /\ Tail(wire) = rest
    BY FieldFirst
  <2> HIDE DEF wire
  <2>2. Number(bytes)[wire] = Got(number, rest)
    BY <2>1 DEF Number
  <2> QED BY <2>2 DEF wire
<1> QED BY <1>1, <1>2 DEF Reads

LEMMA IntsRead ==
    \A number \in Int : /\ Reads(Number(2), Int16(number), number)
                        /\ Reads(Number(4), Int32(number), number)
                        /\ Reads(Number(8), Int64(number), number)
BY NumberReads DEF Int16, Int32, Int64

(* Error codes: 0, and any other. *)
LEMMA NoErrorReads == Reads(ErrorCode, Int16(0), 0)
<1>1. Reads(Number(2), Int16(0), 0)
  BY IntsRead
<1>2. ASSUME NEW rest \in Wires PROVE ErrorCode[Int16(0) \o rest] = Number(2)[Int16(0) \o rest]
  <2> DEFINE wire == Field(2, 0) \o rest
  <2>1. 2 \in Nat \ {0} /\ 0 \in Int
    OBVIOUS
  <2>2. wire \in Wires /\ Head(wire).number = 0
    BY <2>1, FieldFirst
  <2> HIDE DEF wire
  <2>3. ErrorCode[wire] = Number(2)[wire]
    BY <2>2 DEF ErrorCode
  <2> QED BY <2>3 DEF wire, Int16
<1> QED BY <1>1, <1>2 DEF Reads

LEMMA ErrorThrows ==
    ASSUME NEW error \in Int \ {0}, NEW rest \in Wires
    PROVE  ErrorCode[Int16(error) \o rest] = Stops("thrown")
<1> DEFINE wire == Field(2, error) \o rest
<1>1. 2 \in Nat \ {0} /\ error \in Int
  OBVIOUS
<1>2. wire \in Wires /\ StartsWith(wire, 2) /\ Head(wire).number = error
  BY <1>1, FieldFirst
<1> HIDE DEF wire
<1>3. ErrorCode[wire] = Stops("thrown")
  BY <1>2 DEF ErrorCode
<1> QED BY <1>3 DEF wire, Int16

(* Characters, and their number in so many bytes. *)
LEMMA CharactersRead ==
    ASSUME NEW bytes \in Nat \ {0}, NEW length \in Nat
    PROVE  Reads(Characters(bytes), Field(bytes, length) \o Field(length, length), length)
<1>1. Field(bytes, length) \in Wires /\ Field(length, length) \in Wires
  BY BytesOfField
<1>2. Field(bytes, length) \o Field(length, length) \in Wires
  BY <1>1, BytesOfBoth
<1>3. SUFFICES ASSUME NEW rest \in Wires
               PROVE  Characters(bytes)[(Field(bytes, length) \o Field(length, length)) \o rest]
                        = Got(length, rest)
  BY <1>2 DEF Reads
<1> DEFINE after == Field(length, length) \o rest
           wire == Field(bytes, length) \o after
<1>4. (Field(bytes, length) \o Field(length, length)) \o rest = wire
  BY <1>1, ConcatAssociative
<1>5. after \in Wires
  BY <1>1, BytesOfBoth
<1>6. length = 0 => after = rest
  <2> SUFFICES ASSUME length = 0 PROVE after = rest
    OBVIOUS
  <2>1. Field(length, length) = <<>>
    BY DEF Field
  <2> QED BY <2>1, ConcatEmptySeq
<1>7. length # 0 => StartsWith(after, length) /\ Tail(after) = rest
  BY FieldFirst
<1> HIDE DEF after
<1>8. wire \in Wires /\ StartsWith(wire, bytes) /\ Head(wire).number = length /\ Tail(wire) = after
  <2>1. length \in Int
    OBVIOUS
  <2> QED BY <1>5, <2>1, FieldFirst
<1> HIDE DEF wire
<1>9. Characters(bytes)[wire] = Got(length, rest)
  BY <1>6, <1>7, <1>8 DEF Characters
<1> QED BY <1>4, <1>9

LEMMA StringReads == \A length \in Nat : Reads(Characters(2), String(length), length)
BY CharactersRead DEF String, Int16

-----------------------------------------------------------------------------
(* FirstInTurn is defined by recursion too: that there is a function that  *)
(* satisfies the equation.                                                 *)
TurnsTo(readers, wire, n, got) ==
    got = [i \in 0 .. n |->
            IF i = 0 THEN Got(<<>>, wire) ELSE Then(readers[i], got[i - 1])]

LEMMA TurnsExist ==
    ASSUME NEW readers, NEW wire
    PROVE  \A n \in Nat : \E got : TurnsTo(readers, wire, n, got)
<1> DEFINE S == {n \in Nat : \E got : TurnsTo(readers, wire, n, got)}
<1>1. 0 \in S
  <2> DEFINE got == [i \in 0 .. 0 |-> Got(<<>>, wire)]
  <2>1. TurnsTo(readers, wire, 0, got)
    BY DEF TurnsTo
  <2> QED BY <2>1
<1>2. ASSUME NEW n \in Nat, n \in S PROVE n + 1 \in S
  <2>1. PICK got : TurnsTo(readers, wire, n, got)
    BY <1>2
  <2> DEFINE more == [i \in 0 .. n + 1 |->
                        IF i = n + 1 THEN Then(readers[n + 1], got[n]) ELSE got[i]]
  <2>2. \A i \in 0 .. n + 1 :
            more[i] = IF i = 0 THEN Got(<<>>, wire) ELSE Then(readers[i], more[i - 1])
    <3> SUFFICES ASSUME NEW i \in 0 .. n + 1
                 PROVE  more[i] = IF i = 0 THEN Got(<<>>, wire) ELSE Then(readers[i], more[i - 1])
      OBVIOUS
    <3>1. CASE i = n + 1
      BY <3>1
    <3>2. CASE i # n + 1
      BY <2>1, <3>2 DEF TurnsTo
    <3> QED BY <3>1, <3>2
  <2>3. TurnsTo(readers, wire, n + 1, more)
    BY <2>2 DEF TurnsTo
  <2> QED BY <2>3
<1> HIDE DEF S
<1>3. Nat \subseteq S
  BY <1>1, <1>2, SetInduction
<1> QED BY <1>3 DEF S

LEMMA TurnsUnique ==
    ASSUME NEW readers, NEW wire, NEW n \in Nat, NEW m \in Nat, n <= m, NEW g, NEW h,
           TurnsTo(readers, wire, n, g), TurnsTo(readers, wire, m, h)
    PROVE  g[n] = h[n]
<1> DEFINE S == {i \in Nat : i <= n => g[i] = h[i]}
<1>1. 0 \in S
  BY DEF TurnsTo
<1>2. ASSUME NEW i \in Nat, i \in S PROVE i + 1 \in S
  BY <1>2 DEF TurnsTo
<1> HIDE DEF S
<1>3. Nat \subseteq S
  BY <1>1, <1>2, SetInduction
<1> QED BY <1>3 DEF S

LEMMA TurnNext ==
    ASSUME NEW readers, NEW wire
    PROVE  /\ FirstInTurn(readers, 0, wire) = Got(<<>>, wire)
           /\ \A n \in Nat : FirstInTurn(readers, n + 1, wire)
                                = Then(readers[n + 1], FirstInTurn(readers, n, wire))
<1> DEFINE Turns(h) == h = [i \in Nat |->
                IF i = 0 THEN Got(<<>>, wire) ELSE Then(readers[i], h[i - 1])]
           turns == CHOOSE h : Turns(h)
           upTo(n) == CHOOSE h : TurnsTo(readers, wire, n, h)
           t == [n \in Nat |-> upTo(n)[n]]
<1>1. \A n \in Nat : TurnsTo(readers, wire, n, upTo(n))
  BY TurnsExist
<1> HIDE DEF upTo
<1>2. \A n \in Nat : t[n] = IF n = 0 THEN Got(<<>>, wire) ELSE Then(readers[n], t[n - 1])
  <2> SUFFICES ASSUME NEW n \in Nat
               PROVE  t[n] = IF n = 0 THEN Got(<<>>, wire) ELSE Then(readers[n], t[n - 1])
    OBVIOUS
  <2>1. \A m \in 0 .. n :
            upTo(n)[m] = IF m = 0 THEN Got(<<>>, wire) ELSE Then(readers[m], upTo(n)[m - 1])
    <3>1. TurnsTo(readers, wire, n, upTo(n))
      BY <1>1
    <3> QED BY <3>1 DEF TurnsTo
  <2>2. CASE n = 0
    BY <2>1, <2>2
  <2>3. CASE n # 0
    <3>1. TurnsTo(readers, wire, n - 1, upTo(n - 1)) /\ TurnsTo(readers, wire, n, upTo(n))
      BY <1>1, <2>3
    <3>2. upTo(n - 1)[n - 1] = upTo(n)[n - 1]
      BY <3>1, <2>3, TurnsUnique
    <3> QED BY <2>1, <3>2, <2>3
  <2> QED BY <2>2, <2>3
<1>3. Turns(t)
  BY <1>2
<1>4. Turns(turns)
  <2> HIDE DEF Turns, t
  <2> QED BY <1>3
<1>5. \A n \in Nat : FirstInTurn(readers, n, wire) = turns[n]
  BY DEF FirstInTurn
<1> HIDE DEF turns
<1>6. \A n \in Nat : turns[n] = IF n = 0 THEN Got(<<>>, wire) ELSE Then(readers[n], turns[n - 1])
  BY <1>4
<1> QED BY <1>5, <1>6

(* Once a reader has stopped, the others do not read. *)
LEMMA StopsForGood ==
    ASSUME NEW readers, NEW wire, NEW how, how # "read", NEW n \in Nat, NEW m \in Nat, n <= m,
           FirstInTurn(readers, n, wire) = Stops(how)
    PROVE  FirstInTurn(readers, m, wire) = Stops(how)
<1> DEFINE S == {i \in Nat : n <= i => FirstInTurn(readers, i, wire) = Stops(how)}
<1>1. 0 \in S
  OBVIOUS
<1>2. ASSUME NEW i \in Nat, i \in S PROVE i + 1 \in S
  <2>1. FirstInTurn(readers, i + 1, wire) = Then(readers[i + 1], FirstInTurn(readers, i, wire))
    BY TurnNext
  <2>2. Stops(how).how # "read"
    BY DEF Stops
  <2>3. \A reader : Then(reader, Stops(how)) = Stops(how)
    BY <2>2 DEF Then
  <2>4. CASE n = i + 1
    BY <2>4
  <2>5. CASE n <= i
    BY <1>2, <2>1, <2>3, <2>5
  <2>6. CASE n > i + 1
    BY <2>6
  <2> QED BY <2>4, <2>5, <2>6
<1> HIDE DEF S
<1>3. Nat \subseteq S
  BY <1>1, <1>2, SetInduction
<1> QED BY <1>3 DEF S

(* The first n readers get these values off the front of a wire. *)
ReadsFirst(readers, n, wire, values) ==
    /\ wire \in Wires
    /\ \A rest \in Wires : FirstInTurn(readers, n, wire \o rest) = Got(values, rest)

LEMMA FirstNone == \A readers : ReadsFirst(readers, 0, <<>>, <<>>)
<1> SUFFICES ASSUME NEW readers PROVE ReadsFirst(readers, 0, <<>>, <<>>)
  OBVIOUS
<1>1. <<>> \in Wires
  BY BytesOfNone
<1>2. ASSUME NEW rest \in Wires PROVE FirstInTurn(readers, 0, <<>> \o rest) = Got(<<>>, rest)
  <2>1. <<>> \o rest = rest
    BY ConcatEmptySeq
  <2> QED BY <2>1, TurnNext
<1> QED BY <1>1, <1>2 DEF ReadsFirst

LEMMA ThenReads ==
    ASSUME NEW reader, NEW values, NEW wire, NEW value, NEW rest, reader[wire] = Got(value, rest)
    PROVE  Then(reader, Got(values, wire)) = Got(Append(values, value), rest)
<1> DEFINE before == Got(values, wire)
           got == Got(value, rest)
<1>1. before.how = "read" /\ before.rest = wire /\ before.value = values
  BY DEF Got
<1>2. got.how = "read" /\ got.rest = rest /\ got.value = value
  BY DEF Got
<1> HIDE DEF before, got
<1>3. reader[before.rest] = got
  BY <1>1 DEF got
<1>4. Then(reader, before) = Got(Append(before.value, got.value), got.rest)
  BY <1>1, <1>2, <1>3 DEF Then
<1> QED BY <1>1, <1>2, <1>4 DEF before

LEMMA FirstNext ==
    ASSUME NEW readers, NEW n \in Nat, NEW wire, NEW values, ReadsFirst(readers, n, wire, values),
           NEW next, NEW value, Reads(readers[n + 1], next, value)
    PROVE  ReadsFirst(readers, n + 1, wire \o next, Append(values, value))
<1>1. wire \in Wires /\ next \in Wires
  BY DEF ReadsFirst, Reads
<1>2. wire \o next \in Wires
  BY <1>1, BytesOfBoth
<1>3. ASSUME NEW rest \in Wires
      PROVE  FirstInTurn(readers, n + 1, (wire \o next) \o rest) = Got(Append(values, value), rest)
  <2>1. next \o rest \in Wires
    BY <1>1, BytesOfBoth
  <2>2. (wire \o next) \o rest = wire \o (next \o rest)
    BY <1>1, ConcatAssociative
  <2>3. FirstInTurn(readers, n, wire \o (next \o rest)) = Got(values, next \o rest)
    BY <2>1 DEF ReadsFirst
  <2>4. readers[n + 1][next \o rest] = Got(value, rest)
    BY DEF Reads
  <2>5. Then(readers[n + 1], Got(values, next \o rest)) = Got(Append(values, value), rest)
    BY <2>4, ThenReads
  <2> QED BY <2>2, <2>3, <2>5, TurnNext
<1> QED BY <1>2, <1>3 DEF ReadsFirst

(* Tuples, and one more element. *)
Longer(S, s, e, t) ==
    /\ s \in Seq(S) /\ e \in S /\ t \in Seq(S)
    /\ Len(t) = Len(s) + 1
    /\ \A i \in 1 .. Len(s) : t[i] = s[i]
    /\ t[Len(s) + 1] = e

LEMMA AppendIs ==
    ASSUME NEW S, NEW s, NEW e, NEW t, Longer(S, s, e, t)
    PROVE  Append(s, e) = t
<1>0. /\ s \in Seq(S) /\ e \in S /\ t \in Seq(S) /\ Len(t) = Len(s) + 1
      /\ t[Len(s) + 1] = e
      /\ \A i \in 1 .. Len(s) : t[i] = s[i]
  BY DEF Longer
<1>1. /\ Append(s, e) \in Seq(S) /\ Len(Append(s, e)) = Len(s) + 1
      /\ \A i \in 1 .. Len(s) : Append(s, e)[i] = s[i]
      /\ Append(s, e)[Len(s) + 1] = e
  BY <1>0, AppendProperties
<1>2. Len(s) \in Nat
  BY <1>0, LenProperties
<1>3. \A i \in 1 .. Len(t) : Append(s, e)[i] = t[i]
  BY <1>0, <1>1, <1>2
<1> QED BY <1>0, <1>1, <1>3, SeqEqual

LEMMA AppendTwo ==
    ASSUME NEW v1, NEW v2
    PROVE  Append(<<v1>>, v2) = <<v1, v2>>
<1> DEFINE S == {v1, v2}
           s == <<v1>>
           t == <<v1, v2>>
<1>1. /\ s \in Seq(S) /\ t \in Seq(S) /\ v2 \in S
      /\ Len(s) = 1 /\ Len(t) = 2 /\ t[2] = v2
  OBVIOUS
<1>2. \A i \in 1 .. 1 : t[i] = s[i]
  OBVIOUS
<1> HIDE DEF S, s, t
<1>3. Longer(S, s, v2, t)
  BY <1>1, <1>2 DEF Longer
<1>4. Append(s, v2) = t
  BY <1>3, AppendIs
<1> QED BY <1>4 DEF s, t

LEMMA AppendThree ==
    ASSUME NEW v1, NEW v2, NEW v3
    PROVE  Append(<<v1, v2>>, v3) = <<v1, v2, v3>>
<1> DEFINE S == {v1, v2, v3}
           s == <<v1, v2>>
           t == <<v1, v2, v3>>
<1>1. /\ s \in Seq(S) /\ t \in Seq(S) /\ v3 \in S
      /\ Len(s) = 2 /\ Len(t) = 3 /\ t[3] = v3
  OBVIOUS
<1>2. \A i \in 1 .. 2 : t[i] = s[i]
  OBVIOUS
<1> HIDE DEF S, s, t
<1>3. Longer(S, s, v3, t)
  BY <1>1, <1>2 DEF Longer
<1>4. Append(s, v3) = t
  BY <1>3, AppendIs
<1> QED BY <1>4 DEF s, t

LEMMA AppendFour ==
    ASSUME NEW v1, NEW v2, NEW v3, NEW v4
    PROVE  Append(<<v1, v2, v3>>, v4) = <<v1, v2, v3, v4>>
<1> DEFINE S == {v1, v2, v3, v4}
           s == <<v1, v2, v3>>
           t == <<v1, v2, v3, v4>>
<1>1. /\ s \in Seq(S) /\ t \in Seq(S) /\ v4 \in S
      /\ Len(s) = 3 /\ Len(t) = 4 /\ t[4] = v4
  OBVIOUS
<1>2. \A i \in 1 .. 3 : t[i] = s[i]
  OBVIOUS
<1> HIDE DEF S, s, t
<1>3. Longer(S, s, v4, t)
  BY <1>1, <1>2 DEF Longer
<1>4. Append(s, v4) = t
  BY <1>3, AppendIs
<1> QED BY <1>4 DEF s, t

LEMMA AppendFive ==
    ASSUME NEW v1, NEW v2, NEW v3, NEW v4, NEW v5
    PROVE  Append(<<v1, v2, v3, v4>>, v5) = <<v1, v2, v3, v4, v5>>
<1> DEFINE S == {v1, v2, v3, v4, v5}
           s == <<v1, v2, v3, v4>>
           t == <<v1, v2, v3, v4, v5>>
<1>1. /\ s \in Seq(S) /\ t \in Seq(S) /\ v5 \in S
      /\ Len(s) = 4 /\ Len(t) = 5 /\ t[5] = v5
  OBVIOUS
<1>2. \A i \in 1 .. 4 : t[i] = s[i]
  OBVIOUS
<1> HIDE DEF S, s, t
<1>3. Longer(S, s, v5, t)
  BY <1>1, <1>2 DEF Longer
<1>4. Append(s, v5) = t
  BY <1>3, AppendIs
<1> QED BY <1>4 DEF s, t

LEMMA AppendSix ==
    ASSUME NEW v1, NEW v2, NEW v3, NEW v4, NEW v5, NEW v6
    PROVE  Append(<<v1, v2, v3, v4, v5>>, v6) = <<v1, v2, v3, v4, v5, v6>>
<1> DEFINE S == {v1, v2, v3, v4, v5, v6}
           s == <<v1, v2, v3, v4, v5>>
           t == <<v1, v2, v3, v4, v5, v6>>
<1>1. /\ s \in Seq(S) /\ t \in Seq(S) /\ v6 \in S
      /\ Len(s) = 5 /\ Len(t) = 6 /\ t[6] = v6
  OBVIOUS
<1>2. \A i \in 1 .. 5 : t[i] = s[i]
  OBVIOUS
<1> HIDE DEF S, s, t
<1>3. Longer(S, s, v6, t)
  BY <1>1, <1>2 DEF Longer
<1>4. Append(s, v6) = t
  BY <1>3, AppendIs
<1> QED BY <1>4 DEF s, t

LEMMA AppendSeven ==
    ASSUME NEW v1, NEW v2, NEW v3, NEW v4, NEW v5, NEW v6, NEW v7
    PROVE  Append(<<v1, v2, v3, v4, v5, v6>>, v7) = <<v1, v2, v3, v4, v5, v6, v7>>
<1> DEFINE S == {v1, v2, v3, v4, v5, v6, v7}
           s == <<v1, v2, v3, v4, v5, v6>>
           t == <<v1, v2, v3, v4, v5, v6, v7>>
<1>1. /\ s \in Seq(S) /\ t \in Seq(S) /\ v7 \in S
      /\ Len(s) = 6 /\ Len(t) = 7 /\ t[7] = v7
  OBVIOUS
<1>2. \A i \in 1 .. 6 : t[i] = s[i]
  OBVIOUS
<1> HIDE DEF S, s, t
<1>3. Longer(S, s, v7, t)
  BY <1>1, <1>2 DEF Longer
<1>4. Append(s, v7) = t
  BY <1>3, AppendIs
<1> QED BY <1>4 DEF s, t

LEMMA AppendEight ==
    ASSUME NEW v1, NEW v2, NEW v3, NEW v4, NEW v5, NEW v6, NEW v7, NEW v8
    PROVE  Append(<<v1, v2, v3, v4, v5, v6, v7>>, v8) = <<v1, v2, v3, v4, v5, v6, v7, v8>>
<1> DEFINE S == {v1, v2, v3, v4, v5, v6, v7, v8}
           s == <<v1, v2, v3, v4, v5, v6, v7>>
           t == <<v1, v2, v3, v4, v5, v6, v7, v8>>
<1>1. /\ s \in Seq(S) /\ t \in Seq(S) /\ v8 \in S
      /\ Len(s) = 7 /\ Len(t) = 8 /\ t[8] = v8
  OBVIOUS
<1>2. \A i \in 1 .. 7 : t[i] = s[i]
  OBVIOUS
<1> HIDE DEF S, s, t
<1>3. Longer(S, s, v8, t)
  BY <1>1, <1>2 DEF Longer
<1>4. Append(s, v8) = t
  BY <1>3, AppendIs
<1> QED BY <1>4 DEF s, t

(* So many readers in turn. *)
LEMMA FirstOne ==
    ASSUME NEW readers, NEW w1, NEW v1, Reads(readers[1], w1, v1)
    PROVE  ReadsFirst(readers, 1, w1, <<v1>>)
<1>1. ReadsFirst(readers, 0 + 1, <<>> \o w1, Append(<<>>, v1))
  <2>1. ReadsFirst(readers, 0, <<>>, <<>>) /\ Reads(readers[0 + 1], w1, v1)
    BY FirstNone
  <2> QED BY <2>1, FirstNext
<1>2. <<>> \o w1 = w1
  BY ConcatEmptySeq DEF Reads
<1>3. Append(<<>>, v1) = <<v1>>
  OBVIOUS
<1> QED BY <1>1, <1>2, <1>3

LEMMA FirstTwo ==
    ASSUME NEW readers, NEW w1, NEW v1, NEW w2, NEW v2,
           Reads(readers[1], w1, v1), Reads(readers[2], w2, v2)
    PROVE  ReadsFirst(readers, 2, w1 \o w2, <<v1, v2>>)
<1>1. ReadsFirst(readers, 1, w1, <<v1>>)
  BY FirstOne
<1>2. ReadsFirst(readers, 2, w1 \o w2, Append(<<v1>>, v2))
  <2>1. 1 + 1 = 2 /\ 1 \in Nat
    OBVIOUS
  <2> QED BY <1>1, <2>1, FirstNext
<1>3. Append(<<v1>>, v2) = <<v1, v2>>
  BY AppendTwo
<1> QED BY <1>2, <1>3, Zenon

LEMMA FirstThree ==
    ASSUME NEW readers, NEW w1, NEW v1, NEW w2, NEW v2, NEW w3, NEW v3,
           Reads(readers[1], w1, v1), Reads(readers[2], w2, v2), Reads(readers[3], w3, v3)
    PROVE  ReadsFirst(readers, 3, (w1 \o w2) \o w3, <<v1, v2, v3>>)
<1>1. ReadsFirst(readers, 2, w1 \o w2, <<v1, v2>>)
  BY FirstTwo
<1>2. ReadsFirst(readers, 3, (w1 \o w2) \o w3, Append(<<v1, v2>>, v3))
  <2>1. 2 + 1 = 3 /\ 2 \in Nat
    OBVIOUS
  <2> QED BY <1>1, <2>1, FirstNext
<1>3. Append(<<v1, v2>>, v3) = <<v1, v2, v3>>
  BY AppendThree
<1> QED BY <1>2, <1>3, Zenon

LEMMA FirstFour ==
    ASSUME NEW readers, NEW w1, NEW v1, NEW w2, NEW v2, NEW w3, NEW v3, NEW w4, NEW v4,
           Reads(readers[1], w1, v1), Reads(readers[2], w2, v2), Reads(readers[3], w3, v3),
           Reads(readers[4], w4, v4)
    PROVE  ReadsFirst(readers, 4, ((w1 \o w2) \o w3) \o w4, <<v1, v2, v3, v4>>)
<1>1. ReadsFirst(readers, 3, (w1 \o w2) \o w3, <<v1, v2, v3>>)
  BY FirstThree
<1>2. ReadsFirst(readers, 4, ((w1 \o w2) \o w3) \o w4, Append(<<v1, v2, v3>>, v4))
  <2>1. 3 + 1 = 4 /\ 3 \in Nat
    OBVIOUS
  <2> QED BY <1>1, <2>1, FirstNext
<1>3. Append(<<v1, v2, v3>>, v4) = <<v1, v2, v3, v4>>
  BY AppendFour
<1> QED BY <1>2, <1>3, Zenon

LEMMA FirstFive ==
    ASSUME NEW readers, NEW w1, NEW v1, NEW w2, NEW v2, NEW w3, NEW v3, NEW w4, NEW v4,
           NEW w5, NEW v5,
           Reads(readers[1], w1, v1), Reads(readers[2], w2, v2), Reads(readers[3], w3, v3),
           Reads(readers[4], w4, v4), Reads(readers[5], w5, v5)
    PROVE  ReadsFirst(readers, 5, (((w1 \o w2) \o w3) \o w4) \o w5, <<v1, v2, v3, v4, v5>>)
<1>1. ReadsFirst(readers, 4, ((w1 \o w2) \o w3) \o w4, <<v1, v2, v3, v4>>)
  BY FirstFour
<1>2. ReadsFirst(readers, 5, (((w1 \o w2) \o w3) \o w4) \o w5, Append(<<v1, v2, v3, v4>>, v5))
  <2>1. 4 + 1 = 5 /\ 4 \in Nat
    OBVIOUS
  <2> QED BY <1>1, <2>1, FirstNext
<1>3. Append(<<v1, v2, v3, v4>>, v5) = <<v1, v2, v3, v4, v5>>
  BY AppendFive
<1> QED BY <1>2, <1>3, Zenon

LEMMA FirstSix ==
    ASSUME NEW readers, NEW w1, NEW v1, NEW w2, NEW v2, NEW w3, NEW v3, NEW w4, NEW v4,
           NEW w5, NEW v5, NEW w6, NEW v6,
           Reads(readers[1], w1, v1), Reads(readers[2], w2, v2), Reads(readers[3], w3, v3),
           Reads(readers[4], w4, v4), Reads(readers[5], w5, v5), Reads(readers[6], w6, v6)
    PROVE  ReadsFirst(readers, 6, ((((w1 \o w2) \o w3) \o w4) \o w5) \o w6, <<v1, v2, v3, v4, v5, v6>>)
<1>1. ReadsFirst(readers, 5, (((w1 \o w2) \o w3) \o w4) \o w5, <<v1, v2, v3, v4, v5>>)
  BY FirstFive
<1>2. ReadsFirst(readers, 6, ((((w1 \o w2) \o w3) \o w4) \o w5) \o w6, Append(<<v1, v2, v3, v4, v5>>, v6))
  <2>1. 5 + 1 = 6 /\ 5 \in Nat
    OBVIOUS
  <2> QED BY <1>1, <2>1, FirstNext
<1>3. Append(<<v1, v2, v3, v4, v5>>, v6) = <<v1, v2, v3, v4, v5, v6>>
  BY AppendSix
<1> QED BY <1>2, <1>3, Zenon

LEMMA FirstSeven ==
    ASSUME NEW readers, NEW w1, NEW v1, NEW w2, NEW v2, NEW w3, NEW v3, NEW w4, NEW v4,
           NEW w5, NEW v5, NEW w6, NEW v6, NEW w7, NEW v7,
           Reads(readers[1], w1, v1), Reads(readers[2], w2, v2), Reads(readers[3], w3, v3),
           Reads(readers[4], w4, v4), Reads(readers[5], w5, v5), Reads(readers[6], w6, v6),
           Reads(readers[7], w7, v7)
    PROVE  ReadsFirst(readers, 7, (((((w1 \o w2) \o w3) \o w4) \o w5) \o w6) \o w7, <<v1, v2, v3, v4, v5, v6, v7>>)
<1>1. ReadsFirst(readers, 6, ((((w1 \o w2) \o w3) \o w4) \o w5) \o w6, <<v1, v2, v3, v4, v5, v6>>)
  BY FirstSix
<1>2. ReadsFirst(readers, 7, (((((w1 \o w2) \o w3) \o w4) \o w5) \o w6) \o w7, Append(<<v1, v2, v3, v4, v5, v6>>, v7))
  <2>1. 6 + 1 = 7 /\ 6 \in Nat
    OBVIOUS
  <2> QED BY <1>1, <2>1, FirstNext
<1>3. Append(<<v1, v2, v3, v4, v5, v6>>, v7) = <<v1, v2, v3, v4, v5, v6, v7>>
  BY AppendSeven
<1> QED BY <1>2, <1>3, Zenon

LEMMA FirstEight ==
    ASSUME NEW readers, NEW w1, NEW v1, NEW w2, NEW v2, NEW w3, NEW v3, NEW w4, NEW v4,
           NEW w5, NEW v5, NEW w6, NEW v6, NEW w7, NEW v7, NEW w8, NEW v8,
           Reads(readers[1], w1, v1), Reads(readers[2], w2, v2), Reads(readers[3], w3, v3),
           Reads(readers[4], w4, v4), Reads(readers[5], w5, v5), Reads(readers[6], w6, v6),
           Reads(readers[7], w7, v7), Reads(readers[8], w8, v8)
    PROVE  ReadsFirst(readers, 8, ((((((w1 \o w2) \o w3) \o w4) \o w5) \o w6) \o w7) \o w8, <<v1, v2, v3, v4, v5, v6, v7, v8>>)
<1>1. ReadsFirst(readers, 7, (((((w1 \o w2) \o w3) \o w4) \o w5) \o w6) \o w7, <<v1, v2, v3, v4, v5, v6, v7>>)
  BY FirstSeven
<1>2. ReadsFirst(readers, 8, ((((((w1 \o w2) \o w3) \o w4) \o w5) \o w6) \o w7) \o w8, Append(<<v1, v2, v3, v4, v5, v6, v7>>, v8))
  <2>1. 7 + 1 = 8 /\ 7 \in Nat
    OBVIOUS
  <2> QED BY <1>1, <2>1, FirstNext
<1>3. Append(<<v1, v2, v3, v4, v5, v6, v7>>, v8) = <<v1, v2, v3, v4, v5, v6, v7, v8>>
  BY AppendEight
<1> QED BY <1>2, <1>3, Zenon

(* An object is read when its items are. *)
ReadersOf(format) == [i \in DOMAIN format |-> format[i].reader]

LEMMA ObjectReads ==
    ASSUME NEW format, NEW n \in Nat, DOMAIN format = 1 .. n, NEW wire, NEW values,
           ReadsFirst(ReadersOf(format), n, wire, values)
    PROVE  Reads(Object(format), wire, Named(format, values))
<1>1. wire \in Wires
  BY DEF ReadsFirst
<1>2. Len(ReadersOf(format)) = n
  BY DEF ReadersOf
<1>3. ASSUME NEW rest \in Wires PROVE Object(format)[wire \o rest] = Got(Named(format, values), rest)
  <2>1. wire \o rest \in Wires
    BY <1>1, BytesOfBoth
  <2>2. FirstInTurn(ReadersOf(format), n, wire \o rest) = Got(values, rest)
    BY DEF ReadsFirst
  <2>3. InTurn(ReadersOf(format), wire \o rest) = Got(values, rest)
    BY <1>2, <2>2 DEF InTurn
  <2>4. Object(format)[wire \o rest]
          = LET got == InTurn(ReadersOf(format), wire \o rest)
            IN  IF got.how = "read" THEN Got(Named(format, got.value), got.rest) ELSE got
    BY <2>1 DEF Object, ReadersOf
  <2>5. /\ Got(values, rest).how = "read" /\ Got(values, rest).value = values
        /\ Got(values, rest).rest = rest
    BY DEF Got
  <2> QED BY <2>3, <2>4, <2>5
<1> QED BY <1>1, <1>3 DEF Reads

(* One that stops stops the object. *)
LEMMA ObjectStops ==
    ASSUME NEW format, NEW n \in Nat, DOMAIN format = 1 .. n, NEW m \in 0 .. n,
           NEW wire \in Wires, NEW how, how # "read",
           FirstInTurn(ReadersOf(format), m, wire) = Stops(how)
    PROVE  Object(format)[wire] = Stops(how)
<1>1. Len(ReadersOf(format)) = n
  BY DEF ReadersOf
<1>2. FirstInTurn(ReadersOf(format), n, wire) = Stops(how)
  BY StopsForGood
<1>3. InTurn(ReadersOf(format), wire) = Stops(how)
  BY <1>1, <1>2 DEF InTurn
<1>4. Object(format)[wire]
        = LET got == InTurn(ReadersOf(format), wire)
          IN  IF got.how = "read" THEN Got(Named(format, got.value), got.rest) ELSE got
  BY DEF Object, ReadersOf
<1>5. Stops(how).how = how
  BY DEF Stops
<1> QED BY <1>3, <1>4, <1>5

(* In a number of bytes that is that of the wire. *)
LEMMA CountingReads ==
    ASSUME NEW reader, NEW wire, NEW value, NEW bytes, Reads(reader, wire, value), Takes(wire, bytes)
    PROVE  Reads(Counting(reader), Int32(bytes) \o wire, value)
<1>1. wire \in Wires /\ bytes \in Nat /\ ByteCount(wire) = bytes
  BY DEF Takes
<1>2. Int32(bytes) \in Wires /\ Int32(bytes) \o wire \in Wires
  BY <1>1, BytesOfField, BytesOfBoth DEF Int32
<1>3. ASSUME NEW rest \in Wires
      PROVE  Counting(reader)[(Int32(bytes) \o wire) \o rest] = Got(value, rest)
  <2> DEFINE all == Field(4, bytes) \o (wire \o rest)
  <2>1. (Int32(bytes) \o wire) \o rest = all
    BY <1>1, <1>2, ConcatAssociative DEF Int32
  <2>2. wire \o rest \in Wires /\ ByteCount(wire \o rest) = bytes + ByteCount(rest)
        /\ ByteCount(rest) \in Nat
    BY <1>1, BytesOfBoth
  <2>3. all \in Wires /\ StartsWith(all, 4) /\ Head(all).number = bytes /\ Tail(all) = wire \o rest
    <3>1. bytes \in Int /\ 4 \in Nat \ {0}
      BY <1>1
    <3> QED BY <2>2, <3>1, FieldFirst
  <2> HIDE DEF all
  <2>4. reader[Tail(all)] = Got(value, rest)
    BY <2>3 DEF Reads
  <2>5. Got(value, rest).how = "read" /\ Got(value, rest).rest = rest
    BY DEF Got
  <2>6. ByteCount(Tail(all)) - ByteCount(rest) = Head(all).number
    <3>1. ByteCount(Tail(all)) = bytes + ByteCount(rest)
      BY <2>2, <2>3
    <3> HIDE DEF Wires
    <3> QED BY <1>1, <2>2, <2>3, <3>1
  <2>7. Counting(reader)[all] = Got(value, rest)
    BY <2>3, <2>4, <2>5, <2>6 DEF Counting
  <2> QED BY <2>1, <2>7
<1> QED BY <1>2, <1>3 DEF Reads

(* An array is read when each of its elements is: the reader gets the      *)
(* first m of them off what has been flattened of the first m.             *)
LEMMA ElementsRead ==
    ASSUME NEW n \in Nat, NEW reader, NEW wires, wires \in Seq(Wires), Len(wires) = n,
           NEW S, NEW values \in Seq(S), Len(values) = n,
           \A i \in 1 .. n : Reads(reader, wires[i], values[i])
    PROVE  Reads(Elements(reader), Int32(n) \o FlattenSeq(wires), values)
<1> DEFINE readers == [i \in 1 .. n |-> reader]
           flat == FlattenSeq(wires)
           first(m) == [i \in 1 .. m |-> values[i]]
<1>0. \A i \in 1 .. n : values[i] \in S
  BY ElementOfSeq
<1>1. ASSUME NEW m \in 0 .. n - 1 PROVE Append(first(m), values[m + 1]) = first(m + 1)
  <2> DEFINE s == first(m)
             t == first(m + 1)
             e == values[m + 1]
  <2>1. s \in Seq(S) /\ t \in Seq(S) /\ e \in S /\ Len(s) = m /\ Len(t) = m + 1 /\ t[m + 1] = e
    BY <1>0
  <2>2. \A i \in 1 .. m : t[i] = s[i]
    OBVIOUS
  <2> HIDE DEF s, t, e
  <2>3. Longer(S, s, e, t)
    BY <2>1, <2>2 DEF Longer
  <2>4. Append(s, e) = t
    BY <2>3, AppendIs
  <2> QED BY <2>4 DEF s, t, e
<1>2. first(0) = <<>> /\ first(n) = values
  <2>1. first(0) = <<>>
    OBVIOUS
  <2>2. first(n) \in Seq(S) /\ Len(first(n)) = n /\ \A i \in 1 .. n : first(n)[i] = values[i]
    BY <1>0
  <2>3. first(n) = values
    <3> HIDE DEF first
    <3> QED BY <2>2, SeqEqual
  <2> QED BY <2>1, <2>3
<1> HIDE DEF first
<1>3. \A i \in 1 .. n : readers[i] = reader
  OBVIOUS
<1>4. Len(readers) = n
  OBVIOUS
<1> HIDE DEF readers
<1>5. ReadsFirst(readers, n, flat, values)
  <2>1. CASE n = 0
    <3>1. wires = <<>>
      BY <2>1, EmptySeq
    <3>2. flat = <<>>
      BY <3>1 DEF FlattenSeq
    <3>3. values = <<>>
      BY <1>2, <2>1
    <3> QED BY <2>1, <3>2, <3>3, FirstNone
  <2>2. CASE n # 0
    <3> DEFINE flatten == CHOOSE f : FlattensTo(wires, n, f)
    <3>1. FlattensTo(wires, n, flatten)
      BY FlattenExists
    <3>2. wires # <<>>
      BY <2>2, EmptySeq
    <3>3. flat = flatten[n]
      BY <3>2 DEF FlattenSeq, FlattensTo
    <3> HIDE DEF flatten, flat
    <3>4. \A i \in 1 .. n : flatten[i] = IF i = 1 THEN wires[i] ELSE flatten[i - 1] \o wires[i]
      BY <3>1 DEF FlattensTo
    <3> DEFINE S0 == {i \in Nat : i \in 1 .. n => ReadsFirst(readers, i, flatten[i], first(i))}
    <3>5. 0 \in S0
      OBVIOUS
    <3>6. ASSUME NEW i \in Nat, i \in S0 PROVE i + 1 \in S0
      <4> SUFFICES ASSUME i + 1 \in 1 .. n
                   PROVE  ReadsFirst(readers, i + 1, flatten[i + 1], first(i + 1))
        OBVIOUS
      <4>1. Reads(readers[i + 1], wires[i + 1], values[i + 1])
        BY <1>3
      <4>2. Append(first(i), values[i + 1]) = first(i + 1)
        BY <1>1
      <4>3. CASE i = 0
        <5>1. ReadsFirst(readers, 0, <<>>, first(0))
          BY <1>2, FirstNone
        <5>2. ReadsFirst(readers, 0 + 1, <<>> \o wires[0 + 1], Append(first(0), values[0 + 1]))
          BY <4>1, <4>3, <5>1, FirstNext
        <5>3. <<>> \o wires[i + 1] = wires[i + 1]
          BY <4>1, ConcatEmptySeq DEF Reads
        <5>4. flatten[i + 1] = wires[i + 1]
          BY <3>4, <4>3
        <5> QED BY <4>2, <4>3, <5>2, <5>3, <5>4
      <4>4. CASE i # 0
        <5>1. ReadsFirst(readers, i, flatten[i], first(i))
          BY <3>6, <4>4
        <5>2. ReadsFirst(readers, i + 1, flatten[i] \o wires[i + 1],
                         Append(first(i), values[i + 1]))
          BY <4>1, <5>1, FirstNext
        <5>3. flatten[i + 1] = flatten[i] \o wires[i + 1]
          <6>1. i + 1 # 1 /\ (i + 1) - 1 = i
            BY <4>4
          <6>2. flatten[i + 1] = flatten[(i + 1) - 1] \o wires[i + 1]
            BY <3>4, <6>1
          <6> QED BY <6>1, <6>2
        <5> QED BY <4>2, <5>2, <5>3
      <4> QED BY <4>3, <4>4
    <3> HIDE DEF S0
    <3>7. Nat \subseteq S0
      BY <3>5, <3>6, SetInduction
    <3>8. ReadsFirst(readers, n, flatten[n], first(n))
      BY <2>2, <3>7 DEF S0
    <3> QED BY <1>2, <3>3, <3>8
  <2> QED BY <2>1, <2>2
<1> HIDE DEF flat
<1>6. flat \in Wires
  BY <1>5 DEF ReadsFirst
<1>7. Int32(n) \in Wires /\ Int32(n) \o flat \in Wires
  BY <1>6, BytesOfField, BytesOfBoth DEF Int32
<1>8. ASSUME NEW rest \in Wires
      PROVE  Elements(reader)[(Int32(n) \o flat) \o rest] = Got(values, rest)
  <2> DEFINE all == Field(4, n) \o (flat \o rest)
  <2>1. (Int32(n) \o flat) \o rest = all
    BY <1>6, <1>7, ConcatAssociative DEF Int32
  <2>2. flat \o rest \in Wires
    BY <1>6, BytesOfBoth
  <2>3. all \in Wires /\ StartsWith(all, 4) /\ Head(all).number = n /\ Tail(all) = flat \o rest
    <3>1. n \in Int /\ 4 \in Nat \ {0}
      OBVIOUS
    <3> QED BY <2>2, <3>1, FieldFirst
  <2> HIDE DEF all
  <2>4. Elements(reader)[all] = InTurn(readers, flat \o rest)
    BY <2>3 DEF Elements, readers
  <2>5. InTurn(readers, flat \o rest) = FirstInTurn(readers, n, flat \o rest)
    BY <1>4 DEF InTurn
  <2>6. FirstInTurn(readers, n, flat \o rest) = Got(values, rest)
    BY <1>5 DEF ReadsFirst
  <2> QED BY <2>1, <2>4, <2>5, <2>6
<1>9. Reads(Elements(reader), Int32(n) \o flat, values)
  BY <1>7, <1>8 DEF Reads
<1> QED BY <1>9 DEF flat

-----------------------------------------------------------------------------
(***************************************************************************)
(* Readers behind others: once the first k have read, the ones behind them *)
(* do what they would do alone on what is left, be it that they read or    *)
(* that one of them stops.                                                 *)
(***************************************************************************)
Follows(front, k, b, m, a) ==
    \E S : /\ b \in Seq(S) /\ Len(b) = m
           /\ a \in Seq(S) /\ Len(a) = k + m
           /\ \A i \in 1 .. k : a[i] = front[i]
           /\ \A i \in 1 .. m : a[k + i] = b[i]

Behind(front, k, m, alone, all) ==
    \/ alone.how # "read" /\ all = alone
    \/ /\ alone.how = "read"
       /\ all = Got(all.value, alone.rest)
       /\ Follows(front, k, alone.value, m, all.value)

LEMMA FollowsNext ==
    ASSUME NEW k \in Nat, NEW m \in Nat, NEW front, NEW b, NEW a, NEW v, Follows(front, k, b, m, a)
    PROVE  Follows(front, k, Append(b, v), m + 1, Append(a, v))
<1>1. PICK S : /\ b \in Seq(S) /\ Len(b) = m
               /\ a \in Seq(S) /\ Len(a) = k + m
               /\ \A i \in 1 .. k : a[i] = front[i]
               /\ \A i \in 1 .. m : a[k + i] = b[i]
  BY DEF Follows
<1> DEFINE T == S \cup {v}
           c == Append(b, v)
           d == Append(a, v)
<1>2. b \in Seq(T) /\ a \in Seq(T) /\ v \in T
  BY <1>1
<1>3. /\ c \in Seq(T) /\ Len(c) = m + 1 /\ \A i \in 1 .. m : c[i] = b[i]
      /\ c[m + 1] = v
  BY <1>1, <1>2, AppendProperties
<1>4. /\ d \in Seq(T) /\ Len(d) = (k + m) + 1 /\ \A i \in 1 .. k + m : d[i] = a[i]
      /\ d[(k + m) + 1] = v
  BY <1>1, <1>2, AppendProperties
<1> HIDE DEF c, d, T
<1>5. \A i \in 1 .. k : d[i] = front[i]
  BY <1>1, <1>4
<1>6. ASSUME NEW i \in 1 .. m + 1 PROVE d[k + i] = c[i]
  <2>1. CASE i = m + 1
    <3>1. k + i = (k + m) + 1
      BY <2>1
    <3> QED BY <1>3, <1>4, <2>1, <3>1
  <2>2. CASE i # m + 1
    <3>1. i \in 1 .. m /\ k + i \in 1 .. k + m
      BY <2>2
    <3> QED BY <1>1, <1>3, <1>4, <3>1
  <2> QED BY <2>1, <2>2
<1>7. Len(d) = k + (m + 1)
  BY <1>4
<1>8. Follows(front, k, c, m + 1, d)
  BY <1>3, <1>4, <1>5, <1>6, <1>7 DEF Follows
<1> QED BY <1>8 DEF c, d

LEMMA ThenBehind ==
    ASSUME NEW k \in Nat, NEW m \in Nat, NEW front, NEW alone, NEW all, NEW reader,
           Behind(front, k, m, alone, all)
    PROVE  Behind(front, k, m + 1, Then(reader, alone), Then(reader, all))
<1>1. CASE alone.how # "read" /\ all = alone
  BY <1>1 DEF Then, Behind
<1>2. CASE /\ alone.how = "read"
           /\ all = Got(all.value, alone.rest)
           /\ Follows(front, k, alone.value, m, all.value)
  <2> DEFINE next == reader[alone.rest]
  <2>1. all.how = "read" /\ all.rest = alone.rest
    BY <1>2 DEF Got
  <2>2. CASE next.how # "read"
    <3>1. Then(reader, alone) = Stops(next.how) /\ Then(reader, all) = Stops(next.how)
      BY <1>2, <2>1, <2>2 DEF Then
    <3>2. Stops(next.how).how = next.how
      BY DEF Stops
    <3> QED BY <2>2, <3>1, <3>2 DEF Behind
  <2>3. CASE next.how = "read"
    <3> DEFINE b == Append(alone.value, next.value)
               a == Append(all.value, next.value)
    <3>1. Then(reader, alone) = Got(b, next.rest) /\ Then(reader, all) = Got(a, next.rest)
      BY <1>2, <2>1, <2>3 DEF Then
    <3>2. Follows(front, k, b, m + 1, a)
      BY <1>2, FollowsNext
    <3> HIDE DEF a, b, next
    <3>3. /\ Got(b, next.rest).how = "read" /\ Got(b, next.rest).rest = next.rest
          /\ Got(b, next.rest).value = b /\ Got(a, next.rest).value = a
      BY DEF Got
    <3> QED BY <3>1, <3>2, <3>3 DEF Behind
  <2> QED BY <2>2, <2>3
<1> QED BY <1>1, <1>2 DEF Behind

LEMMA InTurnBehind ==
    ASSUME NEW k \in Nat, NEW n \in Nat, NEW some, NEW others,
           \A i \in 1 .. n : others[k + i] = some[i],
           NEW S, NEW front \in Seq(S), Len(front) = k, NEW wire, NEW rest,
           FirstInTurn(others, k, wire) = Got(front, rest)
    PROVE  Behind(front, k, n, FirstInTurn(some, n, rest), FirstInTurn(others, k + n, wire))
<1> DEFINE alone(m) == FirstInTurn(some, m, rest)
           all(m) == FirstInTurn(others, k + m, wire)
           I == {m \in Nat : m <= n => Behind(front, k, m, alone(m), all(m))}
<1>1. 0 \in I
  <2>1. alone(0) = Got(<<>>, rest) /\ all(0) = Got(front, rest)
    BY TurnNext
  <2>2. /\ Got(<<>>, rest).how = "read" /\ Got(<<>>, rest).rest = rest
        /\ Got(<<>>, rest).value = <<>> /\ Got(front, rest).value = front
    BY DEF Got
  <2>3. Follows(front, k, <<>>, 0, front)
    BY EmptySeq DEF Follows
  <2> QED BY <2>1, <2>2, <2>3 DEF Behind
<1>2. ASSUME NEW m \in Nat, m \in I PROVE m + 1 \in I
  <2> SUFFICES ASSUME m + 1 <= n PROVE Behind(front, k, m + 1, alone(m + 1), all(m + 1))
    OBVIOUS
  <2>1. Behind(front, k, m, alone(m), all(m))
    BY <1>2
  <2>2. alone(m + 1) = Then(some[m + 1], alone(m))
    BY TurnNext
  <2>3. all(m + 1) = Then(others[k + (m + 1)], all(m))
    <3>1. k + (m + 1) = (k + m) + 1 /\ k + m \in Nat
      OBVIOUS
    <3> QED BY <3>1, TurnNext
  <2>4. others[k + (m + 1)] = some[m + 1]
    OBVIOUS
  <2> HIDE DEF alone, all
  <2> QED BY <2>1, <2>2, <2>3, <2>4, ThenBehind
<1> HIDE DEF I
<1>3. n \in I
  BY <1>1, <1>2, SetInduction
<1> QED BY <1>3 DEF I

(* A name that only one item of a format has. *)
Unique(format, i) ==
    i \in DOMAIN format /\ \A j \in DOMAIN format : format[j].name = format[i].name => j = i

LEMMA NamedIs ==
    ASSUME NEW format, NEW values, NEW i, Unique(format, i)
    PROVE  Named(format, values)[format[i].name] = values[i]
<1> DEFINE name == format[i].name
<1>1. (CHOOSE j \in DOMAIN format : format[j].name = name) = i
  BY DEF Unique
<1>2. name \in {format[j].name : j \in DOMAIN format}
  BY DEF Unique
<1> QED BY <1>1, <1>2 DEF Named

(* A format is a tuple of items. *)
Tuple(format, n) == \E S : format \in Seq(S) /\ Len(format) = n

LEMMA TuplesAre ==
    ASSUME NEW a, NEW b, NEW c, NEW d, NEW e, NEW f
    PROVE  /\ Tuple(<<a>>, 1) /\ Tuple(<<a, b>>, 2) /\ Tuple(<<a, b, c>>, 3)
           /\ Tuple(<<a, b, c, d>>, 4) /\ Tuple(<<a, b, c, d, e, f>>, 6)
<1>1. /\ <<a>> \in Seq({a}) /\ <<a, b>> \in Seq({a, b}) /\ <<a, b, c>> \in Seq({a, b, c})
      /\ <<a, b, c, d>> \in Seq({a, b, c, d})
  OBVIOUS
<1>2. <<a, b, c, d, e, f>> \in Seq({a, b, c, d, e, f})
  OBVIOUS
<1>3. /\ Len(<<a>>) = 1 /\ Len(<<a, b>>) = 2 /\ Len(<<a, b, c>>) = 3 /\ Len(<<a, b, c, d>>) = 4
      /\ Len(<<a, b, c, d, e, f>>) = 6
  OBVIOUS
<1> QED BY <1>1, <1>2, <1>3 DEF Tuple

IsJoined(a, k, b, n, c) ==
    /\ DOMAIN c = 1 .. k + n /\ DOMAIN a = 1 .. k /\ DOMAIN b = 1 .. n
    /\ \A i \in 1 .. k : c[i] = a[i]
    /\ \A i \in 1 .. n : c[k + i] = b[i]

LEMMA TuplesJoined ==
    ASSUME NEW k \in Nat, NEW n \in Nat, NEW a, NEW b, Tuple(a, k), Tuple(b, n)
    PROVE  IsJoined(a, k, b, n, a \o b)
<1>1. PICK A : a \in Seq(A) /\ Len(a) = k
  BY DEF Tuple
<1>2. PICK B : b \in Seq(B) /\ Len(b) = n
  BY DEF Tuple
<1> DEFINE S == A \cup B
           c == a \o b
<1>3. a \in Seq(S) /\ b \in Seq(S)
  BY <1>1, <1>2
<1>4. c \in Seq(S) /\ Len(c) = Len(a) + Len(b)
  BY <1>3, ConcatProperties
<1>5. \A i \in 1 .. Len(a) + Len(b) : c[i] = IF i <= Len(a) THEN a[i] ELSE b[i - Len(a)]
  BY <1>3, ConcatProperties
<1> HIDE DEF c, S
<1>6. DOMAIN c = 1 .. k + n /\ DOMAIN a = 1 .. k /\ DOMAIN b = 1 .. n
  BY <1>1, <1>2, <1>3, <1>4, LenProperties
<1>7. ASSUME NEW i \in 1 .. k PROVE c[i] = a[i]
  BY <1>1, <1>2, <1>5
<1>8. ASSUME NEW i \in 1 .. n PROVE c[k + i] = b[i]
  <2>1. k + i \in 1 .. k + n /\ ~(k + i <= k) /\ (k + i) - k = i
    OBVIOUS
  <2> QED BY <1>1, <1>2, <1>5, <2>1
<1> QED BY <1>6, <1>7, <1>8 DEF c, IsJoined

LEMMA ObjectIs ==
    ASSUME NEW format, NEW n \in Nat, DOMAIN format = 1 .. n, NEW wire \in Wires
    PROVE  LET got == FirstInTurn(ReadersOf(format), n, wire)
           IN  Object(format)[wire]
                 = IF got.how = "read" THEN Got(Named(format, got.value), got.rest) ELSE got
<1>1. Len(ReadersOf(format)) = n
  BY DEF ReadersOf
<1>2. Object(format)[wire]
        = LET got == InTurn(ReadersOf(format), wire)
          IN  IF got.how = "read" THEN Got(Named(format, got.value), got.rest) ELSE got
  BY DEF Object, ReadersOf
<1> QED BY <1>1, <1>2 DEF InTurn

(* Two formats as one: what the second one reads is read by it behind the  *)
(* first one, under the same names, and it stops as it would alone.        *)
Distinct(a, b) ==
    /\ \A i, j \in DOMAIN b : b[i].name = b[j].name => i = j
    /\ \A i, j \in DOMAIN a : a[i].name = a[j].name => i = j
    /\ \A i \in DOMAIN a, j \in DOMAIN b : a[i].name # b[j].name

Agree(format, r, v) == \A i \in DOMAIN format : r[format[i].name] = v[format[i].name]

LEMMA ObjectBehind ==
    ASSUME NEW k \in Nat, NEW a, NEW b, Tuple(a, k), \E n \in Nat : Tuple(b, n), Distinct(a, b),
           NEW front, NEW values, Tuple(values, k),
           ReadsFirst(ReadersOf(a \o b), k, front, values), NEW wire \in Wires
    PROVE  LET alone == Object(b)[wire]
               all   == Object(a \o b)[front \o wire]
           IN  \/ /\ alone.how = "read" /\ all.how = "read"
                  /\ \A i \in 1 .. k : all.value[a[i].name] = values[i]
                  /\ Agree(b, all.value, alone.value)
               \/ alone.how # "read" /\ all = alone
<1>n. PICK n \in Nat : Tuple(b, n)
  OBVIOUS
<1>s. PICK S : values \in Seq(S) /\ Len(values) = k
  BY DEF Tuple
<1> DEFINE c == a \o b
           whole == front \o wire
           one == FirstInTurn(ReadersOf(b), n, wire)
           both == FirstInTurn(ReadersOf(c), k + n, whole)
<1>1. /\ DOMAIN c = 1 .. k + n /\ DOMAIN a = 1 .. k /\ DOMAIN b = 1 .. n
      /\ \A i \in 1 .. k : c[i] = a[i]
      /\ \A i \in 1 .. n : c[k + i] = b[i]
  BY <1>n, TuplesJoined DEF IsJoined
<1>2. front \in Wires /\ whole \in Wires /\ k + n \in Nat
  BY BytesOfBoth DEF ReadsFirst
<1>3. FirstInTurn(ReadersOf(c), k, whole) = Got(values, wire)
  BY DEF ReadsFirst
<1> HIDE DEF c, whole
<1>4. \A i \in 1 .. n : ReadersOf(c)[k + i] = ReadersOf(b)[i]
  <2> SUFFICES ASSUME NEW i \in 1 .. n PROVE ReadersOf(c)[k + i] = ReadersOf(b)[i]
    OBVIOUS
  <2>1. k + i \in DOMAIN c /\ i \in DOMAIN b /\ c[k + i] = b[i]
    BY <1>1
  <2> QED BY <2>1 DEF ReadersOf
<1>5. Behind(values, k, n, one, both)
  BY <1>s, <1>3, <1>4, InTurnBehind
<1>6. /\ Object(b)[wire] = IF one.how = "read" THEN Got(Named(b, one.value), one.rest) ELSE one
      /\ Object(c)[whole] = IF both.how = "read" THEN Got(Named(c, both.value), both.rest) ELSE both
  BY <1>1, <1>2, ObjectIs
<1> HIDE DEF one, both
<1>7. CASE one.how # "read" /\ both = one
  BY <1>6, <1>7 DEF c, whole
<1>8. CASE /\ one.how = "read"
           /\ both = Got(both.value, one.rest)
           /\ Follows(values, k, one.value, n, both.value)
  <2>1. both.how = "read"
    BY <1>8 DEF Got
  <2>2. /\ Object(b)[wire].how = "read" /\ Object(b)[wire].value = Named(b, one.value)
        /\ Object(c)[whole].how = "read" /\ Object(c)[whole].value = Named(c, both.value)
    BY <1>6, <1>8, <2>1 DEF Got
  <2>3. /\ \A i \in 1 .. k : both.value[i] = values[i]
        /\ \A i \in 1 .. n : both.value[k + i] = one.value[i]
    BY <1>8 DEF Follows
  <2>4. ASSUME NEW i \in 1 .. k + n, NEW j \in 1 .. k + n, c[i].name = c[j].name PROVE i = j
    <3> DEFINE InA(m) == m \in 1 .. k /\ c[m] = a[m]
               InB(m) == m - k \in 1 .. n /\ c[m] = b[m - k]
    <3>1. ASSUME NEW m \in 1 .. k + n PROVE InA(m) \/ InB(m)
      <4> SUFFICES ASSUME m \notin 1 .. k PROVE m - k \in 1 .. n /\ c[m] = b[m - k]
        BY <1>1
      <4>1. m - k \in 1 .. n /\ k + (m - k) = m
        OBVIOUS
      <4> QED BY <1>1, <4>1
    <3>2. (InA(i) \/ InB(i)) /\ (InA(j) \/ InB(j))
      BY <3>1
    <3>3. CASE InA(i) /\ InA(j)
      BY <1>1, <2>4, <3>3 DEF Distinct
    <3>4. CASE InB(i) /\ InB(j)
      <4>1. i - k = j - k
        BY <1>1, <2>4, <3>4 DEF Distinct
      <4> QED BY <4>1
    <3>5. ~(InA(i) /\ InB(j)) /\ ~(InA(j) /\ InB(i))
      <4>1. ASSUME NEW x \in 1 .. k, NEW y \in 1 .. n PROVE a[x].name # b[y].name
        BY <1>1 DEF Distinct
      <4>2. ASSUME InA(i), InB(j) PROVE FALSE
        <5>1. a[i].name = b[j - k].name
          BY <2>4, <4>2
        <5> QED BY <4>1, <4>2, <5>1
      <4>3. ASSUME InA(j), InB(i) PROVE FALSE
        <5>1. a[j].name = b[i - k].name
          BY <2>4, <4>3
        <5> QED BY <4>1, <4>3, <5>1
      <4> QED BY <4>2, <4>3
    <3> HIDE DEF InA, InB
    <3> QED BY <3>2, <3>3, <3>4, <3>5
  <2>5. ASSUME NEW i \in 1 .. k + n PROVE Named(c, both.value)[c[i].name] = both.value[i]
    <3>1. Unique(c, i)
      BY <1>1, <2>4 DEF Unique
    <3> QED BY <3>1, NamedIs
  <2>6. ASSUME NEW i \in 1 .. n PROVE Named(b, one.value)[b[i].name] = one.value[i]
    <3>1. Unique(b, i)
      BY <1>1 DEF Unique, Distinct
    <3> QED BY <3>1, NamedIs
  <2>7. \A i \in 1 .. k : Object(c)[whole].value[a[i].name] = values[i]
    <3> SUFFICES ASSUME NEW i \in 1 .. k PROVE Object(c)[whole].value[a[i].name] = values[i]
      OBVIOUS
    <3>1. i \in 1 .. k + n
      OBVIOUS
    <3> QED BY <1>1, <2>2, <2>3, <2>5, <3>1
  <2>8. Agree(b, Object(c)[whole].value, Object(b)[wire].value)
    <3> SUFFICES ASSUME NEW i \in 1 .. n
                 PROVE  Object(c)[whole].value[b[i].name] = Object(b)[wire].value[b[i].name]
      BY <1>1 DEF Agree
    <3>1. k + i \in 1 .. k + n /\ c[k + i] = b[i]
      BY <1>1
    <3>2. Named(c, both.value)[b[i].name] = both.value[k + i]
      BY <2>5, <3>1
    <3> QED BY <2>2, <2>3, <2>6, <3>2
  <2> QED BY <2>2, <2>7, <2>8 DEF c, whole
<1> QED BY <1>5, <1>7, <1>8 DEF Behind
=============================================================================
