----------------------------- MODULE Flattening -----------------------------
(***************************************************************************)
(* What the vectors of the program need that are put together piece by     *)
(* piece (the violations of one rule after another, those a filter leaves, *)
(* the rules of a SARIF log): FlattenSeq of the community modules, which   *)
(* appends the members of a sequence of sequences from left to right.      *)
(***************************************************************************)
EXTENDS SequencesExt, SequenceTheorems, Sums

(* The function by which FlattenSeq is computed: the first i pieces put    *)
(* together, for every i.                                                  *)
Joined(g, s, n) == g = [i \in 1..n |-> IF i = 1 THEN s[i] ELSE g[i - 1] \o s[i]]

(* What is put together is the last value of such a function.              *)
LEMMA FlattenIs ==
    ASSUME NEW s, Len(s) # 0
    PROVE  FlattenSeq(s) = (CHOOSE g : Joined(g, s, Len(s)))[Len(s)]
  BY DEF FlattenSeq, Joined

(* There is such a function, however many the pieces.                      *)
LEMMA Joining == ASSUME NEW s, NEW m \in Nat PROVE \E g : Joined(g, s, m)
<1> DEFINE V(g, i) == IF i = 1 THEN s[i] ELSE g[i - 1] \o s[i]
           N == {n \in Nat : \E g : g = [i \in 1..n |-> V(g, i)]}
<1>1. 0 \in N
  <2> DEFINE g == [i \in 1..0 |-> 0]
  <2>1. g = [i \in 1..0 |-> V(g, i)]
    OBVIOUS
  <2> QED
    <3> HIDE DEF g, V
    <3> QED BY <2>1
<1>2. ASSUME NEW n \in Nat, n \in N PROVE n + 1 \in N
  <2>1. PICK g : g = [i \in 1..n |-> V(g, i)]
    BY <1>2
  <2> DEFINE h == [i \in 1..(n + 1) |-> V(g, i)]
  <2>2. ASSUME NEW i \in 1..(n + 1) PROVE V(g, i) = V(h, i)
    <3>1. CASE i = 1
      BY <3>1
    <3>2. CASE i # 1
      <4>1. i - 1 \in 1..n /\ i - 1 \in 1..(n + 1)
        BY <3>2
      <4>2. g[i - 1] = V(g, i - 1) /\ h[i - 1] = V(g, i - 1)
        <5> HIDE DEF V
        <5> QED BY <2>1, <4>1
      <4> QED
        BY <3>2, <4>2
    <3> QED
      BY <3>1, <3>2
  <2>3. h = [i \in 1..(n + 1) |-> V(h, i)]
    <3> HIDE DEF V
    <3> QED BY <2>2
  <2> QED
    <3> HIDE DEF h, V
    <3> QED BY <2>3
<1>3. Nat \subseteq N
  <2> HIDE DEF N
  <2> QED
    BY <1>1, <1>2, Inductively
<1> QED
  BY <1>3 DEF Joined

(* The first i pieces put together, for every i of a sequence that is not  *)
(* empty; the last of them is the whole.                                   *)
Assembles(g, s) ==
    /\ g[1] = s[1]
    /\ \A i \in 1..(Len(s) - 1) : g[i + 1] = g[i] \o s[i + 1]
    /\ FlattenSeq(s) = g[Len(s)]

(* Every sequence of sequences is assembled from its pieces.               *)
LEMMA Pieces ==
    ASSUME NEW S, NEW s \in Seq(Seq(S)), s # <<>>
    PROVE  \E g : Assembles(g, s)
<1>1. Len(s) \in Nat \ {0}
  BY EmptySeq
<1> DEFINE g == CHOOSE f : Joined(f, s, Len(s))
<1>2. Joined(g, s, Len(s))
  BY <1>1, Joining
<1>3. FlattenSeq(s) = g[Len(s)]
  BY <1>1, FlattenIs
<1> HIDE DEF g
<1>4. ASSUME NEW i \in 1..Len(s)
      PROVE  g[i] = IF i = 1 THEN s[i] ELSE g[i - 1] \o s[i]
  BY <1>2 DEF Joined
<1>5. ASSUME NEW i \in 1..(Len(s) - 1) PROVE g[i + 1] = g[i] \o s[i + 1]
  <2>1. i + 1 \in 1..Len(s) /\ i + 1 # 1 /\ (i + 1) - 1 = i
    BY <1>1
  <2> QED
    BY <1>4, <2>1
<1>6. g[1] = s[1]
  BY <1>1, <1>4
<1> QED
  BY <1>3, <1>5, <1>6 DEF Assembles

(* The members of the first n pieces put together are those of the pieces. *)
LEMMA PiecesHave ==
    ASSUME NEW S, NEW s \in Seq(Seq(S)), NEW g, Assembles(g, s)
    PROVE  \A n \in 1..Len(s) : /\ g[n] \in Seq(S)
                                /\ Range(g[n]) = UNION {Range(s[i]) : i \in 1..n}
<1>1. Len(s) \in Nat
  BY LenProperties
<1> DEFINE H(n) == /\ g[n] \in Seq(S)
                   /\ Range(g[n]) = UNION {Range(s[i]) : i \in 1..n}
           N == {n \in Nat : n \in 1..Len(s) => H(n)}
<1>2. 0 \in N
  OBVIOUS
<1>3. ASSUME NEW n \in Nat, n \in N PROVE n + 1 \in N
  <2> SUFFICES ASSUME n + 1 \in 1..Len(s) PROVE H(n + 1)
    OBVIOUS
  <2>1. s[n + 1] \in Seq(S)
    BY ElementOfSeq
  <2>2. CASE n = 0
    <3>1. {Range(s[i]) : i \in 1..(n + 1)} = {Range(s[1])}
      BY <2>2
    <3> QED
      BY <2>1, <2>2, <3>1 DEF Assembles
  <2>3. CASE n # 0
    <3>1. n \in 1..(Len(s) - 1) /\ n \in 1..Len(s)
      BY <1>1, <2>3
    <3>2. H(n) /\ g[n + 1] = g[n] \o s[n + 1]
      BY <1>3, <3>1 DEF Assembles
    <3>3. g[n + 1] \in Seq(S) /\ Range(g[n + 1]) = Range(g[n]) \cup Range(s[n + 1])
      BY <2>1, <3>2, ConcatProperties, RangeConcatenation
    <3>4. 1..(n + 1) = 1..n \cup {n + 1}
      OBVIOUS
    <3> QED
      BY <3>2, <3>3, <3>4
  <2> QED
    BY <2>2, <2>3
<1>4. Nat \subseteq N
  <2> HIDE DEF N
  <2> QED BY <1>2, <1>3, Inductively
<1> QED
  <2> TAKE n \in 1..Len(s)
  <2>1. n \in N
    <3> HIDE DEF N
    <3> QED BY <1>1, <1>4
  <2> QED
    BY <2>1

(* What is put together consists of members of S when the pieces do, and   *)
(* has the members of all pieces.                                          *)
LEMMA Flattened ==
    ASSUME NEW S, NEW s \in Seq(Seq(S))
    PROVE  /\ FlattenSeq(s) \in Seq(S)
           /\ Range(FlattenSeq(s)) = UNION {Range(s[i]) : i \in 1..Len(s)}
<1>1. CASE s = <<>>
  <2>1. Len(s) = 0
    BY <1>1, EmptySeq
  <2>2. FlattenSeq(s) = <<>> /\ <<>> \in Seq(S)
    BY <1>1, <2>1, EmptySeq DEF FlattenSeq
  <2>3. Range(<<>>) = {} /\ 1..Len(s) = {}
    BY <2>1 DEF Range
  <2> QED
    BY <2>2, <2>3
<1>2. CASE s # <<>>
  <2>1. Len(s) \in 1..Len(s)
    BY <1>2, EmptySeq
  <2>2. PICK g : Assembles(g, s)
    BY <1>2, Pieces
  <2>3. \A n \in 1..Len(s) : /\ g[n] \in Seq(S)
                             /\ Range(g[n]) = UNION {Range(s[i]) : i \in 1..n}
    BY <2>2, PiecesHave
  <2>4. FlattenSeq(s) = g[Len(s)]
    BY <2>2 DEF Assembles
  <2> QED
    BY <2>1, <2>3, <2>4
<1> QED
  BY <1>1, <1>2

(* No member comes twice.                                                  *)
Distinct(t) == \A i, j \in 1..Len(t) : t[i] = t[j] => i = j

(* At most one member is appended, and it is new.                          *)
LEMMA DistinctConcat ==
    ASSUME NEW S, NEW a \in Seq(S), NEW b \in Seq(S), Distinct(a), Len(b) <= 1,
           Range(a) \cap Range(b) = {}
    PROVE  Distinct(a \o b)
<1>1. Len(a) \in Nat /\ Len(b) \in {0, 1}
  BY LenProperties
<1>2. PICK la \in Nat, lb \in {0, 1} : la = Len(a) /\ lb = Len(b)
  BY <1>1
<1>3. PICK c \in Seq(S) : c = a \o b
  BY ConcatProperties
<1>4. /\ Len(c) = la + lb
      /\ \A k \in 1..(la + lb) : c[k] = IF k <= la THEN a[k] ELSE b[k - la]
  BY <1>2, <1>3, ConcatProperties
<1>5. ASSUME NEW k \in 1..la, NEW j \in 1..lb PROVE a[k] # b[j]
  <2>1. a[k] \in Range(a) /\ b[j] \in Range(b)
    BY <1>2, RangeEquality
  <2> QED
    BY <2>1
<1>6. ASSUME NEW i \in 1..(la + lb), NEW j \in 1..(la + lb), c[i] = c[j], i # j PROVE FALSE
  <2>1. CASE i <= la /\ j <= la
    BY <1>2, <1>4, <1>6, <2>1 DEF Distinct
  <2>2. CASE i <= la /\ j > la
    <3>1. i \in 1..la /\ j - la \in 1..lb
      BY <2>2
    <3> QED
      BY <1>4, <1>5, <1>6, <2>2, <3>1
  <2>3. CASE i > la /\ j <= la
    <3>1. j \in 1..la /\ i - la \in 1..lb
      BY <2>3
    <3> QED
      BY <1>4, <1>5, <1>6, <2>3, <3>1
  <2>4. CASE i > la /\ j > la
    BY <1>6, <2>4
  <2> QED
    BY <2>1, <2>2, <2>3, <2>4
<1> QED
  BY <1>3, <1>4, <1>6 DEF Distinct

(* What is put together of pieces of at most one member each, no two of    *)
(* which are the same, has no member twice.                                *)
LEMMA FlattenedOnce ==
    ASSUME NEW S, NEW s \in Seq(Seq(S)),
           \A i \in 1..Len(s) : Len(s[i]) <= 1,
           \A i, j \in 1..Len(s) : i # j => Range(s[i]) \cap Range(s[j]) = {}
    PROVE  Distinct(FlattenSeq(s))
<1>1. CASE s = <<>>
  <2>1. Len(s) = 0
    BY <1>1, EmptySeq
  <2>2. FlattenSeq(s) = <<>>
    BY <1>1, <2>1 DEF FlattenSeq
  <2> QED
    BY <2>2, EmptySeq DEF Distinct
<1>2. CASE s # <<>>
  <2>1. Len(s) \in Nat \ {0}
    BY <1>2, EmptySeq
  <2>2. PICK g : Assembles(g, s)
    BY <1>2, Pieces
  <2>3. \A n \in 1..Len(s) : /\ g[n] \in Seq(S)
                             /\ Range(g[n]) = UNION {Range(s[i]) : i \in 1..n}
    BY <2>2, PiecesHave
  <2> DEFINE N == {n \in Nat : n \in 1..Len(s) => Distinct(g[n])}
  <2>4. 0 \in N
    OBVIOUS
  <2>5. ASSUME NEW n \in Nat, n \in N PROVE n + 1 \in N
    <3> SUFFICES ASSUME n + 1 \in 1..Len(s) PROVE Distinct(g[n + 1])
      OBVIOUS
    <3>1. s[n + 1] \in Seq(S) /\ Len(s[n + 1]) <= 1
      BY ElementOfSeq
    <3>2. CASE n = 0
      <4>1. s[1] \in Seq(S) /\ Len(s[1]) <= 1
        BY <3>1, <3>2
      <4>2. Len(s[1]) \in Nat
        BY <4>1, LenProperties
      <4> QED
        BY <2>2, <3>2, <4>1, <4>2 DEF Distinct, Assembles
    <3>3. CASE n # 0
      <4>1. n \in 1..(Len(s) - 1) /\ n \in 1..Len(s)
        BY <2>1, <3>3
      <4>2. /\ Distinct(g[n])
            /\ g[n] \in Seq(S)
            /\ g[n + 1] = g[n] \o s[n + 1]
        <5>1. Distinct(g[n])
          BY <2>5, <4>1
        <5> QED
          BY <2>2, <2>3, <4>1, <5>1 DEF Assembles
      <4>3. Range(g[n]) \cap Range(s[n + 1]) = {}
        <5>1. ASSUME NEW i \in 1..n PROVE Range(s[i]) \cap Range(s[n + 1]) = {}
          <6>1. i \in 1..Len(s) /\ i # n + 1
            BY <2>1
          <6> QED
            BY <6>1
        <5>2. Range(g[n]) = UNION {Range(s[i]) : i \in 1..n}
          BY <2>3, <4>1
        <5> QED
          BY <5>1, <5>2
      <4> QED
        BY <3>1, <4>2, <4>3, DistinctConcat
    <3> QED
      BY <3>2, <3>3
  <2>6. Nat \subseteq N
    <3> HIDE DEF N
    <3> QED BY <2>4, <2>5, Inductively
  <2> QED
    BY <2>1, <2>2, <2>6 DEF Assembles
<1> QED
  BY <1>1, <1>2
=============================================================================
