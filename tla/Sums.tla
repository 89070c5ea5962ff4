--------------------------------- MODULE Sums ---------------------------------
(***************************************************************************)
(* What the sums of the rules (the load of a port, the delay of a path)    *)
(* need: MapThenSumSet of the community modules as a sum over a finite     *)
(* set.  Induction is stated for a set, the numbers or subsets for which   *)
(* the claim holds, and rests on the order of the natural numbers.         *)
(***************************************************************************)
EXTENDS Integers, FiniteSetsExt, FiniteSetTheorems, WellFoundedInduction, TLAPS

(* A set of natural numbers has a smallest element.                        *)
LEMMA SmallestOf ==
    ASSUME NEW T, T \subseteq Nat, T # {}
    PROVE  \E m \in T : \A k \in T : m <= k
<1>1. \E m \in T : \A k \in T : ~(<<k, m>> \in OpToRel(<, Nat))
  BY NatLessThanWellFounded, WFMin
<1>2. PICK m \in T : \A k \in T : ~(<<k, m>> \in OpToRel(<, Nat))
  BY <1>1
<1>3. ASSUME NEW k \in T PROVE m <= k
  <2>1. ~(k < m)
    BY <1>2 DEF OpToRel
  <2> QED
    BY <2>1
<1> QED
  BY <1>3

(* Induction over the natural numbers, for a set.                          *)
LEMMA Inductively ==
    ASSUME NEW T, 0 \in T, \A n \in Nat : n \in T => n + 1 \in T
    PROVE  Nat \subseteq T
<1> SUFFICES ASSUME Nat \ T # {} PROVE FALSE
  OBVIOUS
<1>1. PICK m \in Nat \ T : \A k \in Nat \ T : m <= k
  BY SmallestOf
<1>2. m # 0 /\ m - 1 \in Nat /\ m - 1 \in T
  BY <1>1
<1> QED
  BY <1>1, <1>2

(* Induction over the subsets of a finite set.                             *)
LEMMA FiniteInduction ==
    ASSUME NEW S, IsFiniteSet(S), NEW T, {} \in T,
           \A s \in SUBSET S : s \in T => \A x \in S \ s : s \cup {x} \in T
    PROVE  SUBSET S \subseteq T
<1> DEFINE N == {n \in Nat : \A s \in SUBSET S : Cardinality(s) = n => s \in T}
<1>1. \A s \in SUBSET S : IsFiniteSet(s) /\ Cardinality(s) \in Nat
  BY FS_Subset, FS_CardinalityType
<1>2. 0 \in N
  BY <1>1, FS_EmptySet
<1>3. ASSUME NEW n \in Nat, n \in N PROVE n + 1 \in N
  <2> SUFFICES ASSUME NEW s \in SUBSET S, Cardinality(s) = n + 1 PROVE s \in T
    OBVIOUS
  <2>1. s # {}
    <3> SUFFICES ASSUME s = {} PROVE FALSE
      OBVIOUS
    <3>1. Cardinality(s) = 0
      BY FS_EmptySet
    <3> QED
      BY <3>1
  <2>2. PICK x \in s : TRUE
    BY <2>1
  <2>3. Cardinality(s \ {x}) = n /\ s \ {x} \in SUBSET S
    BY <1>1, <2>2, FS_RemoveElement
  <2>4. s \ {x} \in T
    BY <1>3, <2>3
  <2>5. s = (s \ {x}) \cup {x} /\ x \in S \ (s \ {x})
    BY <2>2
  <2> QED
    BY <2>3, <2>4, <2>5
<1>4. Nat \subseteq N
  <2> HIDE DEF N
  <2> QED
    BY <1>2, <1>3, Inductively
<1> QED
  BY <1>1, <1>4

-----------------------------------------------------------------------------
(* The weights of the elements of S added up.                              *)
Total(w, S) == MapThenSumSet(LAMBDA x : w[x], S)

(* The element MapThenSumSet takes off first.                              *)
First(s) == CHOOSE x \in s : TRUE

(* The function by which MapThenSumSet is computed.                        *)
Unfolds(w, g, S) ==
    g = [s \in SUBSET S |-> IF s = {} THEN 0 ELSE w[First(s)] + g[s \ {First(s)}]]

(* A sum is computed by a function on subsets, which takes one element off *)
(* at a time.                                                              *)
LEMMA TotalIs ==
    ASSUME NEW w, NEW S
    PROVE  Total(w, S) = (CHOOSE g : Unfolds(w, g, S))[S]
  BY DEF Total, MapThenSumSet, MapThenFoldSet, Unfolds, First

(* The element that is taken off is there.                                 *)
LEMMA FirstIn == ASSUME NEW s, s # {} PROVE First(s) \in s
  BY DEF First

(* There is such a function: it can be built up by cardinality.            *)
LEMMA Unfolding ==
    ASSUME NEW w, NEW S, IsFiniteSet(S)
    PROVE  \E g : Unfolds(w, g, S)
<1> DEFINE D(n) == {s \in SUBSET S : Cardinality(s) <= n}
           V(g, s) == IF s = {} THEN 0 ELSE w[First(s)] + g[s \ {First(s)}]
           N == {n \in Nat : \E g : g = [s \in D(n) |-> V(g, s)]}
<1>1. \A s \in SUBSET S : /\ IsFiniteSet(s) /\ Cardinality(s) \in Nat
                          /\ Cardinality(s) <= Cardinality(S)
                          /\ s # {} => /\ s \ {First(s)} \in SUBSET S
                                       /\ Cardinality(s \ {First(s)}) = Cardinality(s) - 1
  BY FS_Subset, FS_CardinalityType, FS_RemoveElement, FirstIn
<1>2. 0 \in N
  <2> DEFINE g == [s \in D(0) |-> 0]
  <2>1. ASSUME NEW s \in D(0) PROVE s = {}
    <3>1. s \in SUBSET S /\ Cardinality(s) <= 0
      OBVIOUS
    <3>2. IsFiniteSet(s) /\ Cardinality(s) \in Nat
      BY <1>1, <3>1
    <3>3. Cardinality(s) = 0
      BY <3>1, <3>2
    <3> QED
      BY <3>2, <3>3, FS_EmptySet
  <2>2. g = [s \in D(0) |-> V(g, s)]
    BY <2>1
  <2> QED
    BY <2>2
<1>3. ASSUME NEW n \in Nat, n \in N PROVE n + 1 \in N
  <2>1. PICK g : g = [s \in D(n) |-> V(g, s)]
    BY <1>3
  <2> DEFINE h == [s \in D(n + 1) |-> V(g, s)]
  <2>2. ASSUME NEW s \in D(n + 1) PROVE V(g, s) = V(h, s)
    <3>1. CASE s = {}
      BY <3>1
    <3>2. CASE s # {}
      <4> DEFINE r == s \ {First(s)}
      <4>1. r \in D(n)
        BY <1>1, <3>2
      <4>2. r \in D(n + 1)
        BY <1>1, <4>1
      <4>3. g[r] = V(g, r)
        <5> HIDE DEF V, D, r
        <5> QED BY <2>1, <4>1
      <4>4. h[r] = V(g, r)
        <5> HIDE DEF V, D, r
        <5> QED BY <4>2
      <4> QED
        BY <4>3, <4>4, <3>2
    <3> QED
      BY <3>1, <3>2
  <2>3. h = [s \in D(n + 1) |-> V(h, s)]
    <3> HIDE DEF V, D
    <3> QED BY <2>2
  <2>4. \E f : f = [s \in D(n + 1) |-> V(f, s)]
    <3> HIDE DEF h, V, D
    <3> QED BY <2>3
  <2> QED
    <3> HIDE DEF h, V, D
    <3> QED BY <2>4
<1>4. Nat \subseteq N
  <2> HIDE DEF N
  <2> QED
    BY <1>2, <1>3, Inductively
<1>5. Cardinality(S) \in N
  <2> HIDE DEF N
  <2> QED BY <1>4, FS_CardinalityType
<1>6. D(Cardinality(S)) = SUBSET S
  BY <1>1
<1> QED
  BY <1>5, <1>6 DEF Unfolds

(* Two such functions agree where both are defined.                        *)
LEMMA UnfoldsAlike ==
    ASSUME NEW w, NEW S, NEW g, Unfolds(w, g, S),
           NEW T, NEW h, Unfolds(w, h, T), T \subseteq S, IsFiniteSet(T)
    PROVE  g[T] = h[T]
<1> DEFINE N == {s \in SUBSET T : g[s] = h[s]}
           C == {n \in Nat : \A s \in SUBSET T : Cardinality(s) = n => g[s] = h[s]}
<1>1. \A s \in SUBSET T : IsFiniteSet(s) /\ Cardinality(s) \in Nat
  BY FS_Subset, FS_CardinalityType
<1>2. ASSUME NEW s \in SUBSET T
      PROVE  /\ g[s] = IF s = {} THEN 0 ELSE w[First(s)] + g[s \ {First(s)}]
             /\ h[s] = IF s = {} THEN 0 ELSE w[First(s)] + h[s \ {First(s)}]
  BY DEF Unfolds
<1>3. 0 \in C
  BY <1>1, <1>2, FS_EmptySet
<1>4. ASSUME NEW n \in Nat, n \in C PROVE n + 1 \in C
  <2> SUFFICES ASSUME NEW s \in SUBSET T, Cardinality(s) = n + 1
               PROVE g[s] = h[s]
    OBVIOUS
  <2>1. s # {}
    BY FS_EmptySet
  <2>2. s \ {First(s)} \in SUBSET T /\ Cardinality(s \ {First(s)}) = n
    BY <1>1, <2>1, FirstIn, FS_RemoveElement
  <2> QED
    BY <1>2, <1>4, <2>1, <2>2
<1>5. Nat \subseteq C
  <2> HIDE DEF C
  <2> QED
    BY <1>3, <1>4, Inductively
<1> QED
  BY <1>1, <1>5

(* The sum over nothing is zero.                                           *)
LEMMA TotalEmpty == ASSUME NEW w PROVE Total(w, {}) = 0
<1>1. Unfolds(w, CHOOSE g : Unfolds(w, g, {}), {})
  BY Unfolding, FS_EmptySet
<1> QED
  BY <1>1, TotalIs DEF Unfolds

(* A sum is the first weight and the sum of the rest.                      *)
LEMMA TotalRest ==
    ASSUME NEW w, NEW S, IsFiniteSet(S), S # {}
    PROVE  Total(w, S) = w[First(S)] + Total(w, S \ {First(S)})
<1> DEFINE R == S \ {First(S)}
           g == CHOOSE f : Unfolds(w, f, S)
           h == CHOOSE f : Unfolds(w, f, R)
<1>1. IsFiniteSet(R)
  BY FS_RemoveElement
<1>2. Unfolds(w, g, S) /\ Unfolds(w, h, R)
  BY <1>1, Unfolding
<1>3. Total(w, S) = g[S] /\ Total(w, R) = h[R]
  BY TotalIs
<1> HIDE DEF g, h
<1>4. g[R] = h[R]
  BY <1>1, <1>2, UnfoldsAlike
<1>5. g[S] = w[First(S)] + g[R]
  BY <1>2 DEF Unfolds
<1> QED
  BY <1>3, <1>4, <1>5

(* A sum is of any kind that has zero and is kept by adding a weight.      *)
LEMMA TotalIn ==
    ASSUME NEW S, IsFiniteSet(S), NEW w, NEW T, 0 \in T,
           \A x \in S : \A t \in T : w[x] + t \in T
    PROVE  \A s \in SUBSET S : Total(w, s) \in T
<1> DEFINE C == {n \in Nat : \A s \in SUBSET S : Cardinality(s) = n => Total(w, s) \in T}
<1>1. \A s \in SUBSET S : IsFiniteSet(s) /\ Cardinality(s) \in Nat
  BY FS_Subset, FS_CardinalityType
<1>3. 0 \in C
  BY <1>1, TotalEmpty, FS_EmptySet
<1>4. ASSUME NEW n \in Nat, n \in C PROVE n + 1 \in C
  <2> SUFFICES ASSUME NEW s \in SUBSET S, Cardinality(s) = n + 1
               PROVE Total(w, s) \in T
    OBVIOUS
  <2>1. s # {}
    BY FS_EmptySet
  <2>2. /\ s \ {First(s)} \in SUBSET S
        /\ Cardinality(s \ {First(s)}) = n
        /\ First(s) \in S
    BY <1>1, <2>1, FirstIn, FS_RemoveElement
  <2>3. Total(w, s) = w[First(s)] + Total(w, s \ {First(s)})
    BY <1>1, <2>1, TotalRest
  <2> QED
    BY <1>4, <2>2, <2>3
<1>5. Nat \subseteq C
  <2> HIDE DEF C
  <2> QED
    BY <1>3, <1>4, Inductively
<1> QED
  BY <1>1, <1>5

(* Sums of natural numbers are natural numbers, those of integers integers.*)
LEMMA TotalType ==
    ASSUME NEW S, IsFiniteSet(S), NEW w, \A x \in S : w[x] \in Nat
    PROVE  \A s \in SUBSET S : Total(w, s) \in Nat
<1>1. \A x \in S : \A t \in Nat : w[x] + t \in Nat
  OBVIOUS
<1> QED
  BY <1>1, TotalIn

LEMMA TotalInt ==
    ASSUME NEW S, IsFiniteSet(S), NEW w, \A x \in S : w[x] \in Int
    PROVE  \A s \in SUBSET S : Total(w, s) \in Int
<1>1. 0 \in Int /\ \A x \in S : \A t \in Int : w[x] + t \in Int
  OBVIOUS
<1> DEFINE T == Int
<1>2. 0 \in T /\ \A x \in S : \A t \in T : w[x] + t \in T
  BY <1>1
<1>3. \A s \in SUBSET S : Total(w, s) \in T
  <2> HIDE DEF T
  <2> QED
    BY <1>2, TotalIn
<1> QED
  BY <1>3

(* It does not matter which element is taken off: any other can be added   *)
(* last.                                                                   *)
LEMMA TotalAdd ==
    ASSUME NEW S, IsFiniteSet(S), NEW w, \A x \in S : w[x] \in Int
    PROVE  \A s \in SUBSET S : \A x \in S \ s : Total(w, s \cup {x}) = w[x] + Total(w, s)
<1> DEFINE C == {n \in Nat : \A s \in SUBSET S : \A x \in S \ s :
                               Cardinality(s) <= n => Total(w, s \cup {x}) = w[x] + Total(w, s)}
<1>1. \A s \in SUBSET S : IsFiniteSet(s) /\ Cardinality(s) \in Nat /\ Total(w, s) \in Int
  BY FS_Subset, FS_CardinalityType, TotalInt
<1>2. ASSUME NEW s \in SUBSET S, NEW x \in S \ s,
             First(s \cup {x}) # x =>
                LET y == First(s \cup {x}) IN
                /\ Total(w, (s \ {y}) \cup {x}) = w[x] + Total(w, s \ {y})
                /\ Total(w, (s \ {y}) \cup {y}) = w[y] + Total(w, s \ {y})
      PROVE  Total(w, s \cup {x}) = w[x] + Total(w, s)
  <2> DEFINE y == First(s \cup {x})
             u == s \cup {x}
  <2>1. y \in u /\ u \in SUBSET S /\ u # {} /\ IsFiniteSet(u)
    BY <1>1, FirstIn
  <2>2. Total(w, u) = w[y] + Total(w, u \ {y})
    BY <2>1, TotalRest
  <2>3. CASE y = x
    <3>1. u \ {y} = s
      BY <2>3
    <3> QED
      BY <2>2, <2>3, <3>1
  <2>4. CASE y # x
    <3>1. y \in s /\ u \ {y} = (s \ {y}) \cup {x} /\ (s \ {y}) \cup {y} = s
      BY <2>1, <2>4
    <3>2. w[y] \in Int /\ w[x] \in Int /\ Total(w, s \ {y}) \in Int
      BY <1>1, <3>1
    <3>3. /\ Total(w, u \ {y}) = w[x] + Total(w, s \ {y})
          /\ Total(w, s) = w[y] + Total(w, s \ {y})
      BY <1>2, <2>4, <3>1
    <3> HIDE DEF y, u
    <3> QED
      BY <2>2, <3>2, <3>3 DEF u
  <2> QED
    BY <2>3, <2>4
<1>3. 0 \in C
  <2> SUFFICES ASSUME NEW s \in SUBSET S, NEW x \in S \ s, Cardinality(s) <= 0
               PROVE  Total(w, s \cup {x}) = w[x] + Total(w, s)
    OBVIOUS
  <2>1. s = {}
    BY <1>1, FS_EmptySet
  <2>2. First(s \cup {x}) = x
    BY <2>1, FirstIn
  <2> QED
    BY <1>2, <2>2
<1>4. ASSUME NEW n \in Nat, n \in C PROVE n + 1 \in C
  <2> SUFFICES ASSUME NEW s \in SUBSET S, NEW x \in S \ s, Cardinality(s) <= n + 1
               PROVE  Total(w, s \cup {x}) = w[x] + Total(w, s)
    OBVIOUS
  <2> DEFINE y == First(s \cup {x})
  <2>1. ASSUME y # x
        PROVE  /\ Total(w, (s \ {y}) \cup {x}) = w[x] + Total(w, s \ {y})
               /\ Total(w, (s \ {y}) \cup {y}) = w[y] + Total(w, s \ {y})
    <3>1. y \in s
      BY <2>1, FirstIn
    <3>2. /\ s \ {y} \in SUBSET S
          /\ Cardinality(s \ {y}) <= n
      <4>1. /\ IsFiniteSet(s)
            /\ Cardinality(s) \in Nat
            /\ Cardinality(s \ {y}) = Cardinality(s) - 1
        BY <1>1, <3>1, FS_RemoveElement
      <4> QED
        BY <4>1
    <3>3. x \in S \ (s \ {y}) /\ y \in S \ (s \ {y})
      BY <3>1
    <3> QED
      BY <1>4, <3>2, <3>3
  <2> QED
    BY <1>2, <2>1
<1>5. Nat \subseteq C
  <2> HIDE DEF C
  <2> QED
    BY <1>3, <1>4, Inductively
<1> QED
  <2> TAKE s \in SUBSET S
  <2> TAKE x \in S \ s
  <2>1. Cardinality(s) \in C
    <3> HIDE DEF C
    <3> QED BY <1>1, <1>5
  <2> QED
    BY <1>1, <2>1

(* A sum grows with its set.                                               *)
LEMMA TotalMonotonic ==
    ASSUME NEW S, IsFiniteSet(S), NEW w, \A x \in S : w[x] \in Nat, NEW t \in SUBSET S
    PROVE  Total(w, t) <= Total(w, S)
<1> DEFINE U == {s \in SUBSET S : Total(w, t) <= Total(w, t \cup s)}
<1>0. \A s \in SUBSET S : \A x \in S \ s : Total(w, s \cup {x}) = w[x] + Total(w, s)
  <2>1. \A x \in S : w[x] \in Int
    OBVIOUS
  <2> QED
    BY <2>1, TotalAdd
<1>1. \A s \in SUBSET S : Total(w, s) \in Nat
  BY TotalType
<1>2. {} \in U
  BY <1>1
<1>3. ASSUME NEW s \in SUBSET S, s \in U, NEW x \in S \ s
      PROVE s \cup {x} \in U
  <2>1. CASE x \in t
    <3>1. t \cup (s \cup {x}) = t \cup s
      BY <2>1
    <3> QED
      BY <1>3, <3>1
  <2>2. CASE x \notin t
    <3>1. /\ t \cup (s \cup {x}) = (t \cup s) \cup {x}
          /\ x \in S \ (t \cup s)
          /\ t \cup s \in SUBSET S
      BY <1>3, <2>2
    <3>2. Total(w, (t \cup s) \cup {x}) = w[x] + Total(w, t \cup s)
      BY <1>0, <3>1
    <3>3. /\ w[x] \in Nat
          /\ Total(w, t \cup s) \in Nat
          /\ Total(w, t) \in Nat
          /\ Total(w, t) <= Total(w, t \cup s)
      BY <1>1, <1>3, <3>1
    <3>4. Total(w, t) <= Total(w, (t \cup s) \cup {x})
      BY <3>2, <3>3
    <3> QED
      BY <1>3, <3>1, <3>4
  <2> QED
    BY <2>1, <2>2
<1>4. SUBSET S \subseteq U
  <2> HIDE DEF U
  <2> QED
    BY <1>2, <1>3, FiniteInduction
<1>5. S \in U /\ t \cup S = S
  BY <1>4
<1> QED
  BY <1>5

(* Elements that weigh nothing can be left out.                            *)
LEMMA TotalOfNothing ==
    ASSUME NEW S, IsFiniteSet(S), NEW w, \A x \in S : w[x] \in Nat,
           NEW t \in SUBSET S, \A x \in S \ t : w[x] = 0
    PROVE  Total(w, S) = Total(w, t)
<1> DEFINE U == {s \in SUBSET S : Total(w, t \cup s) = Total(w, t)}
<1>0. \A s \in SUBSET S : \A x \in S \ s : Total(w, s \cup {x}) = w[x] + Total(w, s)
  <2>1. \A x \in S : w[x] \in Int
    OBVIOUS
  <2> QED
    BY <2>1, TotalAdd
<1>1. \A s \in SUBSET S : Total(w, s) \in Nat
  BY TotalType
<1>2. {} \in U
  <2>1. t \cup {} = t
    OBVIOUS
  <2> QED
    BY <2>1
<1>3. ASSUME NEW s \in SUBSET S, s \in U, NEW x \in S \ s
      PROVE s \cup {x} \in U
  <2>1. CASE x \in t
    <3>1. t \cup (s \cup {x}) = t \cup s
      BY <2>1
    <3> QED
      BY <1>3, <3>1
  <2>2. CASE x \notin t
    <3>1. /\ t \cup (s \cup {x}) = (t \cup s) \cup {x}
          /\ x \in S \ (t \cup s) /\ t \cup s \in SUBSET S /\ w[x] = 0
      BY <1>3, <2>2
    <3>2. Total(w, (t \cup s) \cup {x}) = w[x] + Total(w, t \cup s)
      BY <1>0, <3>1
    <3>3. Total(w, (t \cup s) \cup {x}) = Total(w, t)
      BY <1>1, <1>3, <3>1, <3>2
    <3> QED
      BY <1>3, <3>1, <3>3
  <2> QED
    BY <2>1, <2>2
<1>4. SUBSET S \subseteq U
  <2> HIDE DEF U
  <2> QED
    BY <1>2, <1>3, FiniteInduction
<1>5. S \in U /\ t \cup S = S
  BY <1>4
<1> QED
  BY <1>5
=============================================================================
