---------------------------- MODULE TopologyProofs ----------------------------
(***************************************************************************)
(* What the proofs about the resolver and about the rules need to know of  *)
(* crossings and simple paths.                                             *)
(***************************************************************************)
EXTENDS Topology, FiniteSetTheorems, SequenceTheorems, TLAPS

(* Crossing a link yields a crossing.                                      *)
LEMMA CrossType ==
    ASSUME NEW l \in Link, NEW n \in Nodes
    PROVE  /\ Cross(l, n) \in Crossing
           /\ Cross(l, n).entry.node \in Nodes
           /\ Touches(l, n) => Cross(l, n).exit.node = n
           /\ Joins(l, Cross(l, n))
  BY DEF Link, Hop, Crossing, Cross, Forward, Backward, Touches, Joins

(* The members of SimplePaths are sequences of crossings.                  *)
LEMMA SimplePathType ==
    ASSUME NEW L \in Seq(Link), NEW s \in Nodes, NEW t \in Nodes,
           NEW p \in SimplePaths(L, s, t)
    PROVE  /\ p \in Seq(Crossing)
           /\ IsSimplePath(L, s, t, p)
           /\ Len(p) \in Nat
<1>1. PICK n \in 0..(Cardinality(Nodes) - 1) : p \in [1..n -> Crossings(L)]
  BY DEF SimplePaths
<1>2. Crossings(L) \subseteq Crossing
  <2>1. \A i \in 1..Len(L) : L[i] \in Link
    BY ElementOfSeq
  <2> QED BY <2>1 DEF Crossings, Crossing, Link, Forward, Backward
<1>3. p \in [1..n -> Crossing]
  BY <1>1, <1>2
<1>4. p \in Seq(Crossing)
  BY <1>3, SeqDef
<1> QED BY <1>4, LenProperties DEF SimplePaths

(* What a link that p crosses next looks like to the resolver: p never     *)
(* stays where it is, so the code's choice of orientation is p's.          *)
LEMMA NextCrossing ==
    ASSUME NEW L \in Seq(Link), NEW s \in Nodes, NEW t \in Nodes,
           NEW p \in SimplePaths(L, s, t), NEW k \in 1..Len(p),
           NEW i \in 1..Len(L), Joins(L[i], p[k])
    PROVE  /\ NodeAt(s, p, k) = p[k].entry.node
           /\ Touches(L[i], NodeAt(s, p, k - 1))
           /\ p[k] = Cross(L[i], NodeAt(s, p, k - 1))
<1> DEFINE n == NodeAt(s, p, k - 1)
<1>0. Len(p) \in Nat /\ IsSimplePath(L, s, t, p)
  BY SimplePathType
<1>1. p[k].exit.node = n /\ NodeAt(s, p, k) = p[k].entry.node
  BY <1>0 DEF IsSimplePath, IsWalk, NodeAt
<1>2. n # p[k].entry.node
  <2>1. k - 1 \in 0..Len(p) /\ k \in 0..Len(p) /\ k - 1 # k
    BY <1>0
  <2> QED BY <1>0, <1>1, <2>1 DEF IsSimplePath, NoRepeatedNode
<1> HIDE DEF n
<1>3. Touches(L[i], n) /\ p[k] = Cross(L[i], n)
  BY <1>1, <1>2 DEF Joins, Touches, Cross, Forward, Backward
<1> QED BY <1>1, <1>3 DEF n

(* The routes are those of the simple paths.                               *)
LEMMA RouteType ==
    ASSUME NEW L \in Seq(Link), NEW s \in Nodes, NEW t \in Nodes, NEW w \in Routes(L, s, t)
    PROVE  /\ w = [path |-> w.path, via |-> w.via]
           /\ w.path \in SimplePaths(L, s, t)
           /\ Len(w.path) \in Nat
           /\ w.via \in [1..Len(w.path) -> 1..Len(L)]
           /\ \A k \in 1..Len(w.path) : Joins(L[w.via[k]], w.path[k])
<1>1. PICK p \in SimplePaths(L, s, t) : \E v \in RoutesOf(L, p) : w = [path |-> p, via |-> v]
  BY DEF Routes
<1>2. PICK v \in RoutesOf(L, p) : w = [path |-> p, via |-> v]
  BY <1>1
<1>3. /\ v \in [1..Len(p) -> 1..Len(L)]
      /\ \A k \in 1..Len(p) : Joins(L[v[k]], p[k])
  BY DEF RoutesOf
<1>4. Len(p) \in Nat
  BY SimplePathType
<1> QED
  BY <1>2, <1>3, <1>4

(* Every choice of links that join the crossings of a simple path is a     *)
(* route.                                                                  *)
LEMMA RouteIs ==
    ASSUME NEW L, NEW s, NEW t, NEW p \in SimplePaths(L, s, t),
           NEW v \in [1..Len(p) -> 1..Len(L)], \A k \in 1..Len(p) : Joins(L[v[k]], p[k])
    PROVE  [path |-> p, via |-> v] \in Routes(L, s, t)
  BY DEF Routes, RoutesOf

(* Every simple path can be taken.                                         *)
LEMMA RouteExists ==
    ASSUME NEW L \in Seq(Link), NEW s \in Nodes, NEW t \in Nodes,
           NEW p \in SimplePaths(L, s, t)
    PROVE  \E w \in Routes(L, s, t) : w.path = p
<1> DEFINE v == [k \in 1..Len(p) |-> CHOOSE i \in 1..Len(L) : Joins(L[i], p[k])]
<1>1. \A k \in 1..Len(p) : \E i \in 1..Len(L) : Joins(L[i], p[k])
  BY SimplePathType DEF IsSimplePath, IsWalk
<1>2. /\ v \in [1..Len(p) -> 1..Len(L)]
      /\ \A k \in 1..Len(p) : Joins(L[v[k]], p[k])
  BY <1>1
<1> HIDE DEF v
<1>3. [path |-> p, via |-> v] \in Routes(L, s, t)
  BY <1>2, RouteIs
<1> QED
  BY <1>3

(* A simple path is no longer than the number of nodes allows: its nodes   *)
(* are pairwise different, so they inject into Nodes.                      *)
LEMMA SimplePathBound ==
    ASSUME NEW L \in Seq(Link), NEW s \in Nodes, NEW t \in Nodes,
           NEW p \in Seq(Crossing), IsSimplePath(L, s, t, p)
    PROVE  p \in SimplePaths(L, s, t)
<1> DEFINE n == Len(p)
           f == [k \in 0..n |-> NodeAt(s, p, k)]
<1>1. n \in Nat /\ \A k \in 1..n : p[k] \in Crossing
  BY LenProperties, ElementOfSeq
<1>2. f \in Injection(0..n, Nodes)
  <2>1. \A k \in 0..n : NodeAt(s, p, k) \in Nodes
    BY <1>1 DEF NodeAt, Crossing, Hop
  <2>2. f \in [0..n -> Nodes]
    BY <2>1
  <2>3. \A j, k \in 0..n : f[j] = f[k] => j = k
    BY DEF IsSimplePath, NoRepeatedNode
  <2> HIDE DEF f
  <2> QED BY <2>2, <2>3 DEF Injection, IsInjective
<1>3. Cardinality(0..n) <= Cardinality(Nodes)
  <2> HIDE DEF f
  <2> QED BY <1>2, NodesFinite, FS_Injection
<1>4. Cardinality(0..n) = n + 1 /\ Cardinality(Nodes) \in Nat
  BY <1>1, NodesFinite, FS_Interval, FS_CardinalityType
<1>5. n \in 0..(Cardinality(Nodes) - 1)
  BY <1>1, <1>3, <1>4
<1>6. p \in [1..n -> Crossings(L)]
  <2>1. \A k \in 1..n : p[k] \in Crossings(L)
    BY DEF IsSimplePath, IsWalk, Joins, Crossings
  <2> QED BY <2>1, LenProperties
<1> HIDE DEF n
<1> QED BY <1>5, <1>6 DEF SimplePaths

(* A link that is added takes no simple path away.                         *)
LEMMA MoreLinks ==
    ASSUME NEW L \in Seq(Link), NEW M \in Seq(Link), NEW s \in Nodes, NEW d \in Nodes,
           \A i \in 1..Len(L) : \E j \in 1..Len(M) : M[j] = L[i]
    PROVE  SimplePaths(L, s, d) \subseteq SimplePaths(M, s, d)
<1> SUFFICES ASSUME NEW p \in SimplePaths(L, s, d)
             PROVE p \in SimplePaths(M, s, d)
  OBVIOUS
<1>1. p \in Seq(Crossing) /\ IsSimplePath(L, s, d, p)
  BY SimplePathType
<1>2. IsSimplePath(M, s, d, p)
  BY <1>1 DEF IsSimplePath, IsWalk
<1> QED
  BY <1>1, <1>2, SimplePathBound

(* Every crossing of a simple path crosses a declared link, between two    *)
(* hops, out of the node the crossing before it has come in at.            *)
LEMMA SimplePathHops ==
    ASSUME NEW L \in Seq(Link), NEW s \in Nodes, NEW d \in Nodes,
           NEW p \in SimplePaths(L, s, d), NEW k \in 1..Len(p)
    PROVE  /\ p[k].exit \in Hop /\ p[k].entry \in Hop
           /\ \E i \in 1..Len(L) : /\ p[k].exit \in {L[i].src, L[i].dst}
                                   /\ p[k].entry \in {L[i].src, L[i].dst}
           /\ p[k].exit.node = NodeAt(s, p, k - 1)
<1>1. p \in Seq(Crossing) /\ IsSimplePath(L, s, d, p)
  BY SimplePathType
<1>2. p[k] \in Crossing
  BY <1>1, ElementOfSeq
<1>3. PICK i \in 1..Len(L) : Joins(L[i], p[k])
  BY <1>1 DEF IsSimplePath, IsWalk
<1> QED
  BY <1>1, <1>2, <1>3 DEF IsSimplePath, IsWalk, Joins, Forward, Backward, Crossing

(* The members of the flat list of hops.                                   *)
LEMMA HopsAre ==
    ASSUME NEW p, Len(p) \in Nat, NEW k \in 1..(2 * Len(p))
    PROVE  \E c \in 1..Len(p) : Hops(p)[k] \in {p[c].exit, p[c].entry}
<1>1. Hops(p)[k] = IF k % 2 = 1 THEN p[(k + 1) \div 2].exit ELSE p[k \div 2].entry
  BY DEF Hops
<1>2. CASE k % 2 = 1
  <2>1. (k + 1) \div 2 \in 1..Len(p)
    BY <1>2
  <2> QED
    BY <1>1, <1>2, <2>1
<1>3. CASE k % 2 # 1
  <2>1. k \div 2 \in 1..Len(p)
    BY <1>3
  <2> QED
    BY <1>1, <1>3, <2>1
<1> QED
  BY <1>2, <1>3
=============================================================================
