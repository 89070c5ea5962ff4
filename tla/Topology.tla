------------------------------ MODULE Topology ------------------------------
(***************************************************************************)
(* The physical graph of include/topology.hpp and the vocabulary every     *)
(* other module shares: ports, links, what it is to cross a link, and the  *)
(* reference definition of a simple path, stated without any search.       *)
(*                                                                         *)
(* A link is undirected: its two ends are named src and dst only because   *)
(* the YAML file writes one of them first.  Crossing a link yields the two *)
(* PathHops the resolver pushes (and pops) together: the port the stream   *)
(* leaves through and the port it comes in by.  A path of the program is   *)
(* the concatenation of those pairs; here it is the sequence of pairs, and *)
(* Hops gives the program's flat list back.                                *)
(***************************************************************************)
EXTENDS Integers, Sequences, FiniteSets

CONSTANTS Nodes,    \* every node name a file may mention
          Ports     \* every port name

ASSUME NodesFinite == IsFiniteSet(Nodes)

Hop      == [node : Nodes, port : Ports]
Link     == [src : Hop, dst : Hop]
Crossing == [exit : Hop, entry : Hop]

-----------------------------------------------------------------------------
(* Crossing a link out of node n.                                          *)

Forward(l)  == [exit |-> l.src, entry |-> l.dst]
Backward(l) == [exit |-> l.dst, entry |-> l.src]

(* A definition introduced as "the bug" is no part of the model: it is the *)
(* next definition with a mistake the code could have made, and the runs   *)
(* are there to notice it.  The bug: a link can be crossed in the          *)
(* direction it is written only.                                           *)
TouchesAsWritten(l, n) == l.src.node = n

Touches(l, n) == l.src.node = n \/ l.dst.node = n

(* The orientation the resolver chooses for a link that touches n: the     *)
(* written direction is preferred, which matters only for a link from a    *)
(* node to itself.                                                         *)
Cross(l, n) == IF l.src.node = n THEN Forward(l) ELSE Backward(l)

(* The program's flat vector of PathHops.                                  *)
Hops(p) == [k \in 1..(2 * Len(p)) |->
              IF k % 2 = 1 THEN p[(k + 1) \div 2].exit ELSE p[k \div 2].entry]

-----------------------------------------------------------------------------
(* The reference: simple paths, by definition.                             *)

Joins(l, c) == c \in {Forward(l), Backward(l)}

(* The node a path from s has reached after k crossings.                   *)
NodeAt(s, p, k) == IF k = 0 THEN s ELSE p[k].entry.node

IsWalk(links, s, p) ==
    \A k \in 1..Len(p) : /\ \E i \in 1..Len(links) : Joins(links[i], p[k])
                         /\ p[k].exit.node = NodeAt(s, p, k - 1)

NoRepeatedNode(s, p) ==
    \A j, k \in 0..Len(p) : NodeAt(s, p, j) = NodeAt(s, p, k) => j = k

IsSimplePath(links, s, d, p) ==
    /\ IsWalk(links, s, p)
    /\ NodeAt(s, p, Len(p)) = d
    /\ NoRepeatedNode(s, p)

Crossings(links) == UNION {{Forward(links[i]), Backward(links[i])} : i \in 1..Len(links)}

(* A simple path visits no node twice, so it has fewer crossings than      *)
(* there are nodes; the bound makes the set one that TLC can enumerate.    *)
SimplePaths(links, s, d) ==
    {p \in UNION {[1..k -> Crossings(links)] : k \in 0..(Cardinality(Nodes) - 1)} :
        IsSimplePath(links, s, d, p)}

(* The ways of taking those paths: which declared link makes each crossing.*)
(* Two links between the same two ports make two routes of one path.       *)
RoutesOf(links, p) ==
    {via \in [1..Len(p) -> 1..Len(links)] : \A k \in 1..Len(p) : Joins(links[via[k]], p[k])}

Routes(links, s, d) ==
    UNION {{[path |-> p, via |-> v] : v \in RoutesOf(links, p)} : p \in SimplePaths(links, s, d)}
=============================================================================
