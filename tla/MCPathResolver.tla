--------------------------- MODULE MCPathResolver ---------------------------
(***************************************************************************)
(* Instances of PathResolver for TLC.                                      *)
(***************************************************************************)
EXTENDS PathResolver

CONSTANTS n1, n2, n3, n4, p, q

Lists(S, n) == UNION {[1..k -> S] : k \in 0..n}

(* Every list of at most three links between three one-port nodes: every   *)
(* orientation and order, links declared twice, links from a node to       *)
(* itself, disconnected and empty graphs.                                  *)
Among(S, l) == {l.src.node, l.dst.node} \subseteq S
OnePort(l)  == l.src.port = p /\ l.dst.port = p
ThreeNodeLists == Lists({l \in Link : Among({n1, n2, n3}, l) /\ OnePort(l)}, 3)

(* Every list of at most two links between two nodes with two ports each:  *)
(* parallel links, and links that share one port only.                     *)
Beside(l) == {l.src.node, l.dst.node} = {n1, n2}
ParallelLists == Lists({l \in Link : Beside(l)}, 2)

(* Every subgraph of the complete graph on four nodes, the links in one    *)
(* order and in mixed orientations: detours, branches and cycles of length *)
(* three and four.                                                         *)
Edge(m, n) == [src |-> [node |-> m, port |-> p], dst |-> [node |-> n, port |-> p]]
K4 == <<Edge(n1, n2), Edge(n3, n2), Edge(n1, n3), Edge(n4, n2), Edge(n3, n4), Edge(n4, n1)>>
FourNodeLists ==
    {[k \in 1..Cardinality(S) |-> K4[CHOOSE e \in S : Cardinality({f \in S : f < e}) = k - 1]]
        : S \in SUBSET (1..6)}

MCLinkLists == ThreeNodeLists \cup ParallelLists \cup FourNodeLists
=============================================================================
