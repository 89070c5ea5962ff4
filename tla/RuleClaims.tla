----------------------------- MODULE RuleClaims -----------------------------
(***************************************************************************)
(* What the README, the rule texts and comments of the code say of the     *)
(* rules, where the code does something else.  Each claim is read of a     *)
(* complete run: if the rule reports nothing, what it stands for holds.    *)
(***************************************************************************)
EXTENDS RuleEngine

SwitchesOf(p) == {h.node : h \in {g \in PathHops(p) : IsSwitch(topo, g.node)}}

(* redundancy.cpp:18-19: "a single physical path for ASIL traffic is a     *)
(* single point of failure (SPOF); a link break will result in loss of     *)
(* control".  Where TOPO001 is silent, no single link cuts the stream off. *)
(* The code counts paths, and two paths may share a link.                  *)
NoSinglePointOfFailure ==
    FullRun =>
      \A s \in Streams(topo) : (s.safety # 0 /\ ~Said("TOPO001", s)) =>
        \A d \in s.dsts : \A i \in 1..Len(topo.links) :
          SimplePaths(RemoveAt(topo.links, i), s.src, d) # {}

(* hop_count.cpp:46-47: "every switch node on the path appears exactly     *)
(* twice: once for the entry port and once for the exit port".  Where      *)
(* TOPO002 is silent, no path has more switches than max_hops.  A switch   *)
(* that is an end of the path appears once.                                *)
HopBound ==
    FullRun =>
      \A s \in Streams(topo) : ~Said("TOPO002", s) =>
        \A p \in AllPaths(topo, s) : Cardinality(SwitchesOf(p)) <= Config.max_hops
=============================================================================
