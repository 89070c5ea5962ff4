----------------------------- MODULE PathSearch -----------------------------
(***************************************************************************)
(* What include/path_resolver.hpp promises of resolve_paths: "all simple   *)
(* (cycle-free) paths between src_node and dst_node".  The search reports  *)
(* simple paths in any order and finishes only when it has reported every  *)
(* one of them.  How it looks for them is left open.                       *)
(***************************************************************************)
CONSTANTS Nodes,                  \* the node names
          LinkLists,              \* the link lists a file may declare
          SimplePaths(_, _, _)    \* the simple paths of a link list

VARIABLES links, src, dst,      \* the arguments of the call
          found,                \* the paths reported so far
          finished              \* the call has returned

vars == <<links, src, dst, found, finished>>

Init == /\ links \in LinkLists
        /\ src \in Nodes
        /\ dst \in Nodes
        /\ found = {}
        /\ finished = FALSE

Report == /\ ~finished
          /\ \E p \in SimplePaths(links, src, dst) : found' = found \cup {p}
          /\ UNCHANGED <<links, src, dst, finished>>

Complete == /\ ~finished
            /\ found = SimplePaths(links, src, dst)
            /\ finished' = TRUE
            /\ UNCHANGED <<links, src, dst, found>>

Next == Report \/ Complete

Spec == Init /\ [][Next]_vars
=============================================================================
