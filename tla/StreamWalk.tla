------------------------------ MODULE StreamWalk ------------------------------
(***************************************************************************)
(* The loops most rules are made of (src/rules): for every stream the rule *)
(* is about, for every path to one of its destinations, for every hop of   *)
(* the path.  A rule that keeps something from one turn to the next is     *)
(* modelled turn by turn: BandwidthLoop, LatencyLoop, and ServiceLoop,     *)
(* which loops over services.                                              *)
(*                                                                         *)
(* The paths of a stream may come in any order: none of these rules is to  *)
(* depend on it.  They come once each, also those the code walks again     *)
(* because a link or a destination is listed twice or because it leads to  *)
(* two destinations: what a rule finds on the way is then found again, and *)
(* what is found is a set here.                                            *)
(***************************************************************************)
EXTENDS Loader, Rules

(* The parameters of Topology and Rules cover what the files mention.      *)
ASSUME NamesType ==
    /\ <<>> \in LinkLists
    /\ \A f \in DOMAIN Documents :
         /\ \A ns \in Reading[f].ecus \cup Reading[f].nodes : \A i \in DOMAIN ns :
              ns[i].id \in Nodes /\ \A j \in DOMAIN ns[i].ports : ns[i].ports[j].id \in Ports
         /\ Reading[f].links \subseteq LinkLists
         /\ \A ss \in Reading[f].streams : \A i \in DOMAIN ss : ss[i].src \in Nodes /\ ss[i].dsts \subseteq Nodes

VARIABLES todo,        \* rules still to be run, the one that is running first
          returned,    \* what the others have returned
          violations,  \* what this one has found
          at,          \* the stream, or the service, it is at
          paths,       \* paths of that stream still to be walked
          path,        \* the hops of the path that is being walked
          hop          \* the hop it is at; 0 between two paths

walk == <<at, paths, path, hop>>

Running(rule) == stage = "loaded" /\ todo # <<>> /\ Head(todo) = rule

Stream     == parsed.streams[at]
Here       == path[hop]
OnHop      == hop \in 1..Len(path)
AfterHops  == hop = Len(path) + 1
Walked     == hop = 0 /\ paths = {}
AllStreams == Walked /\ at = Len(parsed.streams)

EnterStream(relevant) ==
    /\ Walked
    /\ at < Len(parsed.streams)
    /\ at' = at + 1
    /\ LET s == parsed.streams[at + 1]
       IN  paths' = IF s \in relevant THEN AllPaths(Indexed, s) ELSE {}
    /\ UNCHANGED <<path, hop>>

EnterPath ==
    /\ hop = 0
    /\ \E p \in paths : path' = Hops(p) /\ paths' = paths \ {p}
    /\ hop' = 1
    /\ UNCHANGED at

NextHop   == OnHop /\ hop' = hop + 1 /\ UNCHANGED <<at, paths, path>>
BreakPath == OnHop /\ hop' = Len(path) + 1 /\ UNCHANGED <<at, paths, path>>

LeavePath ==
    /\ AfterHops
    /\ hop' = 0
    /\ path' = <<>>
    /\ UNCHANGED <<at, paths>>

(* topo.node_index.find(hop.node_id), and the type of what it finds.       *)
TypeFound(n) == IF n \in DOMAIN node_index THEN {parsed.nodes[node_index[n]].type} ELSE {}
=============================================================================
