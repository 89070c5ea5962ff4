---------------------------- MODULE PathResolver ----------------------------
(***************************************************************************)
(* resolve_paths and its recursive dfs (src/topology/path_resolver.cpp),   *)
(* one action per step of an activation.                                   *)
(*                                                                         *)
(* The C++ call stack is explicit: a frame holds the parameter `current'   *)
(* of one activation and the index of the link its for-loop is at.         *)
(* visited, current_path and results are the references every activation   *)
(* shares, so a step of a callee is seen by its callers: what an           *)
(* activation finds in them after the recursive call returns is what this  *)
(* module is about.                                                        *)
(***************************************************************************)
EXTENDS Topology, Functions, SequencesExt

CONSTANT LinkLists      \* the link lists a topology file may declare

ASSUME LinkListsType == LinkLists \subseteq Seq(Link)

VARIABLES links,          \* topo.links
          src, dst,       \* src_node and dst_node of the call
          mode,           \* where the innermost activation is
          stack,          \* the activations, innermost last
          visited,        \* nodes of the activations that are in their loop
          current_path,   \* the crossings taken to reach the innermost one
          results         \* the paths found, in the order they were found

input == <<links, src, dst>>
vars  == <<links, src, dst, mode, stack, visited, current_path, results>>

Modes == {"call",       \* dfs has just been entered
          "loop",       \* at the head of the for-loop
          "return",     \* about to return to the caller
          "done"}       \* resolve_paths has returned

Frame == [node : Nodes, i : Nat \ {0}]

(* Definitions introduced as "the bug" are those of Topology: mistakes the *)
(* code could have made.  The bug: the loop counts from 0.                 *)
ActivationFromZero(n) == [node |-> n, i |-> 0]

Activation(n) == [node |-> n, i |-> 1]

Depth   == Len(stack)
Top     == stack[Depth]
Current == Top.node
Here    == links[Top.i]         \* the link the loop is looking at

InLoop == mode = "loop" /\ Top.i <= Len(links)

(* The caller of an activation resumes at its next link.                   *)
NextLink(f) == [f EXCEPT !.i = @ + 1]
Advance(s) == [s EXCEPT ![Len(s)] = NextLink(@)]

-----------------------------------------------------------------------------
Init == /\ links \in LinkLists
        /\ src \in Nodes
        /\ dst \in Nodes
        /\ mode = "call"
        /\ stack = <<Activation(src)>>
        /\ visited = {}
        /\ current_path = <<>>
        /\ results = <<>>

(* The bug: a path is put before those that were found earlier.            *)
HitFirst == /\ mode = "call"
            /\ Current = dst
            /\ results' = <<current_path>> \o results
            /\ mode' = "return"
            /\ UNCHANGED <<input, stack, visited, current_path>>

(* The bug: a path that is already there is not recorded again.            *)
HitOnce == /\ mode = "call"
           /\ Current = dst
           /\ results' = IF current_path \in Range(results) THEN results
                         ELSE Append(results, current_path)
           /\ mode' = "return"
           /\ UNCHANGED <<input, stack, visited, current_path>>

(* The target is reached: record the path and return.  The target itself   *)
(* is never put in visited.                                                *)
Hit == /\ mode = "call"
       /\ Current = dst
       /\ results' = Append(results, current_path)
       /\ mode' = "return"
       /\ UNCHANGED <<input, stack, visited, current_path>>

Visit == /\ mode = "call"
         /\ Current # dst
         /\ visited' = visited \cup {Current}
         /\ mode' = "loop"
         /\ UNCHANGED <<input, stack, current_path, results>>

(* The bug: a `continue' that does not get to the next link.               *)
SkipLinkStays == /\ InLoop
                 /\ \/ ~Touches(Here, Current)
                    \/ Cross(Here, Current).entry.node \in visited
                 /\ UNCHANGED vars

(* Both `continue's of the loop.                                           *)
SkipLink == /\ InLoop
            /\ \/ ~Touches(Here, Current)
               \/ Cross(Here, Current).entry.node \in visited
            /\ stack' = Advance(stack)
            /\ UNCHANGED <<input, mode, visited, current_path, results>>

(* The bug: visited is not looked at.                                      *)
DescendAnywhere == /\ InLoop
                   /\ Touches(Here, Current)
                   /\ LET c == Cross(Here, Current)
                      IN  /\ current_path' = Append(current_path, c)
                          /\ stack' = Append(stack, Activation(c.entry.node))
                   /\ mode' = "call"
                   /\ UNCHANGED <<input, visited, results>>

Descend == /\ InLoop
           /\ Touches(Here, Current)
           /\ LET c == Cross(Here, Current)
              IN  /\ c.entry.node \notin visited
                  /\ current_path' = Append(current_path, c)
                  /\ stack' = Append(stack, Activation(c.entry.node))
           /\ mode' = "call"
           /\ UNCHANGED <<input, visited, results>>

(* The bug: a node once visited stays visited.                             *)
ExitLoopNoErase == /\ mode = "loop"
                   /\ Top.i > Len(links)
                   /\ mode' = "return"
                   /\ UNCHANGED <<input, stack, visited, current_path, results>>

ExitLoop == /\ mode = "loop"
            /\ Top.i > Len(links)
            /\ visited' = visited \ {Current}
            /\ mode' = "return"
            /\ UNCHANGED <<input, stack, current_path, results>>

(* The bug: the crossing is not taken back.                                *)
ReturnNoPop == /\ mode = "return"
               /\ Depth > 1
               /\ stack' = Advance(Front(stack))
               /\ mode' = "loop"
               /\ UNCHANGED <<input, visited, current_path, results>>

(* The caller takes back the crossing it made and goes on with its loop.   *)
Return == /\ mode = "return"
          /\ Depth > 1
          /\ stack' = Advance(Front(stack))
          /\ current_path' = Front(current_path)
          /\ mode' = "loop"
          /\ UNCHANGED <<input, visited, results>>

(* The outermost activation returns: resolve_paths has its answer.         *)
Finish == /\ mode = "return"
          /\ Depth = 1
          /\ stack' = <<>>
          /\ mode' = "done"
          /\ UNCHANGED <<input, visited, current_path, results>>

Terminated == mode = "done" /\ UNCHANGED vars

Next == \/ Hit \/ Visit \/ SkipLink \/ Descend \/ ExitLoop \/ Return \/ Finish
        \/ Terminated

Spec == Init /\ [][Next]_vars

(* The program is one thread that never blocks: a step that can be taken   *)
(* is taken.                                                               *)
FairSpec == Spec /\ WF_vars(Next)

-----------------------------------------------------------------------------
(* The variables have their types.                                         *)
TypeOK == /\ links \in LinkLists
          /\ src \in Nodes
          /\ dst \in Nodes
          /\ mode \in Modes
          /\ stack \in Seq(Frame)
          /\ visited \subseteq Nodes
          /\ current_path \in Seq(Crossing)
          /\ results \in Seq(Seq(Crossing))

(* The pushes and pops of current_path and of visited match the calls and  *)
(* returns: in every activation current_path is the walk from the source   *)
(* to `current', each crossing being the one the frame below chose, and    *)
(* visited is exactly the set of nodes whose loops are running.  (Two      *)
(* unconditional pop_backs after the recursive call and the erase after    *)
(* the loop are what keep this true.)                                      *)
Looping == IF mode = "loop" THEN 1..Depth ELSE 1..(Depth - 1)

StackDiscipline ==
    /\ mode # "done" => /\ Depth = Len(current_path) + 1
                        /\ stack[1].node = src
    /\ mode = "done" => stack = <<>> /\ current_path = <<>>
    /\ mode = "call" => Top.i = 1
    /\ visited = {stack[k].node : k \in Looping}
    /\ \A k \in 1..Len(current_path) :
         LET f == stack[k] IN
           /\ f.i <= Len(links)
           /\ Touches(links[f.i], f.node)
           /\ current_path[k] = Cross(links[f.i], f.node)
           /\ stack[k + 1].node = current_path[k].entry.node

(* No activation runs for a node that an outer activation runs for, and    *)
(* none goes on searching beyond the target.                               *)
NoReentry ==
    /\ \A j, k \in 1..Depth : stack[j].node = stack[k].node => j = k
    /\ \A k \in Looping : stack[k].node # dst

(* Whatever has been recorded is a simple path of the link graph from the  *)
(* source to the target, at the moment it is recorded and for good: the    *)
(* vector copied into results is not touched by later pops.                *)
Soundness == \A r \in 1..Len(results) : IsSimplePath(links, src, dst, results[r])

(* The search still has p before it: p shares the walk to the activation   *)
(* at depth d and crosses next a link that activation has not yet tried.   *)
Untried(d) == IF d < Depth        THEN (stack[d].i + 1)..Len(links)
              ELSE IF mode = "loop" THEN stack[d].i..Len(links)
              ELSE {}

Ahead(p, d) ==
    /\ d - 1 <= Len(p)
    /\ \A k \in 1..(d - 1) : p[k] = current_path[k]
    /\ \/ d = Depth /\ mode = "call"
       \/ d <= Len(p) /\ \E i \in Untried(d) : /\ Touches(links[i], stack[d].node)
                                               /\ p[d] = Cross(links[i], stack[d].node)

(* No simple path is ever lost: at every moment each of them is recorded   *)
(* already or still ahead of some activation.  It holds because visited    *)
(* and current_path are put back exactly as they were when an activation   *)
(* returns; a node left in visited would cut paths off for good.           *)
NothingLost ==
    \A p \in SimplePaths(links, src, dst) :
        p \in Range(results) \/ \E d \in 1..Depth : Ahead(p, d)

(* "Find all simple (cycle-free) paths" (path_resolver.hpp:22): when the   *)
(* call returns no simple path is missing.                                 *)
Completeness ==
    mode = "done" => SimplePaths(links, src, dst) \subseteq Range(results)

(* A path is listed once for every way of taking it, no more and no less:  *)
(* TOPO001 goes by the number of results.                                  *)
CountsRoutes ==
    mode = "done" => Len(results) = Cardinality(Routes(links, src, dst))

(* The paths come out in the order the file declares the links: comparing  *)
(* two results at the first crossing where they differ, the earlier one    *)
(* took a link declared no later.  Reports are reproducible because of it, *)
(* and a path can be listed twice only when the file declares twice a link *)
(* between the same two ports.                                             *)
LinkOf(c) == CHOOSE i \in 1..Len(links) :
                /\ Joins(links[i], c)
                /\ \A j \in 1..(i - 1) : ~Joins(links[j], c)

DuplicateLink == \E i, j \in 1..Len(links) :
                    i # j /\ Joins(links[i], Forward(links[j]))

InLinkOrder ==
    ~DuplicateLink =>
      \A q, r \in 1..Len(results) : q < r =>
        \E k \in 1..Len(results[q]) :
          /\ k <= Len(results[r])
          /\ \A m \in 1..(k - 1) : results[q][m] = results[r][m]
          /\ LinkOf(results[q][k]) < LinkOf(results[r][k])

(* The search ends, on every graph, cyclic or not.                         *)
Termination == <>(mode = "done")

(* The search implements its promise.                                      *)
Search == INSTANCE PathSearch WITH found    <- Range(results),
                                   finished <- mode = "done"
RefinesPathSearch == Search!Spec
=============================================================================
