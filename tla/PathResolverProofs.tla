------------------------- MODULE PathResolverProofs -------------------------
(***************************************************************************)
(* Proofs about PathResolver, for every set of nodes and ports and every   *)
(* list of links.  The inductive invariant is                              *)
(*    Discipline /\ Soundness /\ Logged                                    *)
(* Discipline (types, the stack's match with visited and current_path, no  *)
(* node entered twice) is inductive by itself.  Logged says that there is  *)
(* a log of the routes taken, one for each result, in the order of their   *)
(* links, with nothing between what is logged and what is still to come;   *)
(* that no path is lost, that each way is listed once and that the results *)
(* are in order all follow from it.                                        *)
(***************************************************************************)
EXTENDS PathResolver, TopologyProofs

-----------------------------------------------------------------------------
(* Type correctness.                                                       *)

(* The links a call works on are links.                                    *)
LEMMA LinksType == ASSUME links \in LinkLists PROVE links \in Seq(Link)
  BY LinkListsType

(* Moving a frame on.                                                      *)
LEMMA NextLinkType ==
    ASSUME NEW f \in Frame
    PROVE  /\ NextLink(f) \in Frame
           /\ NextLink(f).node = f.node
           /\ NextLink(f).i = f.i + 1
  BY DEF NextLink, Frame

(* Moving the innermost loop on changes that loop's index and no more.     *)
LEMMA AdvanceType ==
    ASSUME NEW s \in Seq(Frame), s # <<>>
    PROVE  /\ Advance(s) \in Seq(Frame)
           /\ Len(Advance(s)) = Len(s)
           /\ \A k \in 1..Len(s) : Advance(s)[k].node = s[k].node
           /\ \A k \in 1..(Len(s) - 1) : Advance(s)[k] = s[k]
           /\ Advance(s)[Len(s)].i = s[Len(s)].i + 1
<1>1. Len(s) \in 1..Len(s) /\ \A k \in 1..Len(s) : s[k] \in Frame
  BY EmptySeq, ElementOfSeq
<1> DEFINE e == NextLink(s[Len(s)])
<1>2. e \in Frame /\ e.node = s[Len(s)].node /\ e.i = s[Len(s)].i + 1
  BY <1>1, NextLinkType
<1>3. Advance(s) = [s EXCEPT ![Len(s)] = e]
  BY DEF Advance
<1> QED BY <1>1, <1>2, <1>3, ExceptSeq

(* Dropping the last element of a sequence.                                *)
LEMMA FrontType ==
    ASSUME NEW S, NEW s \in Seq(S), Len(s) > 0
    PROVE  /\ Front(s) \in Seq(S)
           /\ Len(Front(s)) = Len(s) - 1
           /\ \A k \in 1..(Len(s) - 1) : Front(s)[k] = s[k]
<1> DEFINE n == Len(s) - 1
<1>1. n \in Nat /\ Front(s) = SubSeq(s, 1, n)
  BY LenProperties DEF Front
<1>2. \A k \in 1..n : s[k] \in S
  BY ElementOfSeq, LenProperties
<1> HIDE DEF n
<1>3. /\ SubSeq(s, 1, n) \in Seq(S)
      /\ Len(SubSeq(s, 1, n)) = IF 1 <= n THEN n - 1 + 1 ELSE 0
      /\ \A k \in 1..(n - 1 + 1) : SubSeq(s, 1, n)[k] = s[1 + k - 1]
  BY <1>1, <1>2, SubSeqProperties
<1>4. Len(SubSeq(s, 1, n)) = n
  BY <1>1, <1>3
<1>5. \A k \in 1..n : SubSeq(s, 1, n)[k] = s[k]
  <2> TAKE k \in 1..n
  <2>1. k \in 1..(n - 1 + 1) /\ 1 + k - 1 = k
    BY <1>1
  <2> QED BY <1>3, <2>1
<1> QED BY <1>1, <1>3, <1>4, <1>5 DEF n

(* The stack is not empty and the paths fit it until the call returns.     *)
Shape == /\ mode # "done" => Depth = Len(current_path) + 1
         /\ mode = "done" => stack = <<>> /\ current_path = <<>>

(* In every reachable state the variables have their types.                *)
LEMMA InitTypeOK == Init => TypeOK /\ Shape
  BY DEF Init, TypeOK, Shape, Modes, Frame, Activation, Depth

(* A step of dfs leaves every variable in its type, and the stack is       *)
(* empty only when the call has returned.                                  *)
LEMMA NextTypeOK == TypeOK /\ Shape /\ [Next]_vars => TypeOK' /\ Shape'
<1> SUFFICES ASSUME TypeOK, Shape, [Next]_vars PROVE TypeOK' /\ Shape'
  OBVIOUS
<1> USE DEF TypeOK, Shape, Modes, Depth
<1>0. links \in Seq(Link)
  BY LinksType
<1>1. CASE Hit
  BY <1>1 DEF Hit, input
<1>2. CASE Visit
  <2>1. Depth \in 1..Depth /\ Top \in Frame
    BY <1>2, ElementOfSeq, EmptySeq DEF Visit, Top
  <2>2. Current \in Nodes
    BY <2>1 DEF Current, Frame
  <2> QED BY <1>2, <2>2 DEF Visit, input
<1>3. CASE SkipLink
  BY <1>3, AdvanceType DEF SkipLink, InLoop, input
<1>4. CASE Descend
  <2> DEFINE c == Cross(Here, Current)
  <2>1. Top \in Frame
    BY <1>4 DEF Descend, InLoop, Top
  <2>2. Here \in Link /\ Current \in Nodes
    BY <1>0, <1>4, <2>1 DEF Descend, InLoop, Here, Current, Frame
  <2>3. c \in Crossing /\ Activation(c.entry.node) \in Frame
    BY <2>2, CrossType DEF Activation, Frame
  <2>4. /\ stack' = Append(stack, Activation(c.entry.node))
        /\ current_path' = Append(current_path, c)
        /\ mode' = "call"
        /\ UNCHANGED <<input, visited, results>>
        /\ mode = "loop"
    BY <1>4 DEF Descend, InLoop
  <2> HIDE DEF c
  <2> QED BY <2>3, <2>4 DEF input
<1>5. CASE ExitLoop
  BY <1>5 DEF ExitLoop, input
<1>6. CASE Return
  <2>0. /\ Len(stack) > 1
        /\ Len(current_path) = Len(stack) - 1
        /\ Len(current_path) > 0
    BY <1>6, LenProperties DEF Return
  <2>1. /\ Front(stack) \in Seq(Frame)
        /\ Len(Front(stack)) = Depth - 1
        /\ Front(current_path) \in Seq(Crossing)
        /\ Len(Front(current_path)) = Depth - 2
    BY <2>0, FrontType, LenProperties
  <2>2. Front(stack) # <<>>
    BY <2>0, <2>1, EmptySeq
  <2>3. /\ Advance(Front(stack)) \in Seq(Frame)
        /\ Len(Advance(Front(stack))) = Depth - 1
    BY <2>1, <2>2, AdvanceType
  <2> QED BY <1>6, <2>1, <2>3 DEF Return, input
<1>7. CASE Finish
  BY <1>7 DEF Finish, input
<1>8. CASE UNCHANGED vars
  BY <1>8 DEF vars
<1> QED BY <1>1, <1>2, <1>3, <1>4, <1>5, <1>6, <1>7, <1>8 DEF Next, Terminated

(* Every variable keeps its type in every reachable state.                 *)
THEOREM TypeCorrect == Spec => []TypeOK
<1>1. Init => TypeOK /\ Shape
  BY InitTypeOK
<1>2. TypeOK /\ Shape /\ [Next]_vars => (TypeOK /\ Shape)'
  BY NextTypeOK
<1>3. QED BY <1>1, <1>2, PTL DEF Spec

-----------------------------------------------------------------------------
(* What the three actions that move the stack do to it, element by element.*)

(* SkipLink moves the innermost loop on.                                   *)
LEMMA SkipEffect ==
    ASSUME TypeOK, Shape, SkipLink
    PROVE  /\ Depth \in Nat \ {0} /\ Depth' = Depth /\ current_path' = current_path
           /\ \A k \in 1..Depth : stack'[k].node = stack[k].node
           /\ \A k \in 1..(Depth - 1) : stack'[k] = stack[k]
           /\ stack'[Depth].i = stack[Depth].i + 1
<1>1. stack # <<>> /\ stack \in Seq(Frame)
  BY DEF SkipLink, InLoop, Shape, Depth, TypeOK
<1> QED BY <1>1, AdvanceType, EmptySeq DEF SkipLink, Depth

(* Descend adds an activation and the crossing that leads to it.           *)
LEMMA DescendEffect ==
    ASSUME TypeOK, Shape, Descend
    PROVE  LET c == Cross(Here, Current) IN
           /\ Depth \in Nat \ {0} /\ Depth' = Depth + 1
           /\ \A k \in 1..Depth : stack'[k] = stack[k]
           /\ stack'[Depth + 1].node = c.entry.node
           /\ stack'[Depth + 1].i = 1
           /\ Len(current_path) = Depth - 1 /\ Len(current_path') = Depth
           /\ \A k \in 1..(Depth - 1) : current_path'[k] = current_path[k]
           /\ current_path'[Depth] = c
           /\ c \in Crossing /\ c.entry.node \in Nodes
<1> DEFINE c == Cross(Here, Current)
<1> DEFINE f == Activation(c.entry.node)
<1>1. Depth \in Nat \ {0} /\ Len(current_path) = Depth - 1 /\ Top \in Frame
  BY EmptySeq, LenProperties, ElementOfSeq DEF TypeOK, Shape, Descend, InLoop, Depth, Top
<1>2. Here \in Link /\ Current \in Nodes
  BY <1>1, LinksType DEF TypeOK, Descend, InLoop, Here, Current, Frame
<1>3. c \in Crossing /\ c.entry.node \in Nodes
  BY <1>2, CrossType
<1>4. f \in Frame /\ f.node = c.entry.node /\ f.i = 1
  BY <1>3 DEF Activation, Frame
<1>5. stack' = Append(stack, f) /\ current_path' = Append(current_path, c)
  BY DEF Descend
<1>6. stack \in Seq(Frame) /\ current_path \in Seq(Crossing)
  BY DEF TypeOK
<1> HIDE DEF f, c
<1>7. /\ Len(stack') = Len(stack) + 1
      /\ \A k \in 1..Len(stack) : stack'[k] = stack[k]
      /\ stack'[Len(stack) + 1] = f
  BY <1>4, <1>5, <1>6, AppendProperties
<1>8. /\ Len(current_path') = Len(current_path) + 1
      /\ \A k \in 1..Len(current_path) : current_path'[k] = current_path[k]
      /\ current_path'[Len(current_path) + 1] = c
  BY <1>3, <1>5, <1>6, AppendProperties
<1> QED BY <1>1, <1>3, <1>4, <1>7, <1>8 DEF Depth, c

(* Return drops the innermost activation and its crossing and moves the    *)
(* caller's loop on.                                                       *)
LEMMA ReturnEffect ==
    ASSUME TypeOK, Shape, Return
    PROVE  /\ Depth \in Nat /\ Depth > 1 /\ Depth' = Depth - 1
           /\ \A k \in 1..(Depth - 1) : stack'[k].node = stack[k].node
           /\ \A k \in 1..(Depth - 2) : stack'[k] = stack[k]
           /\ stack'[Depth - 1].i = stack[Depth - 1].i + 1
           /\ Len(current_path) = Depth - 1 /\ Len(current_path') = Depth - 2
           /\ \A k \in 1..(Depth - 2) : current_path'[k] = current_path[k]
<1> DEFINE s == Front(stack)
<1>1. /\ Depth \in Nat /\ Depth > 1 /\ Len(current_path) = Depth - 1
      /\ Len(current_path) > 0
      /\ stack \in Seq(Frame) /\ current_path \in Seq(Crossing)
  BY LenProperties DEF TypeOK, Shape, Return, Depth
<1>2. /\ s \in Seq(Frame) /\ Len(s) = Depth - 1
      /\ \A k \in 1..(Depth - 1) : s[k] = stack[k]
  BY <1>1, FrontType DEF Depth
<1>3. /\ Len(Front(current_path)) = Depth - 2
      /\ \A k \in 1..(Depth - 2) : Front(current_path)[k] = current_path[k]
  BY <1>1, FrontType
<1>4. stack' = Advance(s) /\ current_path' = Front(current_path)
  BY DEF Return
<1> HIDE DEF s
<1>5. s # <<>>
  BY <1>1, <1>2, EmptySeq
<1>6. /\ Len(Advance(s)) = Depth - 1
      /\ \A k \in 1..(Depth - 1) : Advance(s)[k].node = s[k].node
      /\ \A k \in 1..(Depth - 2) : Advance(s)[k] = s[k]
      /\ Advance(s)[Depth - 1].i = s[Depth - 1].i + 1
  <2>1. Len(s) - 1 = Depth - 2
    BY <1>1, <1>2
  <2> QED BY <1>2, <1>5, <2>1, AdvanceType
<1>7. (Depth - 1) \in 1..(Depth - 1) /\ 1..(Depth - 2) \subseteq 1..(Depth - 1)
  BY <1>1
<1> QED BY <1>1, <1>2, <1>3, <1>4, <1>6, <1>7 DEF Depth

-----------------------------------------------------------------------------
(* The stack, the path and the visited set move together.                  *)

Discipline == TypeOK /\ Shape /\ StackDiscipline /\ NoReentry

(* The call starts with one activation, nothing visited and no walk.       *)
LEMMA InitDiscipline == Init => Discipline
<1> SUFFICES ASSUME Init PROVE Discipline
  OBVIOUS
<1>1. /\ Depth = 1 /\ stack[1].node = src /\ Len(current_path) = 0
      /\ mode = "call" /\ visited = {} /\ Top.i = 1
  BY DEF Init, Activation, Depth, Top
<1>2. StackDiscipline
  BY <1>1 DEF StackDiscipline, Looping
<1>3. NoReentry
  BY <1>1 DEF NoReentry, Looping
<1> QED BY <1>2, <1>3, InitTypeOK DEF Discipline

(* The frames whose nodes are in visited, and the nodes themselves.        *)
LEMMA LoopingFacts ==
    ASSUME Discipline
    PROVE  /\ Depth \in Nat
           /\ \A k \in 1..Depth : stack[k] \in Frame
           /\ mode # "done" => Depth > 0 /\ Len(current_path) = Depth - 1
           /\ mode = "loop" => Looping = 1..Depth
           /\ mode # "loop" => Looping = 1..(Depth - 1)
  BY LenProperties, ElementOfSeq
     DEF Discipline, TypeOK, Shape, Depth, Looping

(* A `continue' disturbs neither the stack's match with visited and        *)
(* current_path nor the distinctness of the activations' nodes.            *)
LEMMA SkipDiscipline ==
    ASSUME Discipline, SkipLink
    PROVE  (StackDiscipline /\ NoReentry)'
<1> USE DEF Discipline
<1>1. /\ UNCHANGED <<links, src, dst, mode, visited>> /\ mode = "loop"
      /\ Top.i <= Len(links)
  BY DEF SkipLink, InLoop, input
<1>2. Looping' = Looping
  BY <1>1, SkipEffect DEF Looping
<1>3. visited' = {stack'[k].node : k \in Looping'}
  BY <1>1, <1>2, SkipEffect, LoopingFacts DEF StackDiscipline
<1>4. ASSUME NEW k \in 1..Len(current_path')
      PROVE  LET f == stack'[k] IN
               /\ f.i <= Len(links) /\ Touches(links[f.i], f.node)
               /\ current_path'[k] = Cross(links[f.i], f.node)
               /\ stack'[k + 1].node = current_path'[k].entry.node
  <2>1. /\ k \in 1..(Depth - 1)
        /\ k + 1 \in 1..Depth
        /\ k \in 1..Len(current_path)
    BY <1>1, SkipEffect, LoopingFacts
  <2>2. /\ stack'[k] = stack[k] /\ stack'[k + 1].node = stack[k + 1].node
        /\ current_path'[k] = current_path[k]
    BY <2>1, SkipEffect
  <2> QED BY <1>1, <2>1, <2>2 DEF StackDiscipline
<1>6. StackDiscipline'
  <2>1. /\ mode' # "done"
        /\ Depth' = Len(current_path') + 1
        /\ stack'[1].node = src'
    BY <1>1, SkipEffect DEF StackDiscipline
  <2> QED BY <1>1, <1>3, <1>4, <2>1 DEF StackDiscipline
<1>5. NoReentry'
  BY <1>1, <1>2, SkipEffect, LoopingFacts DEF NoReentry
<1> QED BY <1>5, <1>6

(* visited.insert(current) accounts for the loop that begins.              *)
LEMMA VisitDiscipline ==
    ASSUME Discipline, Visit
    PROVE  (StackDiscipline /\ NoReentry)'
<1> USE DEF Discipline
<1>1. /\ UNCHANGED <<links, src, dst, stack, current_path>>
      /\ mode = "call" /\ mode' = "loop" /\ Depth' = Depth
      /\ visited' = visited \cup {stack[Depth].node} /\ stack[Depth].node # dst
  BY DEF Visit, input, Depth, Current, Top
<1>2. Looping = 1..(Depth - 1) /\ Looping' = 1..Depth /\ Depth \in Nat \ {0}
  BY <1>1, LoopingFacts DEF Looping
<1>3. visited' = {stack'[k].node : k \in Looping'}
  <2>1. visited = {stack[k].node : k \in 1..(Depth - 1)}
    BY <1>2 DEF StackDiscipline
  <2>2. 1..Depth = 1..(Depth - 1) \cup {Depth}
    BY <1>2
  <2> QED BY <1>1, <1>2, <2>1, <2>2
<1>4. StackDiscipline'
  BY <1>1, <1>3, LoopingFacts DEF StackDiscipline, Shape
<1>5. NoReentry'
  BY <1>1, <1>2, LoopingFacts DEF NoReentry
<1> QED BY <1>4, <1>5

(* The two push_backs account for the activation that is called, and the   *)
(* look at visited keeps its node apart from all others.                   *)
LEMMA DescendDiscipline ==
    ASSUME Discipline, Descend
    PROVE  (StackDiscipline /\ NoReentry)'
<1> USE DEF Discipline
<1> DEFINE c == Cross(Here, Current)
<1>1. /\ UNCHANGED <<links, src, dst, visited>>
      /\ mode = "loop" /\ mode' = "call"
      /\ Top.i <= Len(links) /\ Touches(Here, Current)
      /\ c.entry.node \notin visited
  BY DEF Descend, InLoop, input
<1>2. /\ Depth \in Nat \ {0} /\ Depth' = Depth + 1
      /\ \A k \in 1..Depth : stack'[k] = stack[k]
      /\ stack'[Depth + 1].node = c.entry.node
      /\ Len(current_path) = Depth - 1 /\ Len(current_path') = Depth
      /\ \A k \in 1..(Depth - 1) : current_path'[k] = current_path[k]
      /\ current_path'[Depth] = c /\ stack'[Depth + 1].i = 1
  BY DescendEffect
<1>3. Looping = 1..Depth /\ Looping' = 1..Depth
  BY <1>1, <1>2 DEF Looping
<1>4. visited' = {stack'[k].node : k \in Looping'}
  BY <1>1, <1>2, <1>3 DEF StackDiscipline
<1>5. ASSUME NEW k \in 1..Len(current_path')
      PROVE  LET f == stack'[k] IN
               /\ f.i <= Len(links) /\ Touches(links[f.i], f.node)
               /\ current_path'[k] = Cross(links[f.i], f.node)
               /\ stack'[k + 1].node = current_path'[k].entry.node
  <2>1. CASE k = Depth
    <3>1. stack'[k] = Top /\ Here = links[Top.i] /\ Current = Top.node
      BY <1>2, <2>1 DEF Top, Here, Current
    <3>2. Touches(links[Top.i], Top.node) /\ c = Cross(links[Top.i], Top.node)
      BY <1>1, <3>1
    <3> HIDE DEF c
    <3> QED BY <1>1, <1>2, <2>1, <3>1, <3>2
  <2>2. CASE k # Depth
    <3>1. /\ k \in 1..Len(current_path)
          /\ k \in 1..(Depth - 1)
          /\ k + 1 \in 1..Depth
          /\ k \in 1..Depth
      BY <1>2, <2>2
    <3> HIDE DEF c
    <3> QED BY <1>1, <1>2, <3>1 DEF StackDiscipline
  <2> QED BY <2>1, <2>2
<1> HIDE DEF c
<1>6. StackDiscipline'
  <2>1. /\ mode' # "done"
        /\ Depth' = Len(current_path') + 1
        /\ stack'[1].node = src'
    BY <1>1, <1>2 DEF StackDiscipline
  <2>2. Top'.i = 1
    BY <1>2 DEF Top
  <2> QED BY <1>1, <1>4, <1>5, <2>1, <2>2 DEF StackDiscipline
<1>7. NoReentry'
  <2>1. \A k \in 1..Depth : stack[k].node # c.entry.node
    BY <1>1, <1>3 DEF StackDiscipline
  <2>2. \A j, k \in 1..Depth' : stack'[j].node = stack'[k].node => j = k
    BY <1>2, <2>1 DEF NoReentry
  <2> QED BY <1>1, <1>2, <1>3, <2>2 DEF NoReentry
<1> QED BY <1>6, <1>7

(* visited.erase(current) accounts for the loop that ends.                 *)
LEMMA ExitDiscipline ==
    ASSUME Discipline, ExitLoop
    PROVE  (StackDiscipline /\ NoReentry)'
<1> USE DEF Discipline
<1>1. /\ UNCHANGED <<links, src, dst, stack, current_path>>
      /\ mode = "loop" /\ mode' = "return" /\ Depth' = Depth
      /\ visited' = visited \ {stack[Depth].node}
  BY DEF ExitLoop, input, Depth, Current, Top
<1>2. Looping = 1..Depth /\ Looping' = 1..(Depth - 1) /\ Depth \in Nat \ {0}
  BY <1>1, LoopingFacts DEF Looping
<1>3. visited' = {stack'[k].node : k \in Looping'}
  <2>1. visited = {stack[k].node : k \in 1..Depth}
    BY <1>2 DEF StackDiscipline
  <2>2. 1..Depth = 1..(Depth - 1) \cup {Depth}
    BY <1>2
  <2>3. \A k \in 1..(Depth - 1) : stack[k].node # stack[Depth].node
    BY <1>2 DEF NoReentry
  <2> QED BY <1>1, <1>2, <2>1, <2>2, <2>3
<1>4. StackDiscipline'
  BY <1>1, <1>3, LoopingFacts DEF StackDiscipline, Shape
<1>5. NoReentry'
  BY <1>1, <1>2, LoopingFacts DEF NoReentry
<1> QED BY <1>4, <1>5

(* The two pop_backs account for the activation that has returned.         *)
LEMMA ReturnDiscipline ==
    ASSUME Discipline, Return
    PROVE  (StackDiscipline /\ NoReentry)'
<1> USE DEF Discipline
<1>1. /\ UNCHANGED <<links, src, dst, visited>>
      /\ mode = "return" /\ mode' = "loop"
  BY DEF Return, input
<1>2. Looping = 1..(Depth - 1) /\ Looping' = 1..(Depth - 1)
  BY <1>1, ReturnEffect DEF Looping
<1>3. visited' = {stack'[k].node : k \in Looping'}
  <2>1. visited = {stack[k].node : k \in 1..(Depth - 1)}
    BY <1>2 DEF StackDiscipline
  <2> QED BY <1>1, <1>2, <2>1, ReturnEffect
<1>4. ASSUME NEW k \in 1..Len(current_path')
      PROVE  LET f == stack'[k] IN
               /\ f.i <= Len(links) /\ Touches(links[f.i], f.node)
               /\ current_path'[k] = Cross(links[f.i], f.node)
               /\ stack'[k + 1].node = current_path'[k].entry.node
  <2>1. /\ k \in 1..(Depth - 2)
        /\ k + 1 \in 1..(Depth - 1)
        /\ k \in 1..Len(current_path)
    BY ReturnEffect
  <2>2. /\ stack'[k] = stack[k] /\ stack'[k + 1].node = stack[k + 1].node
        /\ current_path'[k] = current_path[k]
    BY <2>1, ReturnEffect
  <2> QED BY <1>1, <2>1, <2>2 DEF StackDiscipline
<1>6. StackDiscipline'
  <2>1. /\ mode' # "done"
        /\ Depth' = Len(current_path') + 1
        /\ stack'[1].node = src'
    BY <1>1, ReturnEffect DEF StackDiscipline
  <2> QED BY <1>1, <1>3, <1>4, <2>1 DEF StackDiscipline
<1>5. NoReentry'
  BY <1>1, <1>2, ReturnEffect DEF NoReentry
<1> QED BY <1>5, <1>6

(* Every step of dfs keeps stack, visited and current_path in agreement.   *)
LEMMA NextDiscipline == Discipline /\ [Next]_vars => Discipline'
<1> SUFFICES ASSUME Discipline, [Next]_vars
             PROVE (StackDiscipline /\ NoReentry)'
  BY NextTypeOK DEF Discipline
<1>1. CASE Hit
  <2>1. /\ UNCHANGED <<links, src, dst, stack, visited, current_path>>
        /\ mode = "call" /\ mode' = "return"
    BY <1>1 DEF Hit, input
  <2>2. Looping' = Looping /\ Depth' = Depth
    BY <2>1 DEF Looping, Depth
  <2>3. StackDiscipline'
    BY <2>1, <2>2 DEF Discipline, StackDiscipline
  <2>4. NoReentry'
    BY <2>1, <2>2 DEF Discipline, NoReentry
  <2> QED BY <2>3, <2>4
<1>2. CASE Finish
  <2>1. /\ UNCHANGED <<links, src, dst, visited, current_path>>
        /\ mode = "return" /\ mode' = "done" /\ stack' = <<>> /\ Depth = 1
    BY <1>2 DEF Finish, input
  <2>2. Len(current_path) = 0 /\ current_path = <<>>
    BY <2>1, LoopingFacts, EmptySeq DEF Discipline, TypeOK
  <2>3. Depth' = 0 /\ Looping = {} /\ Looping' = {}
    BY <2>1 DEF Depth, Looping
  <2>4. StackDiscipline'
    BY <2>1, <2>2, <2>3 DEF Discipline, StackDiscipline
  <2>5. NoReentry'
    BY <2>3 DEF NoReentry
  <2> QED BY <2>4, <2>5
<1>3. CASE UNCHANGED vars
  <2>1. /\ UNCHANGED <<links, src, dst, mode, stack, visited, current_path>>
        /\ Looping' = Looping /\ Depth' = Depth /\ Top' = Top
    BY <1>3 DEF vars, Looping, Depth, Top
  <2>2. StackDiscipline'
    BY <2>1 DEF Discipline, StackDiscipline
  <2>3. NoReentry'
    BY <2>1 DEF Discipline, NoReentry
  <2> QED BY <2>2, <2>3
<1> QED BY <1>1, <1>2, <1>3, SkipDiscipline, VisitDiscipline, DescendDiscipline,
           ExitDiscipline, ReturnDiscipline DEF Next, Terminated

(* In every reachable state the pushes and pops of current_path and        *)
(* visited match the activations, and no two activations share a node.     *)
THEOREM Disciplined == Spec => [](StackDiscipline /\ NoReentry)
<1>1. Init => Discipline
  BY InitDiscipline
<1>2. Discipline /\ [Next]_vars => Discipline'
  BY NextDiscipline
<1>3. Discipline => StackDiscipline /\ NoReentry
  BY DEF Discipline
<1>4. QED BY <1>1, <1>2, <1>3, PTL DEF Spec

-----------------------------------------------------------------------------
(* Soundness: what is recorded is a simple path.                           *)

(* The nodes the walk under way visits are those of the activations.       *)
LEMMA WalkNodes ==
    ASSUME Discipline, mode # "done"
    PROVE  \A k \in 0..(Depth - 1) : NodeAt(src, current_path, k) = stack[k + 1].node
<1> SUFFICES ASSUME NEW k \in 0..(Depth - 1)
             PROVE  NodeAt(src, current_path, k) = stack[k + 1].node
  OBVIOUS
<1>1. CASE k = 0
  BY <1>1 DEF NodeAt, Discipline, StackDiscipline
<1>2. CASE k # 0
  <2>1. k \in 1..Len(current_path)
    BY <1>2, LoopingFacts
  <2> QED BY <1>2, <2>1 DEF NodeAt, Discipline, StackDiscipline
<1> QED BY <1>1, <1>2

(* Each crossing of the walk under way crosses the link its activation is  *)
(* at, out of that activation's node.                                      *)
LEMMA WalkLinks ==
    ASSUME Discipline, NEW k \in 1..Len(current_path)
    PROVE  /\ stack[k].i \in 1..Len(links)
           /\ Joins(links[stack[k].i], current_path[k])
           /\ current_path[k].exit.node = stack[k].node
<1> USE DEF Discipline
<1> DEFINE f == stack[k]
<1>1. /\ f.i <= Len(links) /\ Touches(links[f.i], f.node)
      /\ current_path[k] = Cross(links[f.i], f.node)
  BY DEF StackDiscipline
<1>2. f \in Frame
  <2>1. mode # "done"
    BY LenProperties DEF Shape
  <2> QED
    BY <2>1, LoopingFacts
<1>3. f.i \in 1..Len(links) /\ f.node \in Nodes /\ links[f.i] \in Link
  BY <1>1, <1>2, LinksType, LenProperties, ElementOfSeq DEF Frame, TypeOK
<1> QED
  BY <1>1, <1>3, CrossType

(* The walk under way is a walk of the link graph with no repeated node.   *)
LEMMA WalkIsSimple ==
    ASSUME Discipline, mode # "done"
    PROVE  IsSimplePath(links, src, Current, current_path)
<1> USE DEF Discipline
<1>1. Depth \in Nat \ {0} /\ Len(current_path) = Depth - 1
  BY LoopingFacts
<1>2. ASSUME NEW k \in 1..Len(current_path)
      PROVE  /\ \E i \in 1..Len(links) : Joins(links[i], current_path[k])
             /\ current_path[k].exit.node = NodeAt(src, current_path, k - 1)
  <2>1. k \in 1..Depth /\ k - 1 \in 0..(Depth - 1) /\ (k - 1) + 1 = k
    BY <1>1
  <2>2. stack[k].node = NodeAt(src, current_path, k - 1)
    BY <2>1, WalkNodes
  <2> QED
    BY <2>2, WalkLinks
<1>3. IsWalk(links, src, current_path)
  BY <1>2 DEF IsWalk
<1>4. NodeAt(src, current_path, Len(current_path)) = Current
  <2>1. Depth - 1 \in 0..(Depth - 1) /\ (Depth - 1) + 1 = Depth
    BY <1>1
  <2> QED BY <1>1, <2>1, WalkNodes DEF Current, Top
<1>5. NoRepeatedNode(src, current_path)
  <2> SUFFICES ASSUME NEW j \in 0..Len(current_path), NEW k \in 0..Len(current_path),
                      NodeAt(src, current_path, j) = NodeAt(src, current_path, k)
               PROVE  j = k
    BY DEF NoRepeatedNode
  <2>1. stack[j + 1].node = stack[k + 1].node
    BY <1>1, WalkNodes
  <2>2. j + 1 = k + 1
    BY <1>1, <2>1 DEF NoReentry
  <2> QED BY <2>2
<1> QED BY <1>3, <1>4, <1>5 DEF IsSimplePath

(* Only Hit changes the results, and it appends.                           *)
LEMMA ResultsGrow ==
    ASSUME Discipline, [Next]_vars
    PROVE  /\ links' = links /\ src' = src /\ dst' = dst
           /\ \/ results' = results
              \/ /\ Hit
                 /\ Len(results') = Len(results) + 1
                 /\ \A r \in 1..Len(results) : results'[r] = results[r]
                 /\ results'[Len(results) + 1] = current_path
<1>1. CASE Hit
  <2>1. results' = Append(results, current_path)
    BY <1>1 DEF Hit
  <2>2. results \in Seq(Seq(Crossing)) /\ current_path \in Seq(Crossing)
    BY DEF Discipline, TypeOK
  <2> QED BY <1>1, <2>1, <2>2, AppendProperties DEF Hit, input
<1>2. CASE ~Hit
  BY <1>2 DEF Next, Visit, SkipLink, Descend, ExitLoop, Return, Finish, Terminated,
              vars, input
<1> QED BY <1>1, <1>2

(* The set of recorded paths grows by the walk under way.                  *)
LEMMA RecordedGrow ==
    ASSUME NEW S, NEW rs \in Seq(S), NEW p \in S
    PROVE  Range(Append(rs, p)) = Range(rs) \cup {p}
<1>1. /\ DOMAIN rs = 1..Len(rs) /\ Len(rs) \in Nat
      /\ DOMAIN Append(rs, p) = 1..(Len(rs) + 1)
      /\ \A r \in 1..Len(rs) : Append(rs, p)[r] = rs[r]
      /\ Append(rs, p)[Len(rs) + 1] = p
  BY AppendProperties, LenProperties
<1>2. 1..(Len(rs) + 1) = 1..Len(rs) \cup {Len(rs) + 1}
  BY <1>1
<1> HIDE DEF Range
<1> QED BY <1>1, <1>2 DEF Range

(* A step of dfs records no path that is not simple: what Hit records is   *)
(* the walk under way.                                                     *)
LEMMA NextSoundness == Discipline /\ Soundness /\ [Next]_vars => Soundness'
<1> SUFFICES ASSUME Discipline, Soundness, [Next]_vars PROVE Soundness'
  OBVIOUS
<1>1. CASE results' = results
  BY <1>1, ResultsGrow DEF Soundness
<1>2. CASE Hit
  <2>1. IsSimplePath(links, src, dst, current_path)
    BY <1>2, WalkIsSimple DEF Hit
  <2>2. Len(results) \in Nat
    BY LenProperties DEF Discipline, TypeOK
  <2>3. CASE results' = results
    BY <1>1, <2>3
  <2>4. CASE results' # results
    <3> SUFFICES ASSUME NEW r \in 1..Len(results')
                 PROVE  IsSimplePath(links, src, dst, results'[r])
      BY ResultsGrow DEF Soundness
    <3>1. r \in 1..Len(results) \/ r = Len(results) + 1
      BY <2>2, <2>4, ResultsGrow
    <3> QED BY <2>1, <2>4, <3>1, ResultsGrow DEF Soundness
  <2> QED BY <2>3, <2>4
<1> QED BY <1>1, <1>2, ResultsGrow

(* Nothing has been recorded when the call starts.                         *)
LEMMA InitSoundness == Init => Soundness
  BY DEF Init, Soundness

(* Every path the resolver ever holds in its results is a simple path of   *)
(* the declared links from the source to the target.                       *)
THEOREM Sound == Spec => []Soundness
<1>1. Init => Discipline /\ Soundness
  BY InitDiscipline, InitSoundness
<1>2. (Discipline /\ Soundness) /\ [Next]_vars => (Discipline /\ Soundness)'
  BY NextDiscipline, NextSoundness
<1>3. QED BY <1>1, <1>2, PTL DEF Spec

-----------------------------------------------------------------------------
(* The routes: every way of taking a simple path is found once, and in the *)
(* order of the links.  A path that crosses a link declared twice is taken *)
(* in two ways, so it is the routes, and not the paths, that the results   *)
(* correspond to one by one.                                               *)

AllRoutes == Routes(links, src, dst)

(* The route the walk under way follows.                                   *)
UnderWay == [path |-> current_path, via |-> [k \in 1..Len(current_path) |-> stack[k].i]]

(* w goes the way the activations outside depth d have gone.               *)
Along(w, d) == /\ d - 1 <= Len(w.path)
               /\ \A k \in 1..(d - 1) : /\ w.path[k] = current_path[k]
                                        /\ w.via[k] = stack[k].i

(* The activation at depth d has w before it.                              *)
Coming(w, d) == /\ Along(w, d)
                /\ \/ d = Depth /\ mode = "call"
                   \/ d <= Len(w.path) /\ w.via[d] \in Untried(d)

(* The search has w behind it: w has just been recorded, or some           *)
(* activation has moved on from the link w takes there.                    *)
Past(w) == \/ mode = "return" /\ w = UnderWay
           \/ \E d \in 1..Depth : /\ Along(w, d)
                                  /\ d <= Len(w.path)
                                  /\ w.via[d] < stack[d].i

(* Where v and w part, v takes a link declared before the one w takes.     *)
Earlier(v, w) == \E k \in 1..Len(v.path) :
                    /\ k <= Len(w.path)
                    /\ \A m \in 1..(k - 1) : v.path[m] = w.path[m] /\ v.via[m] = w.via[m]
                    /\ v.via[k] < w.via[k]

(* log tells which route each result stands for.                           *)
Logs(log) ==
    /\ log \in [1..Len(results) -> AllRoutes]
    /\ \A r \in 1..Len(results) : log[r].path = results[r]
    /\ mode # "done" => \A r \in 1..Len(results) : Past(log[r])
    /\ \A q, r \in 1..Len(results) : q < r => Earlier(log[q], log[r])
    /\ \A w \in AllRoutes : \/ \E r \in 1..Len(results) : log[r] = w
                            \/ \E d \in 1..Depth : Coming(w, d)

Logged == \E log : Logs(log)

(* What is known of a route.                                               *)
LEMMA RouteFacts ==
    ASSUME Discipline, NEW w \in AllRoutes
    PROVE  /\ links \in Seq(Link) /\ src \in Nodes /\ dst \in Nodes
           /\ w = [path |-> w.path, via |-> w.via]
           /\ w.path \in SimplePaths(links, src, dst)
           /\ w.path \in Seq(Crossing)
           /\ IsSimplePath(links, src, dst, w.path)
           /\ Len(w.path) \in Nat
           /\ w.via \in [1..Len(w.path) -> 1..Len(links)]
           /\ \A k \in 1..Len(w.path) : Joins(links[w.via[k]], w.path[k])
<1>1. links \in Seq(Link) /\ src \in Nodes /\ dst \in Nodes
  BY LinksType DEF Discipline, TypeOK
<1>2. /\ w = [path |-> w.path, via |-> w.via]
      /\ w.path \in SimplePaths(links, src, dst)
      /\ Len(w.path) \in Nat
      /\ w.via \in [1..Len(w.path) -> 1..Len(links)]
      /\ \A k \in 1..Len(w.path) : Joins(links[w.via[k]], w.path[k])
  BY <1>1, RouteType DEF AllRoutes
<1> QED
  BY <1>1, <1>2, SimplePathType

(* A step of dfs does not touch its arguments.                             *)
LEMMA SameRoutes ==
    ASSUME Discipline, [Next]_vars
    PROVE  AllRoutes' = AllRoutes
  BY ResultsGrow DEF AllRoutes

(* A path that agrees with the walk under way visits the same nodes.       *)
LEMMA SharedNodes ==
    ASSUME Discipline, mode # "done",
           NEW p \in SimplePaths(links, src, dst), NEW d \in 1..Depth,
           d - 1 <= Len(p), \A k \in 1..(d - 1) : p[k] = current_path[k]
    PROVE  \A k \in 1..d : NodeAt(src, p, k - 1) = stack[k].node
<1> SUFFICES ASSUME NEW k \in 1..d PROVE NodeAt(src, p, k - 1) = stack[k].node
  OBVIOUS
<1>1. k - 1 \in 0..(Depth - 1) /\ (k - 1) + 1 = k
  BY LoopingFacts
<1>2. NodeAt(src, current_path, k - 1) = stack[k].node
  BY <1>1, WalkNodes
<1>3. k - 1 = 0 \/ k - 1 \in 1..(d - 1)
  BY LoopingFacts
<1> QED BY <1>2, <1>3 DEF NodeAt

(* When the innermost activation is at the target, the walk under way is a *)
(* route.                                                                  *)
LEMMA UnderWayIsRoute ==
    ASSUME Discipline, mode = "call", Current = dst
    PROVE  UnderWay \in AllRoutes
<1>1. links \in Seq(Link) /\ src \in Nodes /\ dst \in Nodes /\ current_path \in Seq(Crossing)
  BY LinksType DEF Discipline, TypeOK
<1>2. current_path \in SimplePaths(links, src, dst)
  BY <1>1, WalkIsSimple, SimplePathBound
<1> DEFINE v == [k \in 1..Len(current_path) |-> stack[k].i]
<1>3. /\ v \in [1..Len(current_path) -> 1..Len(links)]
      /\ \A k \in 1..Len(current_path) : Joins(links[v[k]], current_path[k])
  BY WalkLinks
<1> HIDE DEF v
<1>4. [path |-> current_path, via |-> v] \in AllRoutes
  BY <1>2, <1>3, RouteIs DEF AllRoutes
<1> QED
  BY <1>4 DEF UnderWay, v

(* A route that the innermost activation has before it when it is at the   *)
(* target is the walk under way.                                           *)
LEMMA HitRecords ==
    ASSUME Discipline, Hit, NEW w \in AllRoutes, Along(w, Depth)
    PROVE  w = UnderWay
<1> DEFINE p == w.path
<1>1. /\ mode = "call" /\ Current = dst
      /\ Depth \in Nat \ {0} /\ Len(current_path) = Depth - 1
  BY LoopingFacts DEF Hit
<1>2. /\ p \in Seq(Crossing) /\ Len(p) \in Nat /\ IsSimplePath(links, src, dst, p)
      /\ p \in SimplePaths(links, src, dst)
  BY RouteFacts
<1>3. /\ Depth - 1 <= Len(p)
      /\ \A k \in 1..(Depth - 1) : p[k] = current_path[k] /\ w.via[k] = stack[k].i
  BY <1>1 DEF Along
<1> HIDE DEF p
<1>4. NodeAt(src, p, Depth - 1) = dst
  <2>1. mode # "done" /\ Depth \in 1..Depth
    BY <1>1
  <2>2. \A k \in 1..Depth : NodeAt(src, p, k - 1) = stack[k].node
    BY <1>2, <1>3, <2>1, SharedNodes
  <2> QED BY <1>1, <2>1, <2>2 DEF Current, Top
<1>5. Depth - 1 = Len(p)
  <2>1. NodeAt(src, p, Len(p)) = dst /\ NoRepeatedNode(src, p)
    BY <1>2 DEF IsSimplePath
  <2> QED BY <1>1, <1>2, <1>3, <1>4, <2>1 DEF NoRepeatedNode
<1>6. current_path \in Seq(Crossing)
  BY DEF Discipline, TypeOK
<1>7. p = current_path
  BY <1>1, <1>2, <1>3, <1>5, <1>6, SeqEqual
<1>8. w.via = [k \in 1..Len(current_path) |-> stack[k].i]
  <2>1. w.via \in [1..Len(current_path) -> 1..Len(links)]
    BY <1>7, RouteFacts DEF p
  <2>2. \A k \in 1..Len(current_path) : w.via[k] = stack[k].i
    BY <1>1, <1>3
  <2> QED BY <2>1, <2>2
<1> QED
  BY <1>7, <1>8, RouteFacts DEF UnderWay, p

(* One step leaves a route that is to come to come, or records it.         *)
LEMMA ComingStep ==
    ASSUME Discipline, [Next]_vars, NEW w \in AllRoutes, NEW d \in 1..Depth, Coming(w, d)
    PROVE  \/ Hit /\ w = UnderWay
           \/ \E e \in 1..Depth' : Coming(w, e)'
<1> USE DEF Discipline
<1> DEFINE p == w.path
<1>0. /\ Depth \in Nat /\ Len(p) \in Nat /\ mode # "done" /\ Depth > 0
      /\ \A k \in 1..Depth : stack[k] \in Frame
      /\ links \in Seq(Link) /\ src \in Nodes /\ dst \in Nodes
      /\ IsSimplePath(links, src, dst, p) /\ p \in SimplePaths(links, src, dst)
  <2>1. mode # "done"
    BY LoopingFacts DEF Shape, Depth
  <2> QED BY <2>1, LoopingFacts, RouteFacts
<1>a. /\ d - 1 <= Len(p)
      /\ \A k \in 1..(d - 1) : p[k] = current_path[k] /\ w.via[k] = stack[k].i
  BY DEF Coming, Along
<1>b. \A k \in 1..d : NodeAt(src, p, k - 1) = stack[k].node
  BY <1>0, <1>a, SharedNodes
<1>c. \A k \in 1..Len(p) : w.via[k] \in 1..Len(links) /\ Joins(links[w.via[k]], p[k])
  BY RouteFacts
<1>1. CASE Hit
  <2>1. /\ UNCHANGED <<links, stack, current_path>> /\ mode = "call" /\ mode' = "return"
    BY <1>1 DEF Hit, input
  <2>2. CASE d = Depth
    BY <1>1, <2>2, HitRecords DEF Coming
  <2>3. CASE d # Depth
    <3>1. Depth' = Depth /\ Untried(d)' = Untried(d)
      BY <1>0, <2>1, <2>3 DEF Untried, Depth
    <3>2. Coming(w, d)'
      BY <2>1, <2>3, <3>1 DEF Coming, Along
    <3> QED BY <3>1, <3>2
  <2> QED BY <2>2, <2>3
<1>2. CASE Visit
  <2>1. /\ UNCHANGED <<links, stack, current_path>> /\ mode = "call" /\ mode' = "loop"
        /\ Depth' = Depth /\ stack[Depth].node # dst
    BY <1>2 DEF Visit, input, Depth, Current, Top
  <2>2. CASE d = Depth
    <3>1. d \in 1..Len(p)
      <4>1. NodeAt(src, p, d - 1) # dst
        BY <1>0, <1>b, <2>1, <2>2
      <4>2. NodeAt(src, p, Len(p)) = dst
        BY <1>0 DEF IsSimplePath
      <4> QED BY <1>0, <1>a, <4>1, <4>2
    <3>2. w.via[d] \in Untried(d)'
      <4>1. stack'[d].i = 1 /\ mode' = "loop" /\ d = Depth' /\ links' = links
        BY <2>1, <2>2 DEF StackDiscipline, Top
      <4>2. w.via[d] \in 1..Len(links)
        BY <1>c, <3>1
      <4> QED BY <4>1, <4>2 DEF Untried
    <3>3. Coming(w, d)'
      BY <1>a, <2>1, <3>1, <3>2 DEF Coming, Along
    <3> QED BY <2>1, <3>3
  <2>3. CASE d # Depth
    <3>1. Untried(d)' = Untried(d)
      BY <1>0, <2>1, <2>3 DEF Untried
    <3>2. Coming(w, d)'
      BY <2>1, <2>3, <3>1 DEF Coming, Along
    <3> QED BY <2>1, <3>2
  <2> QED BY <2>2, <2>3
<1>3. CASE SkipLink
  <2>1. /\ UNCHANGED <<links, current_path, mode, visited>> /\ mode = "loop"
        /\ \/ ~Touches(Here, Current)
           \/ Cross(Here, Current).entry.node \in visited
        /\ Here = links[stack[Depth].i] /\ Current = stack[Depth].node
    BY <1>3 DEF SkipLink, InLoop, input, Here, Current, Top
  <2>2. /\ Depth' = Depth
        /\ \A k \in 1..Depth : stack'[k].node = stack[k].node
        /\ \A k \in 1..(Depth - 1) : stack'[k] = stack[k]
        /\ stack'[Depth].i = stack[Depth].i + 1
    BY <1>3, SkipEffect
  <2>3. d <= Len(p) /\ w.via[d] \in Untried(d)
    BY <2>1 DEF Coming
  <2>4. w.via[d] \in Untried(d)'
    <3>1. CASE d = Depth
      <4>1. w.via[d] \in stack[d].i..Len(links) /\ stack[d].i \in Nat
        BY <1>0, <2>1, <2>3, <3>1 DEF Untried, Frame
      <4>2. w.via[d] # stack[d].i
        <5> SUFFICES ASSUME w.via[d] = stack[d].i PROVE FALSE
          OBVIOUS
        <5>0. d \in 1..Len(p) /\ w.via[d] \in 1..Len(links) /\ Joins(links[w.via[d]], p[d])
          BY <1>0, <1>c, <2>3
        <5>1. /\ NodeAt(src, p, d) = p[d].entry.node
              /\ Touches(Here, Current)
              /\ p[d] = Cross(Here, Current)
          <6>1. /\ NodeAt(src, p, d) = p[d].entry.node
                /\ Touches(links[w.via[d]], NodeAt(src, p, d - 1))
                /\ p[d] = Cross(links[w.via[d]], NodeAt(src, p, d - 1))
            BY <1>0, <5>0, NextCrossing
          <6>2. NodeAt(src, p, d - 1) = Current /\ links[w.via[d]] = Here
            BY <1>0, <1>b, <2>1, <3>1
          <6> QED BY <6>1, <6>2
        <5>2. PICK k \in 1..Depth : p[d].entry.node = stack[k].node
          BY <2>1, <5>1, LoopingFacts DEF StackDiscipline
        <5>3. NodeAt(src, p, k - 1) = NodeAt(src, p, d)
          BY <1>b, <3>1, <5>1, <5>2
        <5>4. k - 1 \in 0..Len(p) /\ d \in 0..Len(p) /\ k - 1 # d
          BY <1>0, <2>3, <3>1
        <5> QED BY <1>0, <5>3, <5>4 DEF IsSimplePath, NoRepeatedNode
      <4> QED BY <1>0, <2>1, <2>2, <3>1, <4>1, <4>2 DEF Untried
    <3>2. CASE d # Depth
      BY <1>0, <2>1, <2>2, <2>3, <3>2 DEF Untried
    <3> QED BY <3>1, <3>2
  <2>5. \A k \in 1..(d - 1) : p[k] = current_path'[k] /\ w.via[k] = stack'[k].i
    <3> TAKE k \in 1..(d - 1)
    <3>1. k \in 1..(Depth - 1)
      BY <1>0
    <3>2. current_path' = current_path /\ stack'[k] = stack[k]
      BY <2>1, <2>2, <3>1
    <3> QED
      BY <1>a, <3>2
  <2>6. Coming(w, d)'
    BY <1>a, <2>3, <2>4, <2>5 DEF Coming, Along
  <2> QED BY <2>2, <2>6
<1>4. CASE Descend
  <2> DEFINE c == Cross(Here, Current)
  <2>1. /\ UNCHANGED links /\ mode = "loop" /\ mode' = "call"
        /\ Here = links[stack[Depth].i] /\ Current = stack[Depth].node
    BY <1>4 DEF Descend, InLoop, input, Here, Current, Top
  <2>2. /\ Depth' = Depth + 1
        /\ \A k \in 1..Depth : stack'[k] = stack[k]
        /\ \A k \in 1..(Depth - 1) : current_path'[k] = current_path[k]
        /\ current_path'[Depth] = c
    BY <1>4, DescendEffect
  <2>3. d <= Len(p) /\ w.via[d] \in Untried(d)
    BY <2>1 DEF Coming
  <2>4. CASE d = Depth /\ w.via[d] = stack[d].i
    <3>1. PICK e \in Nat : e = Depth + 1
      BY <1>0
    <3>2. p[Depth] = c
      <4>1. d \in 1..Len(p) /\ w.via[d] \in 1..Len(links) /\ Joins(links[w.via[d]], p[d])
        BY <1>0, <1>c, <2>3
      <4>2. p[d] = Cross(links[w.via[d]], NodeAt(src, p, d - 1))
        BY <1>0, <4>1, NextCrossing
      <4>3. NodeAt(src, p, d - 1) = Current /\ links[w.via[d]] = Here
        BY <1>0, <1>b, <2>1, <2>4
      <4> QED BY <2>4, <4>2, <4>3
    <3> HIDE DEF c
    <3>3. \A k \in 1..(e - 1) : p[k] = current_path'[k] /\ w.via[k] = stack'[k].i
      <4>1. \A k \in 1..(Depth - 1) : p[k] = current_path[k] /\ w.via[k] = stack[k].i
        BY <1>a, <2>4
      <4> TAKE k \in 1..(e - 1)
      <4>2. CASE k = Depth
        BY <1>0, <2>2, <2>4, <3>2, <4>2
      <4>3. CASE k \in 1..(Depth - 1)
        BY <1>0, <2>2, <4>1, <4>3
      <4> QED BY <1>0, <3>1, <4>2, <4>3
    <3>4. Coming(w, e)'
      BY <1>0, <2>1, <2>2, <2>3, <2>4, <3>1, <3>3 DEF Coming, Along
    <3>5. e \in 1..Depth'
      BY <1>0, <2>2, <3>1
    <3> QED BY <3>4, <3>5
  <2> HIDE DEF c
  <2>5. CASE ~(d = Depth /\ w.via[d] = stack[d].i)
    <3>1. w.via[d] \in (stack[d].i + 1)..Len(links)
      BY <1>0, <2>1, <2>3, <2>5 DEF Untried, Frame
    <3>2. w.via[d] \in Untried(d)'
      <4>1. d < Depth' /\ stack'[d] = stack[d] /\ links' = links
        BY <1>0, <2>1, <2>2
      <4> QED BY <3>1, <4>1 DEF Untried
    <3>3. \A k \in 1..(d - 1) : p[k] = current_path'[k] /\ w.via[k] = stack'[k].i
      <4> TAKE k \in 1..(d - 1)
      <4>1. k \in 1..Depth /\ k \in 1..(Depth - 1)
        BY <1>0
      <4>2. current_path'[k] = current_path[k] /\ stack'[k] = stack[k]
        BY <2>2, <4>1
      <4> QED
        BY <1>a, <4>2
    <3>4. Coming(w, d)'
      BY <1>a, <2>3, <3>2, <3>3 DEF Coming, Along
    <3> QED BY <1>0, <2>2, <3>4
  <2> QED BY <2>4, <2>5
<1>5. CASE ExitLoop
  <2>1. /\ UNCHANGED <<links, stack, current_path>> /\ mode = "loop" /\ mode' = "return"
        /\ Depth' = Depth /\ stack[Depth].i > Len(links)
    BY <1>5 DEF ExitLoop, input, Depth, Top
  <2>2. d # Depth
    BY <1>0, <2>1, LenProperties DEF Coming, Untried, Frame
  <2>3. Untried(d)' = Untried(d)
    BY <1>0, <2>1, <2>2 DEF Untried
  <2>4. Coming(w, d)'
    BY <2>1, <2>2, <2>3 DEF Coming, Along
  <2> QED BY <2>1, <2>4
<1>6. CASE Return
  <2>1. UNCHANGED links /\ mode = "return" /\ mode' = "loop"
    BY <1>6 DEF Return, input
  <2>2. /\ Depth > 1 /\ Depth' = Depth - 1
        /\ \A k \in 1..(Depth - 2) : stack'[k] = stack[k]
        /\ stack'[Depth - 1].i = stack[Depth - 1].i + 1
        /\ \A k \in 1..(Depth - 2) : current_path'[k] = current_path[k]
    BY <1>6, ReturnEffect
  <2>3. d \in 1..(Depth - 1)
    BY <1>0, <2>1 DEF Coming, Untried
  <2>4. Untried(d)' = Untried(d)
    <3>1. CASE d = Depth - 1
      BY <1>0, <2>1, <2>2, <3>1 DEF Untried
    <3>2. CASE d # Depth - 1
      <4>1. d \in 1..(Depth - 2)
        BY <1>0, <2>3, <3>2
      <4> QED BY <1>0, <2>1, <2>2, <4>1 DEF Untried
    <3> QED BY <3>1, <3>2
  <2>5. \A k \in 1..(d - 1) : p[k] = current_path'[k] /\ w.via[k] = stack'[k].i
    BY <1>0, <1>a, <2>2, <2>3
  <2>6. Coming(w, d)'
    BY <1>a, <2>1, <2>3, <2>4, <2>5 DEF Coming, Along
  <2> QED BY <1>0, <2>2, <2>3, <2>6
<1>7. CASE Finish
  <2>1. d = Depth /\ mode = "return"
    BY <1>0, <1>7 DEF Finish
  <2> QED BY <1>0, <2>1 DEF Coming, Untried
<1>8. CASE UNCHANGED vars
  <2>1. UNCHANGED <<links, stack, current_path, mode>> /\ Depth' = Depth
    BY <1>8 DEF vars, Depth
  <2>2. Untried(d)' = Untried(d)
    BY <2>1 DEF Untried, Depth
  <2>3. Coming(w, d)'
    BY <2>1, <2>2 DEF Coming, Along
  <2> QED BY <2>1, <2>3
<1> QED BY <1>1, <1>2, <1>3, <1>4, <1>5, <1>6, <1>7, <1>8 DEF Next, Terminated

(* What the search has behind it stays behind it until the call returns.   *)
LEMMA PastStep ==
    ASSUME Discipline, [Next]_vars, NEW w \in AllRoutes, Past(w), mode' # "done"
    PROVE  Past(w)'
<1> USE DEF Discipline
<1>0. /\ Depth \in Nat /\ Len(w.path) \in Nat /\ w.via \in [1..Len(w.path) -> 1..Len(links)]
      /\ \A k \in 1..Depth : stack[k] \in Frame
  BY LoopingFacts, RouteFacts
<1>1. CASE UNCHANGED <<stack, current_path>> /\ (mode = "return" => mode' = "return")
  <2>1. Depth' = Depth /\ UnderWay' = UnderWay
    BY <1>1 DEF Depth, UnderWay
  <2>2. CASE mode = "return" /\ w = UnderWay
    BY <1>1, <2>1, <2>2 DEF Past
  <2>3. CASE \E d \in 1..Depth : /\ Along(w, d)
                                 /\ d <= Len(w.path)
                                 /\ w.via[d] < stack[d].i
    BY <1>1, <2>1, <2>3 DEF Past, Along
  <2> QED BY <2>2, <2>3 DEF Past
<1>2. CASE SkipLink
  <2>1. UNCHANGED <<current_path, mode>> /\ mode = "loop"
    BY <1>2 DEF SkipLink, InLoop, input
  <2>2. /\ Depth' = Depth
        /\ \A k \in 1..(Depth - 1) : stack'[k] = stack[k]
        /\ stack'[Depth].i = stack[Depth].i + 1
    BY <1>2, SkipEffect
  <2>3. PICK d \in 1..Depth : Along(w, d) /\ d <= Len(w.path) /\ w.via[d] < stack[d].i
    BY <2>1 DEF Past
  <2>4. w.via[d] \in Nat /\ stack[d].i \in Nat
    BY <1>0, <2>3 DEF Frame
  <2>5. w.via[d] < stack'[d].i
    <3>1. d = Depth \/ d \in 1..(Depth - 1)
      BY <1>0
    <3> QED BY <1>0, <2>2, <2>3, <2>4, <3>1
  <2>6. Along(w, d)'
    BY <1>0, <2>1, <2>2, <2>3 DEF Along
  <2> QED BY <2>2, <2>3, <2>5, <2>6 DEF Past
<1>3. CASE Descend
  <2>1. mode = "loop"
    BY <1>3 DEF Descend, InLoop
  <2>2. /\ Depth' = Depth + 1
        /\ \A k \in 1..Depth : stack'[k] = stack[k]
        /\ \A k \in 1..(Depth - 1) : current_path'[k] = current_path[k]
    BY <1>3, DescendEffect
  <2>3. PICK d \in 1..Depth : Along(w, d) /\ d <= Len(w.path) /\ w.via[d] < stack[d].i
    BY <2>1 DEF Past
  <2>4. Along(w, d)'
    BY <1>0, <2>2, <2>3 DEF Along
  <2>5. d \in 1..Depth'
    BY <1>0, <2>2
  <2> QED BY <2>2, <2>3, <2>4, <2>5 DEF Past
<1>4. CASE Return
  <2>0. PICK e \in Nat \ {0} : e = Depth - 1
    BY <1>4, ReturnEffect
  <2>1. /\ Depth = e + 1 /\ Depth' = e
        /\ \A k \in 1..(e - 1) : stack'[k] = stack[k] /\ current_path'[k] = current_path[k]
        /\ stack'[e].i = stack[e].i + 1
        /\ Len(current_path) = e
        /\ stack[e].i \in Nat
    <3>1. /\ Depth \in Nat /\ Depth > 1 /\ Depth' = Depth - 1
          /\ \A k \in 1..(Depth - 2) : stack'[k] = stack[k]
          /\ stack'[Depth - 1].i = stack[Depth - 1].i + 1
          /\ Len(current_path) = Depth - 1
          /\ \A k \in 1..(Depth - 2) : current_path'[k] = current_path[k]
      BY <1>4, ReturnEffect
    <3>2. e - 1 = Depth - 2 /\ e \in 1..Depth
      BY <2>0, <3>1
    <3>3. stack[e].i \in Nat
      BY <1>0, <3>2 DEF Frame
    <3> QED BY <2>0, <3>1, <3>2, <3>3
  (* Whatever goes along with the caller and took the link it called from. *)
  <2>2. ASSUME Along(w, e), e <= Len(w.path), w.via[e] = stack[e].i \/ w.via[e] < stack[e].i
        PROVE  Past(w)'
    <3>1. Along(w, e)'
      BY <2>1, <2>2 DEF Along
    <3>2. w.via[e] \in Nat
      BY <1>0, <2>1, <2>2
    <3>3. w.via[e] < stack'[e].i
      BY <2>1, <2>2, <3>2
    <3>4. e \in 1..Depth'
      BY <2>1
    <3> QED BY <2>2, <3>1, <3>3, <3>4 DEF Past
  <2>3. CASE w = UnderWay
    <3>1. /\ w.path = current_path
          /\ \A k \in 1..e : w.via[k] = stack[k].i
      BY <2>1, <2>3 DEF UnderWay
    <3>2. Along(w, e) /\ e <= Len(w.path) /\ w.via[e] = stack[e].i
      BY <2>1, <3>1 DEF Along
    <3> QED BY <2>2, <3>2
  <2>4. ASSUME NEW d \in 1..Depth, Along(w, d), d <= Len(w.path), w.via[d] < stack[d].i
        PROVE  Past(w)'
    <3>1. CASE d = Depth
      <4>1. Along(w, e) /\ e <= Len(w.path) /\ w.via[e] = stack[e].i
        BY <1>0, <2>1, <2>4, <3>1 DEF Along
      <4> QED BY <2>2, <4>1
    <3>2. CASE d = e
      BY <2>2, <2>4, <3>2
    <3>3. CASE d \in 1..(e - 1)
      <4>1. Along(w, d)'
        BY <2>1, <2>4, <3>3 DEF Along
      <4>2. d \in 1..Depth' /\ stack'[d] = stack[d]
        BY <2>1, <3>3
      <4> QED BY <2>4, <4>1, <4>2 DEF Past
    <3> QED BY <2>1, <3>1, <3>2, <3>3
  <2> QED BY <2>3, <2>4 DEF Past
<1>5. CASE Hit \/ Visit \/ ExitLoop \/ Terminated \/ UNCHANGED vars
  BY <1>1, <1>5 DEF Hit, Visit, ExitLoop, Terminated, vars, input
<1>6. CASE Finish
  BY <1>6 DEF Finish
<1> QED BY <1>2, <1>3, <1>4, <1>5, <1>6 DEF Next

(* Whatever the search has behind it was found before the walk under way.  *)
LEMMA PastIsEarlier ==
    ASSUME Discipline, mode = "call", NEW w \in AllRoutes, Past(w)
    PROVE  Earlier(w, UnderWay)
<1> USE DEF Discipline
<1>1. /\ Depth \in Nat /\ Len(current_path) = Depth - 1 /\ stack[Depth].i = 1
      /\ Len(w.path) \in Nat /\ w.via \in [1..Len(w.path) -> 1..Len(links)]
  BY LoopingFacts, RouteFacts DEF StackDiscipline, Top
<1>2. PICK d \in 1..Depth : Along(w, d) /\ d <= Len(w.path) /\ w.via[d] < stack[d].i
  BY DEF Past
<1>3. d # Depth
  BY <1>1, <1>2
<1>4. d \in 1..Len(current_path) /\ d \in 1..Len(w.path)
  BY <1>1, <1>2, <1>3
<1>5. /\ UnderWay.path = current_path
      /\ \A k \in 1..Len(current_path) : UnderWay.via[k] = stack[k].i
  BY DEF UnderWay
<1>6. \A m \in 1..(d - 1) : w.path[m] = UnderWay.path[m] /\ w.via[m] = UnderWay.via[m]
  BY <1>1, <1>2, <1>4, <1>5 DEF Along
<1> QED
  BY <1>1, <1>2, <1>4, <1>5, <1>6 DEF Earlier

(* No route is found before itself.                                        *)
LEMMA EarlierIsStrict ==
    ASSUME Discipline, NEW w \in AllRoutes
    PROVE  ~Earlier(w, w)
<1>1. w.via \in [1..Len(w.path) -> 1..Len(links)]
  BY RouteFacts
<1>2. \A k \in 1..Len(w.path) : w.via[k] \in Nat
  BY <1>1
<1> QED
  BY <1>2 DEF Earlier

(* When the call starts every route is before its one activation.          *)
LEMMA InitLogged == Init => Logged
<1> SUFFICES ASSUME Init PROVE Logged
  OBVIOUS
<1>1. /\ Depth = 1 /\ mode = "call" /\ results = <<>> /\ Len(results) = 0
  BY DEF Init, Depth
<1>2. Discipline
  BY InitDiscipline
<1>3. ASSUME NEW w \in AllRoutes PROVE Coming(w, 1)
  <2>1. Len(w.path) \in Nat
    BY <1>2, <1>3, RouteFacts
  <2> QED BY <1>1, <2>1 DEF Coming, Along
<1> DEFINE log == [r \in 1..Len(results) |-> CHOOSE w \in AllRoutes : TRUE]
<1>4. Logs(log)
  <2>1. 1..Len(results) = {} /\ 1 \in 1..Depth
    BY <1>1
  <2>2. log \in [1..Len(results) -> AllRoutes]
    BY <2>1
  <2> HIDE DEF log
  <2> QED BY <1>3, <2>1, <2>2 DEF Logs
<1> QED
  BY <1>4 DEF Logged

(* A step of dfs keeps the results and the routes in step: what Hit        *)
(* records is a route that was to come, and what is recorded is earlier.   *)
LEMMA NextLogged == Discipline /\ Logged /\ [Next]_vars => Logged'
<1> SUFFICES ASSUME Discipline, Logged, [Next]_vars PROVE Logged'
  OBVIOUS
<1>1. PICK log : Logs(log)
  BY DEF Logged
<1>2. AllRoutes' = AllRoutes /\ Len(results) \in Nat
  BY SameRoutes, LenProperties DEF Discipline, TypeOK
<1>3. \A r \in 1..Len(results) : log[r] \in AllRoutes /\ log[r].path = results[r]
  BY <1>1 DEF Logs
<1>4. mode' # "done" => mode # "done"
  BY DEF Next, Hit, Visit, SkipLink, Descend, InLoop, ExitLoop, Return, Finish,
         Terminated, vars, input
<1>5. ASSUME mode' # "done", NEW r \in 1..Len(results) PROVE Past(log[r])'
  <2>1. Past(log[r])
    BY <1>1, <1>4, <1>5 DEF Logs
  <2> QED BY <1>3, <1>5, <2>1, PastStep
<1>6. CASE Hit
  <2>1. /\ mode = "call" /\ Current = dst /\ mode' = "return"
        /\ UNCHANGED <<stack, current_path>>
    BY <1>6 DEF Hit
  <2>2. /\ Len(results') = Len(results) + 1
        /\ \A r \in 1..Len(results) : results'[r] = results[r]
        /\ results'[Len(results) + 1] = current_path
    <3>1. results' = Append(results, current_path)
      BY <1>6 DEF Hit
    <3>2. results \in Seq(Seq(Crossing)) /\ current_path \in Seq(Crossing)
      BY DEF Discipline, TypeOK
    <3> QED BY <3>1, <3>2, AppendProperties
  <2>3. UnderWay \in AllRoutes
    BY <2>1, UnderWayIsRoute
  <2>4. UnderWay' = UnderWay
    BY <2>1 DEF UnderWay
  <2>5. PICK n \in Nat : n = Len(results)
    BY <1>2
  <2>6. PICK u \in AllRoutes : u = UnderWay
    BY <2>3
  <2> DEFINE new == [r \in 1..(n + 1) |-> IF r <= n THEN log[r] ELSE u]
  <2>7. /\ \A r \in 1..n : new[r] = log[r]
        /\ new[n + 1] = u
        /\ new \in [1..(n + 1) -> AllRoutes]
    BY <1>3, <2>5
  <2> HIDE DEF new
  <2>8. \A r \in 1..(n + 1) : r \in 1..n \/ r = n + 1
    OBVIOUS
  <2>9. \A r \in 1..(n + 1) : new[r].path = results'[r]
    BY <1>3, <2>2, <2>5, <2>6, <2>7, <2>8 DEF UnderWay
  <2>10. \A r \in 1..(n + 1) : Past(new[r])'
    <3>1. Past(u)'
      BY <2>1, <2>4, <2>6 DEF Past
    <3>2. \A r \in 1..n : Past(log[r])'
      BY <1>5, <2>1, <2>5
    <3> QED BY <2>7, <2>8, <3>1, <3>2
  <2>11. ASSUME NEW q \in 1..(n + 1), NEW r \in 1..(n + 1), q < r
         PROVE  Earlier(new[q], new[r])
    <3>1. q \in 1..n /\ new[q] = log[q]
      BY <2>7, <2>11
    <3>2. CASE r \in 1..n
      BY <1>1, <2>5, <2>7, <2>11, <3>1, <3>2 DEF Logs
    <3>3. CASE r = n + 1
      <4>1. Past(log[q]) /\ log[q] \in AllRoutes
        BY <1>1, <1>3, <2>1, <2>5, <3>1 DEF Logs
      <4>2. Earlier(log[q], u)
        BY <2>1, <2>6, <4>1, PastIsEarlier
      <4> QED BY <2>7, <3>1, <3>3, <4>2
    <3> QED BY <2>8, <3>2, <3>3
  <2>12. ASSUME NEW w \in AllRoutes
         PROVE  \/ \E r \in 1..(n + 1) : new[r] = w
                \/ \E d \in 1..Depth' : Coming(w, d)'
    <3>1. CASE \E r \in 1..n : log[r] = w
      BY <2>7, <3>1
    <3>2. ASSUME NEW d \in 1..Depth, Coming(w, d)
          PROVE  w = u \/ \E e \in 1..Depth' : Coming(w, e)'
      BY <2>6, <3>2, ComingStep
    <3> QED BY <1>1, <2>5, <2>7, <3>1, <3>2 DEF Logs
  <2>13. Logs(new)'
    BY <1>2, <2>2, <2>5, <2>7, <2>9, <2>10, <2>11, <2>12 DEF Logs, Earlier
  <2> QED BY <2>13 DEF Logged
<1>7. CASE ~Hit
  <2>1. results' = results
    BY <1>7, ResultsGrow
  <2>2. ASSUME NEW w \in AllRoutes
        PROVE  \/ \E r \in 1..Len(results) : log[r] = w
               \/ \E d \in 1..Depth' : Coming(w, d)'
    BY <1>1, <1>7, ComingStep DEF Logs
  <2>3. Logs(log)'
    BY <1>1, <1>2, <1>5, <2>1, <2>2 DEF Logs
  <2> QED BY <2>3 DEF Logged
<1> QED
  BY <1>6, <1>7

(* A route that is to come is a path the search still has ahead.           *)
LEMMA ComingIsAhead ==
    ASSUME Discipline, NEW w \in AllRoutes, NEW d \in 1..Depth, Coming(w, d)
    PROVE  Ahead(w.path, d)
<1> DEFINE p == w.path
<1>1. d - 1 <= Len(p) /\ \A k \in 1..(d - 1) : p[k] = current_path[k]
  BY DEF Coming, Along
<1>2. CASE d = Depth /\ mode = "call"
  BY <1>1, <1>2 DEF Ahead
<1>3. CASE d <= Len(p) /\ w.via[d] \in Untried(d)
  <2>1. mode # "done" /\ Depth \in Nat
    BY LoopingFacts DEF Discipline, Shape, Depth
  <2>2. /\ d \in 1..Len(p) /\ w.via[d] \in 1..Len(links) /\ Joins(links[w.via[d]], p[d])
        /\ links \in Seq(Link) /\ src \in Nodes /\ dst \in Nodes
        /\ p \in SimplePaths(links, src, dst)
    BY <1>3, <2>1, RouteFacts
  <2> HIDE DEF p
  <2>3. NodeAt(src, p, d - 1) = stack[d].node
    BY <1>1, <2>1, <2>2, SharedNodes
  <2>4. /\ Touches(links[w.via[d]], NodeAt(src, p, d - 1))
        /\ p[d] = Cross(links[w.via[d]], NodeAt(src, p, d - 1))
    BY <2>2, NextCrossing
  <2> QED BY <1>1, <1>3, <2>3, <2>4 DEF Ahead, p
<1> QED
  BY <1>2, <1>3 DEF Coming

(* Where no route is lost no path is: every simple path can be taken.      *)
LEMMA LoggedNothingLost == Discipline /\ Logged => NothingLost
<1> SUFFICES ASSUME Discipline, Logged, NEW p \in SimplePaths(links, src, dst)
             PROVE  p \in Range(results) \/ \E d \in 1..Depth : Ahead(p, d)
  BY DEF NothingLost
<1>1. PICK log : Logs(log)
  BY DEF Logged
<1>2. links \in Seq(Link) /\ src \in Nodes /\ dst \in Nodes
  BY LinksType DEF Discipline, TypeOK
<1>3. PICK w \in AllRoutes : w.path = p
  BY <1>2, RouteExists DEF AllRoutes
<1>4. CASE \E r \in 1..Len(results) : log[r] = w
  <2>1. PICK r \in 1..Len(results) : results[r] = p
    BY <1>1, <1>3, <1>4 DEF Logs
  <2>2. DOMAIN results = 1..Len(results)
    BY LenProperties DEF Discipline, TypeOK
  <2> QED BY <2>1, <2>2 DEF Range
<1>5. CASE \E d \in 1..Depth : Coming(w, d)
  BY <1>3, <1>5, ComingIsAhead
<1> QED
  BY <1>1, <1>4, <1>5 DEF Logs

(* At every moment every simple path is recorded already or still ahead of *)
(* some activation.                                                        *)
THEOREM NeverLost == Spec => []NothingLost
<1>1. Init => Discipline /\ Logged
  BY InitDiscipline, InitLogged
<1>2. (Discipline /\ Logged) /\ [Next]_vars => (Discipline /\ Logged)'
  BY NextDiscipline, NextLogged
<1>3. QED BY <1>1, <1>2, LoggedNothingLost, PTL DEF Spec

(* When the call has returned no activation is left for a path to be ahead *)
(* of.                                                                     *)
LEMMA DoneComplete == Discipline /\ NothingLost => Completeness
<1> SUFFICES ASSUME Discipline, NothingLost, mode = "done",
                    NEW p \in SimplePaths(links, src, dst)
             PROVE  p \in Range(results)
  BY DEF Completeness
<1>1. Depth = 0
  BY DEF Discipline, Shape, Depth
<1> QED BY <1>1 DEF NothingLost

(* When resolve_paths returns, its answer lacks no simple path.            *)
THEOREM Complete == Spec => []Completeness
<1>1. Init => Discipline /\ Logged
  BY InitDiscipline, InitLogged
<1>2. (Discipline /\ Logged) /\ [Next]_vars => (Discipline /\ Logged)'
  BY NextDiscipline, NextLogged
<1>3. QED BY <1>1, <1>2, LoggedNothingLost, DoneComplete, PTL DEF Spec

-----------------------------------------------------------------------------
(* The order of the results, and their number.                             *)

(* Unless a link is declared twice, a crossing tells which link it crosses.*)
LEMMA LinkIsUnique ==
    ASSUME ~DuplicateLink, NEW c,
           NEW i \in 1..Len(links), NEW j \in 1..Len(links),
           Joins(links[i], c), Joins(links[j], c)
    PROVE  i = j
<1> SUFFICES ASSUME i # j PROVE FALSE
  OBVIOUS
<1>1. Joins(links[i], Forward(links[j]))
  BY DEF Joins, Forward, Backward
<1> QED
  BY <1>1 DEF DuplicateLink

(* LinkOf finds that link.                                                 *)
LEMMA LinkOfIs ==
    ASSUME ~DuplicateLink, Len(links) \in Nat, NEW c,
           NEW i \in 1..Len(links), Joins(links[i], c)
    PROVE  LinkOf(c) = i
<1> DEFINE P(x) == /\ Joins(links[x], c)
                   /\ \A j \in 1..(x - 1) : ~Joins(links[j], c)
<1>1. \A j \in 1..Len(links) : Joins(links[j], c) => j = i
  BY LinkIsUnique
<1>2. P(i)
  <2>1. \A j \in 1..(i - 1) : j \in 1..Len(links) /\ j # i
    OBVIOUS
  <2> QED
    BY <1>1, <2>1
<1>3. \A x \in 1..Len(links) : P(x) => x = i
  BY <1>1
<1>4. LinkOf(c) = CHOOSE x \in 1..Len(links) : P(x)
  BY DEF LinkOf
<1> HIDE DEF P
<1> QED
  BY <1>2, <1>3, <1>4

(* The routes come in the order of the links they take, so the results do. *)
LEMMA LoggedInOrder == Discipline /\ Logged => InLinkOrder
<1> SUFFICES ASSUME Discipline, Logged, ~DuplicateLink,
                    NEW q \in 1..Len(results), NEW r \in 1..Len(results), q < r
             PROVE  \E k \in 1..Len(results[q]) :
                      /\ k <= Len(results[r])
                      /\ \A m \in 1..(k - 1) : results[q][m] = results[r][m]
                      /\ LinkOf(results[q][k]) < LinkOf(results[r][k])
  BY DEF InLinkOrder
<1>1. PICK log : Logs(log)
  BY DEF Logged
<1> DEFINE v == log[q]
           w == log[r]
<1>2. /\ v \in AllRoutes /\ w \in AllRoutes
      /\ v.path = results[q] /\ w.path = results[r]
      /\ Earlier(v, w)
  BY <1>1 DEF Logs
<1> HIDE DEF v, w
<1>3. PICK k \in 1..Len(v.path) : /\ k <= Len(w.path)
                                  /\ \A m \in 1..(k - 1) : v.path[m] = w.path[m]
                                  /\ v.via[k] < w.via[k]
  BY <1>2 DEF Earlier
<1>4. k \in 1..Len(w.path)
  <2>1. Len(w.path) \in Nat /\ Len(v.path) \in Nat
    BY <1>2, RouteFacts
  <2> QED
    BY <1>3, <2>1
<1>5. /\ v.via[k] \in 1..Len(links) /\ Joins(links[v.via[k]], v.path[k])
      /\ w.via[k] \in 1..Len(links) /\ Joins(links[w.via[k]], w.path[k])
      /\ Len(links) \in Nat
  BY <1>2, <1>4, RouteFacts, LenProperties
<1>6. LinkOf(v.path[k]) = v.via[k] /\ LinkOf(w.path[k]) = w.via[k]
  BY <1>5, LinkOfIs
<1> QED
  BY <1>2, <1>3, <1>6

(* When the call has returned the results and the routes are one to one.   *)
LEMMA LoggedCounts == Discipline /\ Logged => CountsRoutes
<1> SUFFICES ASSUME Discipline, Logged, mode = "done"
             PROVE  Len(results) = Cardinality(AllRoutes)
  BY DEF CountsRoutes, AllRoutes
<1>1. PICK log : Logs(log)
  BY DEF Logged
<1>2. PICK n \in Nat : n = Len(results)
  BY LenProperties DEF Discipline, TypeOK
<1>3. log \in [1..n -> AllRoutes]
  BY <1>1, <1>2 DEF Logs
<1>4. ASSUME NEW q \in 1..n, NEW r \in 1..n, log[q] = log[r] PROVE q = r
  <2>1. ~Earlier(log[q], log[q]) /\ ~Earlier(log[r], log[r])
    BY <1>3, EarlierIsStrict
  <2>2. (q < r => Earlier(log[q], log[r])) /\ (r < q => Earlier(log[r], log[q]))
    BY <1>1, <1>2 DEF Logs
  <2> QED
    BY <1>4, <2>1, <2>2
<1>5. \A w \in AllRoutes : \E r \in 1..n : log[r] = w
  <2>1. 1..Depth = {}
    BY DEF Discipline, Shape, Depth
  <2> QED
    BY <1>1, <1>2, <2>1 DEF Logs
<1>6. log \in Bijection(1..n, AllRoutes)
  BY <1>3, <1>4, <1>5 DEF Bijection, Injection, Surjection, IsInjective
<1>7. ExistsBijection(1..n, AllRoutes)
  BY <1>6 DEF ExistsBijection
<1> QED
  BY <1>2, <1>7, FS_CountingElements

(* Without a link declared twice the paths come out in the order in which  *)
(* the file declares their links, whatever the graph.                      *)
THEOREM InOrder == Spec => []InLinkOrder
<1>1. Init => Discipline /\ Logged
  BY InitDiscipline, InitLogged
<1>2. (Discipline /\ Logged) /\ [Next]_vars => (Discipline /\ Logged)'
  BY NextDiscipline, NextLogged
<1>3. QED BY <1>1, <1>2, LoggedInOrder, PTL DEF Spec

(* The answer lists every way of taking a simple path exactly once: its    *)
(* size, by which TOPO001 goes, is the number of routes.                   *)
THEOREM CountsEach == Spec => []CountsRoutes
<1>1. Init => Discipline /\ Logged
  BY InitDiscipline, InitLogged
<1>2. (Discipline /\ Logged) /\ [Next]_vars => (Discipline /\ Logged)'
  BY NextDiscipline, NextLogged
<1>3. QED BY <1>1, <1>2, LoggedCounts, PTL DEF Spec

(* No activation of dfs ever runs for a node an outer one runs for, and    *)
(* none goes on beyond the target.                                         *)
THEOREM NeverReenters == Spec => []NoReentry
  BY Disciplined, PTL

-----------------------------------------------------------------------------
(* The resolver implements PathSearch.                                     *)

(* A step of dfs is a step of PathSearch, or changes nothing PathSearch    *)
(* sees.                                                                   *)
LEMMA StepImplements ==
    ASSUME Discipline, Soundness, Logged, [Next]_vars
    PROVE  [Search!Next]_(Search!vars)
<1> USE DEF Discipline
<1>1. /\ links \in Seq(Link) /\ src \in Nodes /\ dst \in Nodes
      /\ results \in Seq(Seq(Crossing)) /\ current_path \in Seq(Crossing)
      /\ UNCHANGED <<links, src, dst>>
  BY LinksType, ResultsGrow DEF TypeOK
<1>2. CASE Hit
  <2>1. current_path \in SimplePaths(links, src, dst)
    BY <1>1, <1>2, WalkIsSimple, SimplePathBound DEF Hit
  <2>2. /\ results' = Append(results, current_path)
        /\ mode = "call"
        /\ mode' = "return"
    BY <1>2 DEF Hit
  <2>3. Range(results)' = Range(results) \cup {current_path}
    BY <1>1, <2>2, RecordedGrow
  <2>4. ~(mode = "done") /\ (mode = "done")' = (mode = "done")
    BY <2>2
  <2>5. Search!Report
    BY <1>1, <2>1, <2>3, <2>4 DEF Search!Report
  <2> QED BY <2>5 DEF Search!Next
<1>3. CASE Finish
  <2>1. /\ mode = "return"
        /\ mode' = "done"
        /\ results' = results
        /\ stack' = <<>>
    BY <1>3 DEF Finish
  <2>2. Range(results) \subseteq SimplePaths(links, src, dst)
    <3>1. \A r \in 1..Len(results) : /\ results[r] \in Seq(Crossing)
                                     /\ IsSimplePath(links, src, dst, results[r])
      BY <1>1, ElementOfSeq DEF Soundness
    <3> QED BY <1>1, <3>1, SimplePathBound, LenProperties DEF Range
  <2>3. SimplePaths(links, src, dst) \subseteq Range(results)
    <3>1. Completeness'
      BY NextDiscipline, NextLogged, LoggedNothingLost, DoneComplete, PTL
    <3> QED BY <1>1, <2>1, <3>1 DEF Completeness
  <2>4. ~(mode = "done") /\ (mode = "done")' = TRUE
    BY <2>1
  <2>5. Search!Complete
    BY <1>1, <2>1, <2>2, <2>3, <2>4 DEF Search!Complete
  <2> QED BY <2>5 DEF Search!Next
<1>4. CASE ~Hit /\ ~Finish
  <2>1. results' = results
    BY <1>4, ResultsGrow
  <2>2. (mode' = "done") = (mode = "done")
    BY <1>4 DEF Next, Visit, SkipLink, Descend, InLoop, ExitLoop, Return, Terminated,
                vars, input
  <2> QED BY <1>1, <2>1, <2>2 DEF Search!vars
<1> QED BY <1>2, <1>3, <1>4

(* The depth-first search implements "find all simple paths": it reports   *)
(* only simple paths and returns only when it has reported every one.      *)
THEOREM Implements == Spec => RefinesPathSearch
<1>1. Init => Search!Init
  BY DEF Init, Search!Init, Range
<1>2. Init => Discipline /\ Soundness /\ Logged
  BY InitDiscipline, InitSoundness, InitLogged
<1>3. (Discipline /\ Soundness /\ Logged) /\ [Next]_vars
         => (Discipline /\ Soundness /\ Logged)'
  BY NextDiscipline, NextSoundness, NextLogged
<1>4. (Discipline /\ Soundness /\ Logged) /\ [Next]_vars
         => [Search!Next]_(Search!vars)
  BY StepImplements
<1>5. QED BY <1>1, <1>2, <1>3, <1>4, PTL DEF Spec, RefinesPathSearch, Search!Spec
=============================================================================
