---------------------------- MODULE LoopAnalyzer ----------------------------
(***************************************************************************)
(* ComputeLoopInfo(): the loops of a function and the loop nest depth of   *)
(* its nodes.  Each round of LoopAnalyzer runs Tarjan's algorithm for the  *)
(* strongly connected components, without recursion, and deletes the node  *)
(* of each component that was visited first; the next round finds the      *)
(* loops inside.  One action is one call of processNode(), or one loop.    *)
(*                                                                         *)
(* A function is a record: the number of nodes (node 1 is the entry and is *)
(* in no loop, each node can be reached, the order is that of Cfg::Nodes)  *)
(* and, for each node, the sequence of its OutEdges.                       *)
(***************************************************************************)
EXTENDS Integers, FiniteSets, Sequences, SequencesExt, FiniteSetsExt

CONSTANT Functions  \* the functions considered

(***************************************************************************)
(* Every node can be reached: no set of nodes with the entry is closed but *)
(* the set of all.                                                         *)
(***************************************************************************)
IsGraph(g) ==
  /\ g.nodes \in Nat \ {0}
  /\ g.succ \in [1 .. g.nodes -> Seq(2 .. g.nodes)]
  /\ \A S \in SUBSET (1 .. g.nodes) :
       1 \in S /\ (\A n \in S : ToSet(g.succ[n]) \subseteq S) => S = 1 .. g.nodes
ASSUME GraphAssumption == \A g \in Functions : IsGraph(g)

UndefinedIndex == 0
FirstDefinedIndex == 1

VARIABLES f,          \* the function
          pc,         \* "round", "visit", "info", "done" or "fatal"
          Index, LowLink, Succ,
          Deleted,    \* nodes with the flag Deleted
          NextIndex,
          WorkStack,  \* the nodes being visited
          LoopStack,  \* nodes with the flag OnStack
          NestDepth,  \* LoopNestDepth of each node
          Loops,      \* bodies found
          LoopInfo    \* the loops that have one way in

tarjan == <<Index, LowLink, Succ, Deleted, NextIndex, WorkStack, LoopStack, NestDepth>>
vars == <<f, pc, tarjan, Loops, LoopInfo>>

Nodes == 1 .. f.nodes
Edges(n) == f.succ[n]

Init ==
  /\ f \in Functions
  /\ pc = "round"
  /\ Index = [n \in Nodes |-> UndefinedIndex]
  /\ LowLink = [n \in Nodes |-> UndefinedIndex]
  /\ Succ = [n \in Nodes |-> 1]
  /\ Deleted = {}
  /\ NextIndex = FirstDefinedIndex
  /\ WorkStack = <<>>
  /\ LoopStack = <<>>
  /\ NestDepth = [n \in Nodes |-> 0]
  /\ Loops = {}
  /\ LoopInfo = <<>>

-----------------------------------------------------------------------------
(***************************************************************************)
(* computeLoopNestDepth(): LoopNode::reset(), and the next root.           *)
(***************************************************************************)
Reset(F, value) == [n \in Nodes |-> IF n \in Deleted THEN F[n] ELSE value]
StartRound ==
  /\ pc = "round"
  /\ Deleted # Nodes
  /\ pc' = "visit"
  /\ Index' = Reset(Index, UndefinedIndex)
  /\ LowLink' = Reset(LowLink, UndefinedIndex)
  /\ Succ' = Reset(Succ, 1)
  /\ UNCHANGED <<f, Deleted, NextIndex, WorkStack, LoopStack, NestDepth, Loops, LoopInfo>>
EndRounds ==
  /\ pc = "round"
  /\ Deleted = Nodes
  /\ pc' = "info"
  /\ UNCHANGED <<f, tarjan, Loops, LoopInfo>>

Unvisited == {n \in Nodes \ Deleted : Index[n] = UndefinedIndex}
VisitRoot ==
  /\ pc = "visit"
  /\ WorkStack = <<>>
  /\ IF Unvisited = {}
     THEN pc' = "round" /\ UNCHANGED WorkStack
     ELSE WorkStack' = <<Min(Unvisited)>> /\ UNCHANGED pc
  /\ UNCHANGED <<f, Index, LowLink, Succ, Deleted, NextIndex, LoopStack, NestDepth, Loops, LoopInfo>>

(***************************************************************************)
(* processNode(): the edges from the one it stopped at up to the next node *)
(* to recurse into are looked at.                                          *)
(***************************************************************************)
FirstUnvisited(n, from) ==
  Min({k \in from .. Len(Edges(n)) : Edges(n)[k] \in Unvisited \ {n}} \cup {Len(Edges(n)) + 1})
LinksToVisited(n, from, to) ==  \* faulty: nodes of finished components count
  {Index[Edges(n)[k]] : k \in {j \in from .. to - 1 : Edges(n)[j] \notin Deleted \cup {n}}}
Links(n, from, to) ==
  {Index[Edges(n)[k]] : k \in {j \in from .. to - 1 : Edges(n)[j] \in ToSet(LoopStack) \ {n}}}
Component(n, stack) == {stack[k] : k \in SelectInSeq(stack, LAMBDA m : m = n) .. Len(stack)}
HasSelfEdge(n) == n \in ToSet(Edges(n))

Recurse(n, to, stack) ==
  /\ to <= Len(Edges(n))
  /\ WorkStack' = Append(WorkStack, Edges(n)[to])
  /\ LoopStack' = stack
  /\ UNCHANGED <<Deleted, NestDepth, Loops>>
ReturnLinked(n, stack) ==
  /\ WorkStack' = Front(WorkStack)
  /\ LoopStack' = stack
  /\ UNCHANGED <<Deleted, NestDepth, Loops>>
NestedAlways(n, body) == body  \* faulty: a single node counts as a loop
Nested(n, body) == IF body = {n} /\ ~HasSelfEdge(n) THEN {} ELSE body
FoundLoop(n, stack) ==
  LET body == Component(n, stack)
  IN /\ WorkStack' = Front(WorkStack)
     /\ LoopStack' = SubSeq(stack, 1, Len(stack) - Cardinality(body))
     /\ Deleted' = Deleted \cup {n}
     /\ NestDepth' = [m \in Nodes |-> IF m \in Nested(n, body) THEN NestDepth[m] + 1 ELSE NestDepth[m]]
     /\ Loops' = IF body = {n} THEN Loops ELSE Loops \cup {body}

ProcessNode ==
  /\ pc = "visit"
  /\ WorkStack # <<>>
  /\ LET n == Last(WorkStack)
         isNew == Index[n] = UndefinedIndex
         from == IF isNew THEN 1 ELSE Succ[n] + 1
         to == FirstUnvisited(n, from)
         index == IF isNew THEN NextIndex ELSE Index[n]
         low == Min(Links(n, from, to) \cup IF isNew THEN {index} ELSE {LowLink[n], LowLink[Edges(n)[Succ[n]]]})
         stack == IF isNew THEN Append(LoopStack, n) ELSE LoopStack
     IN /\ Index' = [Index EXCEPT ![n] = index]
        /\ LowLink' = [LowLink EXCEPT ![n] = low]
        /\ Succ' = [Succ EXCEPT ![n] = to]
        /\ NextIndex' = IF isNew THEN NextIndex + 1 ELSE NextIndex
        /\ \/ Recurse(n, to, stack)
           \/ to > Len(Edges(n)) /\ low # index /\ ReturnLinked(n, stack)
           \/ to > Len(Edges(n)) /\ low = index /\ FoundLoop(n, stack)
  /\ UNCHANGED <<f, pc, LoopInfo>>

(***************************************************************************)
(* The loops are taken by size; those that more than one edge enters are   *)
(* left out.  A loop that no edge enters has no Header to look at.         *)
(***************************************************************************)
EdgesInto(body) ==
  {e \in (Nodes \ body) \X (1 .. Max({Len(Edges(m)) : m \in Nodes})) :
     e[2] <= Len(Edges(e[1])) /\ Edges(e[1])[e[2]] \in body}
NewLoop(body) ==
  LET e == CHOOSE x \in EdgesInto(body) : TRUE
  IN [Header |-> Edges(e[1])[e[2]], PreHeader |-> e[1], Body |-> body]
IsSimpleLoop(body) == Cardinality(EdgesInto(body)) <= 1
AddLoop ==
  /\ pc = "info"
  /\ \E body \in Loops :
       /\ \A other \in Loops : Cardinality(other) <= Cardinality(body)
       /\ Loops' = Loops \ {body}
       /\ \/ ~IsSimpleLoop(body) /\ UNCHANGED <<LoopInfo, pc>>
          \/ /\ IsSimpleLoop(body)
             /\ LoopInfo' = IF EdgesInto(body) = {} THEN LoopInfo ELSE Append(LoopInfo, NewLoop(body))
             /\ pc' = IF EdgesInto(body) = {} THEN "fatal" ELSE pc
  /\ UNCHANGED <<f, tarjan>>

Analyze == StartRound \/ EndRounds \/ VisitRoot \/ ProcessNode \/ AddLoop

-----------------------------------------------------------------------------
(***************************************************************************)
(* Natural loops.  A node dominates those that no path reaches without it; *)
(* the loop of a header has the nodes that come back to it, through nodes  *)
(* the header dominates.                                                   *)
(***************************************************************************)
ReachableFrom(S, avoid) ==
  LET Reach[k \in 0 .. f.nodes] ==
        IF k = 0 THEN S \ avoid
        ELSE LET nearer == Reach[k - 1] IN nearer \cup ((UNION {ToSet(Edges(n)) : n \in nearer}) \ avoid)
  IN Reach[f.nodes]
Dominates(d, n) == n \notin ReachableFrom({1}, {d})
BackEdges == {e \in Nodes \X Nodes : e[2] \in ToSet(Edges(e[1])) /\ Dominates(e[2], e[1])}
Headers == {e[2] : e \in BackEdges}
NaturalLoop(h) ==
  {h} \cup {n \in Nodes : \E e \in BackEdges : e[2] = h /\ Dominates(h, n) /\ e[1] \in ReachableFrom({n}, {h})}

(***************************************************************************)
(* Without its back edges, a reducible graph has no cycles: nodes without  *)
(* edges into the rest can be taken away until none is left.               *)
(***************************************************************************)
Reducible ==
  LET Rest[k \in 0 .. f.nodes] ==
        IF k = 0 THEN Nodes
        ELSE LET rest == Rest[k - 1]
             IN {n \in rest : \E m \in rest : n \in ToSet(Edges(m)) /\ <<m, n>> \notin BackEdges}
  IN Rest[f.nodes] = {}
HeadersFirst == \A h \in Headers : \A n \in NaturalLoop(h) : h <= n

(***************************************************************************)
(* The loop nest depth, by which uses are weighted in register allocation, *)
(* is the number of natural loops around a node, in a function whose loops *)
(* have one entry each and where the entry is the first of the nodes.      *)
(***************************************************************************)
NestDepthIsExact ==
  pc = "info" /\ Reducible /\ HeadersFirst =>
    \A n \in Nodes : NestDepth[n] = Cardinality({h \in Headers : n \in NaturalLoop(h)})
=============================================================================
