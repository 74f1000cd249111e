------------------------------- MODULE MCLoops -------------------------------
(***************************************************************************)
(* Every graph of a few nodes, without code, and a few graphs with every   *)
(* small code.                                                             *)
(***************************************************************************)
EXTENDS LoopInvariantCodeMotion, TLC

CONSTANTS x, y, z, No

-----------------------------------------------------------------------------
(***************************************************************************)
(* Graphs.  The successors of a node are ordered, and a switch may have    *)
(* the same successor twice.                                               *)
(***************************************************************************)
Graph(succ, code) == [nodes |-> Len(succ), succ |-> succ, code |-> code]

Ends(N) == {<<>>} \cup {<<n>> : n \in N} \cup {e \in N \X N : e[1] # e[2]}
Reach(succ) ==
  LET R[k \in DOMAIN succ] ==
        IF k = 1 THEN {1} ELSE LET r == R[k - 1] IN r \cup UNION {ToSet(succ[n]) : n \in r}
  IN R[Len(succ)]
SmallGraphs ==
  {Graph(s, <<>>) : s \in {t \in [1 .. 4 -> Ends(2 .. 4)] : Reach(t) = 1 .. 4}}

LoopInLoop == <<<<2>>, <<3>>, <<4>>, <<3, 5>>, <<2, 6>>, <<>>>>
Continues == <<<<2>>, <<3>>, <<4, 5>>, <<3, 6>>, <<3>>, <<2, 7>>, <<>>>>
HeadLater == <<<<3>>, <<4>>, <<4>>, <<2, 5, 6>>, <<4>>, <<3, 7>>, <<>>>>
TwoEntries == <<<<2, 3>>, <<4>>, <<4>>, <<5>>, <<4, 6>>, <<>>>>
SwitchInto == <<<<2, 2, 3>>, <<3>>, <<2, 4>>, <<>>>>
Diamond == <<<<2>>, <<3, 4>>, <<5>>, <<5>>, <<2, 6>>, <<>>>>
LargerGraphs == {Graph(s, <<>>) : s \in {LoopInLoop, Continues, HeadLater, TwoEntries, SwitchInto, Diamond}}

-----------------------------------------------------------------------------
(***************************************************************************)
(* Code: three instructions, in any of the nodes given.  One of them at    *)
(* most cannot be moved, and each uses some of the variables it may use.   *)
(***************************************************************************)
Dest == <<x, y, z>>
Codes(N, mayUse) ==
  {[i \in 1 .. 3 |-> [node |-> at[i], dest |-> Dest[i], uses |-> uses[i], moves |-> i # fixed]] :
     at \in {a \in [1 .. 3 -> N] : a[1] <= a[2] /\ a[2] <= a[3]},
     uses \in {u \in [1 .. 3 -> SUBSET {x, y, z}] : \A i \in 1 .. 3 : u[i] \subseteq mayUse[i]},
     fixed \in 0 .. 3}
Earlier == <<{}, {x}, {x, y}>>
Others == <<{y, z}, {x, z}, {x, y}>>
InLoops ==
  UNION {{Graph(LoopInLoop, c) : c \in Codes(2 .. 5, Earlier)},
         {Graph(Diamond, c) : c \in Codes({2, 3, 5}, Earlier)}}
AllFunctions == UNION {SmallGraphs, LargerGraphs, InLoops}

\* The second node of the loop comes last.
OutOfOrder == <<<<2>>, <<4>>, <<2, 5>>, <<3>>, <<>>>>
OutOfOrderFunctions == {Graph(OutOfOrder, c) : c \in Codes(2 .. 4, Others)}
=============================================================================
