------------------------------ MODULE Liveness ------------------------------
(***************************************************************************)
(* Cfg::liveness(Liveness_Intervals): a backward data-flow analysis over a *)
(* work list of nodes, followed by a pass that deletes the instructions    *)
(* found dead and builds the live range of each variable.  One action is   *)
(* one call of CfgNode::liveness(), or one node of the final pass.         *)
(*                                                                         *)
(* A function is a record: the number of nodes (node 1 is the entry, the   *)
(* order is that of Cfg::Nodes), the successors of each node, and its      *)
(* instructions in the order of their numbers.  An instruction has a dest  *)
(* (or None), the variables it uses, and whether it has side effects or    *)
(* redefines its dest.  A phi has in from the operand of each predecessor; *)
(* for other instructions from is empty.                                   *)
(***************************************************************************)
EXTENDS Integers, FiniteSets, Sequences

CONSTANTS Functions,  \* the functions considered
          Variables,  \* their variables
          None        \* no dest, or a constant operand

(***************************************************************************)
(* A function is numbered node by node, phis come first, and each node     *)
(* has a terminator, which assigns nothing.  An instruction that reads its *)
(* dest redefines it (TargetLowering::markRedefinitions), and as long as a *)
(* function has phis, so that only redefinitions are not in SSA form, a    *)
(* node reads what it defines only after the definition.                   *)
(***************************************************************************)
HasPhis(g) == \E i \in DOMAIN g.code : g.code[i].from # <<>>
IsFunction(g) ==
  /\ g.nodes \in Nat \ {0}
  /\ g.succ \in [1 .. g.nodes -> SUBSET (1 .. g.nodes)]
  /\ g.code \in Seq({g.code[i] : i \in DOMAIN g.code})
  /\ \A i \in DOMAIN g.code :
       /\ g.code[i].node \in 1 .. g.nodes
       /\ g.code[i].dest \in Variables \cup {None}
       /\ g.code[i].uses \subseteq Variables
       /\ g.code[i].from # <<>> =>
            /\ g.code[i].dest # None
            /\ ~g.code[i].effect
            /\ ~g.code[i].redefined
            /\ \A n \in 1 .. g.nodes :
                 g.code[i].node \in g.succ[n] => g.code[i].from[n] \in g.code[i].uses \cup {None}
  /\ \A i, j \in DOMAIN g.code : i < j =>
       /\ g.code[i].node <= g.code[j].node
       /\ g.code[i].node = g.code[j].node /\ g.code[j].from # <<>> => g.code[i].from # <<>>
  /\ \A i, j \in DOMAIN g.code :
       /\ g.code[i].node = g.code[j].node /\ ~g.code[i].redefined
       /\ g.code[j].from = <<>> /\ g.code[i].dest \in g.code[j].uses
       => IF HasPhis(g) THEN i < j ELSE i # j
  /\ \A n \in 1 .. g.nodes : \E i \in DOMAIN g.code :
       g.code[i].node = n /\ g.code[i].from = <<>> /\ g.code[i].dest = None
ASSUME VariablesAssumption == None \notin Variables
ASSUME FunctionsAssumption == \A g \in Functions : IsFunction(g)

NumberInitial == 2
NumberExtended == NumberInitial - 1

VARIABLES f,               \* the function under analysis
          pc,              \* "solve", "final", "done" or "fatal"
          at,              \* the last node visited
          NeedToProcess,   \* nodes to visit
          LiveIn, LiveOut, \* live variables at both ends of each node
          NumNonDeadPhis,  \* of each node, at its last visit
          Dead,            \* instructions tentatively dead
          LiveBegin,       \* <<variable, number>> pairs of each node
          LiveEnd,
          Deleted,         \* instructions deleted
          LiveRange        \* live range of each variable

vars == <<f, pc, at, NeedToProcess, LiveIn, LiveOut, NumNonDeadPhis, Dead,
          LiveBegin, LiveEnd, Deleted, LiveRange>>

Nodes == 1 .. f.nodes
Code == DOMAIN f.code
Number(i) == NumberInitial + i - 1
IsPhi(i) == f.code[i].from # <<>>
CodeOf(n) == {i \in Code : f.code[i].node = n}
Phis(n) == {i \in CodeOf(n) : IsPhi(i)}
Insts(n) == CodeOf(n) \ Phis(n)
InEdges(n) == {m \in Nodes : n \in f.succ[m]}
FirstOf(S) == CHOOSE i \in S : \A j \in S : i <= j
LastOf(S) == CHOOSE i \in S : \A j \in S : j <= i

(***************************************************************************)
(* Multi-block variables: of two blocks, of a phi, or arguments.  All      *)
(* others are local to a block and not in LiveIn and LiveOut.              *)
(***************************************************************************)
Mentions(i, v) == v = f.code[i].dest \/ v \in f.code[i].uses
IsArg(v) == ~ \E i \in Code : f.code[i].dest = v
Globals ==
  {v \in Variables :
    \/ IsArg(v)
    \/ \E i \in Code : IsPhi(i) /\ Mentions(i, v)
    \/ \E i, j \in Code : Mentions(i, v) /\ Mentions(j, v) /\ f.code[i].node # f.code[j].node}

-----------------------------------------------------------------------------
Init ==
  /\ f \in Functions
  /\ pc = "solve"
  /\ at = f.nodes + 1
  /\ NeedToProcess = Nodes
  /\ LiveIn = [n \in Nodes |-> {}]
  /\ LiveOut = [n \in Nodes |-> {}]
  /\ NumNonDeadPhis = [n \in Nodes |-> 0]
  /\ Dead = {}
  /\ LiveBegin = [n \in Nodes |-> {}]
  /\ LiveEnd = [n \in Nodes |-> {}]
  /\ Deleted = {}
  /\ LiveRange = [v \in Variables |-> <<>>]

(***************************************************************************)
(* Inst::liveness(), which walks backward: live has the variables live     *)
(* after instruction i.  A phi uses its operands in the predecessors.      *)
(***************************************************************************)
IsDeadOrUnused(i, live) ==  \* faulty: side effects are not considered
  f.code[i].dest # None /\ f.code[i].dest \notin live
IsDead(i, live) ==
  f.code[i].dest # None /\ f.code[i].dest \notin live /\ ~f.code[i].effect
Begins(i, live) == IF f.code[i].redefined THEN {} ELSE {f.code[i].dest} \cap live
UsedBy(i, live) == IF IsPhi(i) \/ IsDead(i, live) THEN {} ELSE f.code[i].uses
Ends(i, live) == UsedBy(i, live) \ (live \ Begins(i, live))
LiveAbove(i, live) == (live \ Begins(i, live)) \cup UsedBy(i, live)

(***************************************************************************)
(* InstPhi::livenessPhiOperand() for the phis of a successor.  A phi that  *)
(* has not been visited is not dead.                                       *)
(***************************************************************************)
PhiOperandsOfAll(n) ==  \* faulty: dead phis keep their operands alive
  {f.code[i].from[n] : i \in UNION {Phis(s) : s \in f.succ[n]}} \ {None}
PhiOperands(n) ==
  {f.code[i].from[n] : i \in (UNION {Phis(s) : s \in f.succ[n]}) \ Dead} \ {None}

LiveAtEnd(n) == (UNION {LiveIn[s] : s \in f.succ[n]}) \cup PhiOperands(n)

(***************************************************************************)
(* The variables live after each instruction of n, of which out are live   *)
(* after the last.                                                         *)
(***************************************************************************)
LiveAfter(n, out) ==
  LET live[i \in Code] ==
        IF i + 1 \in CodeOf(n) THEN LiveAbove(i + 1, live[i + 1]) ELSE out
  IN live

(***************************************************************************)
(* The phis of a node count as being where the first of them is.  (They    *)
(* are walked in order, the instructions in reverse order; phis have       *)
(* different dests and use nothing here, so their order is immaterial.)    *)
(***************************************************************************)
NumberAtUnset(i) == IF IsPhi(i) THEN 0 ELSE Number(i)  \* faulty: the sentinel for phis
NumberAt(i) == Number(IF IsPhi(i) THEN FirstOf(Phis(f.code[i].node)) ELSE i)

(***************************************************************************)
(* The sweep over the nodes in reverse order: the next marked node before  *)
(* the last one visited, and if there is none the last marked node.        *)
(***************************************************************************)
IsNext(n) ==
  LET rest == {m \in NeedToProcess : m < at}
      marked == IF rest = {} THEN NeedToProcess ELSE rest
  IN n \in marked /\ \A m \in marked : m <= n

ChangedInPhis(n, in, nonDead) == nonDead # NumNonDeadPhis[n]  \* faulty: LiveIn may grow unnoticed
ChangedOrPhis(n, in, nonDead) == nonDead # 0 \/ in # LiveIn[n]  \* faulty: the count is not kept
ChangedIn(n, in, nonDead) == nonDead # NumNonDeadPhis[n] \/ in # LiveIn[n]

Visit(n) ==
  /\ pc = "solve"
  /\ IsNext(n)
  /\ at' = n
  /\ LET block == CodeOf(n)
         live == LiveAfter(n, LiveAtEnd(n))
         top == LiveAbove(FirstOf(block), live[FirstOf(block)])
         dead == {i \in block : IsDead(i, live[i])}
         in == LiveIn[n] \cup (top \cap Globals)
         nonDead == Cardinality(Phis(n) \ dead)
     IN /\ LiveIn' = [LiveIn EXCEPT ![n] = in]
        /\ LiveOut' = [LiveOut EXCEPT ![n] = LiveAtEnd(n)]
        /\ Dead' = (Dead \ CodeOf(n)) \cup dead
        /\ LiveBegin' = [LiveBegin EXCEPT ![n] =
             UNION {Begins(i, live[i]) \X {NumberAt(i)} : i \in block}]
        /\ LiveEnd' = [LiveEnd EXCEPT ![n] =
             UNION {Ends(i, live[i]) \X {NumberAt(i)} : i \in block}]
        /\ NumNonDeadPhis' = [NumNonDeadPhis EXCEPT ![n] = nonDead]
        /\ NeedToProcess' = (NeedToProcess \ {n}) \cup
             (IF ChangedIn(n, in, nonDead) THEN InEdges(n) ELSE {})
        /\ pc' = IF top \subseteq Globals THEN "solve" ELSE "fatal"
  /\ UNCHANGED <<f, Deleted, LiveRange>>

Converge ==
  /\ pc = "solve"
  /\ NeedToProcess = {}
  /\ pc' = "final"
  /\ at' = 0
  /\ UNCHANGED <<f, NeedToProcess, LiveIn, LiveOut, NumNonDeadPhis, Dead, LiveBegin, LiveEnd,
                 Deleted, LiveRange>>

-----------------------------------------------------------------------------
(***************************************************************************)
(* LiveRange::addSegment(): adjacent segments are merged.                  *)
(***************************************************************************)
AddSegment(range, segment) ==
  IF range # <<>> /\ range[Len(range)][2] = segment[1]
  THEN [range EXCEPT ![Len(range)] = <<@[1], segment[2]>>]
  ELSE Append(range, segment)

(***************************************************************************)
(* CfgNode::livenessAddIntervals().  A variable that begins and ends here  *)
(* but is live in and out, dead in between, gets two segments.  Numbers of *)
(* the node are first up to last.                                          *)
(***************************************************************************)
NumberOf(pairs, v, default) ==
  IF \E p \in pairs : p[1] = v THEN (CHOOSE p \in pairs : p[1] = v)[2] ELSE default

Extended(range, n, v, first, last) ==
  LET LB == NumberOf(LiveBegin[n], v, first)
      LE == NumberOf(LiveEnd[n], v, last + 1)
      mentioned == \E p \in LiveBegin[n] \cup LiveEnd[n] : p[1] = v
      through == v \in LiveIn[n] \cap LiveOut[n]
      one == IF mentioned THEN AddSegment(range, <<LB, LE>>) ELSE range
  IN IF mentioned /\ LB > LE
     THEN AddSegment(AddSegment(range, <<first, LE>>), <<LB, last + 1>>)
     ELSE IF through THEN AddSegment(one, <<first, last + 1>>) ELSE one

HasDuplicates(pairs) == \E p, q \in pairs : p # q /\ p[1] = q[1]

(***************************************************************************)
(* The final pass over a node.  Its first number is that of the first      *)
(* instruction left, but 1 in the entry, for the arguments.                *)
(***************************************************************************)
FirstInstNum(n, kept) == IF n = 1 THEN NumberExtended ELSE Number(FirstOf(kept))

FinalPass(n) ==
  /\ pc = "final"
  /\ n = at + 1
  /\ at' = n
  /\ Deleted' = Deleted \cup (Dead \cap CodeOf(n))
  /\ LET kept == CodeOf(n) \ Dead
         first == FirstInstNum(n, kept)
         last == Number(LastOf(kept))
         fatal == HasDuplicates(LiveBegin[n]) \/ HasDuplicates(LiveEnd[n])
     IN /\ LiveRange' = [v \in Variables |->
                      IF fatal THEN LiveRange[v] ELSE Extended(LiveRange[v], n, v, first, last)]
        /\ pc' = IF fatal THEN "fatal" ELSE IF n = f.nodes THEN "done" ELSE "final"
  /\ UNCHANGED <<f, NeedToProcess, LiveIn, LiveOut, NumNonDeadPhis, Dead, LiveBegin, LiveEnd>>

Terminated == pc \in {"done", "fatal"} /\ UNCHANGED vars

Step == (\E n \in Nodes : Visit(n)) \/ Converge \/ (\E n \in Nodes : FinalPass(n))
Next == Step \/ Terminated

Spec == Init /\ [][Next]_vars
FairSpec == Spec /\ WF_vars(Step)

-----------------------------------------------------------------------------
(***************************************************************************)
(* Types.  Live ranges are ordered, as LiveRange::addSegment() asserts.    *)
(***************************************************************************)
IsOrdered(range) ==
  /\ range \in Seq(Nat \X Nat)
  /\ \A k \in DOMAIN range : range[k][1] <= range[k][2]
  /\ \A k, m \in DOMAIN range : k < m => range[k][2] <= range[m][1]
RangesAreOrdered == \A v \in Variables : IsOrdered(LiveRange[v])
TypeOK ==
  /\ f \in Functions
  /\ pc \in {"solve", "final", "done", "fatal"}
  /\ at \in 0 .. f.nodes + 1
  /\ NeedToProcess \subseteq Nodes
  /\ LiveIn \in [Nodes -> SUBSET Globals]
  /\ LiveOut \in [Nodes -> SUBSET Globals]
  /\ NumNonDeadPhis \in [Nodes -> 0 .. Len(f.code)]
  /\ Dead \subseteq Code
  /\ LiveBegin \in [Nodes -> SUBSET (Variables \X (NumberInitial .. Number(Len(f.code))))]
  /\ LiveEnd \in [Nodes -> SUBSET (Variables \X (NumberInitial .. Number(Len(f.code))))]
  /\ Deleted \subseteq Code
  /\ DOMAIN LiveRange = Variables
  /\ RangesAreOrdered

(***************************************************************************)
(* What the function needs: the instructions with effects, and those whose *)
(* result a needed instruction uses.                                       *)
(***************************************************************************)
NeededWithin[k \in Nat] ==
  IF k = 0 THEN {i \in Code : f.code[i].effect \/ f.code[i].dest = None}
  ELSE LET S == NeededWithin[k - 1] IN
       S \cup {j \in Code : \E i \in S : f.code[j].dest \in f.code[i].uses}
Needed == NeededWithin[Len(f.code)]

(***************************************************************************)
(* What really is live in the code that is left: the variables with a use  *)
(* that can be reached without a new definition.  All phis of a node act   *)
(* at once, and read on the edges into it.                                 *)
(***************************************************************************)
KeptIn(S) == S \ Deleted
DefinedIn(S) == {f.code[i].dest : i \in {j \in KeptIn(S) : ~f.code[j].redefined}}
UsedFirstIn(S) ==
  UNION {f.code[i].uses \ DefinedIn({j \in S : j < i}) : i \in {j \in KeptIn(S) : ~IsPhi(j)}}
LiveBefore(S, out) == UsedFirstIn(S) \cup (out \ DefinedIn(S))
OperandsFrom(n) ==
  {f.code[i].from[n] : i \in KeptIn(UNION {Phis(s) : s \in f.succ[n]})} \ {None}
LiveInOf(in, n) == {v \in Variables : <<n, v>> \in in}
OutOf(in, n) == OperandsFrom(n) \cup UNION {LiveInOf(in, s) : s \in f.succ[n]}
LiveWithin[k \in Nat] ==
  IF k = 0 THEN {}
  ELSE LET in == LiveWithin[k - 1] IN
       UNION {{n} \X LiveBefore(CodeOf(n), OutOf(in, n)) : n \in Nodes}
ReallyLiveIn == LiveWithin[f.nodes]
ReallyLiveAfter(i, in) ==
  LET n == f.code[i].node
      rest == IF IsPhi(i) THEN Insts(n) ELSE {j \in Insts(n) : j > i}
  IN LiveBefore(rest, OutOf(in, n))

(***************************************************************************)
(* Dead code elimination deletes nothing that the function needs, although *)
(* the dead flags change while the analysis runs and a node is visited     *)
(* again only if CfgNode::liveness() says that something changed.          *)
(***************************************************************************)
NothingNeededIsDeleted == Deleted \cap Needed = {}

(***************************************************************************)
(* Without loops the analysis is exact: everything not needed is deleted,  *)
(* and LiveOut has the live variables and no others.                       *)
(***************************************************************************)
HasNoLoop == \A n \in Nodes : \A s \in f.succ[n] : n < s
ExactWithoutLoops ==
  pc = "done" /\ HasNoLoop =>
    /\ Deleted = Code \ Needed
    /\ LET in == ReallyLiveIn IN \A n \in Nodes : LiveOut[n] = OutOf(in, n)

(***************************************************************************)
(* LiveRange::overlaps(): what the register allocator asks.                *)
(***************************************************************************)
Overlaps(r1, r2) ==
  \E j \in DOMAIN r1, k \in DOMAIN r2 : r2[k][1] < r1[j][2] /\ r1[j][1] < r2[k][2]

(***************************************************************************)
(* Two variables that are live together have ranges that overlap, so they  *)
(* never get one register: whenever one is defined while the other is live *)
(* (phis of a node are defined together), and arguments at the entry.      *)
(***************************************************************************)
Interfere(i, in) ==
  LET v == f.code[i].dest
      live == ReallyLiveAfter(i, in)
  IN {{v, w} : w \in IF v \in live THEN live \ {v} ELSE {}}
InterferingArgs(in) == {{v, w} : v, w \in {arg \in LiveInOf(in, 1) : IsArg(arg)}}
InterferenceIsSeen ==
  pc = "done" =>
    LET in == ReallyLiveIn IN
    \A pair \in (UNION {Interfere(i, in) : i \in KeptIn(Code)}) \cup InterferingArgs(in) :
      \A v, w \in pair : Overlaps(LiveRange[v], LiveRange[w])

(***************************************************************************)
(* The work list gets empty, and the final pass ends in neither fatal      *)
(* error: no local variable is live on entry to its node, and no variable  *)
(* begins or ends twice in a node.                                         *)
(***************************************************************************)
LivenessEnds == <>(pc = "done")
=============================================================================
