---------------------- MODULE LoopInvariantCodeMotion ----------------------
(***************************************************************************)
(* Cfg::loopInvariantCodeMotion() after Cfg::generateLoopInfo(): what a    *)
(* loop computes anew each time is moved to the node before it.            *)
(*                                                                         *)
(* The function has code: a sequence of instructions, in the order of      *)
(* their numbers, which is the order they had in the bitcode.  Each has    *)
(* the node it is in, a dest (or None), the variables it uses, and whether *)
(* its kind is one that is moved.  A phi is an instruction that is not     *)
(* moved and uses nothing here.  Terminators are left out: they stay last. *)
(* A variable has one definition: target lowering comes after this pass.   *)
(***************************************************************************)
EXTENDS LoopAnalyzer

CONSTANT None  \* no dest

VARIABLES Insts,  \* the instructions of each node
          next    \* the next entry of LoopInfo

allVars == <<vars, Insts, next>>

ASSUME CodeAssumption == \A g \in Functions :
  /\ g.code \in Seq({g.code[i] : i \in DOMAIN g.code})
  /\ \A i \in DOMAIN g.code : g.code[i].node \in 1 .. g.nodes /\ None \notin g.code[i].uses
  /\ \A i, j \in DOMAIN g.code : g.code[i].dest = g.code[j].dest => i = j \/ g.code[i].dest = None

(***************************************************************************)
(* What is in a sequence at the places in P, in order.                     *)
(***************************************************************************)
Selected(s, P) ==
  [k \in 1 .. Cardinality(P) |-> s[CHOOSE p \in P : Cardinality({q \in P : q < p}) = k - 1]]

Code == DOMAIN f.code
ByNumber(S) == Selected([i \in Code |-> i], S)
CodeOf(n) == ByNumber({i \in Code : f.code[i].node = n})

(***************************************************************************)
(* SSA form: each instruction comes after the definitions of what it uses  *)
(* on every path.                                                          *)
(***************************************************************************)
Place(i) == CHOOSE p \in UNION {{n} \X DOMAIN Insts[n] : n \in Nodes} : Insts[p[1]][p[2]] = i
Before(i, j) ==
  \/ Place(i)[1] # Place(j)[1] /\ Dominates(Place(i)[1], Place(j)[1])
  \/ Place(i)[1] = Place(j)[1] /\ Place(i)[2] < Place(j)[2]
SSAForm == \A i, j \in Code : f.code[i].dest \in f.code[j].uses => Before(i, j)

InitMotion ==
  /\ Init
  /\ Insts = [n \in Nodes |-> CodeOf(n)]
  /\ next = 1
  /\ SSAForm

(***************************************************************************)
(* findLoopInvariantInstructions(): what uses only arguments, constants    *)
(* and what was found before, until nothing more is found: the smallest    *)
(* set with all that uses only it.                                         *)
(***************************************************************************)
Dests(S) == {f.code[i].dest : i \in S} \ {None}
Args == (UNION {f.code[i].uses : i \in Code}) \ Dests(Code)
MovableInsts(body) == {i \in UNION {ToSet(Insts[n]) : n \in body} : f.code[i].moves}
UsesAnyOutside(body, found) ==  \* faulty: what is defined in the loop and not found counts, too
  {i \in MovableInsts(body) : f.code[i].uses \cap Dests(MovableInsts(body)) \subseteq Dests(found)}
UsesInvariant(body, found) ==
  {i \in MovableInsts(body) : f.code[i].uses \subseteq Args \cup Dests(found)}
InvariantInsts(body) ==
  {i \in MovableInsts(body) :
     \A S \in SUBSET MovableInsts(body) : UsesInvariant(body, S) \subseteq S => i \in S}

MoveInvariants ==
  /\ pc = "info" /\ Loops = {}
  /\ next <= Len(LoopInfo)
  /\ LET loop == LoopInfo[next]
         moved == InvariantInsts(loop.Body)
     IN Insts' = [n \in Nodes |->
                    IF n = loop.PreHeader THEN Insts[n] \o ByNumber(moved)
                    ELSE Selected(Insts[n], {k \in DOMAIN Insts[n] : Insts[n][k] \notin moved})]
  /\ next' = next + 1
  /\ UNCHANGED vars
EndMotion ==
  /\ pc = "info" /\ Loops = {}
  /\ next > Len(LoopInfo)
  /\ pc' = "done"
  /\ UNCHANGED <<f, tarjan, Loops, LoopInfo, Insts, next>>

Terminated == pc = "done" /\ UNCHANGED allVars
Next ==
  \/ Analyze /\ UNCHANGED <<Insts, next>>
  \/ MoveInvariants
  \/ EndMotion
  \/ Terminated
Spec == InitMotion /\ [][Next]_allVars

-----------------------------------------------------------------------------
(***************************************************************************)
(* Types.  The assertions of computeLoopNestDepth() and ComputeLoopInfo()  *)
(* hold: both stacks are empty when a round starts, and no loop is without *)
(* an entry ("fatal").                                                     *)
(***************************************************************************)
TypeOK ==
  /\ pc \in {"round", "visit", "info", "done"}
  /\ pc = "round" => WorkStack = <<>> /\ LoopStack = <<>>
  /\ Index \in [Nodes -> Nat] /\ LowLink \in [Nodes -> Nat] /\ Succ \in [Nodes -> Nat \ {0}]
  /\ Deleted \subseteq Nodes
  /\ NextIndex \in Nat \ {0}
  /\ WorkStack \in Seq(Nodes) /\ LoopStack \in Seq(Nodes)
  /\ IsInjective(WorkStack) /\ IsInjective(LoopStack)
  /\ NestDepth \in [Nodes -> 0 .. f.nodes]
  /\ Loops \subseteq SUBSET Nodes
  /\ LoopInfo \in Seq([Header : Nodes, PreHeader : Nodes, Body : SUBSET Nodes])
  /\ Insts \in [Nodes -> Seq(Code)]
  /\ next \in 1 .. Len(LoopInfo) + 1

(***************************************************************************)
(* The function stays in "static single assignment (SSA) form"             *)
(* (DESIGN.rst) when instructions of several nodes are moved to one.       *)
(***************************************************************************)
SSAFormIsKept == pc = "done" => SSAForm
=============================================================================
