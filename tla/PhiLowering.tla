---------------------------- MODULE PhiLowering ----------------------------
(***************************************************************************)
(* CfgNode::advancedPhiLowering(): the phis of a block are a parallel copy *)
(* on each edge into the block.  After register allocation the copies of   *)
(* an edge are put into sequence: a copy is appended when no pending copy  *)
(* still reads its destination, and a cycle is broken by saving a source   *)
(* in a temporary.  Registers may overlap (a wide one consists of units    *)
(* that are narrow registers as well).                                     *)
(*                                                                         *)
(* The variable store says what the copies appended so far, when they run, *)
(* have made of the places that hold variables.  At the start of an edge   *)
(* each cell holds a value of its own, named after the cell.               *)
(***************************************************************************)
EXTENDS Integers, Sequences, FiniteSets

CONSTANTS Variables,    \* variables of the function
          NumPhis,      \* phis of the block
          Dest,         \* the destination of each phi
          Widths,       \* the types considered: units each variable takes
          Units,        \* units that registers are made of
          Registers,    \* the registers, as sequences of units
          NumEdges,     \* edges into the block
          Const         \* a constant operand

Phis == 1 .. NumPhis
NoReg == <<>>
Tmp(n) == <<"tmp", n>>
Tmps == {Tmp(n) : n \in 1 .. NumPhis}

(***************************************************************************)
(* A register has its units once, and registers of one size are the same   *)
(* or have no unit in common (the register tables of the targets).  Names  *)
(* of different things differ.                                             *)
(***************************************************************************)
ASSUME PhiAssumption ==
  /\ NumPhis \in Nat \ {0}
  /\ NumEdges \in Nat
  /\ Dest \in [Phis -> Variables]
  /\ \A i, j \in Phis : Dest[i] = Dest[j] => i = j
  /\ Widths \subseteq [Variables -> {1, 2}]
  /\ Registers \subseteq Seq(Units) \ {NoReg}
  /\ \A r, q \in Registers : \A k \in DOMAIN r, n \in DOMAIN q :
       Len(r) = Len(q) /\ r[k] = q[n] => r = q /\ k = n
  /\ Const \notin Variables \cup Tmps
  /\ Variables \cap Tmps = {}
  /\ Units \cap {<<o, k>> : o \in Variables \cup Tmps, k \in 1 .. 2} = {}

VARIABLES width,      \* units of each variable's type
          reg,        \* RegNum of each variable, or NoReg for a stack slot
          pc,         \* where advancedPhiLowering() is
          edge,       \* edges done so far
          Src,        \* PhiDesc::Src of each phi, for this edge
          Processed,  \* PhiDesc::Processed
          NumPred,    \* PhiDesc::NumPred
          Weight,     \* PhiDesc::Weight
          Best,       \* BestItem
          tmps,       \* temporaries made for this edge
          store,      \* contents of the places after the copies so far
          source      \* the operands the edge started with

vars == <<width, reg, pc, edge, Src, Processed, NumPred, Weight, Best, tmps, store, source>>

Operands == Variables \cup {Const}
HasReg(o) == o \in Variables /\ reg[o] # NoReg

(***************************************************************************)
(* The cells of an operand: the units of its register or its own slot.     *)
(***************************************************************************)
Slot(o, n) == [k \in 1 .. n |-> <<o, k>>]
Place(o, n) == IF HasReg(o) THEN reg[o] ELSE Slot(o, n)
UnitsOf(o) == {reg[o][k] : k \in DOMAIN reg[o]}
Aliases(v, w) == UnitsOf(v) \cap UnitsOf(w) # {}

SameVar(v, o) == v = o  \* faulty: registers are not compared
SameVarOrReg(v, o) == v = o \/ (HasReg(v) /\ HasReg(o) /\ Aliases(v, o))

Cells == Units \cup {<<o, k>> : o \in Variables \cup Tmps, k \in 1 .. 2}
InitialStore == [c \in Cells |-> c]
W(i) == width[Dest[i]]
ValueIn(st, o, n) == [k \in 1 .. n |-> IF o = Const THEN Const ELSE st[Place(o, n)[k]]]
Copy(st, o, n, value) ==
  [c \in Cells |-> IF \E k \in 1 .. n : Place(o, n)[k] = c
                   THEN value[CHOOSE k \in 1 .. n : Place(o, n)[k] = c]
                   ELSE st[c]]

-----------------------------------------------------------------------------
(***************************************************************************)
(* Registers as the allocator leaves them: of the variable's width, and    *)
(* different for the destinations, which are live together.                *)
(***************************************************************************)
FitsRegister(v, r) == r = NoReg \/ Len(r) = width[v]
Init ==
  /\ width \in Widths
  /\ reg \in [Variables -> Registers \cup {NoReg}]
  /\ \A v \in Variables : FitsRegister(v, reg[v])
  /\ \A i, j \in Phis :
       i # j /\ HasReg(Dest[i]) /\ HasReg(Dest[j]) => ~Aliases(Dest[i], Dest[j])
  /\ pc = "edge"
  /\ edge = 0
  /\ Src = [i \in Phis |-> Const]
  /\ Processed = [i \in Phis |-> TRUE]
  /\ NumPred = [i \in Phis |-> 0]
  /\ Weight = [i \in Phis |-> 0]
  /\ Best = 1
  /\ tmps = 0
  /\ store = InitialStore
  /\ source = [i \in Phis |-> Const]

(***************************************************************************)
(* The operands of an edge are of the phi's type.  Two of them may share a *)
(* register, as copies of one another.                                     *)
(***************************************************************************)
EdgeOperands(s) == \A i \in Phis : s[i] # Const => width[s[i]] = W(i)

WeightNoPreds == 8
WeightSrcIsReg == 4
WeightDestNotReg == 2
WeightOnePred == 1

(***************************************************************************)
(* The pending items whose source is the destination of item i.            *)
(***************************************************************************)
Readers(i, src, processed) == {j \in Phis : ~processed[j] /\ SameVarOrReg(Dest[i], src[j])}

InitialWeight(i, src, numPred) ==
  (IF numPred = 0 THEN WeightNoPreds ELSE 0) + (IF numPred = 1 THEN WeightOnePred ELSE 0)
  + (IF HasReg(src[i]) THEN WeightSrcIsReg ELSE 0)
  + (IF HasReg(Dest[i]) THEN 0 ELSE WeightDestNotReg)

(***************************************************************************)
(* The three passes at the start of an edge.  A copy within one place is   *)
(* trivial: it is appended at once if its variables differ, and then       *)
(* changes nothing.                                                        *)
(***************************************************************************)
StartEdge(s) ==
  /\ pc = "edge"
  /\ edge < NumEdges
  /\ EdgeOperands(s)
  /\ LET trivial == [i \in Phis |-> SameVarOrReg(Dest[i], s[i])]
         preds == [i \in Phis |-> IF trivial[i] THEN 0 ELSE Cardinality(Readers(i, s, trivial))]
     IN /\ Processed' = trivial
        /\ NumPred' = preds
        /\ Weight' = [i \in Phis |-> IF trivial[i] THEN Weight[i]
                                     ELSE InitialWeight(i, s, preds[i])]
  /\ Src' = s
  /\ source' = s
  /\ store' = InitialStore
  /\ tmps' = 0
  /\ pc' = "choose"
  /\ UNCHANGED <<width, reg, edge, Best>>

(***************************************************************************)
(* The first of the pending items with the largest weight.                 *)
(***************************************************************************)
ChooseBest ==
  /\ pc = "choose"
  /\ \E b \in Phis :
       /\ ~Processed[b]
       /\ \A j \in Phis : ~Processed[j] =>
            Weight[j] < Weight[b] \/ (Weight[j] = Weight[b] /\ b <= j)
       /\ Best' = b
  /\ pc' = "break"
  /\ UNCHANGED <<width, reg, edge, Src, Processed, NumPred, Weight, tmps, store, source>>

(***************************************************************************)
(* updatePreds(Desc, Target, o): one pending item reads o no longer.       *)
(***************************************************************************)
UpdatePredsOfAll(o) ==  \* faulty: processed items are updated as well
  /\ NumPred' = [i \in Phis |-> IF o # Const /\ SameVarOrReg(Dest[i], o) THEN NumPred[i] - 1
                                ELSE NumPred[i]]
  /\ UNCHANGED Weight

UpdatePreds(o) ==
  LET hit == {i \in Phis : ~Processed[i] /\ o # Const /\ SameVarOrReg(Dest[i], o)} IN
  /\ NumPred' = [i \in Phis |-> IF i \in hit THEN NumPred[i] - 1 ELSE NumPred[i]]
  /\ Weight' = [i \in Phis |->
       IF i \in hit /\ NumPred[i] = 2 THEN Weight[i] + WeightOnePred
       ELSE IF i \in hit /\ NumPred[i] = 1 THEN Weight[i] + (WeightNoPreds - WeightOnePred)
       ELSE Weight[i]]

(***************************************************************************)
(* While some pending copy reads the destination of the best item: save    *)
(* the source of the first such copy in a temporary.                       *)
(***************************************************************************)
ReadsBest(j) == ~Processed[j] /\ NumPred[j] > 0 /\ SameVarOrReg(Dest[Best], Src[j])

BreakCycleOnly ==  \* faulty: the saved source still counts as read
  /\ pc = "break"
  /\ NumPred[Best] > 0
  /\ \E j \in Phis :
       /\ ReadsBest(j)
       /\ \A k \in Phis : ReadsBest(k) => j <= k
       /\ tmps' = tmps + 1
       /\ store' = Copy(store, Tmp(tmps + 1), W(j), ValueIn(store, Src[j], W(j)))
       /\ Src' = [Src EXCEPT ![j] = Tmp(tmps + 1)]
  /\ UNCHANGED <<width, reg, pc, edge, Processed, NumPred, Weight, Best, source>>

BreakCycle ==
  /\ pc = "break"
  /\ NumPred[Best] > 0
  /\ \E j \in Phis :
       /\ ReadsBest(j)
       /\ \A k \in Phis : ReadsBest(k) => j <= k
       /\ tmps' = tmps + 1
       /\ store' = Copy(store, Tmp(tmps + 1), W(j), ValueIn(store, Src[j], W(j)))
       /\ Src' = [Src EXCEPT ![j] = Tmp(tmps + 1)]
       /\ UpdatePreds(Src[j])
  /\ UNCHANGED <<width, reg, pc, edge, Processed, Best, source>>

AppendAssign ==
  /\ pc = "break"
  /\ NumPred[Best] = 0
  /\ store' = Copy(store, Dest[Best], W(Best), ValueIn(store, Src[Best], W(Best)))
  /\ UpdatePreds(Src[Best])
  /\ Processed' = [Processed EXCEPT ![Best] = TRUE]
  /\ pc' = "choose"
  /\ UNCHANGED <<width, reg, edge, Src, Best, tmps, source>>

EdgeDone == pc = "choose" /\ \A i \in Phis : Processed[i]

FinishEdge ==
  /\ EdgeDone
  /\ edge' = edge + 1
  /\ pc' = "edge"
  /\ UNCHANGED <<width, reg, Src, Processed, NumPred, Weight, Best, tmps, store, source>>

Terminated == pc = "edge" /\ edge = NumEdges /\ UNCHANGED vars

-----------------------------------------------------------------------------
Step ==
  \/ \E s \in [Phis -> Operands] : StartEdge(s)
  \/ ChooseBest
  \/ BreakCycle
  \/ AppendAssign
  \/ FinishEdge

Next == Step \/ Terminated

Spec == Init /\ [][Next]_vars
FairSpec == Spec /\ WF_vars(Step)

-----------------------------------------------------------------------------
(***************************************************************************)
(* Types.  A temporary is needed at most once for each phi.                *)
(***************************************************************************)
TypeOK ==
  /\ width \in Widths
  /\ reg \in [Variables -> Registers \cup {NoReg}]
  /\ pc \in {"edge", "choose", "break"}
  /\ edge \in 0 .. NumEdges
  /\ Src \in [Phis -> Operands \cup Tmps]
  /\ source \in [Phis -> Operands]
  /\ Processed \in [Phis -> BOOLEAN]
  /\ NumPred \in [Phis -> 0 .. NumPhis]
  /\ Weight \in [Phis -> Nat]
  /\ Best \in Phis
  /\ tmps \in 0 .. NumPhis
  /\ store \in [Cells -> Cells \cup {Const}]

(***************************************************************************)
(* On every edge the sequence of copies does what the phis say: each       *)
(* destination gets the value its operand had before all of them.  Every   *)
(* other place keeps what it held, so variables that are live through the  *)
(* edge survive.                                                           *)
(***************************************************************************)
DestCells == UNION {{Place(Dest[i], W(i))[k] : k \in 1 .. W(i)} : i \in Phis}
TmpCells == {<<t, k>> : t \in Tmps, k \in 1 .. 2}
ParallelCopy ==
  EdgeDone =>
    /\ \A i \in Phis : ValueIn(store, Dest[i], W(i)) = ValueIn(InitialStore, source[i], W(i))
    /\ \A c \in Cells \ (DestCells \cup TmpCells) : store[c] = InitialStore[c]

(***************************************************************************)
(* NumPred, which is only ever updated, equals the number of pending       *)
(* readers; at the end it is 0 ("All items should be marked as processed,  *)
(* and have no predecessors", the closing assertion).                      *)
(***************************************************************************)
NumPredIsExact ==
  pc # "edge" =>
    \A i \in Phis :
      NumPred[i] = IF Processed[i] THEN 0 ELSE Cardinality(Readers(i, Src, Processed))

(***************************************************************************)
(* The loops end.  In particular a cycle can always be broken: when the    *)
(* best item's destination is still read, the reader to rewrite is found   *)
(* (assert(Found)).                                                        *)
(***************************************************************************)
LoweringEnds == <>(pc = "edge" /\ edge = NumEdges)
=============================================================================
