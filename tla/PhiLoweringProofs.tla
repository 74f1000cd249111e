--------------------------- MODULE PhiLoweringProofs ---------------------------
(***************************************************************************)
(* Proofs about phi lowering, for any number of phis and edges, any        *)
(* variables and any register file whose registers of one size are         *)
(* disjoint.                                                               *)
(*                                                                         *)
(* That the sequence of copies is the parallel copy is carried from step   *)
(* to step by Values: what a pending phi still has to copy is the value    *)
(* that its operand had at first, wherever it is by now.  An appended copy *)
(* destroys no such value because NumPred, which decides, is the number of *)
(* pending readers (NumPredIsExact).                                       *)
(***************************************************************************)
EXTENDS PhiLowering, FiniteSetTheorems, TLAPS

-----------------------------------------------------------------------------
(***************************************************************************)
(* Registers stay as the allocator has left them.                          *)
(***************************************************************************)
Allocated ==
  /\ \A v \in Variables : FitsRegister(v, reg[v])
  /\ \A i, j \in Phis :
       i # j /\ HasReg(Dest[i]) /\ HasReg(Dest[j]) => ~Aliases(Dest[i], Dest[j])

(***************************************************************************)
(* The source of a phi is the operand of the edge or a temporary that has  *)
(* been made since.  A pending item is no copy within one place.           *)
(***************************************************************************)
Sources ==
  /\ pc # "edge" =>
       \A i \in Phis :
         /\ source[i] # Const => width[source[i]] = W(i)
         /\ Src[i] = source[i] \/ \E n \in 1 .. tmps : Src[i] = Tmp(n)
         /\ ~Processed[i] => ~SameVarOrReg(Dest[i], Src[i])
  /\ pc = "break" => ~Processed[Best]

(***************************************************************************)
(* Each temporary has replaced the source of a phi.                        *)
(***************************************************************************)
Saved == {i \in Phis : Src[i] \in Tmps}
TmpsAreUsed == pc # "edge" => tmps = Cardinality(Saved)

(***************************************************************************)
(* The value that the destination has got, or that the source still holds. *)
(***************************************************************************)
Values ==
  pc # "edge" =>
    /\ \A i \in Phis :
         ValueIn(store, IF Processed[i] THEN Dest[i] ELSE Src[i], W(i))
           = ValueIn(InitialStore, source[i], W(i))
    /\ \A c \in Cells \ (DestCells \cup TmpCells) : store[c] = InitialStore[c]

(***************************************************************************)
(* Only the code between two edges can have no edge left.                  *)
(***************************************************************************)
Unfinished == pc # "edge" => edge < NumEdges

IInv == TypeOK /\ Unfinished /\ Allocated /\ Sources /\ TmpsAreUsed /\ NumPredIsExact /\ Values

-----------------------------------------------------------------------------
(***************************************************************************)
(* Operands that occupy n cells.                                           *)
(***************************************************************************)
Sized(o, n) ==
  \/ o \in Variables /\ n = width[o]
  \/ o \in Tmps /\ n \in {1, 2}

LEMMA DestSized == ASSUME TypeOK, NEW i \in Phis PROVE Sized(Dest[i], W(i)) /\ W(i) \in {1, 2}
BY PhiAssumption DEF TypeOK, Sized, W

LEMMA SourceSized ==
  ASSUME TypeOK, Sources, pc # "edge", NEW i \in Phis
  PROVE  Sized(Src[i], W(i)) \/ Src[i] = Const
<1>1. W(i) \in {1, 2}
  BY DestSized
<1>2. CASE Src[i] = source[i]
  BY <1>2 DEF TypeOK, Sources, Sized, Operands
<1>3. CASE \E n \in 1 .. tmps : Src[i] = Tmp(n)
  BY <1>1, <1>3, PhiAssumption DEF TypeOK, Sized, Tmps
<1>4. QED
  BY <1>2, <1>3 DEF Sources

(***************************************************************************)
(* An operand has a place of its size, in which no cell occurs twice.      *)
(***************************************************************************)
LEMMA PlaceOfOperand ==
  ASSUME TypeOK, Allocated, NEW o, NEW n, Sized(o, n)
  PROVE  /\ n \in {1, 2}
         /\ DOMAIN Place(o, n) = 1 .. n
         /\ \A k \in 1 .. n : Place(o, n)[k] \in Cells
         /\ \A k, m \in 1 .. n : Place(o, n)[k] = Place(o, n)[m] => k = m
<1>1. n \in {1, 2}
  BY PhiAssumption DEF TypeOK, Sized
<1>2. CASE HasReg(o)
  <2>1. reg[o] \in Registers /\ reg[o] \in Seq(Units) /\ Len(reg[o]) = n
    BY <1>2, PhiAssumption DEF HasReg, TypeOK, Allocated, FitsRegister, Sized
  <2>2. DOMAIN reg[o] = 1 .. n /\ \A k \in 1 .. n : reg[o][k] \in Units
    BY <2>1
  <2>3. \A k, m \in 1 .. n : reg[o][k] = reg[o][m] => k = m
    BY <2>1, <2>2, PhiAssumption
  <2>4. QED
    BY <1>1, <1>2, <2>2, <2>3 DEF Place, Cells
<1>3. CASE ~HasReg(o)
  <2>1. Place(o, n) = [k \in 1 .. n |-> <<o, k>>] /\ o \in Variables \cup Tmps
    BY <1>3 DEF Place, Slot, Sized
  <2>2. 1 .. n \subseteq 1 .. 2
    BY <1>1
  <2>3. \A k \in 1 .. n : <<o, k>> \in Cells
    BY <2>1, <2>2 DEF Cells
  <2>4. QED
    BY <1>1, <2>1, <2>3
<1>4. QED
  BY <1>2, <1>3

(***************************************************************************)
(* Operands that are not the same, for sameVarOrReg(), share no cell, and  *)
(* those that are, of one size, have the same place.                       *)
(***************************************************************************)
LEMMA PlacesDisjoint ==
  ASSUME TypeOK, Allocated, NEW o, NEW n, Sized(o, n), NEW p, NEW m, Sized(p, m),
         ~SameVarOrReg(o, p)
  PROVE  \A k \in 1 .. n, l \in 1 .. m : Place(o, n)[k] # Place(p, m)[l]
<1>1. n \in {1, 2} /\ m \in {1, 2} /\ DOMAIN Place(o, n) = 1 .. n /\ DOMAIN Place(p, m) = 1 .. m
  BY PlaceOfOperand
<1>2. o # p /\ ~(HasReg(o) /\ HasReg(p) /\ Aliases(o, p))
  BY DEF SameVarOrReg
<1>3. o \in Variables \cup Tmps /\ p \in Variables \cup Tmps
  BY DEF Sized
<1>4. ASSUME NEW x, NEW i, HasReg(x), i \in DOMAIN reg[x]
      PROVE  reg[x][i] \in Units
  <2>1. reg[x] \in Seq(Units)
    BY <1>4, PhiAssumption DEF HasReg, TypeOK
  <2>2. QED
    BY <1>4, <2>1
<1>5. ASSUME NEW x \in Variables \cup Tmps, NEW l \in 1 .. 2
      PROVE  <<x, l>> \notin Units
  BY PhiAssumption
<1>6. CASE HasReg(o) /\ HasReg(p)
  BY <1>1, <1>2, <1>6 DEF Place, Aliases, UnitsOf
<1>7. CASE HasReg(o) /\ ~HasReg(p)
  <2>1. \A k \in 1 .. n : Place(o, n)[k] \in Units
    BY <1>1, <1>4, <1>7 DEF Place
  <2>2. \A l \in 1 .. m : Place(p, m)[l] \notin Units
    <3>1. \A l \in 1 .. m : Place(p, m)[l] = <<p, l>> /\ l \in 1 .. 2
      BY <1>1, <1>7 DEF Place, Slot
    <3>2. QED
      BY <1>3, <1>5, <3>1
  <2>3. QED
    BY <2>1, <2>2
<1>8. CASE ~HasReg(o) /\ HasReg(p)
  <2>1. \A l \in 1 .. m : Place(p, m)[l] \in Units
    BY <1>1, <1>4, <1>8 DEF Place
  <2>2. \A k \in 1 .. n : Place(o, n)[k] \notin Units
    <3>1. \A k \in 1 .. n : Place(o, n)[k] = <<o, k>> /\ k \in 1 .. 2
      BY <1>1, <1>8 DEF Place, Slot
    <3>2. QED
      BY <1>3, <1>5, <3>1
  <2>3. QED
    BY <2>1, <2>2
<1>9. CASE ~HasReg(o) /\ ~HasReg(p)
  BY <1>2, <1>9 DEF Place, Slot
<1>10. QED
  BY <1>6, <1>7, <1>8, <1>9

LEMMA PlacesEqual ==
  ASSUME TypeOK, Allocated, NEW o \in Variables, NEW p \in Variables,
         width[o] = width[p], SameVarOrReg(o, p)
  PROVE  Place(o, width[o]) = Place(p, width[o])
<1>1. CASE o = p
  BY <1>1
<1>2. CASE HasReg(o) /\ HasReg(p) /\ Aliases(o, p)
  <2>1. PICK k \in DOMAIN reg[o], l \in DOMAIN reg[p] : reg[o][k] = reg[p][l]
    BY <1>2 DEF Aliases, UnitsOf
  <2>2. reg[o] \in Registers /\ reg[p] \in Registers /\ Len(reg[o]) = Len(reg[p])
    BY <1>2 DEF HasReg, TypeOK, Allocated, FitsRegister
  <2>3. reg[o] = reg[p]
    BY <2>1, <2>2, PhiAssumption
  <2>4. QED
    BY <1>2, <2>3 DEF Place
<1>3. QED
  BY <1>1, <1>2 DEF SameVarOrReg

-----------------------------------------------------------------------------
(***************************************************************************)
(* What a copy does: its place has the value, and what is elsewhere keeps  *)
(* its own.                                                                *)
(***************************************************************************)
LEMMA CopyReads ==
  ASSUME TypeOK, Allocated, NEW o, NEW n, Sized(o, n), o # Const, NEW st, NEW p
  PROVE  ValueIn(Copy(st, o, n, ValueIn(st, p, n)), o, n) = ValueIn(st, p, n)
<1> DEFINE value == ValueIn(st, p, n)
<1>1. /\ \A k \in 1 .. n : Place(o, n)[k] \in Cells
      /\ \A k, m \in 1 .. n : Place(o, n)[k] = Place(o, n)[m] => k = m
  BY PlaceOfOperand
<1>2. ASSUME NEW k \in 1 .. n
      PROVE  Copy(st, o, n, value)[Place(o, n)[k]] = value[k]
  <2>1. (CHOOSE m \in 1 .. n : Place(o, n)[m] = Place(o, n)[k]) = k
    BY <1>1
  <2>2. QED
    BY <1>1, <2>1 DEF Copy
<1>3. QED
  BY <1>2 DEF ValueIn

LEMMA CopyKeeps ==
  ASSUME TypeOK, Allocated, NEW o, NEW n, Sized(o, n), NEW p, NEW m, Sized(p, m) \/ p = Const,
         ~SameVarOrReg(o, p), NEW st, NEW value
  PROVE  ValueIn(Copy(st, o, n, value), p, m) = ValueIn(st, p, m)
<1>1. CASE p = Const
  BY <1>1 DEF ValueIn
<1>2. CASE Sized(p, m)
  <2>1. \A k \in 1 .. n, l \in 1 .. m : Place(o, n)[k] # Place(p, m)[l]
    BY <1>2, PlacesDisjoint
  <2>2. \A l \in 1 .. m : Place(p, m)[l] \in Cells
    BY <1>2, PlaceOfOperand
  <2>3. \A l \in 1 .. m : Copy(st, o, n, value)[Place(p, m)[l]] = st[Place(p, m)[l]]
    BY <2>1, <2>2 DEF Copy
  <2>4. QED
    BY <2>3 DEF ValueIn
<1>3. QED
  BY <1>1, <1>2

-----------------------------------------------------------------------------
LEMMA InitInv == Init => IInv
<1> SUFFICES ASSUME Init
             PROVE  IInv
  OBVIOUS
<1> USE DEF Init
<1>1. TypeOK
  <2>1. store \in [Cells -> Cells \cup {Const}]
    BY DEF InitialStore
  <2>2. /\ Src \in [Phis -> Operands \cup Tmps] /\ source \in [Phis -> Operands]
        /\ Processed \in [Phis -> BOOLEAN]
    BY DEF Operands
  <2>3. /\ NumPred \in [Phis -> 0 .. NumPhis] /\ Weight \in [Phis -> Nat]
        /\ Best \in Phis /\ tmps \in 0 .. NumPhis /\ edge \in 0 .. NumEdges
    BY PhiAssumption DEF Phis
  <2>4. QED
    BY <2>1, <2>2, <2>3 DEF TypeOK
<1>2. Allocated
  BY DEF Allocated
<1>3. Sources /\ TmpsAreUsed /\ NumPredIsExact /\ Values
  BY DEF Unfinished, Sources, TmpsAreUsed, NumPredIsExact, Values
<1>4. QED
  BY <1>1, <1>2, <1>3 DEF IInv, Unfinished

(***************************************************************************)
(* While variables keep their registers, operands keep their places.       *)
(***************************************************************************)
LEMMA OperandsStay ==
  ASSUME UNCHANGED <<width, reg>>
  PROVE  /\ \A o, p : Aliases(o, p)' <=> Aliases(o, p)
         /\ \A o, p : SameVarOrReg(o, p)' <=> SameVarOrReg(o, p)
         /\ Allocated => Allocated'
         /\ DestCells' = DestCells
<1>1. \A o : UnitsOf(o)' = UnitsOf(o)
  BY DEF UnitsOf
<1>2. \A o, p : Aliases(o, p)' <=> Aliases(o, p)
  BY <1>1 DEF Aliases
<1>3. \A o, p : SameVarOrReg(o, p)' <=> SameVarOrReg(o, p)
  BY <1>2 DEF SameVarOrReg, HasReg
<1>4. Allocated => Allocated'
  BY <1>2 DEF Allocated, FitsRegister, HasReg
<1>5. DestCells' = DestCells
  BY DEF DestCells, Place, HasReg, W
<1>6. QED
  BY <1>2, <1>3, <1>4, <1>5

(***************************************************************************)
(* Sets of phis are finite.                                                *)
(***************************************************************************)
LEMMA PhisFinite ==
  /\ IsFiniteSet(Phis) /\ Cardinality(Phis) = NumPhis
  /\ \A S \in SUBSET Phis : IsFiniteSet(S) /\ Cardinality(S) \in 0 .. NumPhis
<1>1. IsFiniteSet(Phis) /\ Cardinality(Phis) = NumPhis
  BY PhiAssumption, FS_Interval DEF Phis
<1>2. ASSUME NEW S \in SUBSET Phis
      PROVE  IsFiniteSet(S) /\ Cardinality(S) \in 0 .. NumPhis
  BY <1>1, FS_Subset, FS_CardinalityType, PhiAssumption
<1>3. QED
  BY <1>1, <1>2

LEMMA StartEdgeInv ==
  ASSUME IInv, NEW s \in [Phis -> Operands], StartEdge(s)
  PROVE  IInv'
<1> DEFINE trivial == [i \in Phis |-> SameVarOrReg(Dest[i], s[i])]
           preds == [i \in Phis |-> IF trivial[i] THEN 0 ELSE Cardinality(Readers(i, s, trivial))]
<1> USE DEF IInv
<1>1. /\ Processed' = trivial /\ NumPred' = preds /\ Src' = s /\ source' = s
      /\ store' = InitialStore /\ tmps' = 0 /\ pc' = "choose"
      /\ UNCHANGED <<width, reg, edge, Best>>
      /\ Weight' = [i \in Phis |-> IF trivial[i] THEN Weight[i]
                                   ELSE InitialWeight(i, s, preds[i])]
  BY DEF StartEdge
<1>2. \A i \in Phis : s[i] # Const => width[s[i]] = W(i)
  BY DEF StartEdge, EdgeOperands
<1>3. \A i \in Phis : Readers(i, s, trivial) \in SUBSET Phis
  BY DEF Readers
<1>4. TypeOK'
  <2>1. \A i \in Phis : trivial[i] \in BOOLEAN
    BY DEF SameVarOrReg, HasReg, Aliases
  <2>2. \A i \in Phis : preds[i] \in 0 .. NumPhis
    BY <1>3, PhisFinite, PhiAssumption
  <2>3. \A i \in Phis : InitialWeight(i, s, preds[i]) \in Nat
    BY DEF InitialWeight, WeightNoPreds, WeightOnePred, WeightSrcIsReg, WeightDestNotReg
  <2>4. Weight' \in [Phis -> Nat]
    BY <1>1, <2>3 DEF TypeOK
  <2>5. Processed' \in [Phis -> BOOLEAN] /\ NumPred' \in [Phis -> 0 .. NumPhis]
    BY <1>1, <2>1, <2>2
  <2>6. store' \in [Cells -> Cells \cup {Const}]
    BY <1>1 DEF InitialStore
  <2>7. Src' \in [Phis -> Operands \cup Tmps] /\ source' \in [Phis -> Operands] /\ tmps' \in 0 .. NumPhis
    BY <1>1, PhiAssumption
  <2>8. QED
    BY <1>1, <2>4, <2>5, <2>6, <2>7 DEF TypeOK
<1>5. Allocated' /\ Unfinished'
  BY <1>1, OperandsStay DEF Unfinished, StartEdge
<1>6. Sources'
  BY <1>1, <1>2, OperandsStay DEF Sources, W
<1>7. TmpsAreUsed'
  <2>1. Saved' = {}
    BY <1>1, PhiAssumption DEF Saved, Operands
  <2>2. QED
    BY <1>1, <2>1, FS_EmptySet DEF TmpsAreUsed
<1>8. NumPredIsExact'
  <2>1. \A i \in Phis : Readers(i, Src, Processed)' = Readers(i, s, trivial)
    BY <1>1 DEF Readers, SameVarOrReg, HasReg, Aliases, UnitsOf
  <2>2. QED
    BY <1>1, <2>1 DEF NumPredIsExact
<1>9. Values'
  <2>1. ASSUME NEW i \in Phis, trivial[i]
        PROVE  ValueIn(InitialStore, Dest[i], W(i)) = ValueIn(InitialStore, s[i], W(i))
    <3>1. Dest[i] \in Variables /\ s[i] \in Variables
      BY <2>1, PhiAssumption DEF SameVarOrReg, HasReg, Operands
    <3>2. Place(Dest[i], W(i)) = Place(s[i], W(i))
      BY <1>2, <2>1, <3>1, PlacesEqual, PhiAssumption DEF W
    <3>3. QED
      BY <3>1, <3>2, PhiAssumption DEF ValueIn
  <2>2. \A i \in Phis : ValueIn(InitialStore, IF trivial[i] THEN Dest[i] ELSE s[i], W(i))
                          = ValueIn(InitialStore, s[i], W(i))
    BY <2>1
  <2>3. \A i \in Phis : ValueIn(store, IF Processed[i] THEN Dest[i] ELSE Src[i], W(i))'
                          = ValueIn(InitialStore, source[i], W(i))'
    BY <1>1, <2>2 DEF ValueIn, Place, HasReg, W, InitialStore
  <2>4. QED
    BY <1>1, <2>3 DEF Values
<1>10. QED
  BY <1>4, <1>5, <1>6, <1>7, <1>8, <1>9

LEMMA ChooseBestInv == ASSUME IInv, ChooseBest PROVE IInv'
<1> USE DEF IInv, ChooseBest
<1>1. UNCHANGED <<width, reg, edge, Src, Processed, NumPred, Weight, tmps, store, source>>
  OBVIOUS
<1>2. pc = "choose" /\ pc' = "break" /\ Best' \in Phis /\ ~Processed'[Best']
  OBVIOUS
<1>3. TypeOK'
  BY <1>1, <1>2 DEF TypeOK
<1>4. Allocated' /\ Sources' /\ Unfinished'
  BY <1>1, <1>2, OperandsStay DEF Sources, W, Unfinished
<1>5. TmpsAreUsed' /\ NumPredIsExact'
  <2>1. Saved' = Saved
    BY <1>1 DEF Saved
  <2>2. \A i \in Phis : Readers(i, Src, Processed)' = Readers(i, Src, Processed)
    BY <1>1, OperandsStay DEF Readers
  <2>3. QED
    BY <1>1, <1>2, <2>1, <2>2 DEF TmpsAreUsed, NumPredIsExact
<1>6. Values'
  BY <1>1, <1>2, OperandsStay DEF Values, ValueIn, Place, HasReg, W, InitialStore
<1>7. QED
  BY <1>3, <1>4, <1>5, <1>6

LEMMA FinishEdgeInv == ASSUME IInv, FinishEdge PROVE IInv'
<1> USE DEF IInv, FinishEdge
<1>1. UNCHANGED <<width, reg, Src, Processed, NumPred, Weight, Best, tmps, store, source>> /\ pc' = "edge"
  OBVIOUS
<1>2. TypeOK' 
  BY <1>1, PhiAssumption DEF TypeOK, Unfinished, EdgeDone
<1>3. Allocated'
  BY <1>1, OperandsStay
<1>4. QED
  BY <1>1, <1>2, <1>3 DEF Unfinished, Sources, TmpsAreUsed, NumPredIsExact, Values

LEMMA StutterInv == ASSUME IInv, UNCHANGED vars PROVE IInv'
<1> USE DEF IInv, vars
<1>1. TypeOK'
  BY DEF TypeOK
<1>2. Allocated' /\ Sources' /\ Unfinished'
  BY OperandsStay DEF Sources, W, Unfinished
<1>3. TmpsAreUsed' /\ NumPredIsExact'
  <2>1. Saved' = Saved
    BY DEF Saved
  <2>2. \A i \in Phis : Readers(i, Src, Processed)' = Readers(i, Src, Processed)
    BY OperandsStay DEF Readers
  <2>3. QED
    BY <2>1, <2>2 DEF TmpsAreUsed, NumPredIsExact
<1>4. Values'
  BY OperandsStay DEF Values, ValueIn, Place, HasReg, W, InitialStore
<1>5. QED
  BY <1>1, <1>2, <1>3, <1>4

-----------------------------------------------------------------------------
(***************************************************************************)
(* updatePreds() for the source of item j takes j, and nothing else, from  *)
(* the readers of every pending item.                                      *)
(***************************************************************************)
LEMMA UpdatePredsCounts ==
  ASSUME IInv, pc # "edge", NEW j \in Phis, ~Processed[j], UpdatePreds(Src[j])
  PROVE  /\ NumPred' \in [Phis -> 0 .. NumPhis]
         /\ Weight' \in [Phis -> Nat]
         /\ \A i \in Phis :
              NumPred'[i] = IF Processed[i] THEN 0
                            ELSE Cardinality(Readers(i, Src, Processed) \ {j})
<1> USE DEF IInv
<1> DEFINE hit == {i \in Phis : ~Processed[i] /\ Src[j] # Const /\ SameVarOrReg(Dest[i], Src[j])}
<1>1. /\ NumPred' = [i \in Phis |-> IF i \in hit THEN NumPred[i] - 1 ELSE NumPred[i]]
      /\ Weight' = [i \in Phis |->
           IF i \in hit /\ NumPred[i] = 2 THEN Weight[i] + WeightOnePred
           ELSE IF i \in hit /\ NumPred[i] = 1 THEN Weight[i] + (WeightNoPreds - WeightOnePred)
           ELSE Weight[i]]
  BY DEF UpdatePreds
<1>2. ASSUME NEW i \in Phis, ~Processed[i]
      PROVE  /\ NumPred'[i] = Cardinality(Readers(i, Src, Processed) \ {j})
             /\ NumPred'[i] \in 0 .. NumPhis
  <2> DEFINE R == Readers(i, Src, Processed)
  <2>1. R \in SUBSET Phis /\ R \ {j} \in SUBSET Phis
    BY DEF Readers
  <2>2. /\ IsFiniteSet(R) /\ Cardinality(R) \in 0 .. NumPhis
        /\ IsFiniteSet(R \ {j}) /\ Cardinality(R \ {j}) \in 0 .. NumPhis
    BY <2>1, PhisFinite
  <2>3. NumPred[i] = Cardinality(R)
    BY <1>2 DEF NumPredIsExact
  <2>4. CASE i \in hit
    <3>1. j \in R
      BY <2>4 DEF Readers
    <3>2. Cardinality(R \ {j}) = Cardinality(R) - 1
      BY <2>2, <3>1, FS_RemoveElement
    <3>3. NumPred'[i] = NumPred[i] - 1
      BY <1>1, <2>4
    <3>4. QED
      BY <2>2, <2>3, <3>2, <3>3
  <2>5. CASE i \notin hit
    <3>1. ~SameVarOrReg(Dest[i], Const)
      BY PhiAssumption DEF SameVarOrReg, HasReg
    <3>2. j \notin R
      BY <1>2, <2>5, <3>1 DEF Readers
    <3>3. R \ {j} = R
      BY <3>2
    <3>4. NumPred'[i] = NumPred[i]
      BY <1>1, <2>5
    <3>5. QED
      BY <2>2, <2>3, <3>3, <3>4
  <2>6. QED
    BY <2>4, <2>5
<1>3. ASSUME NEW i \in Phis, Processed[i]
      PROVE  NumPred'[i] = 0
  BY <1>1, <1>3 DEF NumPredIsExact
<1>4. NumPred' \in [Phis -> 0 .. NumPhis]
  <2>1. \A i \in Phis : NumPred'[i] \in 0 .. NumPhis
    <3>1. ASSUME NEW i \in Phis
          PROVE  NumPred'[i] \in 0 .. NumPhis
      <4>1. CASE Processed[i]
        BY <1>3, <4>1, PhiAssumption
      <4>2. CASE ~Processed[i]
        BY <1>2, <4>2
      <4>3. QED
        BY <4>1, <4>2
    <3>2. QED
      BY <3>1
  <2>2. QED
    BY <1>1, <2>1
<1>5. Weight' \in [Phis -> Nat]
  BY <1>1 DEF TypeOK, WeightOnePred, WeightNoPreds
<1>6. QED
  BY <1>2, <1>3, <1>4, <1>5

(***************************************************************************)
(* The copy that saves the source of item j, a reader of the best item's   *)
(* destination, in a new temporary.                                        *)
(***************************************************************************)
LEMMA BreakCycleInv == ASSUME IInv, BreakCycle PROVE IInv'
<1> USE DEF IInv
<1>1. PICK j \in Phis :
        /\ ReadsBest(j)
        /\ tmps' = tmps + 1
        /\ store' = Copy(store, Tmp(tmps + 1), W(j), ValueIn(store, Src[j], W(j)))
        /\ Src' = [Src EXCEPT ![j] = Tmp(tmps + 1)]
        /\ UpdatePreds(Src[j])
  BY DEF BreakCycle
<1>2. pc = "break" /\ UNCHANGED <<width, reg, pc, edge, Processed, Best, source>>
  BY DEF BreakCycle
<1>3. ~Processed[j] /\ Src[j] \in Variables
  <2>1. Dest[Best] \in Variables
    BY PhiAssumption DEF TypeOK
  <2>2. QED
    BY <1>1, <2>1 DEF ReadsBest, SameVarOrReg, HasReg
<1>4. j \notin Saved /\ Saved \in SUBSET Phis
  BY <1>3, PhiAssumption DEF Saved
<1>5. tmps + 1 \in 1 .. NumPhis
  <2>1. IsFiniteSet(Saved) /\ IsFiniteSet(Saved \cup {j}) /\ Cardinality(Saved \cup {j}) \in 0 .. NumPhis
    BY <1>4, PhisFinite
  <2>2. Cardinality(Saved \cup {j}) = Cardinality(Saved) + 1
    BY <1>4, <2>1, FS_AddElement
  <2>3. QED
    BY <1>2, <2>1, <2>2, PhiAssumption DEF TmpsAreUsed, TypeOK
<1>6. Tmp(tmps + 1) \in Tmps
  BY <1>5 DEF Tmps
<1>7. UNCHANGED <<width, reg>>
  BY <1>2
<1>8. TypeOK'
  <2>1. Src' \in [Phis -> Operands \cup Tmps]
    BY <1>1, <1>6 DEF TypeOK
  <2>2. store' \in [Cells -> Cells \cup {Const}]
    <3>1. \A k \in 1 .. W(j) : ValueIn(store, Src[j], W(j))[k] \in Cells \cup {Const}
      <4>1. Sized(Src[j], W(j))
        BY <1>2, <1>3, SourceSized, PhiAssumption
      <4>2. \A k \in 1 .. W(j) : Place(Src[j], W(j))[k] \in Cells
        BY <4>1, PlaceOfOperand
      <4>3. QED
        BY <4>2 DEF ValueIn, TypeOK
    <3>2. QED
      BY <1>1, <3>1 DEF Copy, TypeOK
  <2>3. NumPred' \in [Phis -> 0 .. NumPhis] /\ Weight' \in [Phis -> Nat]
    BY <1>1, <1>2, <1>3, UpdatePredsCounts
  <2>4. QED
    BY <1>1, <1>2, <1>5, <2>1, <2>2, <2>3, PhiAssumption DEF TypeOK
<1>9. Allocated' /\ Unfinished'
  BY <1>2, OperandsStay DEF Unfinished
<1>10. Sources'
  <2>1. \A i \in Phis : Src'[i] = IF i = j THEN Tmp(tmps + 1) ELSE Src[i]
    BY <1>1 DEF TypeOK
  <2>2. \A i \in Phis : Src'[i] = source'[i] \/ \E n \in 1 .. tmps' : Src'[i] = Tmp(n)
    <3>1. 1 .. tmps \subseteq 1 .. tmps' /\ tmps + 1 \in 1 .. tmps'
      BY <1>1, <1>5 DEF TypeOK
    <3>2. QED
      BY <1>2, <2>1, <3>1 DEF Sources
  <2>3. \A i \in Phis : ~SameVarOrReg(Dest[i], Tmp(tmps + 1))
    BY <1>6, PhiAssumption DEF SameVarOrReg, HasReg
  <2>4. \A i \in Phis : ~Processed[i] => ~SameVarOrReg(Dest[i], Src'[i])
    BY <1>2, <2>1, <2>3 DEF Sources
  <2>5. QED
    BY <1>2, <2>2, <2>4, OperandsStay DEF Sources, W
<1>11. TmpsAreUsed'
  <2>1. Saved' = Saved \cup {j}
    BY <1>1, <1>6 DEF Saved, TypeOK
  <2>2. Cardinality(Saved \cup {j}) = Cardinality(Saved) + 1
    BY <1>4, PhisFinite, FS_AddElement
  <2>3. QED
    BY <1>1, <1>2, <2>1, <2>2 DEF TmpsAreUsed
<1>12. NumPredIsExact'
  <2>1. ASSUME NEW i \in Phis
        PROVE  Readers(i, Src, Processed)' = Readers(i, Src, Processed) \ {j}
    <3>1. ~SameVarOrReg(Dest[i], Tmp(tmps + 1))
      BY <1>6, PhiAssumption DEF SameVarOrReg, HasReg
    <3>2. Readers(i, Src, Processed)' = {k \in Phis : ~Processed[k] /\ SameVarOrReg(Dest[i], Src'[k])}
      BY <1>2, OperandsStay DEF Readers
    <3>3. QED
      BY <1>1, <3>1, <3>2 DEF Readers, TypeOK
  <2>2. QED
    BY <1>1, <1>2, <1>3, <2>1, UpdatePredsCounts DEF NumPredIsExact
<1>13. Values'
  <2> DEFINE T == Tmp(tmps + 1)
  <2>1. Sized(T, W(j)) /\ T # Const
    BY <1>6, DestSized, PhiAssumption DEF Sized
  <2>2. ValueIn(store', T, W(j)) = ValueIn(store, Src[j], W(j))
    BY <1>1, <2>1, CopyReads
  <2>3. ASSUME NEW i \in Phis, NEW o, Sized(o, W(i)) \/ o = Const, o # T
        PROVE  ValueIn(store', o, W(i)) = ValueIn(store, o, W(i))
    <3>1. ~SameVarOrReg(T, o)
      BY <1>6, <2>3, PhiAssumption DEF SameVarOrReg, HasReg
    <3>2. QED
      BY <1>1, <2>1, <2>3, <3>1, CopyKeeps
  <2>4. ASSUME NEW i \in Phis
        PROVE  ValueIn(store', IF Processed[i] THEN Dest[i] ELSE Src'[i], W(i))
                 = ValueIn(InitialStore, source[i], W(i))
    <3>1. CASE i = j
      BY <1>1, <1>2, <1>3, <2>2, <3>1 DEF Values, TypeOK
    <3>2. CASE i # j /\ Processed[i]
      <4>1. Sized(Dest[i], W(i)) /\ Dest[i] # T
        BY <1>6, DestSized, PhiAssumption
      <4>2. QED
        BY <1>2, <2>3, <3>2, <4>1 DEF Values
    <3>3. CASE i # j /\ ~Processed[i]
      <4>1. Src'[i] = Src[i]
        BY <1>1, <3>3 DEF TypeOK
      <4>2. Src[i] # T
        <5>1. CASE Src[i] = source[i]
          BY <1>6, <5>1, PhiAssumption DEF TypeOK, Operands
        <5>2. CASE \E n \in 1 .. tmps : Src[i] = Tmp(n)
          <6>1. PICK n \in 1 .. tmps : Src[i] = Tmp(n)
            BY <5>2
          <6>2. n # tmps + 1
            BY DEF TypeOK
          <6>3. QED
            BY <6>1, <6>2 DEF Tmp
        <5>3. QED
          BY <1>2, <5>1, <5>2 DEF Sources
      <4>3. Sized(Src[i], W(i)) \/ Src[i] = Const
        BY <1>2, SourceSized
      <4>4. QED
        BY <1>2, <2>3, <3>3, <4>1, <4>2, <4>3 DEF Values
    <3>4. QED
      BY <3>1, <3>2, <3>3
  <2>5. ASSUME NEW c \in Cells \ (DestCells \cup TmpCells)
        PROVE  store'[c] = InitialStore[c]
    <3>1. \A k \in 1 .. W(j) : Place(T, W(j))[k] \in TmpCells
      <4>1. Place(T, W(j)) = [k \in 1 .. W(j) |-> <<T, k>>]
        BY <1>6, PhiAssumption DEF Place, HasReg, Slot
      <4>2. 1 .. W(j) \subseteq 1 .. 2
        BY DestSized
      <4>3. \A k \in 1 .. 2 : <<T, k>> \in TmpCells
        BY <1>6 DEF TmpCells
      <4>4. QED
        BY <4>1, <4>2, <4>3
    <3>2. store'[c] = store[c]
      BY <1>1, <3>1 DEF Copy
    <3>3. QED
      BY <1>2, <3>2 DEF Values
  <2>6. QED
    BY <1>2, <2>4, <2>5, OperandsStay DEF Values, ValueIn, Place, HasReg, W, InitialStore, TmpCells
<1>14. QED
  BY <1>8, <1>9, <1>10, <1>11, <1>12, <1>13

(***************************************************************************)
(* The copy of the best item.  Nobody reads its destination any more, so   *)
(* no pending source changes; destinations do not overlap, so no value     *)
(* that has arrived changes either.                                        *)
(***************************************************************************)
LEMMA AppendAssignInv == ASSUME IInv, AppendAssign PROVE IInv'
<1> USE DEF IInv
<1>1. /\ pc = "break" /\ pc' = "choose"
      /\ NumPred[Best] = 0
      /\ store' = Copy(store, Dest[Best], W(Best), ValueIn(store, Src[Best], W(Best)))
      /\ UpdatePreds(Src[Best])
      /\ Processed' = [Processed EXCEPT ![Best] = TRUE]
      /\ UNCHANGED <<width, reg, edge, Src, Best, tmps, source>>
  BY DEF AppendAssign
<1>2. Best \in Phis /\ ~Processed[Best]
  BY <1>1 DEF TypeOK, Sources
<1>3. Sized(Dest[Best], W(Best)) /\ Dest[Best] \in Variables /\ Dest[Best] # Const
  BY <1>2, DestSized, PhiAssumption
<1>4. Sized(Src[Best], W(Best)) \/ Src[Best] = Const
  BY <1>1, <1>2, SourceSized
<1>5. \A i \in Phis : Processed'[i] = (IF i = Best THEN TRUE ELSE Processed[i])
  BY <1>1 DEF TypeOK
<1>6. TypeOK'
  <2>1. Processed' \in [Phis -> BOOLEAN]
    BY <1>1 DEF TypeOK
  <2>2. store' \in [Cells -> Cells \cup {Const}]
    <3>1. \A k \in 1 .. W(Best) : ValueIn(store, Src[Best], W(Best))[k] \in Cells \cup {Const}
      <4>1. Src[Best] # Const => \A k \in 1 .. W(Best) : Place(Src[Best], W(Best))[k] \in Cells
        BY <1>4, PlaceOfOperand
      <4>2. QED
        BY <4>1 DEF ValueIn, TypeOK
    <3>2. QED
      BY <1>1, <3>1 DEF Copy, TypeOK
  <2>3. NumPred' \in [Phis -> 0 .. NumPhis] /\ Weight' \in [Phis -> Nat]
    BY <1>1, <1>2, UpdatePredsCounts
  <2>4. QED
    BY <1>1, <2>1, <2>2, <2>3 DEF TypeOK
<1>7. Allocated' /\ Unfinished'
  BY <1>1, OperandsStay DEF Unfinished
<1>8. Sources'
  BY <1>1, <1>5, OperandsStay DEF Sources, W
<1>9. TmpsAreUsed'
  <2>1. Saved' = Saved
    BY <1>1 DEF Saved
  <2>2. QED
    BY <1>1, <2>1 DEF TmpsAreUsed
<1>10. NumPredIsExact'
  <2>1. ASSUME NEW i \in Phis
        PROVE  Readers(i, Src, Processed)' = Readers(i, Src, Processed) \ {Best}
    <3>1. Readers(i, Src, Processed)' = {k \in Phis : ~Processed'[k] /\ SameVarOrReg(Dest[i], Src[k])}
      BY <1>1, OperandsStay DEF Readers
    <3>2. QED
      BY <1>5, <3>1 DEF Readers
  <2>2. ASSUME NEW i \in Phis
        PROVE  NumPred'[i] = IF Processed'[i] THEN 0 ELSE Cardinality(Readers(i, Src, Processed)')
    <3>1. CASE i = Best
      <4>1. Readers(i, Src, Processed) \in SUBSET Phis
        BY DEF Readers
      <4>2. IsFiniteSet(Readers(i, Src, Processed)) /\ Cardinality(Readers(i, Src, Processed)) = 0
        BY <1>1, <1>2, <3>1, <4>1, PhisFinite DEF NumPredIsExact
      <4>3. Readers(i, Src, Processed) \ {Best} = {}
        BY <4>2, FS_EmptySet
      <4>4. NumPred'[i] = Cardinality(Readers(i, Src, Processed) \ {Best})
        BY <1>1, <1>2, <3>1, UpdatePredsCounts
      <4>5. QED
        BY <1>5, <3>1, <4>3, <4>4, FS_EmptySet
    <3>2. CASE i # Best
      BY <1>1, <1>2, <1>5, <2>1, <3>2, UpdatePredsCounts
    <3>3. QED
      BY <3>1, <3>2
  <2>3. QED
    BY <2>2 DEF NumPredIsExact
<1>11. Values'
  <2> DEFINE D == Dest[Best]
  <2>1. ValueIn(store', D, W(Best)) = ValueIn(store, Src[Best], W(Best))
    BY <1>1, <1>3, CopyReads
  <2>2. ASSUME NEW i \in Phis, NEW o, Sized(o, W(i)) \/ o = Const, ~SameVarOrReg(D, o)
        PROVE  ValueIn(store', o, W(i)) = ValueIn(store, o, W(i))
    BY <1>1, <1>3, <2>2, CopyKeeps
  <2>3. \A i \in Phis : ~Processed[i] => ~SameVarOrReg(D, Src[i])
    <3>1. Readers(Best, Src, Processed) \in SUBSET Phis
      BY DEF Readers
    <3>2. IsFiniteSet(Readers(Best, Src, Processed)) /\ Cardinality(Readers(Best, Src, Processed)) = 0
      BY <1>1, <1>2, <3>1, PhisFinite DEF NumPredIsExact
    <3>3. Readers(Best, Src, Processed) = {}
      BY <3>2, FS_EmptySet
    <3>4. QED
      BY <3>3 DEF Readers
  <2>4. ASSUME NEW i \in Phis
        PROVE  ValueIn(store', IF Processed'[i] THEN Dest[i] ELSE Src[i], W(i))
                 = ValueIn(InitialStore, source[i], W(i))
    <3>1. CASE i = Best
      BY <1>1, <1>2, <1>5, <2>1, <3>1 DEF Values
    <3>2. CASE i # Best /\ Processed[i]
      <4>1. Sized(Dest[i], W(i)) /\ Dest[i] # D
        BY <1>2, <3>2, DestSized, PhiAssumption
      <4>2. ~SameVarOrReg(D, Dest[i])
        BY <1>2, <3>2, <4>1 DEF SameVarOrReg, Allocated
      <4>3. QED
        BY <1>1, <1>5, <2>2, <3>2, <4>1, <4>2 DEF Values
    <3>3. CASE i # Best /\ ~Processed[i]
      <4>1. Sized(Src[i], W(i)) \/ Src[i] = Const
        BY <1>1, SourceSized
      <4>2. QED
        BY <1>1, <1>5, <2>2, <2>3, <3>3, <4>1 DEF Values
    <3>4. QED
      BY <3>1, <3>2, <3>3
  <2>5. ASSUME NEW c \in Cells \ (DestCells \cup TmpCells)
        PROVE  store'[c] = InitialStore[c]
    <3>1. \A k \in 1 .. W(Best) : Place(D, W(Best))[k] \in DestCells
      BY <1>2 DEF DestCells
    <3>2. store'[c] = store[c]
      BY <1>1, <3>1 DEF Copy
    <3>3. QED
      BY <1>1, <3>2 DEF Values
  <2>6. ASSUME NEW i \in Phis
        PROVE  (ValueIn(store, IF Processed[i] THEN Dest[i] ELSE Src[i], W(i))
                  = ValueIn(InitialStore, source[i], W(i)))'
    <3>1. UNCHANGED <<width, reg, Src, source>>
      BY <1>1
    <3>2. CASE Processed'[i]
      BY <2>4, <3>1, <3>2 DEF ValueIn, Place, HasReg, W, InitialStore
    <3>3. CASE ~Processed'[i]
      BY <2>4, <3>1, <3>3 DEF ValueIn, Place, HasReg, W, InitialStore
    <3>4. QED
      BY <3>2, <3>3
  <2>7. QED
    BY <1>1, <2>5, <2>6, OperandsStay DEF Values, InitialStore, TmpCells
<1>12. QED
  BY <1>6, <1>7, <1>8, <1>9, <1>10, <1>11

-----------------------------------------------------------------------------
(***************************************************************************)
(* The invariant holds in every state of every instance.                   *)
(***************************************************************************)
THEOREM Invariance == Spec => []IInv
<1>1. IInv /\ [Next]_vars => IInv'
  BY StartEdgeInv, ChooseBestInv, BreakCycleInv, AppendAssignInv, FinishEdgeInv, StutterInv
  DEF Next, Step, Terminated
<1>2. QED
  BY InitInv, <1>1, PTL DEF Spec

(***************************************************************************)
(* Every variable has its type; in particular advancedPhiLowering() never  *)
(* makes more temporaries on an edge than the block has phis, and NumPred  *)
(* never becomes negative.                                                 *)
(***************************************************************************)
THEOREM TypeCorrect == Spec => []TypeOK
<1>1. IInv => TypeOK
  BY DEF IInv
<1>2. QED
  BY <1>1, Invariance, PTL

(***************************************************************************)
(* NumPred, which advancedPhiLowering() only ever updates, is at any time  *)
(* the number of pending items that read the destination.                  *)
(***************************************************************************)
THEOREM NumPredCorrect == Spec => []NumPredIsExact
<1>1. IInv => NumPredIsExact
  BY DEF IInv
<1>2. QED
  BY <1>1, Invariance, PTL

(***************************************************************************)
(* The assignments that advancedPhiLowering() puts on an edge, run one     *)
(* after the other, are the parallel copy that the phis stand for, and     *)
(* change nothing but destinations and temporaries.                        *)
(***************************************************************************)
THEOREM ParallelCopyCorrect == Spec => []ParallelCopy
<1>1. IInv => ParallelCopy
  BY DEF IInv, Values, ParallelCopy, EdgeDone
<1>2. QED
  BY <1>1, Invariance, PTL
=============================================================================
