------------------------ MODULE RegisterAllocationProofs ------------------------
(***************************************************************************)
(* Theorems about LinearScan and RegisterAllocation.                       *)
(*                                                                         *)
(* The first three need only the invariant of a scan.  That registers are  *)
(* shared without harm also needs live ranges whose segments are in order, *)
(* which is the theorem about Liveness, as long as the ranges are those of *)
(* the analysis, and is shown here for the ranges made without it.  Types  *)
(* are also those of the machine that runs the allocated code.             *)
(*                                                                         *)
(* The last theorem is about values.  The parts of its invariant are, in   *)
(* this order: KInv, what the scans leave of pre-colored registers and of  *)
(* registers that calls overwrite; TInv, that variables which overlap and  *)
(* share units are copies of one another (twins) even when several copies  *)
(* share; and RInv, that whatever is live where the machine stands is in   *)
(* its place, and twins are in the same cells.                             *)
(***************************************************************************)
EXTENDS RegisterAllocation, FiniteSetTheorems, TLAPS

LP == INSTANCE LivenessProofs

(***************************************************************************)
(* The instance of Liveness in RegisterAllocation is that of its proofs.   *)
(***************************************************************************)
LEMMA SameAnalysis ==
  /\ Live!Init <=> LP!Init
  /\ Live!Step <=> LP!Step
  /\ \A g : Live!IsFunction(g) <=> LP!IsFunction(g)
  /\ \A range : Live!IsOrdered(range) <=> LP!IsOrdered(range)
<1>1. Live!Init <=> LP!Init
  BY DEF Live!Init, LP!Init, Live!Nodes, LP!Nodes
<1>2. Live!Step <=> LP!Step
  <2>1. Live!Nodes = LP!Nodes
    BY DEF Live!Nodes, LP!Nodes
  <2>2. Live!Converge <=> LP!Converge
    BY DEF Live!Converge, LP!Converge
  <2>3. \A n : Live!CodeOf(n) = LP!CodeOf(n) /\ Live!Phis(n) = LP!Phis(n) /\ Live!IsPhi(n) = LP!IsPhi(n)
    BY DEF Live!CodeOf, LP!CodeOf, Live!Phis, LP!Phis, Live!IsPhi, LP!IsPhi, Live!Code, LP!Code
  <2>4. \A n : Live!Visit(n) <=> LP!Visit(n)
    <3>1. /\ Live!Nodes = LP!Nodes /\ Live!Code = LP!Code
          /\ \A i : Live!IsPhi(i) <=> LP!IsPhi(i)
          /\ \A i : Live!Number(i) = LP!Number(i)
          /\ \A S : Live!FirstOf(S) = LP!FirstOf(S)
      BY DEF Live!Nodes, LP!Nodes, Live!Code, LP!Code, Live!IsPhi, LP!IsPhi, Live!Number, LP!Number,
             Live!NumberInitial, LP!NumberInitial, Live!FirstOf, LP!FirstOf
    <3>2. \A m, out : Live!LiveAfter(m, out) = LP!LiveAfter(m, out)
      BY Zenon DEF Live!LiveAfter, LP!LiveAfter, Live!CodeOf, LP!CodeOf, Live!Code, LP!Code,
                   Live!LiveAbove, LP!LiveAbove, Live!Begins, LP!Begins, Live!UsedBy, LP!UsedBy,
                   Live!IsPhi, LP!IsPhi, Live!IsDead, LP!IsDead
    <3>3. \A i, live : /\ Live!IsDead(i, live) <=> LP!IsDead(i, live)
                       /\ Live!Begins(i, live) = LP!Begins(i, live)
                       /\ Live!Ends(i, live) = LP!Ends(i, live)
                       /\ Live!LiveAbove(i, live) = LP!LiveAbove(i, live)
      BY DEF Live!IsDead, LP!IsDead, Live!Begins, LP!Begins, Live!Ends, LP!Ends, Live!UsedBy,
             LP!UsedBy, Live!LiveAbove, LP!LiveAbove, Live!IsPhi, LP!IsPhi
    <3>4. \A i : Live!NumberAt(i) = LP!NumberAt(i)
      BY <2>3, <3>1 DEF Live!NumberAt, LP!NumberAt
    <3>5. \A m : Live!InEdges(m) = LP!InEdges(m) /\ Live!LiveAtEnd(m) = LP!LiveAtEnd(m)
      BY Zenon DEF Live!InEdges, LP!InEdges, Live!LiveAtEnd, LP!LiveAtEnd, Live!PhiOperands,
                   LP!PhiOperands, Live!Phis, LP!Phis, Live!CodeOf, LP!CodeOf, Live!Code, LP!Code,
                   Live!IsPhi, LP!IsPhi, Live!Nodes, LP!Nodes
    <3>6. Live!Globals = LP!Globals
      BY Zenon DEF Live!Globals, LP!Globals, Live!IsArg, LP!IsArg, Live!IsPhi, LP!IsPhi, Live!Code,
                   LP!Code, Live!Mentions, LP!Mentions
    <3>7. /\ \A m : Live!IsNext(m) <=> LP!IsNext(m)
          /\ \A m, in, k : Live!ChangedIn(m, in, k) <=> LP!ChangedIn(m, in, k)
      BY Zenon DEF Live!IsNext, LP!IsNext, Live!ChangedIn, LP!ChangedIn
    <3>8. \A S : Live!Cardinality(S) = LP!Cardinality(S)
      BY Zenon DEF Live!Cardinality, LP!Cardinality
    <3> TAKE n
    <3> DEFINE live == LP!LiveAfter(n, LP!LiveAtEnd(n))
               block == LP!CodeOf(n)
               top == LP!LiveAbove(LP!FirstOf(block), live[LP!FirstOf(block)])
               dead == {i \in block : LP!IsDead(i, live[i])}
               begin == UNION {LP!Begins(i, live[i]) \X {LP!NumberAt(i)} : i \in block}
               end == UNION {LP!Ends(i, live[i]) \X {LP!NumberAt(i)} : i \in block}
               in == LiveIn[n] \cup (top \cap LP!Globals)
               nonDead == LP!Cardinality(LP!Phis(n) \ dead)
               VisitOf ==
                 /\ pc = "solve" /\ LP!IsNext(n) /\ at' = n
                 /\ LiveIn' = [LiveIn EXCEPT ![n] = in]
                 /\ LiveOut' = [LiveOut EXCEPT ![n] = LP!LiveAtEnd(n)]
                 /\ Dead' = (Dead \ block) \cup dead
                 /\ LiveBegin' = [LiveBegin EXCEPT ![n] = begin]
                 /\ LiveEnd' = [LiveEnd EXCEPT ![n] = end]
                 /\ NumNonDeadPhis' = [NumNonDeadPhis EXCEPT ![n] = nonDead]
                 /\ NeedToProcess' = (NeedToProcess \ {n}) \cup
                      (IF LP!ChangedIn(n, in, nonDead) THEN LP!InEdges(n) ELSE {})
                 /\ pc' = IF top \subseteq LP!Globals THEN "solve" ELSE "fatal"
                 /\ UNCHANGED <<f, Deleted, LiveRange>>
    <3>9. live = Live!LiveAfter(n, Live!LiveAtEnd(n)) /\ block = Live!CodeOf(n)
      BY <2>3, <3>2, <3>5
    <3>10. dead = {i \in block : Live!IsDead(i, live[i])}
      <4> HIDE DEF live, block
      <4> QED BY <3>3
    <3>11. begin = UNION {Live!Begins(i, live[i]) \X {Live!NumberAt(i)} : i \in block}
      <4> HIDE DEF live, block
      <4> QED BY <3>3, <3>4
    <3>12. end = UNION {Live!Ends(i, live[i]) \X {Live!NumberAt(i)} : i \in block}
      <4> HIDE DEF live, block
      <4> QED BY <3>3, <3>4
    <3>13. top = Live!LiveAbove(Live!FirstOf(block), live[Live!FirstOf(block)])
      <4> HIDE DEF live, block
      <4> QED BY <3>1, <3>3
    <3>14. LP!Visit(n) <=> VisitOf
      BY Zenon DEF LP!Visit
    <3>15. Live!Visit(n) <=> VisitOf
      <4> HIDE DEF live, block, dead, begin, end, top
      <4>1. Live!Visit(n) <=>
              LET in1 == LiveIn[n] \cup (top \cap Live!Globals)
                  nonDead1 == Live!Cardinality(Live!Phis(n) \ dead)
              IN /\ pc = "solve" /\ Live!IsNext(n) /\ at' = n
                 /\ LiveIn' = [LiveIn EXCEPT ![n] = in1]
                 /\ LiveOut' = [LiveOut EXCEPT ![n] = Live!LiveAtEnd(n)]
                 /\ Dead' = (Dead \ block) \cup dead
                 /\ LiveBegin' = [LiveBegin EXCEPT ![n] = begin]
                 /\ LiveEnd' = [LiveEnd EXCEPT ![n] = end]
                 /\ NumNonDeadPhis' = [NumNonDeadPhis EXCEPT ![n] = nonDead1]
                 /\ NeedToProcess' = (NeedToProcess \ {n}) \cup
                      (IF Live!ChangedIn(n, in1, nonDead1) THEN Live!InEdges(n) ELSE {})
                 /\ pc' = IF top \subseteq Live!Globals THEN "solve" ELSE "fatal"
                 /\ UNCHANGED <<f, Deleted, LiveRange>>
        BY <3>9, <3>10, <3>11, <3>12, <3>13 DEF Live!Visit
      <4> QED BY <2>3, <3>5, <3>6, <3>7, <3>8, <4>1
    <3> QED BY <3>14, <3>15
  <2>5. \A n : Live!FinalPass(n) <=> LP!FinalPass(n)
    <3>1. /\ \A S : Live!FirstOf(S) = LP!FirstOf(S) /\ Live!LastOf(S) = LP!LastOf(S)
          /\ \A i : Live!Number(i) = LP!Number(i)
          /\ \A n, kept : Live!FirstInstNum(n, kept) = LP!FirstInstNum(n, kept)
          /\ \A pairs : Live!HasDuplicates(pairs) <=> LP!HasDuplicates(pairs)
      BY DEF Live!FirstOf, LP!FirstOf, Live!LastOf, LP!LastOf, Live!Number, LP!Number,
             Live!NumberInitial, LP!NumberInitial, Live!FirstInstNum, LP!FirstInstNum,
             Live!NumberExtended, LP!NumberExtended, Live!HasDuplicates, LP!HasDuplicates
    <3>2. \A range, n, v, first, last :
            Live!Extended(range, n, v, first, last) = LP!Extended(range, n, v, first, last)
      BY DEF Live!Extended, LP!Extended, Live!AddSegment, LP!AddSegment, Live!NumberOf, LP!NumberOf
    <3> QED BY <2>3, <3>1, <3>2 DEF Live!FinalPass, LP!FinalPass
  <2> QED BY <2>1, <2>2, <2>4, <2>5 DEF Live!Step, LP!Step
<1>3. \A g : Live!IsFunction(g) <=> LP!IsFunction(g)
  BY DEF Live!IsFunction, LP!IsFunction, Live!HasPhis, LP!HasPhis
<1>4. \A range : Live!IsOrdered(range) <=> LP!IsOrdered(range)
  BY DEF Live!IsOrdered, LP!IsOrdered
<1> QED BY <1>1, <1>2, <1>3, <1>4

LEMMA AssumptionsHold == None \notin Variables /\ \A g \in Functions : LP!IsFunction(g)
BY NoneAssumption, FunctionsAssumption, SameAnalysis DEF Requirements

-----------------------------------------------------------------------------

(***************************************************************************)
(* The inductive invariant.                                                *)
(***************************************************************************)
TypesOfScan ==
  /\ f \in Functions
  /\ phase \in {"liveness", "init", "scan", "run", "fatal"}
  /\ Kind \in {"Global", "SecondChance", "InfOnly", "Phi"}
  /\ Unhandled \subseteq Variables
  /\ Active \subseteq Variables
  /\ Inactive \subseteq Variables
  /\ Handled \subseteq Variables
  /\ Evicted \subseteq Variables
  /\ MustHaveReg \subseteq Variables
  /\ RegNum \in [Variables -> Regs \cup {NoReg}]
  /\ RegNumTmp \in [Variables -> Regs \cup {NoReg}]
  /\ RegUses \in [Regs -> Nat]
  /\ failed \in BOOLEAN

Considered == Active \cup Inactive \cup Handled
WidthsMatch ==
  \A v \in Variables :
    /\ HasReg(v) => RegNum[v] \in RegMaskUnfiltered(v)
    /\ HasRegTmp(v) => RegNumTmp[v] \in RegMaskUnfiltered(v)
UnhandledIsApart == phase = "scan" => Unhandled \cap Considered = {}
RegistersAreKept ==
  phase = "scan" => \A v \in Unhandled \cup Considered :
    HasReg(v) => v \in MustHaveReg /\ RegNumTmp[v] = RegNum[v]
Must == {v \in f.must : LiveRange[v] # <<>>}
MustIsKept ==
  /\ f.must \subseteq MustHaveReg
  /\ phase = "liveness" => Kind # "SecondChance"
  /\ phase = "run" => Kind = "SecondChance"
  /\ phase = "scan" /\ ~failed =>
       \A v \in Must : v \in Unhandled \cup Considered /\ (v \notin Unhandled => HasRegTmp(v))
  /\ Kind = "SecondChance" /\ phase # "scan" /\ ~failed => \A v \in Must : HasReg(v)

IInv ==
  /\ TypesOfScan
  /\ WidthsMatch
  /\ UnhandledIsApart
  /\ RegistersAreKept
  /\ MustIsKept
  /\ RegUsesExact

-----------------------------------------------------------------------------
(***************************************************************************)
(* Smallest elements and sizes.                                            *)
(***************************************************************************)

LEMMA MinIsIn == ASSUME NEW S \in SUBSET Nat, S # {}
                 PROVE  Min(S) \in S
BY LP!SmallestNumber, AssumptionsHold DEF Min

(***************************************************************************)
(* The elements of S in T and those not in T are all elements of S.        *)
(***************************************************************************)
LEMMA SizeOfParts == ASSUME NEW S, NEW T, IsFiniteSet(S)
                     PROVE  /\ Cardinality(S) \in Nat
                            /\ Cardinality(S \cap T) \in Nat
                            /\ Cardinality(S \ T) \in Nat
                            /\ Cardinality(S) = Cardinality(S \cap T) + Cardinality(S \ T)
<1>1. IsFiniteSet(S \cap T) /\ IsFiniteSet(S \ T)
  BY FS_Subset
<1>2. S = (S \cap T) \cup (S \ T) /\ (S \cap T) \cap (S \ T) = {}
  OBVIOUS
<1>3. Cardinality({}) = 0
  BY FS_EmptySet
<1>4. /\ Cardinality(S) \in Nat
      /\ Cardinality(S \cap T) \in Nat
      /\ Cardinality(S \ T) \in Nat
  BY <1>1, FS_CardinalityType
<1>5. Cardinality((S \cap T) \cup (S \ T)) =
        Cardinality(S \cap T) + Cardinality(S \ T) - Cardinality((S \cap T) \cap (S \ T))
  BY <1>1, FS_Union
<1>6. Cardinality(S) = Cardinality((S \cap T) \cup (S \ T))
  BY <1>2
<1>7. Cardinality((S \cap T) \cap (S \ T)) = 0
  BY <1>2, <1>3
<1> QED BY <1>4, <1>5, <1>6, <1>7

-----------------------------------------------------------------------------
(***************************************************************************)
(* Registers and their users.                                              *)
(***************************************************************************)
LEMMA RegsAreNumbers == Regs \subseteq Nat /\ NoReg \notin Regs
BY RegistersAssumption DEF Regs, NoReg

LEMMA AliasesAreRegs == ASSUME NEW r \in Regs
                        PROVE  /\ Aliases(r) \subseteq Regs
                               /\ \A q \in Regs : q \in Aliases(r) <=> r \in Aliases(q)
BY DEF Aliases, AliasTable

LEMMA MasksAreRegs == ASSUME NEW v
                      PROVE  /\ RegMask(v) \subseteq RegMaskUnfiltered(v)
                             /\ RegMaskUnfiltered(v) \subseteq Regs
BY DEF RegMask, RegMaskUnfiltered

(***************************************************************************)
(* The variables of S that have a register that aliases r.                 *)
(***************************************************************************)
UsersIn(S, r) == {v \in S : r \in Aliases(RegNumTmp[v])}

LEMMA UsersAreFinite == ASSUME NEW S \in SUBSET Variables, NEW r
                        PROVE  /\ IsFiniteSet(UsersIn(S, r))
                               /\ Cardinality(UsersIn(S, r)) \in Nat
<1>1. UsersIn(S, r) \in SUBSET Variables
  BY DEF UsersIn
<1>2. IsFiniteSet(UsersIn(S, r))
  BY <1>1, FS_Subset, VariablesAssumption
<1> QED BY <1>2, FS_CardinalityType

(***************************************************************************)
(* The counts after the expiry are those of the variables that are active. *)
(***************************************************************************)
LEMMA CountsAfterExpiry ==
  ASSUME RegUsesExact, phase = "scan", Active \subseteq Variables,
         NEW now \in SUBSET Variables
  PROVE  \A r \in Regs :
           UsesWithout(Active \ now, now \ Active)[r] = Cardinality(UsersIn(now, r))
<1> SUFFICES ASSUME NEW r \in Regs
             PROVE  UsesWithout(Active \ now, now \ Active)[r] = Cardinality(UsersIn(now, r))
  OBVIOUS
<1> DEFINE A == UsersIn(Active, r)
           N == UsersIn(now, r)
<1>1. RegUses[r] = Cardinality(A)
  BY DEF RegUsesExact, UsersIn
<1>2. UsesWithout(Active \ now, now \ Active)[r] =
        RegUses[r] - Cardinality(UsersIn(Active \ now, r)) + Cardinality(UsersIn(now \ Active, r))
  BY DEF UsesWithout, UsersIn
<1>3. IsFiniteSet(A) /\ IsFiniteSet(N)
  BY UsersAreFinite
<1>4. UsersIn(Active \ now, r) = A \ N /\ UsersIn(now \ Active, r) = N \ A /\ A \cap N = N \cap A
  BY DEF UsersIn
<1> HIDE DEF A, N
<1>5. /\ Cardinality(A) \in Nat /\ Cardinality(A \cap N) \in Nat /\ Cardinality(A \ N) \in Nat
      /\ Cardinality(A) = Cardinality(A \cap N) + Cardinality(A \ N)
  BY <1>3, SizeOfParts
<1>6. /\ Cardinality(N) \in Nat /\ Cardinality(N \cap A) \in Nat /\ Cardinality(N \ A) \in Nat
      /\ Cardinality(N) = Cardinality(N \cap A) + Cardinality(N \ A)
  BY <1>3, SizeOfParts
<1>7. UsesWithout(Active \ now, now \ Active)[r] =
        Cardinality(A) - Cardinality(A \ N) + Cardinality(N \ A)
  BY <1>1, <1>2, <1>4
<1>8. Cardinality(A \cap N) = Cardinality(N \cap A)
  BY <1>4
<1>9. Cardinality(A) - Cardinality(A \ N) + Cardinality(N \ A) = Cardinality(N)
  BY <1>5, <1>6, <1>8
<1> QED BY <1>7, <1>9 DEF N

-----------------------------------------------------------------------------
(***************************************************************************)
(* One iteration for Cur.                                                  *)
(***************************************************************************)
LEMMA ExpirySets ==
  ASSUME NEW cur
  PROVE  /\ NowActive(cur) \subseteq Active \cup Inactive
         /\ NowInactive(cur) \subseteq Active \cup Inactive
         /\ Expired(cur) \subseteq Active \cup Inactive
         /\ NowActive(cur) \cap NowInactive(cur) = {}
         /\ NowActive(cur) \cup NowInactive(cur) \cup Expired(cur) = Active \cup Inactive
BY DEF NowActive, NowInactive, Expired

LEMMA PreferenceIsInMask ==
  ASSUME NEW cur, NEW free, NEW p \in Preferences(cur, free)
  PROVE  p.reg # NoReg => p.reg \in RegMask(cur)
<1>1. CASE p = NoPreference
  BY <1>1 DEF NoPreference
<1>2. CASE p # NoPreference
  <2>1. \E i \in DefInst(cur) : \E w \in f.code[i].uses :
          /\ RegMask(cur) \cap Aliases(RegNumTmp[w]) # {}
          /\ p = Preference(cur, i, w, free)
    BY <1>2 DEF Preferences
  <2>2. PICK i, w :
          /\ RegMask(cur) \cap Aliases(RegNumTmp[w]) # {}
          /\ p = Preference(cur, i, w, free)
    BY <2>1
  <2>3. p.reg = Min(RegMask(cur) \cap Aliases(RegNumTmp[w]))
    BY <2>2 DEF Preference
  <2>4. RegMask(cur) \cap Aliases(RegNumTmp[w]) \in SUBSET Nat
    BY MasksAreRegs, RegsAreNumbers
  <2> QED BY <2>2, <2>3, <2>4, MinIsIn
<1> QED BY <1>1, <1>2

(***************************************************************************)
(* What the iteration has found: the new active variables and their        *)
(* counts, free registers of the right kind, and no finite weight where a  *)
(* variable must have its register.                                        *)
(***************************************************************************)
LEMMA IterationFacts ==
  ASSUME NEW cur, NEW it \in Iterations(cur)
  PROVE  /\ it.active = NowActive(cur)
         /\ it.uses = UsesWithout(Active \ NowActive(cur), NowActive(cur) \ Active)
         /\ it.overlapping \subseteq NowInactive(cur)
         /\ it.free \subseteq RegMask(cur)
         /\ it.freeUnfiltered \subseteq RegMaskUnfiltered(cur)
         /\ it.prefer # NoReg => it.prefer \in RegMask(cur)
         /\ \A r \in Regs : ~it.weight[r].infinite =>
              \A v \in it.active \cup it.overlapping :
                r \in Aliases(RegNumTmp[v]) => v \notin MustHaveReg
<1> DEFINE active == NowActive(cur)
           uses == UsesWithout(Active \ active, active \ Active)
           overlapping == {v \in NowInactive(cur) : RangeOverlaps(v, cur)}
           precolored == UNION {Aliases(RegNum[v]) :
                                  v \in {w \in Unhandled : HasReg(w) /\ RangeOverlaps(w, cur)}}
           blocked == precolored \cup (IF SpansKill(cur) THEN CallerSave ELSE {})
           unused == {r \in Regs : uses[r] <= 0}
           free == unused \ (AliasesOf(overlapping) \cup blocked)
           weight == [r \in Regs |->
                        IF r \in blocked THEN Infinite
                        ELSE SumOfWeights({v \in active \cup overlapping : r \in Aliases(RegNumTmp[v])})]
<1>1. PICK p \in Preferences(cur, unused \cap RegMask(cur)) :
        it = [active |-> active, uses |-> uses, overlapping |-> overlapping, weight |-> weight,
              free |-> free \cap RegMask(cur),
              freeUnfiltered |-> free \cap RegMaskUnfiltered(cur),
              prefer |-> p.reg,
              allowOverlap |-> OverlapAllowed(cur, p, active, overlapping, precolored)]
  BY DEF Iterations
<1>2. p.reg # NoReg => p.reg \in RegMask(cur)
  BY PreferenceIsInMask
<1> HIDE DEF active, uses, overlapping, blocked, unused, free, weight, precolored
<1>3. /\ it.active = active /\ it.uses = uses /\ it.overlapping = overlapping
      /\ it.weight = weight /\ it.free = free \cap RegMask(cur)
      /\ it.freeUnfiltered = free \cap RegMaskUnfiltered(cur) /\ it.prefer = p.reg
  BY <1>1
<1>4. ASSUME NEW r \in Regs, ~weight[r].infinite,
             NEW v \in active \cup overlapping, r \in Aliases(RegNumTmp[v])
      PROVE  v \notin MustHaveReg
  <2>1. r \notin blocked
    BY <1>4 DEF weight, Infinite
  <2>2. weight[r] = SumOfWeights({w \in active \cup overlapping : r \in Aliases(RegNumTmp[w])})
    BY <2>1 DEF weight
  <2>3. ~Weight(v).infinite
    BY <1>4, <2>2 DEF SumOfWeights
  <2> QED BY <2>3 DEF Weight
<1>5. /\ it.active = NowActive(cur)
      /\ it.uses = UsesWithout(Active \ NowActive(cur), NowActive(cur) \ Active)
      /\ it.overlapping \subseteq NowInactive(cur)
  BY <1>3 DEF active, uses, overlapping
<1> QED BY <1>2, <1>3, <1>4, <1>5

(***************************************************************************)
(* Incrementing the counts of the registers that alias r.                  *)
(***************************************************************************)
LEMMA CountsWithAssigned ==
  ASSUME NEW uses, NEW r, NEW q \in Regs, uses[q] \in Nat
  PROVE  Increment(uses, r)[q] = uses[q] + (IF q \in Aliases(r) THEN 1 ELSE 0)
BY DEF Increment

LEMMA SizeWithOneMore ==
  ASSUME NEW S \in SUBSET Variables, NEW v, v \notin S
  PROVE  Cardinality(S \cup {v}) = Cardinality(S) + 1
BY FS_AddElement, FS_Subset, VariablesAssumption

(***************************************************************************)
(* When variables in now are active, and those in out lose their registers *)
(* and Cur gets r, the counts follow.                                      *)
(***************************************************************************)
LEMMA CountsAfterAssignment ==
  ASSUME NEW cur \in Variables, NEW now \in SUBSET Variables, NEW out \in SUBSET now, NEW r,
         cur \notin now, NEW uses,
         \A q \in Regs : uses[q] = Cardinality(UsersIn(now, q)),
         \A v \in now \ out : RegNumTmp'[v] = RegNumTmp[v],
         RegNumTmp'[cur] = r,
         NEW left, \A q \in Regs : left[q] = uses[q] - Cardinality(UsersIn(out, q)),
         RegUses' = Increment(left, r)
  PROVE  \A q \in Regs : RegUses'[q] =
           Cardinality({v \in (now \ out) \cup {cur} : q \in Aliases(RegNumTmp'[v])})
<1> SUFFICES ASSUME NEW q \in Regs
             PROVE  RegUses'[q] =
               Cardinality({v \in (now \ out) \cup {cur} : q \in Aliases(RegNumTmp'[v])})
  OBVIOUS
<1> DEFINE U == UsersIn(now, q)
           K == UsersIn(now \ out, q)
           O == UsersIn(out, q)
<1>1. uses[q] = Cardinality(U) /\ IsFiniteSet(U)
  BY UsersAreFinite
<1>2. left[q] = Cardinality(U) - Cardinality(O)
  BY <1>1 DEF UsersIn
<1>3. U \cap O = O /\ U \ O = K
  BY DEF UsersIn
<1>4. /\ Cardinality(U) \in Nat /\ Cardinality(U \cap O) \in Nat /\ Cardinality(U \ O) \in Nat
      /\ Cardinality(U) = Cardinality(U \cap O) + Cardinality(U \ O)
  <2> HIDE DEF U, O
  <2> QED BY <1>1, SizeOfParts
<1>5. Cardinality(U \cap O) = Cardinality(O) /\ Cardinality(U \ O) = Cardinality(K)
  BY <1>3
<1>6. left[q] \in Nat /\ left[q] = Cardinality(K)
  <2> HIDE DEF U, O, K
  <2> QED BY <1>2, <1>4, <1>5
<1>7. RegUses'[q] = left[q] + (IF q \in Aliases(r) THEN 1 ELSE 0)
  BY <1>6, CountsWithAssigned
<1>8. {v \in (now \ out) \cup {cur} : q \in Aliases(RegNumTmp'[v])} =
        IF q \in Aliases(r) THEN K \cup {cur} ELSE K
  BY DEF UsersIn
<1>9. K \in SUBSET Variables /\ cur \notin K
  BY DEF UsersIn
<1>10. Cardinality(K \cup {cur}) = Cardinality(K) + 1
  <2> HIDE DEF K
  <2> QED BY <1>9, SizeWithOneMore
<1>11. CASE q \in Aliases(r)
  <2>1. RegUses'[q] = Cardinality(K) + 1
    BY <1>6, <1>7, <1>11
  <2> QED BY <1>8, <1>10, <1>11, <2>1
<1>12. CASE q \notin Aliases(r)
  <2>1. RegUses'[q] = Cardinality(K)
    BY <1>6, <1>7, <1>12
  <2> QED BY <1>8, <1>12, <2>1
<1> QED BY <1>11, <1>12

-----------------------------------------------------------------------------
(***************************************************************************)
(* The steps of a scan.                                                    *)
(***************************************************************************)
LEMMA MasksStay ==
  ASSUME f' = f
  PROVE  \A v : RegMaskUnfiltered(v)' = RegMaskUnfiltered(v)
BY DEF RegMaskUnfiltered, Width, Regs

LEMMA AssignKeepsInvariant ==
  ASSUME IInv, phase = "scan",
         NEW cur \in Unhandled, ~HasReg(cur),
         NEW it \in Iterations(cur),
         NEW r \in RegMaskUnfiltered(cur),
         NEW outActive, outActive \subseteq it.active,
         NEW outInactive, outInactive \subseteq it.overlapping,
         \A v \in outActive \cup outInactive : v \notin MustHaveReg,
         Assign(cur, r, it, outActive, outInactive)
  PROVE  IInv'
<1> DEFINE out == outActive \cup outInactive
<1>1. /\ it.active = NowActive(cur)
      /\ it.uses = UsesWithout(Active \ NowActive(cur), NowActive(cur) \ Active)
      /\ it.overlapping \subseteq NowInactive(cur)
  BY IterationFacts
<1>2. /\ NowActive(cur) \subseteq Active \cup Inactive
      /\ NowInactive(cur) \subseteq Active \cup Inactive
      /\ Expired(cur) \subseteq Active \cup Inactive
      /\ NowActive(cur) \cap NowInactive(cur) = {}
      /\ NowActive(cur) \cup NowInactive(cur) \cup Expired(cur) = Active \cup Inactive
  BY ExpirySets
<1>3. /\ cur \in Variables
      /\ cur \notin Active \cup Inactive
      /\ Active \cup Inactive \subseteq Variables
  BY DEF IInv, TypesOfScan, UnhandledIsApart, Considered
<1>4. /\ out \subseteq Active \cup Inactive
      /\ cur \notin out
      /\ r \in Regs /\ r # NoReg
  BY <1>1, <1>2, <1>3, MasksAreRegs, RegsAreNumbers
<1>5. /\ Unhandled' = Unhandled \ {cur}
      /\ Active' = (NowActive(cur) \ outActive) \cup {cur}
      /\ Inactive' = NowInactive(cur) \ outInactive
      /\ Handled' = Handled \cup Expired(cur) \cup out
      /\ Evicted' = Evicted \cup out
      /\ RegNumTmp' = [v \in Variables |-> IF v = cur THEN r ELSE IF v \in out THEN NoReg ELSE RegNumTmp[v]]
      /\ f' = f /\ LiveRange' = LiveRange /\ phase' = phase /\ Kind' = Kind
      /\ RegNum' = RegNum /\ MustHaveReg' = MustHaveReg /\ failed' = failed
  BY <1>1 DEF Assign, Expire
<1>6. RegUses' = Increment([q \in Regs |-> it.uses[q]
                   - Cardinality({v \in outActive : q \in Aliases(RegNumTmp[v])})], r)
  BY DEF Assign
<1>7. RegUsesExact'
  <2>1. \A q \in Regs : it.uses[q] = Cardinality(UsersIn(NowActive(cur), q))
    <3>1. NowActive(cur) \in SUBSET Variables
      BY <1>2, <1>3
    <3> QED BY <1>1, <1>3, <3>1, CountsAfterExpiry DEF IInv
  <2>2. \A v \in NowActive(cur) \ outActive : RegNumTmp'[v] = RegNumTmp[v]
    BY <1>1, <1>2, <1>3, <1>5
  <2>3. RegNumTmp'[cur] = r
    BY <1>3, <1>5
  <2>4. NowActive(cur) \in SUBSET Variables /\ outActive \in SUBSET NowActive(cur) /\ cur \notin NowActive(cur)
    BY <1>1, <1>2, <1>3
  <2>5. \A q \in Regs : RegUses'[q] =
          Cardinality({v \in (NowActive(cur) \ outActive) \cup {cur} : q \in Aliases(RegNumTmp'[v])})
    <3> DEFINE left == [q \in Regs |-> it.uses[q]
                          - Cardinality({v \in outActive : q \in Aliases(RegNumTmp[v])})]
    <3>1. \A q \in Regs : left[q] = it.uses[q] - Cardinality(UsersIn(outActive, q))
      BY DEF UsersIn
    <3>2. RegUses' = Increment(left, r)
      BY <1>6
    <3> HIDE DEF left
    <3> QED BY <1>3, <2>1, <2>2, <2>3, <2>4, <3>1, <3>2, CountsAfterAssignment
  <2> QED BY <1>5, <2>5 DEF RegUsesExact
<1>8. TypesOfScan'
  <2>1. \A q \in Regs : RegUses'[q] \in Nat
    <3>1. \A q \in Regs : RegUses'[q] = Cardinality({v \in Active' : q \in Aliases(RegNumTmp'[v])})
      BY <1>5, <1>7 DEF RegUsesExact
    <3>2. Active' \in SUBSET Variables
      BY <1>2, <1>3, <1>5
    <3>3. \A q : {v \in Active' : q \in Aliases(RegNumTmp'[v])} \in SUBSET Variables
      BY <3>2
    <3>4. \A q : IsFiniteSet({v \in Active' : q \in Aliases(RegNumTmp'[v])})
      BY <3>3, FS_Subset, VariablesAssumption
    <3>5. \A q : Cardinality({v \in Active' : q \in Aliases(RegNumTmp'[v])}) \in Nat
      BY <3>4, FS_CardinalityType
    <3> QED BY <3>1, <3>5
  <2>2. RegUses' \in [Regs -> Nat]
    <3>1. RegUses' = [q \in Regs |-> RegUses'[q]]
      BY <1>6 DEF Increment
    <3> QED BY <2>1, <3>1
  <2>3. RegNumTmp' \in [Variables -> Regs \cup {NoReg}]
    BY <1>4, <1>5 DEF IInv, TypesOfScan
  <2>4. out \subseteq Variables
    BY <1>3, <1>4
  <2> QED BY <1>2, <1>3, <1>5, <2>2, <2>3, <2>4 DEF IInv, TypesOfScan
<1>9. WidthsMatch'
  <2>1. \A v : RegMaskUnfiltered(v)' = RegMaskUnfiltered(v)
    BY <1>5, MasksStay
  <2>2. ASSUME NEW v \in Variables
        PROVE  /\ RegNum'[v] # NoReg => RegNum'[v] \in RegMaskUnfiltered(v)
               /\ RegNumTmp'[v] # NoReg => RegNumTmp'[v] \in RegMaskUnfiltered(v)
    BY <1>5, <2>2 DEF IInv, WidthsMatch, HasReg, HasRegTmp
  <2> QED BY <2>1, <2>2 DEF WidthsMatch, HasReg, HasRegTmp
<1>10. UnhandledIsApart'
  BY <1>2, <1>3, <1>4, <1>5 DEF UnhandledIsApart, Considered, IInv
<1>11. RegistersAreKept'
  <2>1. ASSUME NEW v \in Unhandled' \cup Considered', RegNum'[v] # NoReg
        PROVE  v \in MustHaveReg' /\ RegNumTmp'[v] = RegNum'[v]
    <3>1. v \in Variables /\ v \in Unhandled \cup Considered
      BY <1>1, <1>2, <1>3, <1>5 DEF Considered, IInv, TypesOfScan
    <3>2. HasReg(v) /\ v # cur
      BY <1>5, <2>1 DEF HasReg
    <3>3. v \in MustHaveReg /\ RegNumTmp[v] = RegNum[v]
      BY <3>1, <3>2 DEF IInv, RegistersAreKept
    <3> QED BY <1>5, <3>1, <3>2, <3>3
  <2> QED BY <2>1 DEF RegistersAreKept, HasReg
<1>12. MustIsKept'
  <2>1. Must' = Must /\ f.must \subseteq MustHaveReg
    BY <1>5 DEF Must, IInv, MustIsKept
  <2>2. ASSUME ~failed', NEW v \in Must
        PROVE  /\ v \in Unhandled' \cup Considered'
               /\ v \notin Unhandled' => RegNumTmp'[v] # NoReg
    <3>1. v \in Unhandled \cup Considered /\ (v \notin Unhandled => HasRegTmp(v))
      BY <1>5, <2>2 DEF IInv, MustIsKept
    <3>2. v \in MustHaveReg /\ v \in Variables
      BY <2>1 DEF Must, IInv, TypesOfScan
    <3>3. CASE v = cur
      BY <1>4, <1>5, <3>2, <3>3 DEF Considered
    <3>4. CASE v # cur
      <4>1. v \notin out
        BY <3>2
      <4>2. v \in Unhandled' \cup Considered'
        BY <1>2, <1>5, <3>1, <3>4 DEF Considered
      <4>3. RegNumTmp'[v] = RegNumTmp[v] /\ (v \notin Unhandled' => v \notin Unhandled)
        BY <1>5, <3>2, <3>4, <4>1
      <4> QED BY <3>1, <4>2, <4>3 DEF HasRegTmp
    <3> QED BY <3>3, <3>4
  <2> QED BY <1>5, <2>1, <2>2 DEF MustIsKept, HasRegTmp
<1> QED BY <1>7, <1>8, <1>9, <1>10, <1>11, <1>12 DEF IInv

(***************************************************************************)
(* Cur is left without a register, or with one that is not counted.        *)
(***************************************************************************)
LEMMA LeaveKeepsInvariant ==
  ASSUME IInv, phase = "scan",
         NEW cur \in Unhandled, ~HasReg(cur),
         NEW it \in Iterations(cur),
         LeaveWithout(cur, it),
         NEW r \in RegMaskUnfiltered(cur) \cup {NoReg},
         RegNumTmp' = RegNumTmp \/ (r # NoReg /\ RegNumTmp' = [RegNumTmp EXCEPT ![cur] = r]),
         failed' \in BOOLEAN, failed => failed',
         cur \in MustHaveReg => failed' \/ RegNumTmp'[cur] # NoReg
  PROVE  IInv'
<1>1. /\ it.active = NowActive(cur)
      /\ it.uses = UsesWithout(Active \ NowActive(cur), NowActive(cur) \ Active)
  BY IterationFacts
<1>2. /\ NowActive(cur) \subseteq Active \cup Inactive
      /\ NowInactive(cur) \subseteq Active \cup Inactive
      /\ Expired(cur) \subseteq Active \cup Inactive
      /\ NowActive(cur) \cup NowInactive(cur) \cup Expired(cur) = Active \cup Inactive
  BY ExpirySets
<1>3. /\ cur \in Variables
      /\ cur \notin Active \cup Inactive
      /\ Active \cup Inactive \subseteq Variables
  BY DEF IInv, TypesOfScan, UnhandledIsApart, Considered
<1>4. r # NoReg => r \in Regs
  BY MasksAreRegs
<1>5. /\ Unhandled' = Unhandled \ {cur}
      /\ Active' = NowActive(cur)
      /\ Inactive' = NowInactive(cur)
      /\ Handled' = Handled \cup Expired(cur) \cup {cur}
      /\ Evicted' = Evicted
      /\ RegUses' = it.uses
      /\ f' = f /\ LiveRange' = LiveRange /\ phase' = phase /\ Kind' = Kind
      /\ RegNum' = RegNum /\ MustHaveReg' = MustHaveReg
  BY <1>1 DEF LeaveWithout, Expire
<1>6. \A v \in Variables : v # cur => RegNumTmp'[v] = RegNumTmp[v]
  BY DEF IInv, TypesOfScan
<1>7. RegNumTmp'[cur] = RegNumTmp[cur] \/ (r # NoReg /\ RegNumTmp'[cur] = r)
  BY <1>3 DEF IInv, TypesOfScan
<1>8. \A q \in Regs : RegUses'[q] = Cardinality(UsersIn(Active', q))
  <2>1. NowActive(cur) \in SUBSET Variables
    BY <1>2, <1>3
  <2> QED BY <1>1, <1>3, <1>5, <2>1, CountsAfterExpiry DEF IInv
<1>9. RegUsesExact'
  <2>1. \A q : UsersIn(Active', q) = {v \in Active' : q \in Aliases(RegNumTmp'[v])}
    BY <1>2, <1>3, <1>5, <1>6 DEF UsersIn
  <2> QED BY <1>8, <2>1 DEF RegUsesExact
<1>10. TypesOfScan'
  <2>1. RegUses' \in [Regs -> Nat]
    <3>1. RegUses' = [q \in Regs |-> RegUses'[q]]
      BY <1>1, <1>5 DEF UsesWithout
    <3>2. Active' \in SUBSET Variables
      BY <1>2, <1>3, <1>5
    <3> QED BY <1>8, <3>1, <3>2, UsersAreFinite
  <2>2. RegNumTmp' \in [Variables -> Regs \cup {NoReg}]
    BY <1>3, <1>4 DEF IInv, TypesOfScan
  <2> QED BY <1>2, <1>3, <1>5, <2>1, <2>2 DEF IInv, TypesOfScan
<1>11. WidthsMatch'
  <2>1. \A v : RegMaskUnfiltered(v)' = RegMaskUnfiltered(v)
    BY <1>5, MasksStay
  <2>2. ASSUME NEW v \in Variables
        PROVE  /\ RegNum'[v] # NoReg => RegNum'[v] \in RegMaskUnfiltered(v)
               /\ RegNumTmp'[v] # NoReg => RegNumTmp'[v] \in RegMaskUnfiltered(v)
    BY <1>5, <1>6, <1>7 DEF IInv, WidthsMatch, HasReg, HasRegTmp
  <2> QED BY <2>1, <2>2 DEF WidthsMatch, HasReg, HasRegTmp
<1>12. UnhandledIsApart'
  BY <1>2, <1>3, <1>5 DEF UnhandledIsApart, Considered, IInv
<1>13. RegistersAreKept'
  <2>1. ASSUME NEW v \in Unhandled' \cup Considered', RegNum'[v] # NoReg
        PROVE  v \in MustHaveReg' /\ RegNumTmp'[v] = RegNum'[v]
    <3>1. v \in Variables /\ v \in Unhandled \cup Considered
      BY <1>2, <1>3, <1>5 DEF Considered, IInv, TypesOfScan
    <3>2. HasReg(v) /\ v # cur
      BY <1>5, <2>1 DEF HasReg
    <3>3. v \in MustHaveReg /\ RegNumTmp[v] = RegNum[v]
      BY <3>1, <3>2 DEF IInv, RegistersAreKept
    <3> QED BY <1>5, <1>6, <3>1, <3>2, <3>3
  <2> QED BY <2>1 DEF RegistersAreKept, HasReg
<1>14. MustIsKept'
  <2>1. Must' = Must /\ f.must \subseteq MustHaveReg
    BY <1>5 DEF Must, IInv, MustIsKept
  <2>2. ASSUME ~failed', NEW v \in Must
        PROVE  /\ v \in Unhandled' \cup Considered'
               /\ v \notin Unhandled' => RegNumTmp'[v] # NoReg
    <3>1. v \in Unhandled \cup Considered /\ (v \notin Unhandled => HasRegTmp(v))
      BY <2>2 DEF IInv, MustIsKept
    <3>2. v \in MustHaveReg /\ v \in Variables
      BY <2>1 DEF Must, IInv, TypesOfScan
    <3>3. v \in Unhandled' \cup Considered'
      BY <1>2, <1>5, <3>1 DEF Considered
    <3>4. CASE v = cur
      BY <2>2, <3>2, <3>3, <3>4
    <3>5. CASE v # cur
      BY <1>5, <1>6, <3>1, <3>2, <3>3, <3>5 DEF HasRegTmp
    <3> QED BY <3>4, <3>5
  <2>3. ~failed' => ~failed
    OBVIOUS
  <2> QED BY <1>5, <2>1, <2>2, <2>3 DEF MustIsKept, HasRegTmp
<1> QED BY <1>9, <1>10, <1>11, <1>12, <1>13, <1>14 DEF IInv

LEMMA AllocatePreferredStep ==
  ASSUME IInv, NEW cur, AllocatePreferred(cur)
  PROVE  IInv'
<1>1. PICK it \in Iterations(cur) : Preferred(it) /\ Assign(cur, it.prefer, it, {}, {})
  BY DEF AllocatePreferred
<1>2. it.prefer \in RegMaskUnfiltered(cur)
  BY <1>1, IterationFacts, MasksAreRegs DEF Preferred
<1>3. phase = "scan" /\ cur \in Unhandled /\ ~HasReg(cur)
  BY DEF AllocatePreferred, IsNext
<1> QED BY <1>1, <1>2, <1>3, AssignKeepsInvariant

LEMMA AllocateFreeStep ==
  ASSUME IInv, NEW cur, AllocateFree(cur)
  PROVE  IInv'
<1>1. PICK it \in Iterations(cur) : it.free # {} /\ Assign(cur, Min(it.free), it, {}, {})
  BY DEF AllocateFree
<1>2. Min(it.free) \in RegMaskUnfiltered(cur)
  <2>1. it.free \subseteq RegMaskUnfiltered(cur) /\ it.free \in SUBSET Nat
    BY IterationFacts, MasksAreRegs, RegsAreNumbers
  <2> QED BY <1>1, <2>1, MinIsIn
<1>3. phase = "scan" /\ cur \in Unhandled /\ ~HasReg(cur)
  BY DEF AllocateFree, IsNext
<1> QED BY <1>1, <1>2, <1>3, AssignKeepsInvariant

LEMMA AllocateReserveStep ==
  ASSUME IInv, NEW cur, AllocateReserve(cur)
  PROVE  IInv'
<1>1. PICK it \in Iterations(cur) :
        it.freeUnfiltered # {} /\ Assign(cur, Min(it.freeUnfiltered), it, {}, {})
  BY DEF AllocateReserve
<1>2. Min(it.freeUnfiltered) \in RegMaskUnfiltered(cur)
  <2>1. it.freeUnfiltered \subseteq RegMaskUnfiltered(cur) /\ it.freeUnfiltered \in SUBSET Nat
    BY IterationFacts, MasksAreRegs, RegsAreNumbers
  <2> QED BY <1>1, <2>1, MinIsIn
<1>3. phase = "scan" /\ cur \in Unhandled /\ ~HasReg(cur)
  BY DEF AllocateReserve, IsNext
<1> QED BY <1>1, <1>2, <1>3, AssignKeepsInvariant

(***************************************************************************)
(* A register that is taken from others weighs less than Cur, so none of   *)
(* them must have it.                                                      *)
(***************************************************************************)
LEMMA EvictLightestStep ==
  ASSUME IInv, phase = "scan", NEW cur \in Unhandled, ~HasReg(cur),
         NEW it \in Iterations(cur),
         NEW mask, mask \subseteq RegMaskUnfiltered(cur),
         ~TooLight(cur, it, mask), EvictLightest(cur, it, mask)
  PROVE  IInv'
<1> DEFINE outActive(r) == {v \in it.active : RegNumTmp[v] \in Aliases(r)}
           outInactive(r) == {v \in it.overlapping : RegNumTmp[v] \in Aliases(r)}
<1>1. PICK r \in Regs : IsLightest(it, mask, r) /\ EvictAliases(cur, r, it)
  BY DEF EvictLightest
<1>2. ~it.weight[r].infinite
  <2>1. PICK q \in mask : Heavier(Weight(cur), it.weight[q])
    BY DEF TooLight
  <2>2. ~it.weight[q].infinite
    BY <2>1 DEF Heavier
  <2>3. ~Heavier(it.weight[r], it.weight[q])
    BY <1>1, <2>1 DEF IsLightest
  <2> QED BY <2>2, <2>3 DEF Heavier
<1>3. \A v \in it.active \cup it.overlapping : r \in Aliases(RegNumTmp[v]) => v \notin MustHaveReg
  BY <1>2, IterationFacts
<1>4. \A v \in outActive(r) \cup outInactive(r) : v \notin MustHaveReg
  <2> SUFFICES ASSUME NEW v \in it.active \cup it.overlapping, RegNumTmp[v] \in Aliases(r)
               PROVE  v \notin MustHaveReg
    OBVIOUS
  <2>1. r \in Aliases(RegNumTmp[v])
    BY AliasesAreRegs
  <2> QED BY <1>3, <2>1
<1>5. r \in RegMaskUnfiltered(cur)
  BY <1>1 DEF IsLightest
<1>6. Assign(cur, r, it, outActive(r), outInactive(r))
  BY <1>1 DEF EvictAliases
<1>7. outActive(r) \subseteq it.active /\ outInactive(r) \subseteq it.overlapping
  OBVIOUS
<1> HIDE DEF outActive, outInactive
<1> QED BY <1>4, <1>5, <1>6, <1>7, AssignKeepsInvariant

LEMMA EvictStep ==
  ASSUME IInv, NEW cur, Evict(cur)
  PROVE  IInv'
<1>1. phase = "scan" /\ cur \in Unhandled /\ ~HasReg(cur)
  BY DEF Evict, IsNext
<1>2. PICK it \in Iterations(cur) :
        \/ ~TooLight(cur, it, RegMask(cur)) /\ EvictLightest(cur, it, RegMask(cur))
        \/ ~TooLight(cur, it, RegMaskUnfiltered(cur)) /\ EvictLightest(cur, it, RegMaskUnfiltered(cur))
  BY DEF Evict
<1> QED BY <1>1, <1>2, EvictLightestStep, MasksAreRegs

LEMMA SpillStep ==
  ASSUME IInv, NEW cur, Spill(cur)
  PROVE  IInv'
<1>1. phase = "scan" /\ cur \in Unhandled /\ ~HasReg(cur) /\ cur \notin MustHaveReg
  BY DEF Spill, IsNext
<1>2. PICK it \in Iterations(cur) : LeaveWithout(cur, it)
  BY DEF Spill
<1>3. RegNumTmp' = RegNumTmp /\ failed' = failed /\ failed \in BOOLEAN
  BY DEF Spill, IInv, TypesOfScan
<1> QED BY <1>1, <1>2, <1>3, LeaveKeepsInvariant

LEMMA FailStep ==
  ASSUME IInv, NEW cur, Fail(cur)
  PROVE  IInv'
<1>1. phase = "scan" /\ cur \in Unhandled /\ ~HasReg(cur)
  BY DEF Fail, IsNext
<1>2. PICK it \in Iterations(cur) : LeaveWithout(cur, it)
  BY DEF Fail
<1>3. RegNumTmp' = RegNumTmp /\ failed' = TRUE
  BY DEF Fail
<1> QED BY <1>1, <1>2, <1>3, LeaveKeepsInvariant

LEMMA AddSpillFillStep ==
  ASSUME IInv, NEW cur, AddSpillFill(cur)
  PROVE  IInv'
<1> DEFINE left == RegMask(cur) \ AliasesOf(Mentioned(cur))
<1>1. phase = "scan" /\ cur \in Unhandled /\ ~HasReg(cur)
  BY DEF AddSpillFill, IsNext
<1>2. PICK it \in Iterations(cur) : LeaveWithout(cur, it)
  BY DEF AddSpillFill
<1>3. /\ left # {} /\ RegNumTmp' = [RegNumTmp EXCEPT ![cur] = Min(left)]
      /\ failed' = failed /\ failed \in BOOLEAN
  BY DEF AddSpillFill, IInv, TypesOfScan
<1>4. Min(left) \in RegMaskUnfiltered(cur) /\ Min(left) # NoReg
  <2>1. left \in SUBSET Nat /\ left \subseteq RegMaskUnfiltered(cur)
    BY MasksAreRegs, RegsAreNumbers
  <2> HIDE DEF left
  <2>2. Min(left) \in left
    BY <1>3, <2>1, MinIsIn
  <2> QED BY <2>1, <2>2, MasksAreRegs, RegsAreNumbers
<1> HIDE DEF left
<1>5. RegNumTmp'[cur] # NoReg
  BY <1>1, <1>3, <1>4 DEF IInv, TypesOfScan
<1> QED BY <1>1, <1>2, <1>3, <1>4, <1>5, LeaveKeepsInvariant

LEMMA AllocatePrecoloredStep ==
  ASSUME IInv, NEW cur, AllocatePrecolored(cur)
  PROVE  IInv'
<1>1. phase = "scan" /\ cur \in Unhandled /\ HasReg(cur)
  BY DEF AllocatePrecolored, IsNext
<1>2. /\ cur \in Variables /\ cur \notin Active /\ Active \in SUBSET Variables
      /\ RegNumTmp[cur] = RegNum[cur]
  BY <1>1 DEF IInv, TypesOfScan, UnhandledIsApart, Considered, RegistersAreKept
<1>3. /\ Unhandled' = Unhandled \ {cur}
      /\ Active' = Active \cup {cur}
      /\ RegUses' = Increment(RegUses, RegNum[cur])
      /\ f' = f /\ LiveRange' = LiveRange /\ phase' = phase /\ Kind' = Kind
      /\ Inactive' = Inactive /\ Handled' = Handled /\ Evicted' = Evicted
      /\ RegNum' = RegNum /\ RegNumTmp' = RegNumTmp /\ MustHaveReg' = MustHaveReg
      /\ failed' = failed
  BY DEF AllocatePrecolored
<1>4. \A q \in Regs : RegUses'[q] = Cardinality(UsersIn(Active', q))
  <2> SUFFICES ASSUME NEW q \in Regs PROVE RegUses'[q] = Cardinality(UsersIn(Active', q))
    OBVIOUS
  <2>1. RegUses[q] = Cardinality(UsersIn(Active, q)) /\ RegUses[q] \in Nat
    BY <1>1 DEF IInv, RegUsesExact, TypesOfScan, UsersIn
  <2>2. RegUses'[q] = RegUses[q] + (IF q \in Aliases(RegNum[cur]) THEN 1 ELSE 0)
    BY <1>3, <2>1, CountsWithAssigned
  <2>3. UsersIn(Active', q) = IF q \in Aliases(RegNum[cur]) THEN UsersIn(Active, q) \cup {cur}
                                                             ELSE UsersIn(Active, q)
    BY <1>2, <1>3 DEF UsersIn
  <2>4. UsersIn(Active, q) \in SUBSET Variables /\ cur \notin UsersIn(Active, q)
    BY <1>2 DEF UsersIn
  <2>5. Cardinality(UsersIn(Active, q) \cup {cur}) = Cardinality(UsersIn(Active, q)) + 1
    BY <1>2, <2>4, SizeWithOneMore
  <2>6. CASE q \in Aliases(RegNum[cur])
    <3>1. RegUses'[q] = Cardinality(UsersIn(Active, q)) + 1
      BY <2>1, <2>2, <2>6
    <3> QED BY <2>3, <2>5, <2>6, <3>1
  <2>7. CASE q \notin Aliases(RegNum[cur])
    <3>1. RegUses'[q] = Cardinality(UsersIn(Active, q))
      BY <2>1, <2>2, <2>7
    <3> QED BY <2>3, <2>7, <3>1
  <2> QED BY <2>6, <2>7
<1>5. RegUsesExact'
  BY <1>3, <1>4 DEF RegUsesExact, UsersIn
<1>6. TypesOfScan'
  <2>1. RegUses' \in [Regs -> Nat]
    <3>1. RegUses' = [q \in Regs |-> RegUses'[q]]
      BY <1>3 DEF Increment
    <3>2. Active' \in SUBSET Variables
      BY <1>2, <1>3
    <3> QED BY <1>4, <3>1, <3>2, UsersAreFinite
  <2> QED BY <1>2, <1>3, <2>1 DEF IInv, TypesOfScan
<1>7. WidthsMatch'
  <2>1. \A v : RegMaskUnfiltered(v)' = RegMaskUnfiltered(v)
    BY <1>3, MasksStay
  <2> QED BY <1>3, <2>1 DEF IInv, WidthsMatch, HasReg, HasRegTmp
<1>8. UnhandledIsApart'
  BY <1>1, <1>2, <1>3 DEF IInv, UnhandledIsApart, Considered
<1>9. RegistersAreKept'
  BY <1>1, <1>3 DEF IInv, RegistersAreKept, Considered, HasReg
<1>10. MustIsKept'
  <2>1. Must' = Must
    BY <1>3 DEF Must
  <2>2. RegNumTmp[cur] # NoReg
    BY <1>1, <1>2 DEF HasReg
  <2> QED BY <1>1, <1>3, <2>1, <2>2 DEF IInv, MustIsKept, Considered, HasRegTmp
<1> QED BY <1>5, <1>6, <1>7, <1>8, <1>9, <1>10 DEF IInv

LEMMA ConsiderStep ==
  ASSUME IInv, NEW cur, Consider(cur)
  PROVE  IInv'
BY AllocatePrecoloredStep, AllocatePreferredStep, AllocateFreeStep, SpillStep, EvictStep,
   AllocateReserveStep, FailStep, AddSpillFillStep DEF Consider

(***************************************************************************)
(* The start of a scan, for any set of variables that includes those that  *)
(* must have a register.                                                   *)
(***************************************************************************)
LEMMA StartScanStep ==
  ASSUME IInv, NEW unhandled \in SUBSET Variables, StartScan(unhandled),
         ~failed => \A v \in f.must : LiveRange'[v] # <<>> => v \in unhandled
  PROVE  IInv'
<1>1. /\ f' = f /\ phase' = "scan" /\ Kind' = Kind
      /\ Unhandled' = unhandled /\ Active' = {} /\ Inactive' = {} /\ Handled' = {} /\ Evicted' = {}
      /\ RegNum' = RegNum /\ failed' = failed
      /\ RegNumTmp' = [v \in Variables |-> IF v \in unhandled /\ HasReg(v) THEN RegNum[v] ELSE RegNumTmp[v]]
      /\ MustHaveReg' = MustHaveReg \cup {v \in unhandled : HasReg(v)}
      /\ RegUses' = [r \in Regs |-> 0]
  BY DEF StartScan
<1>2. TypesOfScan'
  BY <1>1 DEF IInv, TypesOfScan
<1>3. WidthsMatch'
  <2>1. \A v : RegMaskUnfiltered(v)' = RegMaskUnfiltered(v)
    BY <1>1, MasksStay
  <2>2. ASSUME NEW v \in Variables
        PROVE  /\ RegNum'[v] # NoReg => RegNum'[v] \in RegMaskUnfiltered(v)
               /\ RegNumTmp'[v] # NoReg => RegNumTmp'[v] \in RegMaskUnfiltered(v)
    BY <1>1, <2>2 DEF IInv, WidthsMatch, HasReg, HasRegTmp
  <2> QED BY <2>1, <2>2 DEF WidthsMatch, HasReg, HasRegTmp
<1>4. UnhandledIsApart'
  BY <1>1 DEF UnhandledIsApart, Considered
<1>5. RegistersAreKept'
  BY <1>1 DEF RegistersAreKept, Considered, HasReg
<1>6. MustIsKept'
  <2>1. f.must \subseteq MustHaveReg'
    BY <1>1 DEF IInv, MustIsKept
  <2>2. ~failed => \A v \in Must' : v \in Unhandled'
    BY <1>1 DEF Must
  <2> QED BY <1>1, <2>1, <2>2 DEF MustIsKept
<1>7. RegUsesExact'
  <2>1. \A r \in Regs : {v \in Active' : r \in Aliases(RegNumTmp'[v])} = {}
    BY <1>1
  <2>2. \A r \in Regs : Cardinality({v \in Active' : r \in Aliases(RegNumTmp'[v])}) = 0
    BY <2>1, FS_EmptySet
  <2> QED BY <1>1, <2>2 DEF RegUsesExact
<1> QED BY <1>2, <1>3, <1>4, <1>5, <1>6, <1>7 DEF IInv

LEMMA RequirementsOfF == ASSUME TypesOfScan PROVE Requirements(f)
BY FunctionsAssumption DEF TypesOfScan

LEMMA InitForGlobalStep ==
  ASSUME IInv, InitForGlobal
  PROVE  IInv'
<1> DEFINE unhandled == {v \in Variables \ f.mustNot : LiveRange[v] # <<>>}
<1>1. \A v \in f.must : LiveRange'[v] # <<>> => v \in unhandled
  BY RequirementsOfF DEF InitForGlobal, Requirements, IInv
<1>2. StartScan(unhandled)
  BY DEF InitForGlobal
<1> HIDE DEF unhandled
<1>3. unhandled \in SUBSET Variables
  BY DEF unhandled
<1> QED BY <1>1, <1>2, <1>3, StartScanStep

LEMMA InitForSecondChanceStep ==
  ASSUME IInv, InitForSecondChance
  PROVE  IInv'
<1> DEFINE unhandled == {v \in Variables : HasReg(v)} \cup Evicted
<1>1. StartScan(unhandled) /\ LiveRange' = LiveRange /\ Kind = "SecondChance" /\ phase = "init"
  BY DEF InitForSecondChance, StartScan
<1>2. ~failed => \A v \in f.must : LiveRange'[v] # <<>> => v \in unhandled
  BY <1>1, RequirementsOfF DEF Requirements, IInv, MustIsKept, Must
<1>3. unhandled \in SUBSET Variables
  BY DEF IInv, TypesOfScan
<1> HIDE DEF unhandled
<1> QED BY <1>1, <1>2, <1>3, StartScanStep

(***************************************************************************)
(* Steps that leave the scan alone.                                        *)
(***************************************************************************)
LEMMA OutsideScanStep ==
  ASSUME IInv, f' = f, phase' \in {"liveness", "init", "fatal"},
         UNCHANGED <<Kind, Unhandled, Active, Inactive, Handled, Evicted,
                     RegNum, RegNumTmp, RegUses, MustHaveReg, failed>>,
         \/ LiveRange' = LiveRange /\ phase # "scan" /\ phase' # "liveness"
         \/ Kind # "SecondChance"
  PROVE  IInv'
<1>1. TypesOfScan'
  BY DEF IInv, TypesOfScan
<1>2. WidthsMatch'
  <2>1. \A v : RegMaskUnfiltered(v)' = RegMaskUnfiltered(v)
    BY MasksStay
  <2> QED BY <2>1 DEF IInv, WidthsMatch, HasReg, HasRegTmp
<1>3. UnhandledIsApart' /\ RegistersAreKept' /\ RegUsesExact'
  BY DEF UnhandledIsApart, Considered, RegistersAreKept, RegUsesExact
<1>4. MustIsKept'
  <2>1. CASE Kind # "SecondChance"
    BY <2>1 DEF IInv, MustIsKept
  <2>2. CASE LiveRange' = LiveRange /\ phase # "scan" /\ phase' # "liveness"
    <3>1. Must' = Must
      BY <2>2 DEF Must
    <3> QED BY <2>2, <3>1 DEF IInv, MustIsKept, HasReg
  <2> QED BY <2>1, <2>2
<1> QED BY <1>1, <1>2, <1>3, <1>4 DEF IInv

LEMMA InitForInfOnlyStep ==
  ASSUME IInv, InitForInfOnly
  PROVE  IInv'
<1>1. CASE LivenessError
  <2>1. /\ f' = f /\ phase' = "fatal" /\ LiveRange' = LiveRange /\ phase = "init"
        /\ UNCHANGED <<Kind, Unhandled, Active, Inactive, Handled, Evicted,
                       RegNum, RegNumTmp, RegUses, MustHaveReg, failed>>
    BY <1>1 DEF InitForInfOnly
  <2> QED BY <2>1, OutsideScanStep
<1>2. CASE ~LivenessError
  <2>1. /\ StartScan(Tracked)
        /\ LiveRange' = [v \in Variables |-> IF v \in Tracked THEN SimpleRange(v) ELSE <<>>]
    BY <1>2 DEF InitForInfOnly
  <2>2. Tracked \in SUBSET Variables /\ f.must \subseteq Variables
    BY RequirementsOfF DEF Tracked, IInv, Requirements
  <2>3. \A v \in f.must : LiveRange'[v] # <<>> => v \in Tracked
    BY <2>1, <2>2
  <2> QED BY <2>1, <2>2, <2>3, StartScanStep
<1> QED BY <1>1, <1>2

(***************************************************************************)
(* The end of a scan: every variable keeps the register it had, or gets    *)
(* the one of this scan.                                                   *)
(***************************************************************************)
LEMMA EndScanFacts ==
  ASSUME IInv, EndScan
  PROVE  /\ \A v \in Variables : HasReg(v) => RegNum'[v] = RegNum[v]
         /\ \A v \in Variables : RegNum'[v] \in {RegNum[v], RegNumTmp[v]}
         /\ ~failed => \A v \in Must : RegNum'[v] # NoReg
<1>1. /\ phase = "scan" /\ Unhandled = {}
      /\ Handled' = Considered
      /\ RegNum' = [v \in Variables |-> IF v \in Handled' THEN RegNumTmp[v] ELSE RegNum[v]]
  BY DEF EndScan, Considered
<1>2. \A v \in Variables : HasReg(v) => RegNum'[v] = RegNum[v]
  BY <1>1 DEF IInv, RegistersAreKept
<1>3. \A v \in Variables : RegNum'[v] \in {RegNum[v], RegNumTmp[v]}
  BY <1>1
<1>4. ASSUME ~failed, NEW v \in Must PROVE RegNum'[v] # NoReg
  <2>1. v \in Considered /\ HasRegTmp(v)
    BY <1>1, <1>4 DEF IInv, MustIsKept
  <2>2. v \in Variables
    BY RequirementsOfF DEF Must, IInv, Requirements
  <2> QED BY <1>1, <2>1, <2>2 DEF HasRegTmp
<1> QED BY <1>2, <1>3, <1>4

LEMMA EndScanStep ==
  ASSUME IInv, EndScan
  PROVE  IInv'
<1>1. /\ f' = f /\ LiveRange' = LiveRange /\ phase' \in {"init", "run"} /\ Kind' = "SecondChance"
      /\ Unhandled' = Unhandled /\ Active' = {} /\ Inactive' = {} /\ Evicted' = Evicted
      /\ Handled' = Handled \cup Active \cup Inactive
      /\ RegNum' = [v \in Variables |-> IF v \in Handled' THEN RegNumTmp[v] ELSE RegNum[v]]
      /\ RegNumTmp' = RegNumTmp /\ RegUses' = RegUses /\ MustHaveReg' = MustHaveReg /\ failed' = failed
  BY DEF EndScan
<1>2. TypesOfScan'
  <2>1. RegNum' \in [Variables -> Regs \cup {NoReg}]
    BY <1>1 DEF IInv, TypesOfScan
  <2> QED BY <1>1, <2>1 DEF IInv, TypesOfScan
<1>3. WidthsMatch'
  <2>1. \A v : RegMaskUnfiltered(v)' = RegMaskUnfiltered(v)
    BY <1>1, MasksStay
  <2>2. ASSUME NEW v \in Variables
        PROVE  /\ RegNum'[v] # NoReg => RegNum'[v] \in RegMaskUnfiltered(v)
               /\ RegNumTmp'[v] # NoReg => RegNumTmp'[v] \in RegMaskUnfiltered(v)
    BY <1>1, <2>2, EndScanFacts DEF IInv, WidthsMatch, HasReg, HasRegTmp
  <2> QED BY <2>1, <2>2 DEF WidthsMatch, HasReg, HasRegTmp
<1>4. UnhandledIsApart' /\ RegistersAreKept' /\ RegUsesExact'
  BY <1>1 DEF UnhandledIsApart, Considered, RegistersAreKept, RegUsesExact
<1>5. MustIsKept'
  <2>1. Must' = Must
    BY <1>1 DEF Must
  <2> QED BY <1>1, <2>1, EndScanFacts DEF IInv, MustIsKept, HasReg
<1> QED BY <1>2, <1>3, <1>4, <1>5 DEF IInv

(***************************************************************************)
(* The other steps.                                                        *)
(***************************************************************************)
LEMMA AnalyseStep ==
  ASSUME IInv, Analyse
  PROVE  IInv'
<1>1. f' = f
  BY DEF Analyse, Live!Step, Live!Visit, Live!Converge, Live!FinalPass
<1>2. /\ phase = "liveness" /\ phase' = phase
      /\ UNCHANGED <<Kind, Unhandled, Active, Inactive, Handled, Evicted,
                     RegNum, RegNumTmp, RegUses, MustHaveReg, failed>>
  BY DEF Analyse, scan
<1>3. Kind # "SecondChance"
  BY <1>2 DEF IInv, MustIsKept
<1> QED BY <1>1, <1>2, <1>3, OutsideScanStep

LEMMA UseRangesStep ==
  ASSUME IInv, UseRanges
  PROVE  IInv'
<1>1. /\ f' = f /\ phase = "liveness" /\ phase' = "init"
      /\ UNCHANGED <<Kind, Unhandled, Active, Inactive, Handled, Evicted,
                     RegNum, RegNumTmp, RegUses, MustHaveReg, failed>>
  BY DEF UseRanges
<1>2. Kind # "SecondChance"
  BY <1>1 DEF IInv, MustIsKept
<1> QED BY <1>1, <1>2, OutsideScanStep

LEMMA UnchangedStep ==
  ASSUME IInv, UNCHANGED <<f, LiveRange, scan>>
  PROVE  IInv'
<1>1. /\ f' = f /\ LiveRange' = LiveRange /\ phase' = phase
      /\ UNCHANGED <<Kind, Unhandled, Active, Inactive, Handled, Evicted,
                     RegNum, RegNumTmp, RegUses, MustHaveReg, failed>>
  BY DEF scan
<1>2. TypesOfScan'
  BY <1>1 DEF IInv, TypesOfScan
<1>3. WidthsMatch'
  <2>1. \A v : RegMaskUnfiltered(v)' = RegMaskUnfiltered(v)
    BY <1>1, MasksStay
  <2> QED BY <1>1, <2>1 DEF IInv, WidthsMatch, HasReg, HasRegTmp
<1>4. UnhandledIsApart' /\ RegistersAreKept' /\ RegUsesExact'
  BY <1>1 DEF IInv, UnhandledIsApart, RegistersAreKept, RegUsesExact, Considered, HasReg
<1>5. MustIsKept'
  <2>1. Must' = Must
    BY <1>1 DEF Must
  <2> QED BY <1>1, <2>1 DEF IInv, MustIsKept, HasReg, HasRegTmp, Considered
<1> QED BY <1>2, <1>3, <1>4, <1>5 DEF IInv

-----------------------------------------------------------------------------
(***************************************************************************)
(* The invariant, and what follows from it.                                *)
(***************************************************************************)
LEMMA InitHolds == Init => IInv
<1> SUFFICES ASSUME Init PROVE IInv
  OBVIOUS
<1>1. f \in Functions
  BY DEF Init, Live!Init
<1>2. Requirements(f)
  BY <1>1, FunctionsAssumption
<1>3. /\ phase \in {"liveness", "init"} /\ Kind = f.kind
      /\ Unhandled = {} /\ Active = {} /\ Inactive = {} /\ Handled = {} /\ Evicted = {}
      /\ RegNum = f.reg /\ RegNumTmp = [v \in Variables |-> NoReg]
      /\ RegUses = [r \in Regs |-> 0] /\ MustHaveReg = f.must /\ failed = FALSE
  BY DEF Init
<1>4. TypesOfScan
  BY <1>1, <1>2, <1>3 DEF TypesOfScan, Requirements
<1>5. WidthsMatch
  BY <1>2, <1>3 DEF WidthsMatch, HasReg, HasRegTmp, Requirements, RegMaskUnfiltered, Width
<1>6. UnhandledIsApart /\ RegistersAreKept /\ RegUsesExact
  BY <1>3 DEF UnhandledIsApart, Considered, RegistersAreKept, RegUsesExact
<1>7. MustIsKept
  BY <1>2, <1>3 DEF MustIsKept, Requirements
<1> QED BY <1>4, <1>5, <1>6, <1>7 DEF IInv

LEMMA StepHolds == IInv /\ [Next]_vars => IInv'
<1> SUFFICES ASSUME IInv, [Next]_vars PROVE IInv'
  OBVIOUS
<1>1. CASE Analyse
  BY <1>1, AnalyseStep
<1>2. CASE UseRanges
  BY <1>2, UseRangesStep
<1>3. CASE Allocate
  BY <1>3, InitForGlobalStep, InitForSecondChanceStep, InitForInfOnlyStep, ConsiderStep, EndScanStep
     DEF Allocate, RegAlloc
<1>4. CASE Enter
  BY <1>4, UnchangedStep DEF Enter
<1>5. CASE Execute
  BY <1>5, UnchangedStep DEF Execute
<1>6. ASSUME NEW s \in 1 .. f.nodes, TakeEdge(s) PROVE IInv'
  BY <1>6, UnchangedStep DEF TakeEdge
<1>7. CASE Terminated \/ UNCHANGED vars
  BY <1>7, UnchangedStep DEF Terminated, vars
<1> QED BY <1>1, <1>2, <1>3, <1>4, <1>5, <1>6, <1>7 DEF Next

(***************************************************************************)
(* Every step of the analysis, of the scans and of the machine preserves   *)
(* the inductive invariant.                                                *)
(***************************************************************************)
THEOREM Invariance == Spec => []IInv
BY InitHolds, StepHolds, PTL DEF Spec

(***************************************************************************)
(* RegUses[r] is the number of active variables whose register aliases r,  *)
(* after every expiry, reactivation, assignment and eviction.              *)
(***************************************************************************)
THEOREM RegUsesExactCorrect == Spec => []RegUsesExact
<1>1. IInv => RegUsesExact
  BY DEF IInv
<1> QED BY <1>1, Invariance, PTL

(***************************************************************************)
(* A variable that must have a register has one, of its own width, unless  *)
(* an error is reported.                                                   *)
(***************************************************************************)
THEOREM RequirementsMetCorrect == Spec => []RequirementsMet
<1>1. IInv => RequirementsMet
  BY DEF IInv, WidthsMatch, MustIsKept, RequirementsMet, Must
<1> QED BY <1>1, Invariance, PTL

(***************************************************************************)
(* No step takes the register of a variable away or changes it.            *)
(***************************************************************************)
THEOREM RegNumIsFinalCorrect == Spec => RegNumIsFinal
<1> DEFINE Final == \A v \in Variables : HasReg(v) => RegNum'[v] = RegNum[v]
<1>1. ASSUME IInv, Next PROVE Final \/ UNCHANGED RegNum
  <2>1. CASE EndScan
    BY <1>1, <2>1, EndScanFacts
  <2>2. ASSUME NEW cur, Consider(cur) PROVE UNCHANGED RegNum
    BY <2>2 DEF Consider, AllocatePrecolored, AllocatePreferred, AllocateFree, Spill, Evict,
         AllocateReserve, Fail, AddSpillFill, EvictLightest, EvictAliases, Assign, LeaveWithout, Expire
  <2>3. CASE InitForGlobal \/ InitForSecondChance \/ InitForInfOnly
    BY <2>3 DEF InitForGlobal, InitForSecondChance, InitForInfOnly, StartScan
  <2>4. CASE Analyse \/ Enter \/ Execute \/ Terminated \/ \E s \in 1 .. f.nodes : TakeEdge(s)
    BY <2>4 DEF Analyse, Enter, Execute, Terminated, TakeEdge, scan, vars
  <2>5. CASE UseRanges
    BY <2>5 DEF UseRanges
  <2> QED BY <1>1, <2>1, <2>2, <2>3, <2>4, <2>5 DEF Next, Allocate, RegAlloc
<1>2. IInv /\ [Next]_vars => [Final]_vars
  BY <1>1
<1> QED BY <1>2, Invariance, PTL DEF Spec, RegNumIsFinal

-----------------------------------------------------------------------------
(***************************************************************************)
(* Who may share a register.  The invariant of a scan is about all         *)
(* variables that hold a register in it: those considered that have got    *)
(* one, and those still to be considered that had one before.  The steps   *)
(* need RangesAreOrdered, which LiveInv below provides.                    *)
(***************************************************************************)
Overlap(v, w) == Live!Overlaps(LiveRange[v], LiveRange[w])
Holders == {v \in Considered : HasRegTmp(v)} \cup {v \in Unhandled : HasReg(v)}

FirstScanIsFresh ==
  Kind # "SecondChance" =>
    /\ Kind = f.kind
    /\ RegNum = f.reg
    /\ phase \in {"liveness", "init"} => RegNumTmp = [v \in Variables |-> NoReg] /\ Evicted = {}
EvictedHaveLost ==
  \A v \in Evicted : ~HasRegTmp(v) /\ LiveRange[v] # <<>> /\ (phase = "scan" => v \notin Unhandled)
NobodyIsMissed ==
  \A v \in Variables : HasReg(v) /\ LiveRange[v] # <<>> => v \in Unhandled \cup Considered
UnhandledIsFresh ==
  \A v \in Unhandled : /\ Trimmed[v] = -1
                       /\ ~HasReg(v) => ~HasRegTmp(v) /\ LiveRange[v] # <<>>
TrimmedToThePast ==
  \A v \in Active \cup Inactive, u \in Unhandled : Trimmed[v] \in Int /\ Trimmed[v] <= Start(u)
ConsideredHaveRanges == \A v \in Considered : ~HasReg(v) => LiveRange[v] # <<>>
HandledEndBefore == \A v \in Handled, u \in Unhandled : HasRegTmp(v) => RangeEndsBefore(v, u)
ActiveHaveRegisters == \A v \in Active \cup Inactive : HasRegTmp(v)
HoldersApart ==
  \A v, w \in Holders :
    v # w /\ RegNumTmp[v] \in Aliases(RegNumTmp[w]) /\ Overlap(v, w) => MayAlias(v, w)
ScanIsSafe ==
  /\ NobodyIsMissed
  /\ UnhandledIsFresh
  /\ TrimmedToThePast
  /\ ConsideredHaveRanges
  /\ HandledEndBefore
  /\ ActiveHaveRegisters
  /\ HoldersApart
SInv ==
  f.kind # "Phi" =>
    /\ FirstScanIsFresh
    /\ EvictedHaveLost
    /\ OverlapsAreHarmless
    /\ phase = "scan" => ScanIsSafe

(***************************************************************************)
(* Ranges.                                                                 *)
(***************************************************************************)
LEMMA RangeFacts ==
  ASSUME RangesAreOrdered, NEW v \in Variables
  PROVE  /\ Start(v) \in Int /\ -1 <= Start(v)
         /\ LiveRange[v] # <<>> => Start(v) \in Nat /\ End(v) \in Nat
         /\ \A k \in DOMAIN LiveRange[v] :
              /\ LiveRange[v][k][1] \in Nat
              /\ LiveRange[v][k][2] \in Nat
              /\ Start(v) <= LiveRange[v][k][1]
              /\ LiveRange[v][k][2] <= End(v)
<1> DEFINE range == LiveRange[v]
<1>1. /\ range \in Seq(Nat \X Nat)
      /\ \A k \in DOMAIN range : range[k][1] <= range[k][2]
      /\ \A k, m \in DOMAIN range : k < m => range[k][2] <= range[m][1]
  BY DEF RangesAreOrdered, Live!IsOrdered
<1>2. /\ Len(range) \in Nat /\ DOMAIN range = 1 .. Len(range)
      /\ \A k \in DOMAIN range : range[k] \in Nat \X Nat
  BY <1>1
<1>3. \A k \in DOMAIN range : range[k][1] \in Nat /\ range[k][2] \in Nat
  BY <1>2
<1>4. range # <<>> => 1 \in DOMAIN range /\ Len(range) \in DOMAIN range
  BY <1>1, <1>2
<1>5. range # <<>> => Start(v) = range[1][1] /\ End(v) = range[Len(range)][2]
  BY DEF Start, End
<1> HIDE DEF range
<1>6. ASSUME NEW k \in DOMAIN range
      PROVE  range # <<>> /\ range[1][1] <= range[k][1] /\ range[k][2] <= range[Len(range)][2]
  <2>1. range # <<>> /\ k \in 1 .. Len(range)
    BY <1>1, <1>2, <1>6
  <2>2. range[1][1] <= range[k][1]
    <3>1. CASE k = 1
      BY <1>3, <1>4, <2>1, <3>1
    <3>2. CASE k # 1
      <4>1. 1 \in DOMAIN range /\ 1 < k
        BY <1>4, <2>1, <3>2
      <4>2. range[1][1] <= range[1][2] /\ range[1][2] <= range[k][1]
        BY <1>1, <4>1
      <4> QED BY <1>3, <4>1, <4>2
    <3> QED BY <3>1, <3>2
  <2>3. range[k][2] <= range[Len(range)][2]
    <3>1. CASE k = Len(range)
      BY <1>3, <1>4, <2>1, <3>1
    <3>2. CASE k # Len(range)
      <4>1. Len(range) \in DOMAIN range /\ k < Len(range)
        BY <1>2, <1>4, <2>1, <3>2
      <4>2. range[k][2] <= range[Len(range)][1] /\ range[Len(range)][1] <= range[Len(range)][2]
        BY <1>1, <4>1
      <4> QED BY <1>3, <4>1, <4>2
    <3> QED BY <3>1, <3>2
  <2> QED BY <2>1, <2>2, <2>3
<1>7. Start(v) \in Int /\ -1 <= Start(v) /\ (range # <<>> => Start(v) \in Nat /\ End(v) \in Nat)
  <2>1. CASE range = <<>>
    BY <2>1 DEF Start, range
  <2>2. CASE range # <<>>
    BY <1>3, <1>4, <1>5, <2>2
  <2> QED BY <2>1, <2>2
<1> QED BY <1>3, <1>5, <1>6, <1>7 DEF range

(***************************************************************************)
(* What ends before Cur begins does not overlap it.                        *)
(***************************************************************************)
LEMMA EndedDoNotOverlap ==
  ASSUME RangesAreOrdered, NEW v \in Variables, NEW cur \in Variables, RangeEndsBefore(v, cur)
  PROVE  ~Overlap(v, cur)
<1> SUFFICES ASSUME NEW k \in DOMAIN LiveRange[v], NEW m \in DOMAIN LiveRange[cur],
                    LiveRange[cur][m][1] < LiveRange[v][k][2]
             PROVE  FALSE
  BY DEF Overlap, Live!Overlaps
<1>1. LiveRange[v] # <<>> /\ LiveRange[cur] # <<>>
  BY DEF RangesAreOrdered, Live!IsOrdered
<1>2. End(v) <= Start(cur) /\ Start(cur) \in Nat /\ End(v) \in Nat
  BY <1>1, RangeFacts DEF RangeEndsBefore
<1>3. /\ LiveRange[v][k][2] <= End(v) /\ Start(cur) <= LiveRange[cur][m][1]
      /\ LiveRange[v][k][2] \in Nat /\ LiveRange[cur][m][1] \in Nat
  BY RangeFacts
<1> QED BY <1>2, <1>3

(***************************************************************************)
(* Trimming a range to the past of Cur changes no overlap with Cur.        *)
(***************************************************************************)
LEMMA TrimmedStillOverlap ==
  ASSUME RangesAreOrdered, NEW v \in Variables, NEW cur \in Variables,
         Trimmed[cur] = -1, Trimmed[v] \in Int, Trimmed[v] <= Start(cur), Overlap(v, cur)
  PROVE  RangeOverlaps(v, cur)
<1>1. PICK k \in DOMAIN LiveRange[v], m \in DOMAIN LiveRange[cur] :
        LiveRange[cur][m][1] < LiveRange[v][k][2] /\ LiveRange[v][k][1] < LiveRange[cur][m][2]
  BY DEF Overlap, Live!Overlaps
<1>2. /\ LiveRange[v][k][2] \in Nat /\ LiveRange[cur][m][1] \in Nat /\ LiveRange[cur][m][2] \in Nat
      /\ Start(cur) <= LiveRange[cur][m][1] /\ Start(cur) \in Int
  BY RangeFacts
<1>3. m \in Segments(cur)
  BY <1>2 DEF Segments
<1>4. Trimmed[v] < LiveRange[v][k][2]
  BY <1>1, <1>2
<1>5. k \in Segments(v)
  BY <1>2, <1>4 DEF Segments
<1> QED BY <1>1, <1>3, <1>5 DEF RangeOverlaps

LEMMA UntrimmedInRange ==
  ASSUME RangesAreOrdered, NEW cur \in Variables, Trimmed[cur] = -1,
         NEW w, ~OverlapsDefs(cur, w)
  PROVE  \A i \in Defs(w) : ~InRange(cur, Num(i))
<1> SUFFICES ASSUME NEW i \in Defs(w), InRange(cur, Num(i)) PROVE FALSE
  OBVIOUS
<1>1. PICK k \in DOMAIN LiveRange[cur] :
        LiveRange[cur][k][1] <= Num(i) /\ Num(i) < LiveRange[cur][k][2]
  BY DEF InRange
<1>2. LiveRange[cur][k][2] \in Nat
  BY RangeFacts
<1>3. k \in Segments(cur)
  BY <1>2 DEF Segments
<1> QED BY <1>1, <1>3 DEF OverlapsDefs, OverlapsNumber

LEMMA OverlapIsSymmetric == ASSUME NEW v, NEW w PROVE Overlap(v, w) <=> Overlap(w, v)
BY DEF Overlap, Live!Overlaps

LEMMA MayAliasIsSymmetric == ASSUME NEW v, NEW w PROVE MayAlias(v, w) <=> MayAlias(w, v)
BY DEF MayAlias

LEMMA FunctionStays ==
  ASSUME f' = f, LiveRange' = LiveRange, Deleted' = Deleted
  PROVE  \A v, w : /\ Start(v)' = Start(v) /\ Overlap(v, w)' = Overlap(v, w)
                   /\ RangeEndsBefore(v, w)' = RangeEndsBefore(v, w)
                   /\ MayAlias(v, w)' = MayAlias(v, w)
BY DEF Start, End, RangeEndsBefore, Overlap, Live!Overlaps, MayAlias, SharesAsCopy, IsCopy, InRange,
       Defs, Kept, Num

(***************************************************************************)
(* What the iteration has found out about the registers for Cur.           *)
(***************************************************************************)
PrecoloredFor(cur) ==
  UNION {Aliases(RegNum[v]) : v \in {w \in Unhandled : HasReg(w) /\ RangeOverlaps(w, cur)}}

LEMMA PreferenceToShare ==
  ASSUME Requirements(f), NEW cur, NEW free, NEW p \in Preferences(cur, free), p.overlap
  PROVE  IsCopy(cur) /\ \A w \in p.prefer : ~OverlapsDefs(cur, w)
<1>1. p # NoPreference
  BY DEF NoPreference
<1>2. PICK i \in DefInst(cur) : \E w \in f.code[i].uses : p = Preference(cur, i, w, free)
  BY <1>1 DEF Preferences
<1>3. PICK w \in f.code[i].uses : p = Preference(cur, i, w, free)
  BY <1>2
<1>4. p.prefer = {w} /\ f.code[i].copy /\ Cardinality(Defs(cur)) = 1 /\ MayShare(cur, w)
  BY <1>3 DEF Preference
<1>5. Defs(cur) \in SUBSET (DOMAIN f.code) /\ DOMAIN f.code = 1 .. Len(f.code) /\ Len(f.code) \in Nat
  BY DEF Defs, Kept, Requirements, Live!IsFunction
<1>6. IsFiniteSet(Defs(cur))
  <2>1. IsFiniteSet(1 .. Len(f.code))
    BY <1>5, FS_Interval
  <2>2. Defs(cur) \in SUBSET (1 .. Len(f.code))
    BY <1>5
  <2> QED BY <2>1, <2>2, FS_Subset
<1>7. PICK j : Defs(cur) = {j}
  BY <1>4, <1>6, FS_Singleton
<1>8. i \in Defs(cur)
  <2>1. Defs(cur) \in SUBSET Nat /\ Defs(cur) # {}
    BY <1>5, <1>7
  <2>2. Min(Defs(cur)) \in Defs(cur)
    BY <2>1, MinIsIn
  <2>3. i = Min(Defs(cur))
    BY DEF DefInst
  <2> QED BY <2>2, <2>3
<1> QED BY <1>4, <1>7, <1>8 DEF IsCopy, MayShare

LEMMA IterationIsSafe ==
  ASSUME IInv, RangesAreOrdered, phase = "scan",
         NEW cur \in Variables, Trimmed[cur] = -1, NEW it \in Iterations(cur)
  PROVE  /\ it.active = NowActive(cur)
         /\ it.overlapping = {v \in NowInactive(cur) : RangeOverlaps(v, cur)}
         /\ \A r \in it.free \cup it.freeUnfiltered :
              /\ r \notin PrecoloredFor(cur)
              /\ \A v \in it.active \cup it.overlapping : r \notin Aliases(RegNumTmp[v])
         /\ \A r \in Regs : ~it.weight[r].infinite => r \notin PrecoloredFor(cur)
         /\ it.allowOverlap =>
              /\ it.prefer \notin PrecoloredFor(cur)
              /\ \A v \in it.active \cup it.overlapping :
                   it.prefer \in Aliases(RegNumTmp[v]) => SharesAsCopy(cur, v)
<1> DEFINE active == NowActive(cur)
           uses == UsesWithout(Active \ active, active \ Active)
           overlapping == {v \in NowInactive(cur) : RangeOverlaps(v, cur)}
           precolored == UNION {Aliases(RegNum[v]) :
                                  v \in {w \in Unhandled : HasReg(w) /\ RangeOverlaps(w, cur)}}
           blocked == precolored \cup (IF SpansKill(cur) THEN CallerSave ELSE {})
           unused == {r \in Regs : uses[r] <= 0}
           free == unused \ (AliasesOf(overlapping) \cup blocked)
           weight == [r \in Regs |->
                        IF r \in blocked THEN Infinite
                        ELSE SumOfWeights({v \in active \cup overlapping : r \in Aliases(RegNumTmp[v])})]
<1>1. PICK p \in Preferences(cur, unused \cap RegMask(cur)) :
        it = [active |-> active, uses |-> uses, overlapping |-> overlapping, weight |-> weight,
              free |-> free \cap RegMask(cur),
              freeUnfiltered |-> free \cap RegMaskUnfiltered(cur),
              prefer |-> p.reg,
              allowOverlap |-> OverlapAllowed(cur, p, active, overlapping, precolored)]
  BY DEF Iterations
<1>2. precolored = PrecoloredFor(cur)
  BY DEF PrecoloredFor
<1>3. p.overlap => IsCopy(cur) /\ \A w \in p.prefer : ~OverlapsDefs(cur, w)
  <2>1. Requirements(f)
    BY RequirementsOfF DEF IInv
  <2> HIDE DEF active, uses, overlapping, blocked, unused, free, weight, precolored
  <2> QED BY <2>1, PreferenceToShare
<1>4. ASSUME NEW r \in unused, NEW v \in active PROVE r \notin Aliases(RegNumTmp[v])
  <2>1. active \in SUBSET Variables /\ Active \subseteq Variables
    BY ExpirySets DEF IInv, TypesOfScan
  <2>2. uses[r] = Cardinality(UsersIn(active, r))
    <3> HIDE DEF active
    <3>1. r \in Regs
      BY <1>4
    <3> QED BY <2>1, <3>1, CountsAfterExpiry DEF IInv, uses
  <2>3. uses[r] <= 0
    BY <1>4
  <2> HIDE DEF uses, active, unused
  <2>4. IsFiniteSet(UsersIn(active, r)) /\ Cardinality(UsersIn(active, r)) \in Nat
    BY <2>1, UsersAreFinite
  <2>5. Cardinality(UsersIn(active, r)) = 0
    BY <2>2, <2>3, <2>4
  <2>6. UsersIn(active, r) = {}
    BY <2>4, <2>5, FS_EmptySet
  <2> QED BY <1>4, <2>6 DEF UsersIn
<1> HIDE DEF active, uses, overlapping, blocked, unused, free, weight, precolored
<1>5. /\ it.active = active /\ it.uses = uses /\ it.overlapping = overlapping
      /\ it.weight = weight /\ it.free = free \cap RegMask(cur)
      /\ it.freeUnfiltered = free \cap RegMaskUnfiltered(cur) /\ it.prefer = p.reg
      /\ it.allowOverlap = OverlapAllowed(cur, p, active, overlapping, precolored)
  BY <1>1
<1>6. ASSUME NEW r \in free
      PROVE  /\ r \notin precolored
             /\ \A v \in active \cup overlapping : r \notin Aliases(RegNumTmp[v])
  <2>1. r \in unused /\ r \notin AliasesOf(overlapping) /\ r \notin blocked
    BY <1>6 DEF free
  <2> QED BY <1>4, <2>1 DEF AliasesOf, blocked
<1>7. ASSUME NEW r \in Regs, ~weight[r].infinite PROVE r \notin precolored
  BY <1>7 DEF weight, Infinite, blocked
<1>8. ASSUME it.allowOverlap
      PROVE  /\ p.reg \notin precolored
             /\ \A v \in active \cup overlapping : p.reg \in Aliases(RegNumTmp[v]) => SharesAsCopy(cur, v)
  <2>1. /\ p.overlap /\ p.reg \notin precolored
        /\ \A v \in (active \cup overlapping) \ p.prefer :
             p.reg \in Aliases(RegNumTmp[v]) => ~OverlapsDefs(cur, v)
    BY <1>5, <1>8 DEF OverlapAllowed
  <2>2. \A v \in active \cup overlapping : p.reg \in Aliases(RegNumTmp[v]) => ~OverlapsDefs(cur, v)
    BY <1>3, <2>1
  <2> QED BY <1>3, <2>1, <2>2, UntrimmedInRange DEF SharesAsCopy
<1>9. it.active = NowActive(cur) /\ it.overlapping = {v \in NowInactive(cur) : RangeOverlaps(v, cur)}
  BY <1>5 DEF active, overlapping
<1> QED BY <1>2, <1>5, <1>6, <1>7, <1>8, <1>9

-----------------------------------------------------------------------------
(***************************************************************************)
(* What every iteration without a register for Cur does to the sets.       *)
(***************************************************************************)
LEMMA ExpiryKeepsScanSafe ==
  ASSUME IInv, RangesAreOrdered, ScanIsSafe, phase = "scan",
         NEW cur \in Unhandled, ~HasReg(cur), \A u \in Unhandled : Start(cur) <= Start(u),
         Expire(cur),
         NEW out \in SUBSET (NowActive(cur) \cup NowInactive(cur)),
         Active' \subseteq NowActive(cur) \cup {cur},
         Inactive' \subseteq NowInactive(cur),
         Handled' \subseteq Handled \cup Expired(cur) \cup out \cup {cur},
         Considered \cup {cur} \subseteq Considered',
         cur \in Handled' => RegNumTmp'[cur] = NoReg,
         \A v \in Variables \ (out \cup {cur}) : RegNumTmp'[v] = RegNumTmp[v],
         \A v \in out : RegNumTmp'[v] = NoReg
  PROVE  /\ NobodyIsMissed' /\ UnhandledIsFresh' /\ TrimmedToThePast'
         /\ ConsideredHaveRanges' /\ HandledEndBefore'
<1>1. /\ Unhandled' = Unhandled \ {cur}
      /\ Trimmed' = [v \in Variables |-> IF v \in Active \cup Inactive THEN Start(cur) ELSE Trimmed[v]]
      /\ f' = f /\ LiveRange' = LiveRange /\ Deleted' = Deleted
      /\ RegNum' = RegNum
  BY DEF Expire
<1>2. \A v, w : /\ Start(v)' = Start(v)
                /\ RangeEndsBefore(v, w)' = RangeEndsBefore(v, w)
  BY <1>1, FunctionStays
<1>3. \A v : HasReg(v)' <=> HasReg(v)
  BY <1>1 DEF HasReg
<1>4. /\ NowActive(cur) \subseteq Active \cup Inactive
      /\ NowInactive(cur) \subseteq Active \cup Inactive
      /\ Expired(cur) \subseteq Active \cup Inactive
  BY ExpirySets
<1>5. /\ Unhandled \subseteq Variables /\ Active \cup Inactive \cup Handled \subseteq Variables
      /\ Unhandled \cap (Active \cup Inactive \cup Handled) = {}
  BY DEF IInv, TypesOfScan, UnhandledIsApart, Considered
<1>6. /\ LiveRange[cur] # <<>> /\ RegNumTmp[cur] = NoReg /\ Trimmed[cur] = -1
  BY DEF ScanIsSafe, UnhandledIsFresh, HasRegTmp
<1>7. NobodyIsMissed'
  BY <1>1, <1>3, <1>5 DEF ScanIsSafe, NobodyIsMissed
<1>8. UnhandledIsFresh'
  <2> SUFFICES ASSUME NEW v \in Unhandled'
               PROVE  /\ Trimmed'[v] = -1
                      /\ ~HasReg(v) => RegNumTmp'[v] = NoReg /\ LiveRange[v] # <<>>
    BY <1>1, <1>3 DEF UnhandledIsFresh, HasRegTmp
  <2>1. v \in Unhandled /\ v # cur /\ v \in Variables /\ v \notin Active \cup Inactive
    BY <1>1, <1>5
  <2>2. v \notin out
    BY <1>4, <2>1
  <2>3. Trimmed'[v] = Trimmed[v] /\ RegNumTmp'[v] = RegNumTmp[v]
    BY <1>1, <2>1, <2>2
  <2> QED BY <2>1, <2>3 DEF ScanIsSafe, UnhandledIsFresh, HasRegTmp
<1>9. TrimmedToThePast'
  <2> SUFFICES ASSUME NEW v \in Active' \cup Inactive', NEW u \in Unhandled'
               PROVE  Trimmed'[v] \in Int /\ Trimmed'[v] <= Start(u)
    BY <1>2 DEF TrimmedToThePast
  <2>1. Start(cur) \in Int /\ -1 <= Start(cur) /\ Start(u) \in Int /\ Start(cur) <= Start(u)
    BY <1>1, <1>5, RangeFacts
  <2>2. CASE v = cur
    <3>1. Trimmed'[v] = -1
      BY <1>1, <1>5, <1>6, <2>2
    <3> QED BY <2>1, <3>1
  <2>3. CASE v # cur
    <3>1. v \in Active \cup Inactive /\ v \in Variables
      BY <1>4, <1>5, <2>3
    <3>2. Trimmed'[v] = Start(cur)
      BY <1>1, <3>1
    <3> QED BY <2>1, <3>2
  <2> QED BY <2>2, <2>3
<1>10. Considered' \subseteq Considered \cup {cur}
  BY <1>4 DEF Considered
<1>11. ConsideredHaveRanges'
  BY <1>1, <1>3, <1>6, <1>10 DEF ScanIsSafe, ConsideredHaveRanges
<1>12. HandledEndBefore'
  <2> SUFFICES ASSUME NEW v \in Handled', NEW u \in Unhandled', RegNumTmp'[v] # NoReg
               PROVE  RangeEndsBefore(v, u)
    BY <1>2 DEF HandledEndBefore, HasRegTmp
  <2>1. v # cur /\ v \notin out
    OBVIOUS
  <2>2. v \in Handled \cup Expired(cur) /\ v \in Variables
    BY <1>4, <1>5, <2>1
  <2>3. RegNumTmp[v] # NoReg /\ u \in Unhandled
    BY <1>1, <2>1, <2>2
  <2>4. CASE v \in Handled
    BY <2>3, <2>4 DEF ScanIsSafe, HandledEndBefore, HasRegTmp
  <2>5. CASE v \in Expired(cur)
    <3>1. LiveRange[v] = <<>> \/ End(v) <= Start(cur)
      BY <1>6, <2>5 DEF Expired, RangeEndsBefore
    <3>2. Start(cur) \in Int /\ Start(u) \in Int /\ Start(cur) <= Start(u)
      BY <1>5, <2>3, RangeFacts
    <3>3. LiveRange[v] # <<>> => End(v) \in Nat
      BY <2>2, RangeFacts
    <3>4. LiveRange[v] = <<>> \/ End(v) <= Start(u)
      BY <3>1, <3>2, <3>3
    <3> QED BY <3>4 DEF RangeEndsBefore
  <2> QED BY <2>2, <2>4, <2>5
<1> QED BY <1>7, <1>8, <1>9, <1>11, <1>12

(***************************************************************************)
(* Who of those that hold a register when Cur is considered overlaps Cur,  *)
(* is active, or inactive and found to overlap, or is pre-colored.         *)
(***************************************************************************)
LEMMA WhoIsInTheWay ==
  ASSUME IInv, RangesAreOrdered, ScanIsSafe, phase = "scan",
         NEW cur \in Unhandled,
         NEW w \in Holders, Overlap(w, cur)
  PROVE  \/ w \in NowActive(cur)
         \/ w \in NowInactive(cur) /\ RangeOverlaps(w, cur)
         \/ w \in Unhandled /\ HasReg(w) /\ RangeOverlaps(w, cur)
<1>1. /\ cur \in Variables /\ w \in Variables /\ Trimmed[cur] = -1
      /\ Start(cur) \in Int /\ -1 <= Start(cur)
  BY RangeFacts DEF IInv, TypesOfScan, Holders, Considered, ScanIsSafe, UnhandledIsFresh
<1>2. ~RangeEndsBefore(w, cur)
  BY <1>1, EndedDoNotOverlap
<1>3. CASE w \in Unhandled /\ HasReg(w)
  <2>1. Trimmed[w] = -1
    BY <1>3 DEF ScanIsSafe, UnhandledIsFresh
  <2>2. Trimmed[w] \in Int /\ Trimmed[w] <= Start(cur)
    BY <1>1, <2>1
  <2> QED BY <1>1, <1>3, <2>2, TrimmedStillOverlap
<1>4. CASE w \in Handled /\ HasRegTmp(w)
  BY <1>2, <1>4 DEF ScanIsSafe, HandledEndBefore
<1>5. CASE w \in Active \cup Inactive
  <2>1. w \notin Expired(cur)
    BY <1>2 DEF Expired
  <2>2. Trimmed[w] \in Int /\ Trimmed[w] <= Start(cur)
    BY <1>5 DEF ScanIsSafe, TrimmedToThePast
  <2>3. RangeOverlaps(w, cur)
    BY <1>1, <2>2, TrimmedStillOverlap
  <2> QED BY <1>5, <2>1, <2>3, ExpirySets
<1> QED BY <1>3, <1>4, <1>5 DEF Holders, Considered

(***************************************************************************)
(* A register is safe for Cur, after the variables in out have lost        *)
(* theirs, if it is none of a pre-colored variable in the way, and Cur may *)
(* share it with everybody in the way who has it.                          *)
(***************************************************************************)
Safe(cur, r, it, out) ==
  /\ r \notin PrecoloredFor(cur)
  /\ \A w \in (it.active \cup it.overlapping) \ out :
       r \in Aliases(RegNumTmp[w]) => SharesAsCopy(cur, w)

(***************************************************************************)
(* The steps of a scan keep what is not about the scan itself.             *)
(***************************************************************************)
LEMMA SafeAgain ==
  ASSUME SInv, f.kind # "Phi", phase = "scan",
         UNCHANGED <<f, LiveRange, Deleted, phase, Kind, RegNum>>,
         EvictedHaveLost', ScanIsSafe'
  PROVE  SInv'
<1>1. FirstScanIsFresh'
  BY DEF SInv, FirstScanIsFresh
<1>2. OverlapsAreHarmless'
  <2>1. \A v, w : Alias(v, w)' <=> Alias(v, w)
    BY DEF Alias, HasReg
  <2>2. \A v, w : MayAlias(v, w)' <=> MayAlias(v, w)
    BY FunctionStays
  <2> QED BY <2>1, <2>2 DEF SInv, OverlapsAreHarmless
<1> QED BY <1>1, <1>2 DEF SInv

LEMMA AssignKeepsSafe ==
  ASSUME IInv, SInv, RangesAreOrdered, f.kind # "Phi", phase = "scan",
         NEW cur \in Unhandled, ~HasReg(cur), \A u \in Unhandled : Start(cur) <= Start(u),
         NEW it \in Iterations(cur),
         NEW r \in RegMaskUnfiltered(cur),
         NEW outActive, outActive \subseteq it.active,
         NEW outInactive, outInactive \subseteq it.overlapping,
         \A v \in outActive \cup outInactive : v \notin MustHaveReg,
         Safe(cur, r, it, outActive \cup outInactive),
         Assign(cur, r, it, outActive, outInactive)
  PROVE  SInv'
<1> DEFINE out == outActive \cup outInactive
<1>1. ScanIsSafe /\ EvictedHaveLost
  BY DEF SInv
<1>2. /\ it.active = NowActive(cur)
      /\ it.overlapping = {v \in NowInactive(cur) : RangeOverlaps(v, cur)}
  <2>1. cur \in Variables /\ Trimmed[cur] = -1
    BY <1>1 DEF IInv, TypesOfScan, ScanIsSafe, UnhandledIsFresh
  <2> QED BY <2>1, IterationIsSafe
<1>3. /\ NowActive(cur) \subseteq Active \cup Inactive
      /\ NowInactive(cur) \subseteq Active \cup Inactive
      /\ NowActive(cur) \cap NowInactive(cur) = {}
      /\ NowActive(cur) \cup NowInactive(cur) \cup Expired(cur) = Active \cup Inactive
  BY ExpirySets
<1>4. /\ cur \in Variables /\ Unhandled \subseteq Variables
      /\ Active \cup Inactive \cup Handled \subseteq Variables
      /\ Unhandled \cap (Active \cup Inactive \cup Handled) = {}
  BY DEF IInv, TypesOfScan, UnhandledIsApart, Considered
<1>5. /\ Unhandled' = Unhandled \ {cur}
      /\ Active' = (NowActive(cur) \ outActive) \cup {cur}
      /\ Inactive' = NowInactive(cur) \ outInactive
      /\ Handled' = Handled \cup Expired(cur) \cup out
      /\ Evicted' = Evicted \cup out
      /\ RegNumTmp' = [v \in Variables |-> IF v = cur THEN r ELSE IF v \in out THEN NoReg ELSE RegNumTmp[v]]
      /\ UNCHANGED <<f, LiveRange, Deleted, phase, Kind, RegNum>>
  BY <1>2 DEF Assign, Expire
<1>6. out \in SUBSET (NowActive(cur) \cup NowInactive(cur)) /\ cur \notin out /\ out \subseteq Variables
  BY <1>2, <1>3, <1>4
<1>7. /\ \A v \in Variables \ (out \cup {cur}) : RegNumTmp'[v] = RegNumTmp[v]
      /\ \A v \in out : RegNumTmp'[v] = NoReg
      /\ RegNumTmp'[cur] = r
  BY <1>4, <1>5, <1>6
<1> HIDE DEF out
<1>8. cur \notin Handled'
  BY <1>3, <1>4, <1>5, <1>6
<1>9. Considered \cup {cur} \subseteq Considered' /\ Considered' \subseteq Considered \cup {cur}
  BY <1>3, <1>5, <1>6 DEF Considered, out
<1>10. /\ NobodyIsMissed' /\ UnhandledIsFresh' /\ TrimmedToThePast'
       /\ ConsideredHaveRanges' /\ HandledEndBefore'
  <2>1. Expire(cur)
    BY DEF Assign
  <2>2. /\ Active' \subseteq NowActive(cur) \cup {cur}
        /\ Inactive' \subseteq NowInactive(cur)
        /\ Handled' \subseteq Handled \cup Expired(cur) \cup out \cup {cur}
    BY <1>5
  <2> QED BY <1>1, <1>6, <1>7, <1>8, <1>9, <2>1, <2>2, ExpiryKeepsScanSafe
<1>11. EvictedHaveLost'
  <2> SUFFICES ASSUME NEW v \in Evicted'
               PROVE  RegNumTmp'[v] = NoReg /\ LiveRange[v] # <<>> /\ v \notin Unhandled'
    BY <1>5 DEF EvictedHaveLost, HasRegTmp
  <2>1. CASE v \in out
    <3>1. v \in Considered /\ ~HasReg(v)
      BY <1>3, <1>6, <2>1 DEF IInv, RegistersAreKept, Considered, out
    <3> QED BY <1>1, <1>4, <1>5, <1>7, <2>1, <3>1 DEF ScanIsSafe, ConsideredHaveRanges, Considered
  <2>2. CASE v \in Evicted \ out
    <3>1. v \in Variables /\ v \notin Unhandled /\ v # cur
      BY <1>1, <2>2 DEF EvictedHaveLost, IInv, TypesOfScan
    <3> QED BY <1>1, <1>5, <1>7, <2>2, <3>1 DEF EvictedHaveLost, HasRegTmp
  <2> QED BY <1>5, <2>1, <2>2
<1>12. ASSUME NEW w \in Holders', w # cur
       PROVE  w \in Holders /\ w \notin out /\ RegNumTmp'[w] = RegNumTmp[w] /\ w \in Variables
  <2>1. CASE w \in Considered' /\ RegNumTmp'[w] # NoReg
    <3>1. w \in Considered /\ w \notin out /\ w \in Variables
      BY <1>4, <1>7, <1>9, <1>12, <2>1 DEF Considered
    <3> QED BY <1>7, <1>12, <2>1, <3>1 DEF Holders, HasRegTmp
  <2>2. CASE w \in Unhandled' /\ RegNum'[w] # NoReg
    <3>1. w \in Unhandled /\ w \notin out /\ w \in Variables
      BY <1>3, <1>4, <1>5, <1>6, <2>2
    <3> QED BY <1>5, <1>7, <1>12, <2>2, <3>1 DEF Holders, HasReg
  <2> QED BY <1>12, <2>1, <2>2 DEF Holders, HasRegTmp, HasReg
<1>13. ASSUME NEW w \in Holders', w # cur, r \in Aliases(RegNumTmp[w]), Overlap(w, cur)
       PROVE  MayAlias(cur, w)
  <2>1. w \in Holders /\ w \notin out /\ w \in Variables
    BY <1>12, <1>13
  <2>2. CASE w \in NowActive(cur) \/ (w \in NowInactive(cur) /\ RangeOverlaps(w, cur))
    <3>1. w \in (it.active \cup it.overlapping) \ out
      BY <1>2, <2>1, <2>2
    <3> QED BY <1>13, <3>1 DEF Safe, MayAlias, out
  <2>3. CASE w \in Unhandled /\ HasReg(w) /\ RangeOverlaps(w, cur)
    <3>1. RegNumTmp[w] = RegNum[w]
      BY <2>3 DEF IInv, RegistersAreKept
    <3>2. r \in PrecoloredFor(cur)
      BY <1>13, <2>3, <3>1 DEF PrecoloredFor
    <3> QED BY <3>2 DEF Safe
  <2> QED BY <1>1, <1>13, <2>1, <2>2, <2>3, WhoIsInTheWay
<1>14. HoldersApart'
  <2> SUFFICES ASSUME NEW v \in Holders', NEW w \in Holders', v # w,
                      RegNumTmp'[v] \in Aliases(RegNumTmp'[w]), Overlap(v, w)
               PROVE  MayAlias(v, w)
    <3>1. \A v, w : (Overlap(v, w)' <=> Overlap(v, w)) /\ (MayAlias(v, w)' <=> MayAlias(v, w))
      BY <1>5, FunctionStays
    <3> QED BY <3>1 DEF HoldersApart
  <2>1. CASE v = cur
    <3>1. r \in Aliases(RegNumTmp[w]) /\ Overlap(w, cur)
      BY <1>7, <1>12, <2>1, OverlapIsSymmetric
    <3> QED BY <1>13, <2>1, <3>1
  <2>2. CASE w = cur
    <3>1. v \in Holders /\ RegNumTmp'[v] = RegNumTmp[v] /\ v \in Variables
      BY <1>12, <2>2
    <3>2. RegNumTmp[v] \in Aliases(r)
      BY <1>7, <2>2, <3>1
    <3>3. r \in Aliases(RegNumTmp[v])
      BY <3>2, MasksAreRegs, AliasesAreRegs
    <3>4. MayAlias(cur, v)
      BY <1>13, <2>2, <3>3
    <3> QED BY <2>2, <3>4, MayAliasIsSymmetric
  <2>3. CASE v # cur /\ w # cur
    <3>1. /\ v \in Holders /\ RegNumTmp'[v] = RegNumTmp[v]
          /\ w \in Holders /\ RegNumTmp'[w] = RegNumTmp[w]
      BY <1>12, <2>3
    <3> QED BY <1>1, <3>1 DEF ScanIsSafe, HoldersApart
  <2> QED BY <2>1, <2>2, <2>3
<1>15. ActiveHaveRegisters'
  <2> SUFFICES ASSUME NEW v \in Active' \cup Inactive' PROVE RegNumTmp'[v] # NoReg
    BY DEF ActiveHaveRegisters, HasRegTmp
  <2>1. CASE v = cur
    BY <1>7, <2>1, MasksAreRegs, RegsAreNumbers
  <2>2. CASE v # cur
    <3>1. v \in Active \cup Inactive /\ v \notin out /\ v \in Variables
      BY <1>2, <1>3, <1>4, <1>5, <2>2 DEF out
    <3> QED BY <1>1, <1>7, <2>2, <3>1 DEF ScanIsSafe, ActiveHaveRegisters, HasRegTmp
  <2> QED BY <2>1, <2>2
<1>16. ScanIsSafe'
  BY <1>10, <1>14, <1>15 DEF ScanIsSafe
<1> QED BY <1>5, <1>11, <1>16, SafeAgain

(***************************************************************************)
(* Cur is left without a register.                                         *)
(***************************************************************************)
LEMMA LeaveKeepsSafe ==
  ASSUME IInv, SInv, RangesAreOrdered, f.kind # "Phi", phase = "scan",
         NEW cur \in Unhandled, ~HasReg(cur), \A u \in Unhandled : Start(cur) <= Start(u),
         NEW it \in Iterations(cur),
         LeaveWithout(cur, it),
         RegNumTmp' = RegNumTmp
  PROVE  SInv'
<1>1. ScanIsSafe /\ EvictedHaveLost
  BY DEF SInv
<1>2. it.active = NowActive(cur)
  BY IterationFacts
<1>3. /\ NowActive(cur) \subseteq Active \cup Inactive
      /\ NowInactive(cur) \subseteq Active \cup Inactive
      /\ NowActive(cur) \cup NowInactive(cur) \cup Expired(cur) = Active \cup Inactive
  BY ExpirySets
<1>4. RegNumTmp[cur] = NoReg
  BY <1>1 DEF ScanIsSafe, UnhandledIsFresh, HasRegTmp
<1>5. /\ Unhandled' = Unhandled \ {cur}
      /\ Active' = NowActive(cur)
      /\ Inactive' = NowInactive(cur)
      /\ Handled' = Handled \cup Expired(cur) \cup {cur}
      /\ Evicted' = Evicted
      /\ UNCHANGED <<f, LiveRange, Deleted, phase, Kind, RegNum>>
      /\ Expire(cur)
  BY <1>2 DEF LeaveWithout, Expire
<1>6. Considered' = Considered \cup {cur}
  BY <1>3, <1>5 DEF Considered
<1>7. /\ NobodyIsMissed' /\ UnhandledIsFresh' /\ TrimmedToThePast'
      /\ ConsideredHaveRanges' /\ HandledEndBefore'
  <2>1. {} \in SUBSET (NowActive(cur) \cup NowInactive(cur))
    OBVIOUS
  <2> QED BY <1>1, <1>4, <1>5, <1>6, <2>1, ExpiryKeepsScanSafe
<1>8. EvictedHaveLost'
  BY <1>1, <1>5 DEF EvictedHaveLost, HasRegTmp
<1>9. Holders' \subseteq Holders
  BY <1>4, <1>5, <1>6 DEF Holders, HasRegTmp, HasReg
<1>10. HoldersApart'
  <2>1. \A v, w : (Overlap(v, w)' <=> Overlap(v, w)) /\ (MayAlias(v, w)' <=> MayAlias(v, w))
    BY <1>5, FunctionStays
  <2> QED BY <1>1, <1>9, <2>1 DEF ScanIsSafe, HoldersApart
<1>11. ActiveHaveRegisters'
  BY <1>1, <1>3, <1>5 DEF ScanIsSafe, ActiveHaveRegisters, HasRegTmp
<1>12. ScanIsSafe'
  BY <1>7, <1>10, <1>11 DEF ScanIsSafe
<1> QED BY <1>5, <1>8, <1>12, SafeAgain

(***************************************************************************)
(* The choices for Cur.                                                    *)
(***************************************************************************)
LEMMA NextIsFresh ==
  ASSUME IInv, SInv, f.kind # "Phi", NEW cur, IsNext(cur)
  PROVE  /\ phase = "scan" /\ cur \in Unhandled /\ cur \in Variables
         /\ \A u \in Unhandled : Start(cur) <= Start(u)
         /\ Trimmed[cur] = -1
BY DEF IsNext, SInv, ScanIsSafe, UnhandledIsFresh, IInv, TypesOfScan

LEMMA AllocatePrecoloredIsSafe ==
  ASSUME IInv, SInv, RangesAreOrdered, f.kind # "Phi", NEW cur, AllocatePrecolored(cur)
  PROVE  SInv'
<1>1. /\ phase = "scan" /\ cur \in Unhandled /\ cur \in Variables
      /\ Trimmed[cur] = -1 /\ HasReg(cur)
  BY NextIsFresh DEF AllocatePrecolored
<1>2. ScanIsSafe /\ EvictedHaveLost
  BY <1>1 DEF SInv
<1>3. /\ Unhandled' = Unhandled \ {cur}
      /\ Active' = Active \cup {cur}
      /\ UNCHANGED <<f, LiveRange, Deleted, phase, Kind, Inactive, Handled, Evicted, Trimmed,
                     RegNum, RegNumTmp>>
  BY DEF AllocatePrecolored
<1>4. \A v, w : /\ Start(v)' = Start(v)
                /\ RangeEndsBefore(v, w)' = RangeEndsBefore(v, w)
                /\ Overlap(v, w)' = Overlap(v, w) /\ MayAlias(v, w)' = MayAlias(v, w)
  BY <1>3, FunctionStays
<1>5. Considered' = Considered \cup {cur}
  BY <1>3 DEF Considered
<1>6. NobodyIsMissed' /\ UnhandledIsFresh' /\ ConsideredHaveRanges'
  BY <1>1, <1>2, <1>3, <1>5
     DEF ScanIsSafe, NobodyIsMissed, UnhandledIsFresh, ConsideredHaveRanges, HasReg, HasRegTmp
<1>7. TrimmedToThePast'
  <2>1. \A u \in Unhandled : Trimmed[cur] \in Int /\ Trimmed[cur] <= Start(u)
    BY <1>1, RangeFacts DEF IInv, TypesOfScan
  <2> QED BY <1>2, <1>3, <1>4, <2>1 DEF ScanIsSafe, TrimmedToThePast
<1>8. HandledEndBefore'
  BY <1>2, <1>3, <1>4 DEF ScanIsSafe, HandledEndBefore, HasRegTmp
<1>9. Holders' \subseteq Holders
  BY <1>1, <1>3, <1>5 DEF Holders, HasRegTmp, HasReg
<1>10. HoldersApart'
  BY <1>2, <1>3, <1>4, <1>9 DEF ScanIsSafe, HoldersApart
<1>11. ActiveHaveRegisters'
  <2>1. RegNumTmp[cur] # NoReg
    BY <1>1 DEF IInv, RegistersAreKept, HasReg
  <2> QED BY <1>2, <1>3, <2>1 DEF ScanIsSafe, ActiveHaveRegisters, HasRegTmp
<1>12. ScanIsSafe'
  BY <1>6, <1>7, <1>8, <1>10, <1>11 DEF ScanIsSafe
<1>13. EvictedHaveLost'
  BY <1>2, <1>3 DEF EvictedHaveLost, HasRegTmp
<1> QED BY <1>1, <1>3, <1>12, <1>13, SafeAgain

LEMMA AllocatePreferredIsSafe ==
  ASSUME IInv, SInv, RangesAreOrdered, f.kind # "Phi", NEW cur, AllocatePreferred(cur)
  PROVE  SInv'
<1>1. /\ phase = "scan" /\ cur \in Unhandled /\ cur \in Variables /\ ~HasReg(cur)
      /\ \A u \in Unhandled : Start(cur) <= Start(u)
      /\ Trimmed[cur] = -1
  BY NextIsFresh DEF AllocatePreferred
<1>2. PICK it \in Iterations(cur) : Preferred(it) /\ Assign(cur, it.prefer, it, {}, {})
  BY DEF AllocatePreferred
<1>3. it.prefer \in RegMaskUnfiltered(cur)
  BY <1>2, IterationFacts, MasksAreRegs DEF Preferred
<1>4. Safe(cur, it.prefer, it, {} \cup {})
  BY <1>1, <1>2, IterationIsSafe DEF Preferred, Safe
<1> QED BY <1>1, <1>2, <1>3, <1>4, AssignKeepsSafe

LEMMA FreeIsSafe ==
  ASSUME IInv, RangesAreOrdered, phase = "scan", NEW cur \in Variables, Trimmed[cur] = -1,
         NEW it \in Iterations(cur), NEW r \in it.free \cup it.freeUnfiltered
  PROVE  Safe(cur, r, it, {} \cup {})
BY IterationIsSafe DEF Safe

LEMMA AllocateFreeIsSafe ==
  ASSUME IInv, SInv, RangesAreOrdered, f.kind # "Phi", NEW cur, AllocateFree(cur)
  PROVE  SInv'
<1>1. /\ phase = "scan" /\ cur \in Unhandled /\ cur \in Variables /\ ~HasReg(cur)
      /\ \A u \in Unhandled : Start(cur) <= Start(u)
      /\ Trimmed[cur] = -1
  BY NextIsFresh DEF AllocateFree
<1>2. PICK it \in Iterations(cur) : it.free # {} /\ Assign(cur, Min(it.free), it, {}, {})
  BY DEF AllocateFree
<1>3. it.free \subseteq RegMaskUnfiltered(cur) /\ it.free \in SUBSET Nat
  BY IterationFacts, MasksAreRegs, RegsAreNumbers
<1>4. Min(it.free) \in it.free
  BY <1>2, <1>3, MinIsIn
<1>5. Safe(cur, Min(it.free), it, {} \cup {})
  BY <1>1, <1>4, FreeIsSafe
<1> QED BY <1>1, <1>2, <1>3, <1>4, <1>5, AssignKeepsSafe

LEMMA AllocateReserveIsSafe ==
  ASSUME IInv, SInv, RangesAreOrdered, f.kind # "Phi", NEW cur, AllocateReserve(cur)
  PROVE  SInv'
<1>1. /\ phase = "scan" /\ cur \in Unhandled /\ cur \in Variables /\ ~HasReg(cur)
      /\ \A u \in Unhandled : Start(cur) <= Start(u)
      /\ Trimmed[cur] = -1
  BY NextIsFresh DEF AllocateReserve
<1>2. PICK it \in Iterations(cur) :
        it.freeUnfiltered # {} /\ Assign(cur, Min(it.freeUnfiltered), it, {}, {})
  BY DEF AllocateReserve
<1>3. it.freeUnfiltered \subseteq RegMaskUnfiltered(cur) /\ it.freeUnfiltered \in SUBSET Nat
  BY IterationFacts, MasksAreRegs, RegsAreNumbers
<1>4. Min(it.freeUnfiltered) \in it.freeUnfiltered
  BY <1>2, <1>3, MinIsIn
<1>5. Safe(cur, Min(it.freeUnfiltered), it, {} \cup {})
  BY <1>1, <1>4, FreeIsSafe
<1> QED BY <1>1, <1>2, <1>3, <1>4, <1>5, AssignKeepsSafe

LEMMA EvictLightestIsSafe ==
  ASSUME IInv, SInv, RangesAreOrdered, f.kind # "Phi", phase = "scan",
         NEW cur \in Unhandled, ~HasReg(cur), \A u \in Unhandled : Start(cur) <= Start(u),
         NEW it \in Iterations(cur),
         NEW mask, mask \subseteq RegMaskUnfiltered(cur),
         ~TooLight(cur, it, mask), EvictLightest(cur, it, mask)
  PROVE  SInv'
<1> DEFINE outActive(r) == {v \in it.active : RegNumTmp[v] \in Aliases(r)}
           outInactive(r) == {v \in it.overlapping : RegNumTmp[v] \in Aliases(r)}
<1>1. PICK r \in Regs : IsLightest(it, mask, r) /\ EvictAliases(cur, r, it)
  BY DEF EvictLightest
<1>2. ~it.weight[r].infinite
  <2>1. PICK q \in mask : Heavier(Weight(cur), it.weight[q])
    BY DEF TooLight
  <2>2. ~it.weight[q].infinite
    BY <2>1 DEF Heavier
  <2>3. ~Heavier(it.weight[r], it.weight[q])
    BY <1>1, <2>1 DEF IsLightest
  <2> QED BY <2>2, <2>3 DEF Heavier
<1>3. cur \in Variables /\ Trimmed[cur] = -1
  BY DEF SInv, ScanIsSafe, UnhandledIsFresh, IInv, TypesOfScan
<1>4. \A v \in outActive(r) \cup outInactive(r) : v \notin MustHaveReg
  <2>1. \A v \in it.active \cup it.overlapping : r \in Aliases(RegNumTmp[v]) => v \notin MustHaveReg
    BY <1>2, IterationFacts
  <2> QED BY <2>1, AliasesAreRegs
<1>5. Safe(cur, r, it, outActive(r) \cup outInactive(r))
  <2>1. r \notin PrecoloredFor(cur)
    BY <1>2, <1>3, IterationIsSafe
  <2>2. ASSUME NEW w \in (it.active \cup it.overlapping) \ (outActive(r) \cup outInactive(r)),
               r \in Aliases(RegNumTmp[w])
        PROVE  FALSE
    <3>1. RegNumTmp[w] \notin Aliases(r)
      BY <2>2
    <3>2. w \in Active \cup Inactive
      BY ExpirySets, IterationFacts
    <3>3. RegNumTmp[w] \in Regs
      BY <3>2 DEF SInv, ScanIsSafe, ActiveHaveRegisters, HasRegTmp, IInv, TypesOfScan
    <3> QED BY <2>2, <3>1, <3>3, AliasesAreRegs
  <2> QED BY <2>1, <2>2 DEF Safe
<1>6. r \in RegMaskUnfiltered(cur)
  BY <1>1 DEF IsLightest
<1>7. Assign(cur, r, it, outActive(r), outInactive(r))
  BY <1>1 DEF EvictAliases
<1>8. outActive(r) \subseteq it.active /\ outInactive(r) \subseteq it.overlapping
  OBVIOUS
<1> HIDE DEF outActive, outInactive
<1> QED BY <1>4, <1>5, <1>6, <1>7, <1>8, AssignKeepsSafe

LEMMA ConsiderIsSafe ==
  ASSUME IInv, SInv, RangesAreOrdered, f.kind # "Phi", NEW cur, Consider(cur)
  PROVE  SInv'
<1>1. CASE AllocatePrecolored(cur) \/ AllocatePreferred(cur) \/ AllocateFree(cur) \/ AllocateReserve(cur)
  BY <1>1, AllocatePrecoloredIsSafe, AllocatePreferredIsSafe, AllocateFreeIsSafe,
    AllocateReserveIsSafe
<1>2. CASE Evict(cur)
  <2>1. /\ phase = "scan" /\ cur \in Unhandled /\ ~HasReg(cur)
        /\ \A u \in Unhandled : Start(cur) <= Start(u)
    BY <1>2, NextIsFresh DEF Evict
  <2>2. PICK it \in Iterations(cur) :
          \/ ~TooLight(cur, it, RegMask(cur)) /\ EvictLightest(cur, it, RegMask(cur))
          \/ ~TooLight(cur, it, RegMaskUnfiltered(cur)) /\ EvictLightest(cur, it, RegMaskUnfiltered(cur))
    BY <1>2 DEF Evict
  <2> QED BY <2>1, <2>2, EvictLightestIsSafe, MasksAreRegs
<1>3. CASE Spill(cur) \/ Fail(cur)
  <2>1. /\ phase = "scan" /\ cur \in Unhandled /\ ~HasReg(cur)
        /\ \A u \in Unhandled : Start(cur) <= Start(u)
    BY <1>3, NextIsFresh DEF Spill, Fail
  <2>2. /\ \E it \in Iterations(cur) : LeaveWithout(cur, it)
        /\ RegNumTmp' = RegNumTmp
    BY <1>3 DEF Spill, Fail
  <2> QED BY <2>1, <2>2, LeaveKeepsSafe
<1>4. CASE AddSpillFill(cur)
  <2>1. Kind = "Phi"
    BY <1>4 DEF AddSpillFill
  <2> QED BY <2>1 DEF SInv, FirstScanIsFresh
<1> QED BY <1>1, <1>2, <1>3, <1>4 DEF Consider

-----------------------------------------------------------------------------
(***************************************************************************)
(* The start of a scan: those that have a register have it from f or from  *)
(* an earlier scan, without harm.                                          *)
(***************************************************************************)
LEMMA StartIsSafe ==
  ASSUME IInv, SInv, f.kind # "Phi", NEW unhandled \in SUBSET Variables, StartScan(unhandled),
         OverlapsAreHarmless',
         \A v \in Variables : HasReg(v) /\ LiveRange'[v] # <<>> => v \in unhandled,
         \A v \in unhandled : ~HasReg(v) => ~HasRegTmp(v) /\ LiveRange'[v] # <<>>
  PROVE  SInv'
<1>1. /\ f' = f /\ phase' = "scan" /\ Kind' = Kind /\ Deleted' = Deleted
      /\ Unhandled' = unhandled /\ Active' = {} /\ Inactive' = {} /\ Handled' = {} /\ Evicted' = {}
      /\ Trimmed' = [v \in Variables |-> IF v \in unhandled THEN -1 ELSE Trimmed[v]]
      /\ RegNum' = RegNum
      /\ RegNumTmp' = [v \in Variables |-> IF v \in unhandled /\ HasReg(v) THEN RegNum[v] ELSE RegNumTmp[v]]
  BY DEF StartScan
<1>2. FirstScanIsFresh' /\ EvictedHaveLost'
  BY <1>1 DEF SInv, FirstScanIsFresh, EvictedHaveLost
<1>3. Considered' = {}
  BY <1>1 DEF Considered
<1>4. /\ NobodyIsMissed' /\ TrimmedToThePast' /\ ConsideredHaveRanges'
      /\ HandledEndBefore' /\ ActiveHaveRegisters'
  BY <1>1, <1>3 DEF NobodyIsMissed, TrimmedToThePast, ConsideredHaveRanges, HandledEndBefore,
                    ActiveHaveRegisters, HasReg
<1>5. UnhandledIsFresh'
  BY <1>1 DEF UnhandledIsFresh, HasReg, HasRegTmp
<1>6. \A v \in Holders' : v \in Variables /\ RegNum'[v] # NoReg /\ RegNumTmp'[v] = RegNum'[v]
  BY <1>1, <1>3 DEF Holders, HasReg, HasRegTmp
<1>7. HoldersApart'
  <2> SUFFICES ASSUME NEW v \in Holders', NEW w \in Holders', v # w,
                      RegNumTmp'[v] \in Aliases(RegNumTmp'[w]), Overlap(v, w)'
               PROVE  MayAlias(v, w)'
    BY DEF HoldersApart
  <2>1. v \in Variables /\ w \in Variables /\ Alias(v, w)'
    BY <1>6 DEF Alias, HasReg
  <2> QED BY <2>1 DEF OverlapsAreHarmless, Overlap
<1> QED BY <1>1, <1>2, <1>4, <1>5, <1>7 DEF SInv, ScanIsSafe

(***************************************************************************)
(* As long as only f has given registers, both are pre-colored.            *)
(***************************************************************************)
LEMMA PrecoloredAreHarmless ==
  ASSUME f' = f, RegNum' = f.reg
  PROVE  OverlapsAreHarmless'
BY DEF OverlapsAreHarmless, Alias, HasReg, MayAlias

LEMMA InitForGlobalIsSafe ==
  ASSUME IInv, SInv, f.kind # "Phi", InitForGlobal
  PROVE  SInv'
<1> DEFINE unhandled == {v \in Variables \ f.mustNot : LiveRange[v] # <<>>}
<1>1. StartScan(unhandled) /\ LiveRange' = LiveRange /\ Kind # "SecondChance" /\ phase = "init"
  BY DEF InitForGlobal, StartScan
<1>2. RegNum = f.reg /\ RegNumTmp = [v \in Variables |-> NoReg]
  BY <1>1 DEF SInv, FirstScanIsFresh
<1>3. OverlapsAreHarmless'
  <2>1. f' = f /\ RegNum' = f.reg
    BY <1>1, <1>2 DEF StartScan
  <2> QED BY <2>1, PrecoloredAreHarmless
<1>4. \A v \in Variables : HasReg(v) /\ LiveRange'[v] # <<>> => v \in unhandled
  BY <1>1, <1>2, RequirementsOfF DEF HasReg, Requirements, IInv
<1>5. \A v \in unhandled : ~HasReg(v) => ~HasRegTmp(v) /\ LiveRange'[v] # <<>>
  BY <1>1, <1>2 DEF HasRegTmp
<1>6. unhandled \in SUBSET Variables
  OBVIOUS
<1> HIDE DEF unhandled
<1> QED BY <1>1, <1>3, <1>4, <1>5, <1>6, StartIsSafe

LEMMA InitForSecondChanceIsSafe ==
  ASSUME IInv, SInv, f.kind # "Phi", InitForSecondChance
  PROVE  SInv'
<1> DEFINE unhandled == {v \in Variables : HasReg(v)} \cup Evicted
<1>1. StartScan(unhandled) /\ LiveRange' = LiveRange
  BY DEF InitForSecondChance
<1>2. OverlapsAreHarmless'
  <2>1. f' = f /\ Deleted' = Deleted /\ RegNum' = RegNum
    BY <1>1 DEF StartScan
  <2>2. \A v, w : MayAlias(v, w)' <=> MayAlias(v, w)
    BY <1>1, <2>1, FunctionStays
  <2>3. \A v, w : Alias(v, w)' <=> Alias(v, w)
    BY <2>1 DEF Alias, HasReg
  <2> QED BY <1>1, <2>2, <2>3 DEF SInv, OverlapsAreHarmless
<1>3. \A v \in Variables : HasReg(v) /\ LiveRange'[v] # <<>> => v \in unhandled
  OBVIOUS
<1>4. \A v \in unhandled : ~HasReg(v) => ~HasRegTmp(v) /\ LiveRange'[v] # <<>>
  BY <1>1 DEF SInv, EvictedHaveLost
<1>5. unhandled \in SUBSET Variables
  BY DEF IInv, TypesOfScan
<1> HIDE DEF unhandled
<1> QED BY <1>1, <1>2, <1>3, <1>4, <1>5, StartIsSafe

(***************************************************************************)
(* Steps before the first scan.                                            *)
(***************************************************************************)
LEMMA BeforeScanIsSafe ==
  ASSUME SInv, f.kind # "Phi", Kind # "SecondChance", f' = f,
         phase \in {"liveness", "init"}, phase' \in {"liveness", "init", "fatal"},
         UNCHANGED <<Kind, Evicted, RegNum, RegNumTmp>>
  PROVE  SInv'
<1>1. Kind = f.kind /\ RegNum = f.reg /\ RegNumTmp = [v \in Variables |-> NoReg] /\ Evicted = {}
  BY DEF SInv, FirstScanIsFresh
<1>2. OverlapsAreHarmless'
  BY <1>1, PrecoloredAreHarmless
<1> QED BY <1>1, <1>2 DEF SInv, FirstScanIsFresh, EvictedHaveLost

LEMMA InitForInfOnlyIsSafe ==
  ASSUME IInv, SInv, f.kind # "Phi", InitForInfOnly
  PROVE  SInv'
<1>1. CASE LivenessError
  <2>1. /\ f' = f /\ phase' = "fatal" /\ phase = "init" /\ Kind # "SecondChance"
        /\ UNCHANGED <<Kind, Evicted, RegNum, RegNumTmp>>
    BY <1>1 DEF InitForInfOnly
  <2> QED BY <2>1, BeforeScanIsSafe
<1>2. CASE ~LivenessError
  <2>1. /\ StartScan(Tracked) /\ Kind # "SecondChance" /\ phase = "init"
        /\ LiveRange' = [v \in Variables |-> IF v \in Tracked THEN SimpleRange(v) ELSE <<>>]
    BY <1>2 DEF InitForInfOnly, StartScan
  <2>2. RegNum = f.reg /\ RegNumTmp = [v \in Variables |-> NoReg]
    BY <2>1 DEF SInv, FirstScanIsFresh
  <2>3. OverlapsAreHarmless'
    <3>1. f' = f /\ RegNum' = f.reg
      BY <2>1, <2>2 DEF StartScan
    <3> QED BY <3>1, PrecoloredAreHarmless
  <2>4. Tracked \in SUBSET Variables
    BY DEF Tracked
  <2>5. \A v \in Variables : HasReg(v) /\ LiveRange'[v] # <<>> => v \in Tracked
    BY <2>1
  <2>6. \A v \in Tracked : LiveRange'[v] # <<>>
    <3>1. \A v : SimpleRange(v) # <<>>
      BY DEF SimpleRange
    <3> QED BY <2>1, <2>4, <3>1
  <2>7. \A v \in Tracked : ~HasRegTmp(v)
    BY <2>2, <2>4 DEF HasRegTmp
  <2> QED BY <2>1, <2>3, <2>4, <2>5, <2>6, <2>7, StartIsSafe
<1> QED BY <1>1, <1>2

(***************************************************************************)
(* The end of a scan: nobody with a range and a register was left out.     *)
(***************************************************************************)
LEMMA EndScanIsSafe ==
  ASSUME IInv, SInv, f.kind # "Phi", EndScan
  PROVE  SInv'
<1>1. /\ phase = "scan" /\ Unhandled = {} /\ phase' # "scan" /\ Kind' = "SecondChance"
      /\ RegNum' = [v \in Variables |-> IF v \in Considered THEN RegNumTmp[v] ELSE RegNum[v]]
      /\ UNCHANGED <<f, LiveRange, Deleted, Evicted, RegNumTmp>>
  BY DEF EndScan, Considered
<1>2. ScanIsSafe
  BY <1>1 DEF SInv
<1>3. FirstScanIsFresh' /\ EvictedHaveLost'
  BY <1>1 DEF SInv, FirstScanIsFresh, EvictedHaveLost, HasRegTmp
<1>4. ASSUME NEW v \in Variables, RegNum'[v] # NoReg, LiveRange[v] # <<>>
      PROVE  v \in Holders /\ RegNum'[v] = RegNumTmp[v]
  <2>1. v \in Considered
    BY <1>1, <1>2, <1>4 DEF ScanIsSafe, NobodyIsMissed, HasReg
  <2> QED BY <1>1, <1>4, <2>1 DEF Holders, HasRegTmp
<1>5. OverlapsAreHarmless'
  <2> SUFFICES ASSUME NEW v \in Variables, NEW w \in Variables, v # w,
                      Alias(v, w)', Live!Overlaps(LiveRange[v], LiveRange[w])
               PROVE  MayAlias(v, w)
    <3>1. \A v, w : MayAlias(v, w)' <=> MayAlias(v, w)
      BY <1>1, FunctionStays
    <3> QED BY <1>1, <3>1 DEF OverlapsAreHarmless
  <2>1. DOMAIN LiveRange[v] # {} /\ DOMAIN LiveRange[w] # {}
    BY DEF Live!Overlaps
  <2>2. LiveRange[v] # <<>> /\ LiveRange[w] # <<>>
    BY <2>1
  <2>3. /\ v \in Holders /\ RegNum'[v] = RegNumTmp[v]
        /\ w \in Holders /\ RegNum'[w] = RegNumTmp[w]
    BY <1>4, <2>2 DEF Alias, HasReg
  <2>4. RegNumTmp[v] \in Aliases(RegNumTmp[w]) /\ Overlap(v, w)
    BY <2>3 DEF Alias, Overlap
  <2> QED BY <1>2, <2>3, <2>4 DEF ScanIsSafe, HoldersApart
<1> QED BY <1>1, <1>3, <1>5 DEF SInv

LEMMA SInitHolds == Init => SInv
<1> SUFFICES ASSUME Init PROVE SInv
  OBVIOUS
<1>1. /\ phase \in {"liveness", "init"} /\ Kind = f.kind /\ Evicted = {}
      /\ RegNum = f.reg /\ RegNumTmp = [v \in Variables |-> NoReg]
  BY DEF Init
<1>2. OverlapsAreHarmless
  BY <1>1 DEF OverlapsAreHarmless, Alias, HasReg, MayAlias
<1> QED BY <1>1, <1>2 DEF SInv, FirstScanIsFresh, EvictedHaveLost

LEMMA UnchangedIsSafe ==
  ASSUME SInv, UNCHANGED <<f, LiveRange, Deleted, scan>>
  PROVE  SInv'
<1>1. UNCHANGED <<f, LiveRange, Deleted, phase, Kind, Unhandled, Active, Inactive, Handled, Evicted,
                  Trimmed, RegNum, RegNumTmp>>
  BY DEF scan
<1>2. CASE f.kind # "Phi"
  <2>1. FirstScanIsFresh' /\ EvictedHaveLost'
    BY <1>1, <1>2 DEF SInv, FirstScanIsFresh, EvictedHaveLost, HasRegTmp
  <2>2. \A v, w : /\ Start(v)' = Start(v)
                  /\ RangeEndsBefore(v, w)' = RangeEndsBefore(v, w)
                  /\ Overlap(v, w)' = Overlap(v, w) /\ MayAlias(v, w)' = MayAlias(v, w)
    BY <1>1, FunctionStays
  <2>3. OverlapsAreHarmless'
    <3>1. \A v, w : Alias(v, w)' <=> Alias(v, w)
      BY <1>1 DEF Alias, HasReg
    <3> QED BY <1>1, <1>2, <2>2, <3>1 DEF SInv, OverlapsAreHarmless
  <2>4. ASSUME phase = "scan" PROVE ScanIsSafe'
    <3>1. ScanIsSafe
      BY <1>2, <2>4 DEF SInv
    <3>2. Considered' = Considered /\ Holders' = Holders
      BY <1>1 DEF Considered, Holders, HasReg, HasRegTmp
    <3>3. NobodyIsMissed' /\ UnhandledIsFresh' /\ ConsideredHaveRanges' /\ ActiveHaveRegisters'
      BY <1>1, <3>1, <3>2 DEF ScanIsSafe, NobodyIsMissed, UnhandledIsFresh, ConsideredHaveRanges,
                             ActiveHaveRegisters, HasReg, HasRegTmp
    <3>4. TrimmedToThePast' /\ HandledEndBefore'
      BY <1>1, <2>2, <3>1 DEF ScanIsSafe, TrimmedToThePast, HandledEndBefore, HasRegTmp
    <3>5. HoldersApart'
      BY <1>1, <2>2, <3>1, <3>2 DEF ScanIsSafe, HoldersApart
    <3> QED BY <3>3, <3>4, <3>5 DEF ScanIsSafe
  <2> QED BY <1>1, <2>1, <2>3, <2>4 DEF SInv
<1> QED BY <1>1, <1>2 DEF SInv

LEMMA SStepHolds == IInv /\ SInv /\ RangesAreOrdered /\ [Next]_vars => SInv'
<1> SUFFICES ASSUME IInv, SInv, RangesAreOrdered, [Next]_vars PROVE SInv'
  OBVIOUS
<1>1. f' = f
  <2>1. CASE Analyse
    BY <2>1 DEF Analyse, Live!Step, Live!Visit, Live!Converge, Live!FinalPass
  <2>2. CASE UseRanges \/ Enter \/ Execute \/ Terminated \/ UNCHANGED vars
    BY <2>2 DEF UseRanges, Enter, Execute, Terminated, vars
  <2>3. CASE \E s \in 1 .. f.nodes : TakeEdge(s)
    BY <2>3 DEF TakeEdge
  <2>4. CASE InitForGlobal \/ InitForSecondChance \/ InitForInfOnly \/ EndScan
    BY <2>4 DEF InitForGlobal, InitForSecondChance, InitForInfOnly, StartScan, EndScan
  <2>5. ASSUME NEW cur, Consider(cur) PROVE f' = f
    BY <2>5 DEF Consider, AllocatePrecolored, AllocatePreferred, AllocateFree, Spill, Evict,
         AllocateReserve, Fail, AddSpillFill, EvictLightest, EvictAliases, Assign, LeaveWithout, Expire
  <2> QED BY <2>1, <2>2, <2>3, <2>4, <2>5 DEF Next, Allocate, RegAlloc
<1>2. CASE f.kind = "Phi"
  BY <1>1, <1>2 DEF SInv
<1>3. CASE f.kind # "Phi"
  <2>1. CASE Analyse \/ UseRanges
    <3>1. phase = "liveness" /\ phase' \in {"liveness", "init"}
          /\ UNCHANGED <<Kind, Evicted, RegNum, RegNumTmp>>
      BY <2>1 DEF Analyse, UseRanges, scan
    <3>2. Kind # "SecondChance"
      BY <3>1 DEF IInv, MustIsKept
    <3> QED BY <1>1, <1>3, <3>1, <3>2, BeforeScanIsSafe
  <2>2. CASE Allocate
    BY <1>3, <2>2, InitForGlobalIsSafe, InitForSecondChanceIsSafe, InitForInfOnlyIsSafe,
       ConsiderIsSafe, EndScanIsSafe DEF Allocate, RegAlloc
  <2>3. CASE Enter \/ Execute \/ Terminated \/ UNCHANGED vars
    BY <2>3, UnchangedIsSafe DEF Enter, Execute, Terminated, vars
  <2>4. CASE \E s \in 1 .. f.nodes : TakeEdge(s)
    BY <2>4, UnchangedIsSafe DEF TakeEdge
  <2> QED BY <2>1, <2>2, <2>3, <2>4 DEF Next
<1> QED BY <1>2, <1>3

-----------------------------------------------------------------------------
(***************************************************************************)
(* Live ranges are ordered: as long as they are those of the analysis, by  *)
(* its invariant, and then because a part of a range, and a range from the *)
(* first definition to the last use, are.                                  *)
(***************************************************************************)
LEMMA FunctionIsFunction ==
  ASSUME IInv
  PROVE  /\ Requirements(f) /\ LP!IsFunction(f)
         /\ DOMAIN f.code = 1 .. Len(f.code) /\ Len(f.code) \in Nat
         /\ Kept \subseteq 1 .. Len(f.code)
<1>1. Requirements(f) /\ Live!IsFunction(f)
  BY RequirementsOfF DEF IInv, Requirements
<1>2. f.code \in Seq({f.code[i] : i \in DOMAIN f.code})
  BY <1>1 DEF Live!IsFunction
<1> QED BY <1>1, <1>2, SameAnalysis DEF Kept

LiveInv ==
  /\ RangesAreOrdered
  /\ phase = "liveness" \/ f.kind = "Global" => LP!IInv
  /\ f.kind = "Global" /\ phase # "liveness" => pc = "done"

LEMMA OrderedAsThere == RangesAreOrdered <=> LP!RangesAreOrdered
BY SameAnalysis DEF RangesAreOrdered, LP!RangesAreOrdered

LEMMA OrderedRange ==
  ASSUME NEW range, LP!IsOrdered(range)
  PROVE  /\ range \in Seq(Nat \X Nat) /\ Len(range) \in Nat /\ DOMAIN range = 1 .. Len(range)
         /\ \A k \in DOMAIN range : range[k][1] \in Nat /\ range[k][2] \in Nat
         /\ \A k \in DOMAIN range : range[k][1] <= range[k][2]
         /\ \A k, m \in DOMAIN range : k < m => range[k][2] <= range[m][1]
<1>1. /\ range \in Seq(Nat \X Nat)
      /\ \A k \in DOMAIN range : range[k][1] <= range[k][2]
      /\ \A k, m \in DOMAIN range : k < m => range[k][2] <= range[m][1]
  BY DEF LP!IsOrdered
<1>2. Len(range) \in Nat /\ DOMAIN range = 1 .. Len(range)
  BY <1>1
<1>3. \A k \in DOMAIN range : range[k] \in Nat \X Nat
  BY <1>1
<1>4. \A k \in DOMAIN range : range[k][1] \in Nat /\ range[k][2] \in Nat
  BY <1>3
<1> QED BY <1>1, <1>2, <1>4

LEMMA MaxIsIn ==
  ASSUME NEW k \in Nat, NEW S \in SUBSET (1 .. k), S # {}
  PROVE  Max(S) \in S /\ \A j \in S : j <= Max(S)
<1>1. LP!LastOf(S) \in S /\ \A j \in S : j <= LP!LastOf(S)
  BY LP!LastIsLast, AssumptionsHold
<1>2. PICK i \in S : \A j \in S : i >= j
  BY <1>1
<1> QED BY <1>2 DEF Max

(***************************************************************************)
(* A set of numbers that has with each all smaller ones.                   *)
(***************************************************************************)
LEMMA PrefixIsInterval ==
  ASSUME NEW k \in Nat, NEW S \in SUBSET (1 .. k),
         \A i \in 1 .. k, j \in S : i <= j => i \in S
  PROVE  Cardinality(S) \in 0 .. k /\ S = 1 .. Cardinality(S)
<1>1. CASE S = {}
  <2>1. Cardinality(S) = 0
    BY <1>1, FS_EmptySet
  <2> QED BY <1>1, <2>1
<1>2. CASE S # {}
  <2>1. PICK m \in S : \A j \in S : j <= m
    BY <1>2, MaxIsIn
  <2>2. m \in 1 .. k /\ S = 1 .. m
    <3>1. m \in 1 .. k /\ \A i \in S : i \in 1 .. m
      BY <2>1
    <3>2. \A i \in 1 .. m : i \in 1 .. k /\ i <= m
      BY <3>1
    <3>3. \A i \in 1 .. m : i \in S
      BY <2>1, <3>2
    <3> QED BY <3>1, <3>3
  <2>3. Cardinality(1 .. m) = m
    BY <2>2, FS_Interval
  <2> QED BY <2>2, <2>3
<1> QED BY <1>1, <1>2

(***************************************************************************)
(* What is left of a range in the new node is ordered.                     *)
(***************************************************************************)
LEMMA InNewNodeIsOrdered ==
  ASSUME NEW range, LP!IsOrdered(range), LastNum \in Nat
  PROVE  LP!IsOrdered(InNewNode(range))
<1> DEFINE here == {m \in DOMAIN range : range[m][1] <= LastNum}
           c == Cardinality(here)
           new == InNewNode(range)
<1>1. /\ Len(range) \in Nat /\ DOMAIN range = 1 .. Len(range)
      /\ \A k \in DOMAIN range : range[k][1] \in Nat /\ range[k][2] \in Nat
      /\ \A k \in DOMAIN range : range[k][1] <= range[k][2]
      /\ \A k, m \in DOMAIN range : k < m => range[k][2] <= range[m][1]
  BY OrderedRange
<1>2. ASSUME NEW i \in DOMAIN range, NEW j \in here, i <= j PROVE i \in here
  <2>1. CASE i = j
    BY <2>1
  <2>2. CASE i # j
    <3>1. j \in DOMAIN range /\ i < j /\ range[j][1] <= LastNum
      BY <1>1, <1>2, <2>2
    <3>2. range[i][1] <= range[i][2] /\ range[i][2] <= range[j][1]
      BY <1>1, <3>1
    <3>3. range[i][1] <= LastNum
      BY <1>1, <3>1, <3>2
    <3> QED BY <3>3
  <2> QED BY <2>1, <2>2
<1>3. c \in 0 .. Len(range) /\ here = 1 .. c
  <2>1. here \in SUBSET (1 .. Len(range))
    BY <1>1
  <2> HIDE DEF here
  <2> QED BY <1>1, <1>2, <2>1, PrefixIsInterval
<1>4. \A k \in 1 .. c : k \in DOMAIN range /\ range[k][1] <= LastNum
  BY <1>3
<1>5. new = [k \in 1 .. c |-> <<range[k][1], IF range[k][2] <= LastNum THEN range[k][2] ELSE LastNum + 1>>]
  BY DEF InNewNode
<1> HIDE DEF here, c, new
<1>6. c \in Nat
  BY <1>3
<1>7. DOMAIN new = 1 .. c
  BY <1>5
<1>8. \A k \in 1 .. c :
        /\ new[k] = <<range[k][1], IF range[k][2] <= LastNum THEN range[k][2] ELSE LastNum + 1>>
        /\ new[k] \in Nat \X Nat
        /\ new[k][1] = range[k][1]
        /\ new[k][2] = IF range[k][2] <= LastNum THEN range[k][2] ELSE LastNum + 1
  BY <1>1, <1>4, <1>5
<1>9. new \in Seq(Nat \X Nat)
  <2> DEFINE S == Nat \X Nat
  <2>1. \A k \in 1 .. c : new[k] \in S
    BY <1>8
  <2>2. new = [k \in 1 .. c |-> new[k]]
    BY <1>5, <1>7
  <2> HIDE DEF S
  <2>3. new \in [1 .. c -> S]
    BY <2>1, <2>2
  <2>4. new \in Seq(S)
    BY <1>6, <2>3
  <2> QED BY <2>4 DEF S
<1>10. \A k \in DOMAIN new : new[k][1] <= new[k][2]
  <2> TAKE k \in DOMAIN new
  <2>1. k \in DOMAIN range /\ range[k][1] <= LastNum /\ range[k][1] <= range[k][2]
        /\ range[k][1] \in Nat
    BY <1>1, <1>4, <1>7
  <2> QED BY <1>7, <1>8, <2>1
<1>11. ASSUME NEW k \in DOMAIN new, NEW m \in DOMAIN new, k < m PROVE new[k][2] <= new[m][1]
  <2>1. k \in DOMAIN range /\ m \in DOMAIN range
    BY <1>4, <1>7
  <2>2. range[k][2] \in Nat /\ range[m][1] \in Nat /\ range[k][2] <= range[m][1]
    BY <1>1, <1>11, <2>1
  <2>3. new[m][1] = range[m][1] /\ new[k][2] = IF range[k][2] <= LastNum THEN range[k][2] ELSE LastNum + 1
    BY <1>7, <1>8
  <2>4. CASE range[k][2] <= LastNum
    BY <2>2, <2>3, <2>4
  <2>5. CASE ~(range[k][2] <= LastNum)
    <3>1. LastNum + 1 <= range[k][2]
      BY <2>2, <2>5
    <3> QED BY <2>2, <2>3, <2>5, <3>1
  <2> QED BY <2>4, <2>5
<1>12. LP!IsOrdered(new)
  BY <1>9, <1>10, <1>11 DEF LP!IsOrdered
<1> QED BY <1>12 DEF new

LEMMA EmptyIsOrdered == LP!IsOrdered(<<>>)
<1>1. <<>> \in Seq(Nat \X Nat) /\ DOMAIN <<>> = {}
  OBVIOUS
<1> QED BY <1>1 DEF LP!IsOrdered

LEMMA LastNumIsNumber == ASSUME IInv PROVE LastNum \in Nat
<1>1. LP!IsFunction(f) /\ Len(f.code) \in Nat /\ DOMAIN f.code = 1 .. Len(f.code)
  BY FunctionIsFunction
<1>2. 1 \in 1 .. f.nodes
  BY <1>1 DEF LP!IsFunction
<1>3. PICK i \in DOMAIN f.code : f.code[i].node = 1
  BY <1>1, <1>2 DEF LP!IsFunction
<1>4. i \in Live!CodeOf(1) /\ Live!CodeOf(1) \in SUBSET (1 .. Len(f.code))
  BY <1>1, <1>3 DEF Live!CodeOf, Live!Code
<1>5. Max(Live!CodeOf(1)) \in Live!CodeOf(1)
  BY <1>1, <1>4, MaxIsIn
<1>6. Max(Live!CodeOf(1)) \in Nat
  BY <1>4, <1>5
<1> QED BY <1>6 DEF LastNum, Num

(***************************************************************************)
(* A range from the first definition to the last use.                      *)
(***************************************************************************)
LEMMA SimpleRangeIsOrdered ==
  ASSUME IInv, ~LivenessError, NEW v \in Tracked
  PROVE  LP!IsOrdered(SimpleRange(v))
<1>1. Uses(v) # {} /\ ~(Min(Uses(v)) <= Min(Defs(v))) /\ Defs(v) # {}
  BY DEF LivenessError, Tracked
<1>2. Len(f.code) \in Nat /\ Uses(v) \in SUBSET (1 .. Len(f.code)) /\ Defs(v) \in SUBSET (1 .. Len(f.code))
  BY FunctionIsFunction DEF Uses, Defs
<1>3. Uses(v) \in SUBSET Nat /\ Defs(v) \in SUBSET Nat
  BY <1>2
<1>4. Min(Uses(v)) \in Uses(v) /\ Min(Defs(v)) \in Defs(v)
  BY <1>1, <1>3, MinIsIn
<1>5. Max(Uses(v)) \in Uses(v) /\ Min(Uses(v)) <= Max(Uses(v))
  BY <1>1, <1>2, <1>4, MaxIsIn
<1> DEFINE from == Min(Defs(v))
           to == Max(Uses(v))
<1>6. from \in Nat /\ to \in Nat /\ from < to
  <2> DEFINE use == Min(Uses(v))
  <2>1. from \in Nat /\ to \in Nat /\ use \in Nat /\ ~(use <= from) /\ use <= to
    BY <1>1, <1>3, <1>4, <1>5
  <2> HIDE DEF from, to, use
  <2> QED BY <2>1
<1> HIDE DEF from, to
<1>7. SimpleRange(v) = <<<<from + 1, to + 1>>>>
  BY DEF SimpleRange, Num, from, to
<1>8. <<<<from + 1, to + 1>>>> \in Seq(Nat \X Nat)
  <2>1. <<from + 1, to + 1>> \in Nat \X Nat
    BY <1>6
  <2> QED BY <2>1
<1>9. DOMAIN <<<<from + 1, to + 1>>>> = {1} /\ <<<<from + 1, to + 1>>>>[1] = <<from + 1, to + 1>>
  OBVIOUS
<1> QED BY <1>6, <1>7, <1>8, <1>9 DEF LP!IsOrdered

-----------------------------------------------------------------------------
(***************************************************************************)
(* The invariant holds in every state.                                     *)
(***************************************************************************)
LEMMA LiveInitHolds == Init => LiveInv
<1> SUFFICES ASSUME Init PROVE LiveInv
  OBVIOUS
<1>1. Live!Init /\ LP!Init /\ f \in Functions
  BY SameAnalysis DEF Init, Live!Init
<1>2. LP!IsFunction(f)
  BY <1>1, AssumptionsHold
<1>3. LP!IInv
  BY <1>1, <1>2, AssumptionsHold, LP!InitHolds
<1>4. RangesAreOrdered
  BY <1>3, OrderedAsThere DEF LP!IInv, LP!RangesGrow
<1>5. f.kind = "Global" => phase = "liveness"
  BY DEF Init
<1> QED BY <1>3, <1>4, <1>5 DEF LiveInv

LEMMA LiveStays ==
  ASSUME LiveInv, UNCHANGED <<f, LiveRange, Deleted, analysis>>,
         phase' = "liveness" => phase = "liveness",
         phase # "liveness" \/ phase' = phase \/ pc = "done"
  PROVE  LiveInv'
<1>1. UNCHANGED LP!vars /\ pc' = pc
  BY DEF analysis, LP!vars
<1>2. RangesAreOrdered'
  BY DEF LiveInv, RangesAreOrdered, Live!IsOrdered
<1>3. LP!IInv => LP!IInv'
  BY <1>1, AssumptionsHold, LP!StutterKeepsIInv
<1> QED BY <1>1, <1>2, <1>3 DEF LiveInv

LEMMA UseRangesKeepsLive == ASSUME IInv, LiveInv, UseRanges PROVE LiveInv'
<1>1. /\ phase = "liveness" /\ phase' = "init" /\ pc = "done"
      /\ UNCHANGED <<f, Deleted, analysis>>
  BY DEF UseRanges
<1>2. CASE f.kind # "Phi"
  <2>1. LiveRange' = LiveRange
    BY <1>2 DEF UseRanges
  <2> QED BY <1>1, <2>1, LiveStays
<1>3. CASE f.kind = "Phi"
  <2>1. LiveRange' = [v \in Variables |-> IF HasReg(v) \/ v \in f.must
                                          THEN InNewNode(LiveRange[v]) ELSE <<>>]
    BY <1>3 DEF UseRanges
  <2>2. ASSUME NEW v \in Variables PROVE LP!IsOrdered(LiveRange'[v])
    <3>1. LP!IsOrdered(LiveRange[v])
      BY SameAnalysis DEF LiveInv, RangesAreOrdered
    <3>2. LP!IsOrdered(InNewNode(LiveRange[v])) /\ LP!IsOrdered(<<>>)
      BY <3>1, LastNumIsNumber, InNewNodeIsOrdered, EmptyIsOrdered
    <3> QED BY <2>1, <3>2
  <2>3. RangesAreOrdered'
    BY <2>2, SameAnalysis DEF RangesAreOrdered
  <2> QED BY <1>1, <1>3, <2>3 DEF LiveInv
<1> QED BY <1>2, <1>3

LEMMA InitForInfOnlyKeepsLive ==
  ASSUME IInv, SInv, LiveInv, InitForInfOnly, UNCHANGED analysis
  PROVE  LiveInv'
<1>1. /\ phase = "init" /\ phase' \in {"scan", "fatal"}
      /\ Kind = "InfOnly" /\ UNCHANGED <<f, Deleted>>
  BY DEF InitForInfOnly, StartScan
<1>2. f.kind # "Global"
  BY <1>1 DEF SInv, FirstScanIsFresh
<1>3. CASE LivenessError
  <2>1. LiveRange' = LiveRange
    BY <1>3 DEF InitForInfOnly
  <2> QED BY <1>1, <2>1, LiveStays
<1>4. CASE ~LivenessError
  <2>1. LiveRange' = [v \in Variables |-> IF v \in Tracked THEN SimpleRange(v) ELSE <<>>]
    BY <1>4 DEF InitForInfOnly
  <2>2. ASSUME NEW v \in Variables PROVE LP!IsOrdered(LiveRange'[v])
    <3>1. v \in Tracked => LP!IsOrdered(SimpleRange(v))
      BY <1>4, SimpleRangeIsOrdered
    <3> QED BY <2>1, <3>1, EmptyIsOrdered
  <2>3. RangesAreOrdered'
    BY <2>2, SameAnalysis DEF RangesAreOrdered
  <2> QED BY <1>1, <1>2, <2>3 DEF LiveInv
<1> QED BY <1>3, <1>4

LEMMA LiveStepHolds == IInv /\ SInv /\ LiveInv /\ [Next]_vars => LiveInv'
<1> SUFFICES ASSUME IInv, SInv, LiveInv, [Next]_vars PROVE LiveInv'
  OBVIOUS
<1>1. CASE Analyse
  <2>1. phase = "liveness" /\ phase' = phase /\ LP!Step
    BY <1>1, SameAnalysis DEF Analyse, scan
  <2>2. LP!IInv' /\ f' = f
    BY <2>1, AssumptionsHold, LP!StepKeepsIInv DEF LiveInv
  <2>3. RangesAreOrdered'
    <3>1. LP!RangesAreOrdered'
      BY <2>2 DEF LP!IInv, LP!RangesGrow
    <3> QED BY <3>1, SameAnalysis DEF RangesAreOrdered, LP!RangesAreOrdered
  <2> QED BY <2>1, <2>2, <2>3 DEF LiveInv
<1>2. CASE UseRanges
  BY <1>2, UseRangesKeepsLive
<1>3. CASE Allocate
  <2>1. CASE InitForInfOnly
    BY <1>3, <2>1, InitForInfOnlyKeepsLive DEF Allocate
  <2>2. CASE InitForGlobal \/ InitForSecondChance \/ EndScan
    <3>1. UNCHANGED <<f, LiveRange, Deleted, analysis>> /\ phase \in {"init", "scan"} /\ phase' # "liveness"
      BY <1>3, <2>2 DEF Allocate, InitForGlobal, InitForSecondChance, StartScan, EndScan
    <3> QED BY <3>1, LiveStays
  <2>3. ASSUME NEW cur, Consider(cur) PROVE LiveInv'
    <3>1. UNCHANGED <<f, LiveRange, Deleted>> /\ phase' = phase
      BY <2>3 DEF Consider, AllocatePrecolored, AllocatePreferred, AllocateFree, Spill, Evict,
           AllocateReserve, Fail, AddSpillFill, EvictLightest, EvictAliases, Assign, LeaveWithout, Expire
    <3>2. analysis' = analysis
      BY <1>3 DEF Allocate
    <3> QED BY <3>1, <3>2, LiveStays
  <2> QED BY <1>3, <2>1, <2>2, <2>3 DEF Allocate, RegAlloc
<1>4. CASE Enter \/ Execute \/ Terminated \/ UNCHANGED vars \/ \E s \in 1 .. f.nodes : TakeEdge(s)
  <2>1. UNCHANGED <<f, LiveRange, Deleted, analysis>> /\ phase' = phase
    BY <1>4 DEF Enter, Execute, Terminated, TakeEdge, vars, scan
  <2> QED BY <2>1, LiveStays
<1> QED BY <1>1, <1>2, <1>3, <1>4 DEF Next

-----------------------------------------------------------------------------
(***************************************************************************)
(* After allocation no two phis of one node have registers that alias:     *)
(* their ranges overlap, they are no copies and not pre-colored.           *)
(***************************************************************************)
LEMMA PhisAreApart ==
  ASSUME IInv, SInv, LiveInv, phase = "run"
  PROVE  PhisCanBeLowered
<1> SUFFICES ASSUME NEW n \in 1 .. f.nodes, NEW i \in PhisOf(n), NEW j \in PhisOf(n), i # j,
                    Alias(f.code[i].dest, f.code[j].dest)
             PROVE  FALSE
  BY DEF PhisCanBeLowered
<1> DEFINE v == f.code[i].dest
           w == f.code[j].dest
           q == LP!PhiNumber(n)
<1>1. Requirements(f) /\ LP!IsFunction(f)
  BY FunctionIsFunction
<1>2. \A k \in PhisOf(n) : /\ k \in DOMAIN f.code \ Deleted /\ f.code[k].from # <<>>
                           /\ k \in LP!CodeOf(n) /\ k \in LP!Phis(n)
  BY DEF PhisOf, Live!Phis, Live!CodeOf, Live!Code, Live!IsPhi, LP!Phis, LP!CodeOf, LP!Code,
         LP!IsPhi
<1>3. /\ f.kind = "Global" /\ v # w
      /\ ~f.code[i].copy /\ f.reg[v] = NoReg
      /\ ~f.code[j].copy
  BY <1>1, <1>2 DEF Requirements
<1>4. v \in Variables /\ w \in Variables
  BY <1>1, <1>2 DEF LP!IsFunction
<1>5. LP!PhisInRange(n) /\ Dead \cap LP!CodeOf(n) \subseteq Deleted
  <2>1. LP!IInv /\ pc = "done"
    BY <1>3 DEF LiveInv
  <2> QED BY <2>1 DEF LP!IInv, LP!RangesGrow
<1>6. i \notin Dead /\ j \notin Dead
  BY <1>2, <1>5
<1>7. LP!Covers(LiveRange[v], q) /\ LP!Covers(LiveRange[w], q)
  BY <1>2, <1>5, <1>6 DEF LP!PhisInRange
<1>8. q \in Nat
  <2>1. LP!Phis(n) \subseteq LP!CodeOf(n) /\ LP!CodeOf(n) \subseteq LP!Code /\ LP!Code \subseteq Nat \ {0}
    BY <1>1, AssumptionsHold, LP!CodeIsOrdered
  <2>2. LP!FirstOf(LP!Phis(n)) \in Nat
    BY <1>2, <2>1, AssumptionsHold, LP!FirstIsFirst
  <2> QED BY <2>2 DEF LP!PhiNumber, LP!Number, LP!NumberInitial
<1>9. Live!Overlaps(LiveRange[v], LiveRange[w])
  <2>1. PICK k \in DOMAIN LiveRange[v] : LiveRange[v][k][1] <= q /\ q < LiveRange[v][k][2]
    BY <1>7 DEF LP!Covers
  <2>2. PICK m \in DOMAIN LiveRange[w] : LiveRange[w][m][1] <= q /\ q < LiveRange[w][m][2]
    BY <1>7 DEF LP!Covers
  <2>3. /\ LiveRange[v][k][1] \in Nat /\ LiveRange[v][k][2] \in Nat
        /\ LiveRange[w][m][1] \in Nat /\ LiveRange[w][m][2] \in Nat
    BY <1>4, RangeFacts DEF LiveInv
  <2> HIDE DEF v, w, q
  <2>4. LiveRange[w][m][1] < LiveRange[v][k][2] /\ LiveRange[v][k][1] < LiveRange[w][m][2]
    BY <1>8, <2>1, <2>2, <2>3
  <2> QED BY <2>4 DEF Live!Overlaps
<1>10. MayAlias(v, w)
  BY <1>3, <1>4, <1>9 DEF SInv, OverlapsAreHarmless
<1>11. ~IsCopy(v) /\ ~IsCopy(w)
  BY <1>2, <1>3 DEF IsCopy, Defs, Kept
<1> QED BY <1>3, <1>10, <1>11 DEF MayAlias, SharesAsCopy

(***************************************************************************)
(* Two variables whose ranges overlap have registers that alias only if    *)
(* that is harmless: after a linear scan, and after every second-chance    *)
(* scan as well.  The phis of one node never share a register, whatever    *)
(* the functions, registers and scans.                                     *)
(***************************************************************************)
THEOREM NoInterferenceCorrect == Spec => []NoInterference
<1> DEFINE Inv == IInv /\ SInv /\ LiveInv
<1>1. Init => Inv
  BY InitHolds, SInitHolds, LiveInitHolds
<1>2. Inv /\ [Next]_vars => Inv'
  BY StepHolds, SStepHolds, LiveStepHolds DEF LiveInv
<1>3. Inv => NoInterference
  BY PhisAreApart DEF NoInterference, SInv
<1> HIDE DEF Inv
<1> QED BY <1>1, <1>2, <1>3, PTL DEF Spec

-----------------------------------------------------------------------------
(***************************************************************************)
(* The machine's types.  What is in a cell is always a set of parts of     *)
(* variables: a place has as many cells as its variable has units, a copy  *)
(* and a phi read as many as they write, and an instruction that is not    *)
(* the last of its node is followed by another.                            *)
(***************************************************************************)
Parts == Variables \X {1, 2}
Contents == [Cells -> SUBSET Parts]
MInv ==
  /\ Trimmed \in [Variables -> Int]
  /\ \A s \in Spilled : s.reg \in Regs
  /\ leaving \in BOOLEAN
  /\ leaving => next # 0
  /\ next \in 0 .. Len(f.code)
  /\ next # 0 => phase = "run" /\ holds \in Contents

(***************************************************************************)
(* Places and their cells.                                                 *)
(***************************************************************************)
LEMMA UnitsAreCells ==
  ASSUME NEW r \in Regs
  PROVE  /\ DOMAIN Registers[r] = 1 .. Len(Registers[r])
         /\ \A k \in DOMAIN Registers[r] : Registers[r][k] \in Cells
BY RegistersAssumption DEF Cells, Units, Regs

LEMMA WidthIsOneOrTwo == ASSUME NEW v PROVE Width(v) \in {1, 2} /\ 1 .. Width(v) \subseteq {1, 2}
BY DEF Width

LEMMA PlaceHasWidth ==
  ASSUME IInv, NEW v \in Variables
  PROVE  /\ DOMAIN Place(v) = 1 .. Width(v)
         /\ \A k \in 1 .. Width(v) : Place(v)[k] \in Cells
<1>1. CASE HasReg(v)
  <2>1. RegNum[v] \in Regs /\ Len(Registers[RegNum[v]]) = Width(v)
    BY <1>1 DEF IInv, WidthsMatch, RegMaskUnfiltered
  <2>2. Place(v) = Registers[RegNum[v]]
    BY <1>1 DEF Place
  <2> QED BY <2>1, <2>2, UnitsAreCells
<1>2. CASE ~HasReg(v)
  <2>1. Place(v) = [k \in 1 .. Width(v) |-> <<v, k>>]
    BY <1>2 DEF Place
  <2>2. \A k \in 1 .. Width(v) : <<v, k>> \in Cells
    BY WidthIsOneOrTwo DEF Cells
  <2> QED BY <2>1, <2>2
<1> QED BY <1>1, <1>2

LEMMA SpillLocsAreCells ==
  ASSUME NEW s \in Spilled
  PROVE  /\ DOMAIN SpillLoc(s) = DOMAIN Registers[s.reg]
         /\ \A k \in DOMAIN Registers[s.reg] : SpillLoc(s)[k] \in Cells
<1>1. DOMAIN SpillLoc(s) = DOMAIN Registers[s.reg]
  BY DEF SpillLoc
<1>2. ASSUME NEW k \in DOMAIN SpillLoc(s) PROVE SpillLoc(s)[k] \in Cells
  <2>1. SpillLoc(s)[k] \in {SpillLoc(s)[m] : m \in DOMAIN SpillLoc(s)}
    OBVIOUS
  <2> QED BY <2>1 DEF Cells
<1> QED BY <1>1, <1>2

(***************************************************************************)
(* What the operations of the machine make of contents.                    *)
(***************************************************************************)
LEMMA MovedIsContents ==
  ASSUME NEW h \in Contents, NEW moves,
         \A m \in moves : \A k \in DOMAIN m.to : m.from[k] \in Cells
  PROVE  Moved(h, moves) \in Contents
<1> DEFINE into(c) == UNION {{m.from[k] : k \in IndexIn(m.to, c)} : m \in moves}
           new(c) == IF into(c) = {} THEN h[c]
                     ELSE {p \in UNION {h[d] : d \in into(c)} : \A d \in into(c) : p \in h[d]}
<1>1. Moved(h, moves) = [c \in Cells |-> new(c)]
  BY DEF Moved
<1>2. ASSUME NEW c \in Cells PROVE new(c) \subseteq Parts
  <2>1. into(c) \subseteq Cells
    BY DEF IndexIn
  <2>2. \A d \in into(c) : h[d] \subseteq Parts
    BY <2>1 DEF Contents
  <2>3. h[c] \subseteq Parts
    BY DEF Contents
  <2> HIDE DEF into
  <2> QED BY <2>2, <2>3
<1> HIDE DEF new
<1> QED BY <1>1, <1>2 DEF Contents

LEMMA SavesAreContents ==
  ASSUME NEW h \in Contents, NEW S \in SUBSET Spilled, \A s \in Spilled : s.reg \in Regs
  PROVE  Save(h, S) \in Contents /\ Fill(h, S) \in Contents
<1>1. Save(h, S) \in Contents
  <2> DEFINE moves == {[from |-> Registers[s.reg], to |-> SpillLoc(s)] : s \in S}
  <2>1. ASSUME NEW m \in moves, NEW k \in DOMAIN m.to PROVE m.from[k] \in Cells
    <3>1. PICK s \in S : m = [from |-> Registers[s.reg], to |-> SpillLoc(s)]
      OBVIOUS
    <3> QED BY <2>1, <3>1, SpillLocsAreCells, UnitsAreCells
  <2>2. Save(h, S) = Moved(h, moves)
    BY DEF Save
  <2> HIDE DEF moves
  <2> QED BY <2>1, <2>2, MovedIsContents
<1>2. Fill(h, S) \in Contents
  <2> DEFINE moves == {[from |-> SpillLoc(s), to |-> Registers[s.reg]] : s \in S}
  <2>1. ASSUME NEW m \in moves, NEW k \in DOMAIN m.to PROVE m.from[k] \in Cells
    <3>1. PICK s \in S : m = [from |-> SpillLoc(s), to |-> Registers[s.reg]]
      OBVIOUS
    <3> QED BY <2>1, <3>1, SpillLocsAreCells
  <2>2. Fill(h, S) = Moved(h, moves)
    BY DEF Fill
  <2> HIDE DEF moves
  <2> QED BY <2>1, <2>2, MovedIsContents
<1> QED BY <1>1, <1>2

LEMMA ForgetIsContents ==
  ASSUME NEW h \in Contents, NEW S
  PROVE  Forget(h, S) \in Contents
<1>1. \A c \in Cells : {p \in h[c] : p[1] \notin S} \subseteq Parts
  BY DEF Contents
<1> QED BY <1>1 DEF Forget, Contents

LEMMA AlikeIsContents ==
  ASSUME NEW h \in Contents, NEW v \in Variables, NEW s
  PROVE  Alike(h, v, s) \in Contents
<1> DEFINE new(c) == {p \in h[c] : p[1] # v} \cup {<<v, k>> : k \in {m \in 1 .. Width(v) : <<s, m>> \in h[c]}}
<1>1. ASSUME NEW c \in Cells PROVE new(c) \subseteq Parts
  <2>1. h[c] \subseteq Parts
    BY DEF Contents
  <2>2. \A k \in 1 .. Width(v) : <<v, k>> \in Parts
    BY WidthIsOneOrTwo DEF Parts
  <2> QED BY <2>1, <2>2
<1>2. Alike(h, v, s) = [c \in Cells |-> new(c)]
  BY DEF Alike
<1> HIDE DEF new
<1> QED BY <1>1, <1>2 DEF Contents

LEMMA StoreIsContents ==
  ASSUME NEW h \in Contents, NEW place, NEW contents,
         \A k \in DOMAIN place : contents[k] \subseteq Parts
  PROVE  Store(h, place, contents) \in Contents
<1> DEFINE new(c) == IF IndexIn(place, c) = {} THEN h[c]
                     ELSE UNION {contents[k] : k \in IndexIn(place, c)}
<1>1. ASSUME NEW c \in Cells PROVE new(c) \subseteq Parts
  BY DEF IndexIn, Contents
<1>2. Store(h, place, contents) = [c \in Cells |-> new(c)]
  BY DEF Store
<1> HIDE DEF new
<1> QED BY <1>1, <1>2 DEF Contents

LEMMA DefineIsContents ==
  ASSUME IInv, NEW h \in Contents, NEW v \in Variables, NEW contents,
         \A k \in 1 .. Width(v) : contents[k] \subseteq Parts
  PROVE  Define(h, v, contents) \in Contents
<1> DEFINE new == [k \in 1 .. Width(v) |-> contents[k] \cup {<<v, k>>}]
<1>1. DOMAIN Place(v) = 1 .. Width(v)
  BY PlaceHasWidth
<1>2. \A k \in 1 .. Width(v) : <<v, k>> \in Parts
  BY WidthIsOneOrTwo DEF Parts
<1>3. \A k \in DOMAIN Place(v) : new[k] \subseteq Parts
  BY <1>1, <1>2
<1>4. Define(h, v, contents) = Store(h, Place(v), new)
  BY DEF Define
<1> HIDE DEF new
<1> QED BY <1>3, <1>4, StoreIsContents

LEMMA LoadedParts ==
  ASSUME IInv, NEW h \in Contents, NEW v \in Variables, NEW w \in Variables,
         v \in f.wide => w \in f.wide
  PROVE  \A k \in 1 .. Width(v) : k \in 1 .. Width(w) /\ h[Place(w)[k]] \subseteq Parts
<1>1. 1 .. Width(v) \subseteq 1 .. Width(w)
  BY DEF Width
<1>2. \A k \in 1 .. Width(w) : Place(w)[k] \in Cells
  BY PlaceHasWidth
<1> QED BY <1>1, <1>2 DEF Contents

-----------------------------------------------------------------------------
(***************************************************************************)
(* The instructions of a node.                                             *)
(***************************************************************************)
LEMMA FirstInstIsCode ==
  ASSUME IInv, NEW n \in 1 .. f.nodes
  PROVE  FirstInst(n) \in 1 .. Len(f.code)
<1>1. LP!IsFunction(f) /\ DOMAIN f.code = 1 .. Len(f.code) /\ Len(f.code) \in Nat
  BY FunctionIsFunction
<1>2. PICK i \in DOMAIN f.code : f.code[i].node = n /\ f.code[i].from = <<>>
  BY <1>1 DEF LP!IsFunction
<1>3. Live!Insts(n) \subseteq 1 .. Len(f.code) /\ Live!Insts(n) # {}
  BY <1>1, <1>2 DEF Live!Insts, Live!CodeOf, Live!Phis, Live!Code, Live!IsPhi
<1>4. Live!Insts(n) \in SUBSET Nat
  BY <1>1, <1>3
<1>5. Min(Live!Insts(n)) \in Live!Insts(n)
  BY <1>3, <1>4, MinIsIn
<1> QED BY <1>3, <1>5 DEF FirstInst

LEMMA NextInstIsCode ==
  ASSUME IInv, NEW i \in 1 .. Len(f.code), i # Max(Live!CodeOf(f.code[i].node))
  PROVE  i + 1 \in 1 .. Len(f.code)
<1> DEFINE block == Live!CodeOf(f.code[i].node)
           last == Max(block)
<1>1. DOMAIN f.code = 1 .. Len(f.code) /\ Len(f.code) \in Nat
  BY FunctionIsFunction
<1>2. i \in block /\ block \in SUBSET (1 .. Len(f.code))
  BY <1>1 DEF Live!CodeOf, Live!Code
<1>3. last \in block /\ \A j \in block : j <= last
  <2> HIDE DEF block
  <2> QED BY <1>1, <1>2, MaxIsIn
<1>4. last \in 1 .. Len(f.code) /\ i <= last /\ i # last
  BY <1>2, <1>3
<1> HIDE DEF last, block
<1> QED BY <1>1, <1>4

-----------------------------------------------------------------------------
(***************************************************************************)
(* The steps of the machine.                                               *)
(***************************************************************************)
LEMMA CellsStay ==
  ASSUME UNCHANGED <<f, scan>>
  PROVE  Contents' = Contents
<1>1. Spilled' = Spilled /\ f' = f
  BY DEF scan
<1>2. \A s : SpillLoc(s)' = SpillLoc(s)
  BY DEF SpillLoc
<1>3. Cells' = Cells
  BY <1>1, <1>2 DEF Cells, Units
<1> QED BY <1>3 DEF Contents, Parts

LEMMA MachineStep ==
  ASSUME MInv, phase = "run", UNCHANGED <<f, LiveRange, Deleted, analysis, scan>>,
         next' \in 1 .. Len(f.code), leaving' \in BOOLEAN, holds' \in Contents
  PROVE  MInv'
<1>1. Contents' = Contents
  BY CellsStay
<1>2. Trimmed' = Trimmed /\ Spilled' = Spilled /\ phase' = phase /\ f' = f
  BY DEF scan
<1>3. next' # 0
  OBVIOUS
<1>4. Len(f'.code) = Len(f.code) /\ next' \in 0 .. Len(f.code)
  BY <1>2
<1> QED BY <1>1, <1>2, <1>3, <1>4 DEF MInv, Regs

LEMMA EnterKeepsTypes ==
  ASSUME IInv, MInv, Enter
  PROVE  MInv'
<1> DEFINE here(c) == UNION {{<<v, k>> : k \in {m \in 1 .. Width(v) : Place(v)[m] = c}} : v \in Args}
<1>1. 1 \in 1 .. f.nodes
  BY FunctionIsFunction DEF LP!IsFunction
<1>2. next' \in 1 .. Len(f.code)
  BY <1>1, FirstInstIsCode DEF Enter
<1>3. \A c \in Cells : here(c) \subseteq Parts
  BY WidthIsOneOrTwo DEF Args, Parts
<1>4. holds' = [c \in Cells |-> IF Cardinality(here(c)) = 1 THEN here(c) ELSE {}]
  BY DEF Enter
<1> HIDE DEF here
<1>5. holds' \in Contents
  BY <1>3, <1>4 DEF Contents
<1> QED BY <1>2, <1>5, MachineStep DEF Enter

LEMMA ExecuteKeepsTypes ==
  ASSUME IInv, MInv, Execute
  PROVE  MInv'
<1> DEFINE i == next
           inst == f.code[i]
           saved == Save(holds, {s \in Spilled : s.from = Num(i)})
           called == IF inst.call THEN [c \in Cells |-> IF c \in Scratch THEN {} ELSE saved[c]] ELSE saved
           source == CHOOSE v \in inst.uses : TRUE
           known == IF inst.copy THEN Alike(called, inst.dest, source) ELSE Forget(called, {inst.dest})
           new == IF inst.copy THEN Load(known, Place(source)) ELSE Nothing(inst.dest)
           done == IF inst.dest = None THEN called ELSE Define(known, inst.dest, new)
           filled == Fill(done, {s \in Spilled : s.to = Num(i)})
<1>1. /\ holds' = IF i \in Deleted THEN holds ELSE filled
      /\ leaving' = (i = Max(Live!CodeOf(inst.node)))
      /\ next' = IF leaving' THEN i ELSE i + 1
      /\ phase = "run" /\ next # 0
      /\ UNCHANGED <<f, LiveRange, Deleted, analysis, scan>>
  BY DEF Execute
<1>2. /\ Requirements(f) /\ LP!IsFunction(f)
      /\ DOMAIN f.code = 1 .. Len(f.code) /\ Len(f.code) \in Nat
  BY FunctionIsFunction
<1>3. i \in 1 .. Len(f.code) /\ holds \in Contents /\ \A s \in Spilled : s.reg \in Regs
  BY <1>1, <1>2 DEF MInv
<1>4. next' \in 1 .. Len(f.code) /\ leaving' \in BOOLEAN
  <2>1. CASE i = Max(Live!CodeOf(inst.node))
    BY <1>1, <1>3, <2>1
  <2>2. CASE i # Max(Live!CodeOf(inst.node))
    BY <1>1, <1>3, <2>2, NextInstIsCode
  <2> QED BY <2>1, <2>2
<1>5. inst.dest \in Variables \cup {None} /\ inst.uses \subseteq Variables
  BY <1>2, <1>3 DEF LP!IsFunction
<1>6. inst.copy => source \in Variables /\ inst.uses = {source}
  BY <1>2, <1>3 DEF Requirements
<1>7. inst.copy /\ inst.dest \in f.wide => source \in f.wide
  <2>1. inst.copy /\ inst.dest \in f.wide => inst.uses \subseteq f.wide
    BY <1>2, <1>3 DEF Requirements
  <2> QED BY <1>6, <2>1
<1> HIDE DEF i, inst, source
<1>8. saved \in Contents
  BY <1>3, SavesAreContents
<1> HIDE DEF saved
<1>9. called \in Contents
  <2>1. \A c \in Cells : saved[c] \subseteq Parts
    BY <1>8 DEF Contents
  <2>2. [c \in Cells |-> IF c \in Scratch THEN {} ELSE saved[c]] \in Contents
    BY <2>1 DEF Contents
  <2> QED BY <1>8, <2>2
<1> HIDE DEF called
<1>10. inst.dest # None => known \in Contents
  BY <1>5, <1>9, ForgetIsContents, AlikeIsContents
<1> HIDE DEF known
<1>11. ASSUME inst.dest # None
       PROVE  \A k \in 1 .. Width(inst.dest) : new[k] \subseteq Parts
  <2>1. inst.dest \in Variables
    BY <1>5, <1>11
  <2>2. CASE inst.copy
    <3>1. source \in Variables /\ DOMAIN Place(source) = 1 .. Width(source)
      BY <1>6, <2>2, PlaceHasWidth
    <3>2. \A k \in 1 .. Width(inst.dest) :
            k \in 1 .. Width(source) /\ known[Place(source)[k]] \subseteq Parts
      BY <1>7, <1>10, <1>11, <2>1, <2>2, <3>1, LoadedParts
    <3>3. \A k \in 1 .. Width(source) : Load(known, Place(source))[k] = known[Place(source)[k]]
      BY <3>1 DEF Load
    <3> QED BY <2>2, <3>2, <3>3
  <2>3. CASE ~inst.copy
    BY <2>3 DEF Nothing
  <2> QED BY <2>2, <2>3
<1> HIDE DEF new
<1>12. done \in Contents
  BY <1>5, <1>9, <1>10, <1>11, DefineIsContents
<1> HIDE DEF done
<1>13. filled \in Contents
  BY <1>3, <1>12, SavesAreContents
<1> HIDE DEF filled
<1>14. holds' \in Contents
  BY <1>1, <1>3, <1>13
<1> QED BY <1>1, <1>4, <1>14, MachineStep

LEMMA TakeEdgeKeepsTypes ==
  ASSUME IInv, MInv, NEW s \in 1 .. f.nodes, TakeEdge(s)
  PROVE  MInv'
<1> DEFINE n == f.code[next].node
<1>1. /\ phase = "run" /\ leaving /\ s \in f.succ[n]
      /\ holds' = [c \in Cells |-> PhiContents(n, s, c)]
      /\ next' = FirstInst(s) /\ leaving' = FALSE
      /\ UNCHANGED <<f, LiveRange, Deleted, analysis, scan>>
  BY DEF TakeEdge
<1>2. /\ Requirements(f) /\ LP!IsFunction(f)
      /\ DOMAIN f.code = 1 .. Len(f.code) /\ Len(f.code) \in Nat
  BY FunctionIsFunction
<1>3. next \in DOMAIN f.code /\ holds \in Contents
  BY <1>1, <1>2 DEF MInv
<1>4. n \in 1 .. f.nodes
  BY <1>2, <1>3 DEF LP!IsFunction
<1> HIDE DEF n
<1>5. ASSUME NEW i \in PhisOf(s)
      PROVE  /\ f.code[i].dest \in Variables
             /\ f.code[i].from[n] # None =>
                  /\ f.code[i].from[n] \in Variables
                  /\ f.code[i].dest \in f.wide => f.code[i].from[n] \in f.wide
  <2>1. i \in DOMAIN f.code /\ f.code[i].node = s /\ f.code[i].from # <<>>
    BY DEF PhisOf, Live!Phis, Live!CodeOf, Live!Code, Live!IsPhi
  <2>2. /\ f.code[i].dest \in Variables
        /\ f.code[i].uses \subseteq Variables
        /\ f.code[i].from[n] \in f.code[i].uses \cup {None}
    BY <1>1, <1>2, <1>4, <2>1 DEF LP!IsFunction
  <2>3. f.code[i].dest \in f.wide => f.code[i].uses \subseteq f.wide
    BY <1>2, <2>1 DEF Requirements
  <2> QED BY <2>2, <2>3
<1>6. ASSUME NEW c \in Cells PROVE PhiContents(n, s, c) \subseteq Parts
  <2> DEFINE written == UNION {{<<i, k>> : k \in {m \in 1 .. Width(f.code[i].dest) :
                                                    Place(f.code[i].dest)[m] = c}} : i \in PhisOf(s)}
             operand(i) == f.code[i].from[n]
             moved(i, k) == {<<f.code[i].dest, k>>} \cup
                            (IF operand(i) = None THEN {}
                             ELSE {p \in holds[Place(operand(i))[k]] : p[1] \notin Dests(s)})
  <2>1. PhiContents(n, s, c) =
          IF written = {} THEN {p \in holds[c] : p[1] \notin Dests(s)}
          ELSE IF Cardinality(written) = 1 THEN UNION {moved(w[1], w[2]) : w \in written} ELSE {}
    BY DEF PhiContents
  <2>2. ASSUME NEW i \in PhisOf(s), NEW k \in 1 .. Width(f.code[i].dest)
        PROVE  moved(i, k) \subseteq Parts
    <3>1. <<f.code[i].dest, k>> \in Parts
      BY <1>5, WidthIsOneOrTwo DEF Parts
    <3>2. operand(i) # None => holds[Place(operand(i))[k]] \subseteq Parts
      BY <1>3, <1>5, LoadedParts
    <3> QED BY <3>1, <3>2
  <2>3. ASSUME NEW w \in written PROVE moved(w[1], w[2]) \subseteq Parts
    <3>1. PICK i \in PhisOf(s) : w \in {<<i, k>> : k \in {m \in 1 .. Width(f.code[i].dest) :
                                                         Place(f.code[i].dest)[m] = c}}
      OBVIOUS
    <3>2. PICK k \in 1 .. Width(f.code[i].dest) : w = <<i, k>>
      BY <3>1
    <3>3. w[1] = i /\ w[2] = k
      BY <3>2
    <3> HIDE DEF moved
    <3> QED BY <2>2, <3>3
  <2>4. holds[c] \subseteq Parts
    BY <1>3 DEF Contents
  <2> HIDE DEF written, moved
  <2> QED BY <2>1, <2>3, <2>4
<1>7. holds' \in Contents
  BY <1>1, <1>6 DEF Contents
<1>8. next' \in 1 .. Len(f.code)
  BY <1>1, FirstInstIsCode
<1> QED BY <1>1, <1>7, <1>8, MachineStep

-----------------------------------------------------------------------------
(***************************************************************************)
(* The other steps.                                                        *)
(***************************************************************************)
LEMMA NotRunning ==
  ASSUME MInv, phase # "run", f' = f, UNCHANGED run,
         Trimmed' \in [Variables -> Int], \A s \in Spilled' : s.reg \in Regs
  PROVE  MInv'
<1>1. next = 0 /\ next' = 0 /\ leaving' = FALSE
  BY DEF MInv, run
<1>2. next' \in 0 .. Len(f'.code)
  BY <1>1 DEF MInv
<1> QED BY <1>1, <1>2 DEF MInv, Regs

LEMMA StartIsInt ==
  ASSUME RangesAreOrdered, NEW v \in Variables
  PROVE  Start(v) \in Int
<1>1. CASE LiveRange[v] = <<>>
  BY <1>1 DEF Start
<1>2. CASE LiveRange[v] # <<>>
  <2>1. LiveRange[v] \in Seq(Nat \X Nat)
    BY DEF RangesAreOrdered, Live!IsOrdered
  <2>2. LiveRange[v][1] \in Nat \X Nat
    BY <1>2, <2>1
  <2>3. LiveRange[v][1][1] \in Nat
    BY <2>2
  <2> QED BY <1>2, <2>3 DEF Start
<1> QED BY <1>1, <1>2

LEMMA ConsiderKeepsTypes ==
  ASSUME IInv, MInv, RangesAreOrdered, NEW cur \in Variables, Consider(cur), UNCHANGED run
  PROVE  MInv'
<1>1. phase = "scan" /\ f' = f
  BY DEF Consider, AllocatePrecolored, AllocatePreferred, AllocateFree, Spill, Evict,
         AllocateReserve, Fail, AddSpillFill, EvictLightest, EvictAliases, Assign, LeaveWithout,
         Expire, IsNext
<1>2. Trimmed' \in [Variables -> Int]
  <2>1. Trimmed' = Trimmed \/
        Trimmed' = [v \in Variables |-> IF v \in Active \cup Inactive THEN Start(cur) ELSE Trimmed[v]]
    BY DEF Consider, AllocatePrecolored, AllocatePreferred, AllocateFree, Spill, Evict,
           AllocateReserve, Fail, AddSpillFill, EvictLightest, EvictAliases, Assign, LeaveWithout,
           Expire
  <2> QED BY <2>1, StartIsInt DEF MInv
<1>3. \A s \in Spilled' : s.reg \in Regs
  <2>1. CASE AddSpillFill(cur)
    <3> DEFINE left == RegMask(cur) \ AliasesOf(Mentioned(cur))
    <3>1. /\ left # {}
          /\ Spilled' = Spilled \cup {[reg |-> Min(left), from |-> Start(cur), to |-> End(cur)]}
      BY <2>1 DEF AddSpillFill
    <3>2. left \subseteq Regs
      BY MasksAreRegs
    <3>3. left \in SUBSET Nat
      BY <3>2, RegsAreNumbers
    <3> HIDE DEF left
    <3>4. Min(left) \in Regs
      BY <3>1, <3>2, <3>3, MinIsIn
    <3> QED BY <3>1, <3>4 DEF MInv
  <2>2. CASE ~AddSpillFill(cur)
    <3>1. Spilled' = Spilled
      BY <2>2 DEF Consider, AllocatePrecolored, AllocatePreferred, AllocateFree, Spill, Evict,
                  AllocateReserve, Fail, EvictLightest, EvictAliases, Assign
    <3> QED BY <3>1 DEF MInv
  <2> QED BY <2>1, <2>2
<1> QED BY <1>1, <1>2, <1>3, NotRunning

LEMMA MachineInit == Init => MInv
<1> SUFFICES ASSUME Init PROVE MInv
  OBVIOUS
<1>1. IInv
  BY InitHolds
<1>2. Len(f.code) \in Nat
  BY <1>1, FunctionIsFunction
<1>3. /\ Trimmed = [v \in Variables |-> -1] /\ Spilled = {}
      /\ next = 0 /\ leaving = FALSE
  BY DEF Init
<1>4. Trimmed \in [Variables -> Int]
  <2>1. -1 \in Int
    OBVIOUS
  <2> QED BY <1>3, <2>1
<1>5. next \in 0 .. Len(f.code)
  BY <1>2, <1>3
<1> QED BY <1>3, <1>4, <1>5 DEF MInv

LEMMA MachineStepHolds == IInv /\ LiveInv /\ MInv /\ [Next]_vars => MInv'
<1> SUFFICES ASSUME IInv, LiveInv, MInv, [Next]_vars PROVE MInv'
  OBVIOUS
<1>1. CASE Analyse
  <2>1. f' = f
    BY <1>1 DEF Analyse, Live!Step, Live!Visit, Live!Converge, Live!FinalPass
  <2>2. phase = "liveness" /\ UNCHANGED <<scan, run>>
    BY <1>1 DEF Analyse
  <2>3. Trimmed' = Trimmed /\ Spilled' = Spilled /\ UNCHANGED run
    BY <2>2 DEF scan
  <2> QED BY <2>1, <2>2, <2>3, NotRunning DEF MInv
<1>2. CASE UseRanges
  <2>1. phase = "liveness" /\ f' = f /\ Trimmed' = Trimmed /\ Spilled' = Spilled /\ UNCHANGED run
    BY <1>2 DEF UseRanges
  <2> QED BY <2>1, NotRunning DEF MInv
<1>3. CASE Allocate
  <2>1. UNCHANGED run
    BY <1>3 DEF Allocate
  <2>2. CASE InitForGlobal \/ InitForSecondChance \/ InitForInfOnly
    <3>1. phase = "init" /\ f' = f /\ Spilled' = Spilled
      BY <2>2 DEF InitForGlobal, InitForSecondChance, InitForInfOnly, StartScan
    <3>2. Trimmed' = Trimmed \/
          \E S : Trimmed' = [v \in Variables |-> IF v \in S THEN -1 ELSE Trimmed[v]]
      BY <2>2 DEF InitForGlobal, InitForSecondChance, InitForInfOnly, StartScan
    <3>3. Trimmed' \in [Variables -> Int]
      BY <3>2 DEF MInv
    <3> QED BY <2>1, <3>1, <3>3, NotRunning DEF MInv
  <2>3. ASSUME NEW cur \in Variables, Consider(cur) PROVE MInv'
    BY <2>1, <2>3, ConsiderKeepsTypes DEF LiveInv
  <2>4. CASE EndScan
    <3>1. phase = "scan" /\ f' = f /\ Trimmed' = Trimmed /\ Spilled' = Spilled
      BY <2>4 DEF EndScan
    <3> QED BY <2>1, <3>1, NotRunning DEF MInv
  <2> QED BY <1>3, <2>2, <2>3, <2>4 DEF Allocate, RegAlloc
<1>4. CASE Enter
  BY <1>4, EnterKeepsTypes
<1>5. CASE Execute
  BY <1>5, ExecuteKeepsTypes
<1>6. ASSUME NEW s \in 1 .. f.nodes, TakeEdge(s) PROVE MInv'
  BY <1>6, TakeEdgeKeepsTypes
<1>7. CASE Terminated \/ UNCHANGED vars
  <2>1. UNCHANGED <<f, scan, run>>
    BY <1>7 DEF Terminated, vars
  <2>2. Contents' = Contents
    BY <2>1, CellsStay
  <2>3. Trimmed' = Trimmed /\ Spilled' = Spilled /\ phase' = phase /\ f' = f
        /\ next' = next /\ leaving' = leaving /\ holds' = holds
    BY <2>1 DEF scan, run
  <2> QED BY <2>2, <2>3 DEF MInv, Regs
<1> QED BY <1>1, <1>2, <1>3, <1>4, <1>5, <1>6, <1>7 DEF Next

(***************************************************************************)
(* Every variable of the analysis, the scans and the machine has its type: *)
(* live ranges are ordered, use counts do not become negative, execution   *)
(* goes from an instruction of the function to one, and a cell holds parts *)
(* of variables and nothing else.                                          *)
(***************************************************************************)
THEOREM TypeCorrect == Spec => []TypeOK
<1> DEFINE Inv == IInv /\ SInv /\ LiveInv /\ MInv
<1>1. Init => Inv
  BY InitHolds, SInitHolds, LiveInitHolds, MachineInit
<1>2. Inv /\ [Next]_vars => Inv'
  BY StepHolds, SStepHolds, LiveStepHolds, MachineStepHolds DEF LiveInv
<1>3. Inv => TypeOK
  BY DEF TypeOK, IInv, TypesOfScan, LiveInv, MInv, Contents, Parts
<1> HIDE DEF Inv
<1> QED BY <1>1, <1>2, <1>3, PTL DEF Spec

-----------------------------------------------------------------------------
(***************************************************************************)
(* What an iteration for Cur comes to.  Either it only moves Cur, which    *)
(* keeps the register it has, if any; or it gives Cur a register r that    *)
(* nobody in the way has, or that Cur may share, and that calls do not     *)
(* overwrite if Cur spans one.                                             *)
(***************************************************************************)
Moves(cur) ==
  /\ RegNumTmp' = RegNumTmp
  /\ Unhandled' = Unhandled \ {cur}
  /\ Considered' = Considered \cup {cur}
  /\ Holders' \subseteq Holders
Choice(cur, r, it, outActive, outInactive) ==
  /\ ~HasReg(cur)
  /\ r \in RegMaskUnfiltered(cur)
  /\ outActive \subseteq it.active
  /\ outInactive \subseteq it.overlapping
  /\ Assign(cur, r, it, outActive, outInactive)
  /\ Safe(cur, r, it, outActive \cup outInactive)
  /\ SpansKill(cur) => r \notin CallerSave
  /\ \/ \A w \in (it.active \cup it.overlapping) \ (outActive \cup outInactive) :
          r \notin Aliases(RegNumTmp[w])
     \/ it.allowOverlap /\ r = it.prefer

LEMMA IterationAvoidsKills ==
  ASSUME NEW cur \in Variables, NEW it \in Iterations(cur), SpansKill(cur)
  PROVE  /\ \A r \in it.free \cup it.freeUnfiltered : r \notin CallerSave
         /\ \A r \in Regs : ~it.weight[r].infinite => r \notin CallerSave
         /\ it.allowOverlap => it.prefer \notin CallerSave
<1> DEFINE active == NowActive(cur)
           uses == UsesWithout(Active \ active, active \ Active)
           overlapping == {v \in NowInactive(cur) : RangeOverlaps(v, cur)}
           precolored == UNION {Aliases(RegNum[v]) :
                                  v \in {w \in Unhandled : HasReg(w) /\ RangeOverlaps(w, cur)}}
           blocked == precolored \cup (IF SpansKill(cur) THEN CallerSave ELSE {})
           unused == {r \in Regs : uses[r] <= 0}
           free == unused \ (AliasesOf(overlapping) \cup blocked)
           weight == [r \in Regs |->
                        IF r \in blocked THEN Infinite
                        ELSE SumOfWeights({v \in active \cup overlapping : r \in Aliases(RegNumTmp[v])})]
<1>1. PICK p \in Preferences(cur, unused \cap RegMask(cur)) :
        it = [active |-> active, uses |-> uses, overlapping |-> overlapping, weight |-> weight,
              free |-> free \cap RegMask(cur),
              freeUnfiltered |-> free \cap RegMaskUnfiltered(cur),
              prefer |-> p.reg,
              allowOverlap |-> OverlapAllowed(cur, p, active, overlapping, precolored)]
  BY DEF Iterations
<1> HIDE DEF active, uses, overlapping, unused, free, weight, precolored
<1>2. /\ it.weight = weight /\ it.free = free \cap RegMask(cur)
      /\ it.freeUnfiltered = free \cap RegMaskUnfiltered(cur) /\ it.prefer = p.reg
      /\ it.allowOverlap = OverlapAllowed(cur, p, active, overlapping, precolored)
  BY <1>1
<1>3. CallerSave \subseteq blocked
  OBVIOUS
<1> HIDE DEF blocked
<1>4. \A r \in free : r \notin CallerSave
  BY <1>3 DEF free
<1>5. \A r \in Regs : ~weight[r].infinite => r \notin CallerSave
  BY <1>3 DEF weight, Infinite
<1>6. it.allowOverlap => p.reg \notin CallerSave
  BY <1>2 DEF OverlapAllowed
<1> QED BY <1>2, <1>4, <1>5, <1>6

LEMMA EvictionIsChoice ==
  ASSUME IInv, SInv, RangesAreOrdered, f.kind # "Phi", phase = "scan",
         NEW cur \in Unhandled, ~HasReg(cur),
         NEW it \in Iterations(cur),
         NEW mask, mask \subseteq RegMaskUnfiltered(cur),
         ~TooLight(cur, it, mask), EvictLightest(cur, it, mask)
  PROVE  \E r, outActive, outInactive : Choice(cur, r, it, outActive, outInactive)
<1> DEFINE outActive(r) == {v \in it.active : RegNumTmp[v] \in Aliases(r)}
           outInactive(r) == {v \in it.overlapping : RegNumTmp[v] \in Aliases(r)}
<1>1. PICK r \in Regs : IsLightest(it, mask, r) /\ EvictAliases(cur, r, it)
  BY DEF EvictLightest
<1>2. ~it.weight[r].infinite
  <2>1. PICK q \in mask : Heavier(Weight(cur), it.weight[q])
    BY DEF TooLight
  <2>2. ~it.weight[q].infinite
    BY <2>1 DEF Heavier
  <2>3. ~Heavier(it.weight[r], it.weight[q])
    BY <1>1, <2>1 DEF IsLightest
  <2> QED BY <2>2, <2>3 DEF Heavier
<1>3. cur \in Variables /\ Trimmed[cur] = -1
  BY DEF SInv, ScanIsSafe, UnhandledIsFresh, IInv, TypesOfScan
<1>4. \A w \in (it.active \cup it.overlapping) \ (outActive(r) \cup outInactive(r)) :
        r \notin Aliases(RegNumTmp[w])
  <2> SUFFICES ASSUME NEW w \in (it.active \cup it.overlapping) \ (outActive(r) \cup outInactive(r)),
                      r \in Aliases(RegNumTmp[w])
               PROVE  FALSE
    OBVIOUS
  <2>1. RegNumTmp[w] \notin Aliases(r)
    OBVIOUS
  <2>2. w \in Active \cup Inactive
    BY ExpirySets, IterationFacts
  <2>3. RegNumTmp[w] \in Regs
    BY <2>2 DEF SInv, ScanIsSafe, ActiveHaveRegisters, HasRegTmp, IInv, TypesOfScan
  <2> QED BY <2>1, <2>3, AliasesAreRegs
<1>5. Safe(cur, r, it, outActive(r) \cup outInactive(r))
  <2>1. r \notin PrecoloredFor(cur)
    BY <1>2, <1>3, IterationIsSafe
  <2> QED BY <1>4, <2>1 DEF Safe
<1>6. r \in RegMaskUnfiltered(cur)
  BY <1>1 DEF IsLightest
<1>7. Assign(cur, r, it, outActive(r), outInactive(r))
  BY <1>1 DEF EvictAliases
<1>8. outActive(r) \subseteq it.active /\ outInactive(r) \subseteq it.overlapping
  OBVIOUS
<1>9. SpansKill(cur) => r \notin CallerSave
  BY <1>2, <1>3, IterationAvoidsKills
<1> HIDE DEF outActive, outInactive
<1>10. Choice(cur, r, it, outActive(r), outInactive(r))
  BY <1>4, <1>5, <1>6, <1>7, <1>8, <1>9 DEF Choice
<1> QED BY <1>10

LEMMA ConsiderCases ==
  ASSUME IInv, SInv, RangesAreOrdered, f.kind = "Global", NEW cur, Consider(cur)
  PROVE  /\ phase = "scan" /\ cur \in Unhandled /\ cur \in Variables /\ Trimmed[cur] = -1
         /\ UNCHANGED <<f, LiveRange, Deleted, phase, RegNum, Spilled>>
         /\ \/ Moves(cur)
            \/ \E it \in Iterations(cur) : \E r, outActive, outInactive :
                 Choice(cur, r, it, outActive, outInactive)
<1>1. /\ phase = "scan" /\ cur \in Unhandled /\ cur \in Variables /\ Trimmed[cur] = -1
      /\ HasRegTmp(cur) => HasReg(cur)
  <2>1. IsNext(cur)
    BY DEF Consider, AllocatePrecolored, AllocatePreferred, AllocateFree, Spill, Evict, AllocateReserve,
           Fail, AddSpillFill
  <2> QED BY <2>1, NextIsFresh DEF SInv, ScanIsSafe, UnhandledIsFresh
<1>2. \A r, it : Safe(cur, r, it, {}) => Safe(cur, r, it, {} \cup {})
  OBVIOUS
<1>3. CASE AllocatePrecolored(cur)
  <2>1. /\ Unhandled' = Unhandled \ {cur} /\ Active' = Active \cup {cur}
        /\ UNCHANGED <<f, LiveRange, Deleted, phase, Inactive, Handled, RegNum, RegNumTmp, Spilled>>
    BY <1>3 DEF AllocatePrecolored
  <2>2. Considered' = Considered \cup {cur}
    BY <2>1 DEF Considered
  <2>3. Holders' \subseteq Holders
    BY <1>1, <2>1, <2>2 DEF Holders, HasRegTmp, HasReg
  <2> QED BY <1>1, <2>1, <2>2, <2>3 DEF Moves
<1>4. CASE AllocatePreferred(cur)
  <2>1. PICK it \in Iterations(cur) : Preferred(it) /\ Assign(cur, it.prefer, it, {}, {}) /\ ~HasReg(cur)
    BY <1>4 DEF AllocatePreferred
  <2>2. it.prefer \in RegMaskUnfiltered(cur)
    BY <2>1, IterationFacts, MasksAreRegs DEF Preferred
  <2>3. Safe(cur, it.prefer, it, {} \cup {}) /\ (SpansKill(cur) => it.prefer \notin CallerSave)
    BY <1>1, <2>1, IterationIsSafe, IterationAvoidsKills DEF Preferred, Safe
  <2>4. \/ \A w \in (it.active \cup it.overlapping) \ ({} \cup {}) : it.prefer \notin Aliases(RegNumTmp[w])
        \/ it.allowOverlap
    BY <1>1, <2>1, IterationIsSafe DEF Preferred
  <2>5. Choice(cur, it.prefer, it, {}, {})
    BY <2>1, <2>2, <2>3, <2>4 DEF Choice
  <2> QED BY <1>1, <2>1, <2>5 DEF Assign, Expire
<1>5. ASSUME NEW it \in Iterations(cur), NEW S, S \in {it.free, it.freeUnfiltered}, S # {}, ~HasReg(cur),
             Assign(cur, Min(S), it, {}, {})
      PROVE  Choice(cur, Min(S), it, {}, {})
  <2>1. S \subseteq RegMaskUnfiltered(cur) /\ S \in SUBSET Nat
    BY <1>5, IterationFacts, MasksAreRegs, RegsAreNumbers
  <2>2. Min(S) \in S
    BY <1>5, <2>1, MinIsIn
  <2>3. Safe(cur, Min(S), it, {} \cup {})
    BY <1>1, <1>5, <2>2, FreeIsSafe
  <2>4. SpansKill(cur) => Min(S) \notin CallerSave
    BY <1>1, <1>5, <2>2, IterationAvoidsKills
  <2>5. \A w \in (it.active \cup it.overlapping) \ ({} \cup {}) : Min(S) \notin Aliases(RegNumTmp[w])
    BY <1>1, <1>5, <2>2, IterationIsSafe
  <2>6. Min(S) \in RegMaskUnfiltered(cur)
    BY <2>1, <2>2
  <2> QED BY <1>5, <2>3, <2>4, <2>5, <2>6 DEF Choice
<1>6. CASE AllocateFree(cur)
  <2>1. PICK it \in Iterations(cur) : it.free # {} /\ Assign(cur, Min(it.free), it, {}, {}) /\ ~HasReg(cur)
    BY <1>6 DEF AllocateFree
  <2>2. Choice(cur, Min(it.free), it, {}, {})
    BY <1>5, <2>1
  <2> QED BY <1>1, <2>1, <2>2 DEF Assign, Expire
<1>7. CASE AllocateReserve(cur)
  <2>1. PICK it \in Iterations(cur) :
          it.freeUnfiltered # {} /\ Assign(cur, Min(it.freeUnfiltered), it, {}, {}) /\ ~HasReg(cur)
    BY <1>7 DEF AllocateReserve
  <2>2. Choice(cur, Min(it.freeUnfiltered), it, {}, {})
    BY <1>5, <2>1
  <2> QED BY <1>1, <2>1, <2>2 DEF Assign, Expire
<1>8. CASE Evict(cur)
  <2>1. ~HasReg(cur)
    BY <1>8 DEF Evict
  <2>2. PICK it \in Iterations(cur) :
          \/ ~TooLight(cur, it, RegMask(cur)) /\ EvictLightest(cur, it, RegMask(cur))
          \/ ~TooLight(cur, it, RegMaskUnfiltered(cur)) /\ EvictLightest(cur, it, RegMaskUnfiltered(cur))
    BY <1>8 DEF Evict
  <2>3. PICK r, outActive, outInactive : Choice(cur, r, it, outActive, outInactive)
    <3>1. /\ f.kind # "Phi"
          /\ RegMask(cur) \subseteq RegMaskUnfiltered(cur)
          /\ RegMaskUnfiltered(cur) \subseteq RegMaskUnfiltered(cur)
      BY MasksAreRegs
    <3>2. CASE ~TooLight(cur, it, RegMask(cur)) /\ EvictLightest(cur, it, RegMask(cur))
      BY <1>1, <2>1, <3>1, <3>2, EvictionIsChoice
    <3>3. CASE ~TooLight(cur, it, RegMaskUnfiltered(cur)) /\ EvictLightest(cur, it, RegMaskUnfiltered(cur))
      BY <1>1, <2>1, <3>1, <3>3, EvictionIsChoice
    <3> QED BY <2>2, <3>2, <3>3
  <2>4. UNCHANGED <<f, LiveRange, Deleted, phase, RegNum, Spilled>>
    BY <2>3 DEF Choice, Assign, Expire
  <2> QED BY <1>1, <2>3, <2>4
<1>9. CASE Spill(cur) \/ Fail(cur)
  <2>1. PICK it \in Iterations(cur) : LeaveWithout(cur, it)
    BY <1>9 DEF Spill, Fail
  <2>2. RegNumTmp' = RegNumTmp /\ Spilled' = Spilled /\ ~HasReg(cur)
    BY <1>9 DEF Spill, Fail
  <2>3. /\ Unhandled' = Unhandled \ {cur}
        /\ Active' = NowActive(cur)
        /\ Inactive' = NowInactive(cur)
        /\ Handled' = Handled \cup Expired(cur) \cup {cur}
        /\ UNCHANGED <<f, LiveRange, Deleted, phase, RegNum>>
    BY <2>1, IterationFacts DEF LeaveWithout, Expire
  <2>4. Considered' = Considered \cup {cur}
    BY <2>3, ExpirySets DEF Considered
  <2>5. Holders' \subseteq Holders
    BY <1>1, <2>2, <2>3, <2>4 DEF Holders, HasRegTmp, HasReg
  <2> QED BY <1>1, <2>2, <2>3, <2>4, <2>5 DEF Moves
<1>10. CASE AddSpillFill(cur)
  <2>1. Kind = "Phi"
    BY <1>10 DEF AddSpillFill
  <2> QED BY <2>1 DEF SInv, FirstScanIsFresh
<1> QED BY <1>3, <1>4, <1>6, <1>7, <1>8, <1>9, <1>10 DEF Consider

(***************************************************************************)
(* What the choice of r for Cur does to those that hold a register.        *)
(***************************************************************************)
LEMMA ChoiceFacts ==
  ASSUME IInv, SInv, RangesAreOrdered, f.kind # "Phi", phase = "scan",
         NEW cur \in Unhandled, NEW it \in Iterations(cur),
         NEW r, NEW outActive, NEW outInactive, Choice(cur, r, it, outActive, outInactive)
  PROVE  /\ Unhandled' = Unhandled \ {cur}
         /\ Considered \cup {cur} \subseteq Considered'
         /\ r \in Regs /\ RegNumTmp'[cur] = r
         /\ \A v \in Variables \ {cur} : RegNumTmp'[v] \in {NoReg, RegNumTmp[v]}
         /\ \A w \in Holders' \ {cur} :
              w \in Holders \ (outActive \cup outInactive) /\ RegNumTmp'[w] = RegNumTmp[w]
         /\ \A w \in Holders \ (outActive \cup outInactive) :
              Overlap(w, cur) /\ r \in Aliases(RegNumTmp[w]) =>
                w \in (it.active \cup it.overlapping) \ (outActive \cup outInactive)
<1> DEFINE out == outActive \cup outInactive
<1>1. ScanIsSafe
  BY DEF SInv
<1>2. /\ it.active = NowActive(cur)
      /\ it.overlapping = {v \in NowInactive(cur) : RangeOverlaps(v, cur)}
  <2>1. cur \in Variables /\ Trimmed[cur] = -1
    BY <1>1, NextIsFresh DEF IInv, TypesOfScan, ScanIsSafe, UnhandledIsFresh, Choice
  <2> QED BY <2>1, IterationIsSafe
<1>3. /\ NowActive(cur) \subseteq Active \cup Inactive
      /\ NowInactive(cur) \subseteq Active \cup Inactive
      /\ NowActive(cur) \cup NowInactive(cur) \cup Expired(cur) = Active \cup Inactive
  BY ExpirySets
<1>4. /\ cur \in Variables /\ Unhandled \subseteq Variables
      /\ Active \cup Inactive \cup Handled \subseteq Variables
      /\ Unhandled \cap (Active \cup Inactive \cup Handled) = {}
  BY DEF IInv, TypesOfScan, UnhandledIsApart, Considered
<1>5. /\ Unhandled' = Unhandled \ {cur}
      /\ Active' = (NowActive(cur) \ outActive) \cup {cur}
      /\ Inactive' = NowInactive(cur) \ outInactive
      /\ Handled' = Handled \cup Expired(cur) \cup out
      /\ RegNumTmp' = [v \in Variables |-> IF v = cur THEN r ELSE IF v \in out THEN NoReg ELSE RegNumTmp[v]]
      /\ RegNum' = RegNum
  BY <1>2 DEF Choice, Assign, Expire
<1>6. out \subseteq NowActive(cur) \cup NowInactive(cur) /\ cur \notin out /\ out \subseteq Variables
  BY <1>2, <1>3, <1>4 DEF Choice
<1>7. /\ \A v \in Variables \ (out \cup {cur}) : RegNumTmp'[v] = RegNumTmp[v]
      /\ \A v \in out : RegNumTmp'[v] = NoReg
      /\ RegNumTmp'[cur] = r
  BY <1>4, <1>5, <1>6
<1>8. r \in Regs /\ Safe(cur, r, it, out)
  BY MasksAreRegs DEF Choice
<1> HIDE DEF out
<1>9. Considered \cup {cur} \subseteq Considered' /\ Considered' \subseteq Considered \cup {cur}
  BY <1>3, <1>5, <1>6 DEF Considered, out
<1>10. ASSUME NEW w \in Holders', w # cur
       PROVE  w \in Holders /\ w \notin out /\ RegNumTmp'[w] = RegNumTmp[w]
  <2>1. CASE w \in Considered' /\ RegNumTmp'[w] # NoReg
    <3>1. w \in Considered /\ w \notin out /\ w \in Variables
      BY <1>4, <1>7, <1>9, <1>10, <2>1 DEF Considered
    <3> QED BY <1>7, <1>10, <2>1, <3>1 DEF Holders, HasRegTmp
  <2>2. CASE w \in Unhandled' /\ RegNum'[w] # NoReg
    <3>1. w \in Unhandled /\ w \notin out /\ w \in Variables
      BY <1>3, <1>4, <1>5, <1>6, <2>2
    <3> QED BY <1>5, <1>7, <1>10, <2>2, <3>1 DEF Holders, HasReg
  <2> QED BY <1>10, <2>1, <2>2 DEF Holders, HasRegTmp, HasReg
<1>11. ASSUME NEW w \in Holders \ out, Overlap(w, cur), r \in Aliases(RegNumTmp[w])
       PROVE  w \in (it.active \cup it.overlapping) \ out
  <2>1. CASE w \in NowActive(cur) \/ (w \in NowInactive(cur) /\ RangeOverlaps(w, cur))
    BY <1>2, <1>11, <2>1
  <2>2. CASE w \in Unhandled /\ HasReg(w) /\ RangeOverlaps(w, cur)
    <3>1. RegNumTmp[w] = RegNum[w]
      BY <2>2 DEF IInv, RegistersAreKept
    <3>2. r \in PrecoloredFor(cur)
      BY <1>11, <2>2, <3>1 DEF PrecoloredFor
    <3> QED BY <1>8, <3>2 DEF Safe
  <2> QED BY <1>1, <1>11, <2>1, <2>2, WhoIsInTheWay
<1>12. \A v \in Variables \ {cur} : RegNumTmp'[v] \in {NoReg, RegNumTmp[v]}
  BY <1>7
<1> QED BY <1>5, <1>7, <1>8, <1>9, <1>10, <1>11, <1>12 DEF out

-----------------------------------------------------------------------------
(***************************************************************************)
(* Values are kept.  In a function allocated with live ranges, the walks   *)
(* and ranges of the analysis stay what they were; pre-colors stay; and    *)
(* nobody that lives across a call was given a scratch register.           *)
(***************************************************************************)
Crosses(v) ==
  \E n \in Kills, k \in DOMAIN LiveRange[v] : LiveRange[v][k][1] < n /\ n < LiveRange[v][k][2]
AnalysisStays == LP!AnalysisIsRecorded /\ LP!RangesAreFull /\ LP!SettledSoFar
RegistersStay ==
  \A v \in Variables :
    /\ f.reg[v] # NoReg => RegNum[v] = f.reg[v]
    /\ f.reg[v] = NoReg /\ HasReg(v) =>
         LiveRange[v] # <<>> /\ (Crosses(v) => RegNum[v] \notin CallerSave)
TmpAreHeld ==
  /\ phase = "scan" => \A v \in Variables : HasRegTmp(v) => v \in Holders
  /\ phase = "init" => \A v \in Variables : HasRegTmp(v) => HasReg(v)
HoldersAvoidKills ==
  phase = "scan" => \A v \in Holders :
    f.reg[v] = NoReg /\ Crosses(v) => RegNumTmp[v] \notin CallerSave
KInv ==
  f.kind = "Global" =>
    /\ AnalysisStays
    /\ RegistersStay
    /\ TmpAreHeld
    /\ HoldersAvoidKills
    /\ Spilled = {}

LEMMA KillsStay ==
  ASSUME f' = f, LiveRange' = LiveRange, Deleted' = Deleted
  PROVE  /\ Kills' = Kills
         /\ \A v : Crosses(v)' <=> Crosses(v)
<1>1. Kills' = Kills
  BY DEF Kills, Num, Kept
<1> QED BY <1>1 DEF Crosses

LEMMA SpansIsCrosses ==
  ASSUME RangesAreOrdered, NEW cur \in Variables, Trimmed[cur] = -1, Crosses(cur)
  PROVE  SpansKill(cur)
<1>1. PICK n \in Kills, k \in DOMAIN LiveRange[cur] :
        LiveRange[cur][k][1] < n /\ n < LiveRange[cur][k][2]
  BY DEF Crosses
<1>2. LiveRange[cur][k][2] \in Nat
  BY RangeFacts
<1>3. k \in Segments(cur)
  BY <1>2 DEF Segments
<1> QED BY <1>1, <1>3 DEF SpansKill

(***************************************************************************)
(* A step that changes nothing of the function and its analysis.           *)
(***************************************************************************)
LEMMA AnalysisStaysAlike ==
  ASSUME LiveInv, f.kind = "Global", AnalysisStays,
         (phase = "liveness" /\ Live!Step) \/ UNCHANGED <<f, LiveRange, Deleted, analysis>>
  PROVE  AnalysisStays'
<1>1. LP!IInv /\ LP!TypesOfAnalysis /\ LP!AnalysisIsRecorded /\ LP!RangesAreFull /\ LP!SettledSoFar
  BY DEF LiveInv, AnalysisStays, LP!IInv
<1>2. CASE Live!Step
  <2>1. LP!Step
    BY <1>2, SameAnalysis
  <2> QED BY <1>1, <2>1, AssumptionsHold, LP!StepKeepsRecords, LP!StepKeepsFull, LP!StepSettles
             DEF AnalysisStays
<1>3. CASE UNCHANGED <<f, LiveRange, Deleted, analysis>>
  <2>1. UNCHANGED LP!vars
    BY <1>3 DEF LP!vars, analysis
  <2> QED BY <1>1, <2>1, AssumptionsHold, LP!StepKeepsRecords, LP!StepKeepsFull, LP!StepSettles
             DEF AnalysisStays
<1> QED BY <1>2, <1>3

(***************************************************************************)
(* The steps of a function allocated with live ranges.                     *)
(***************************************************************************)
LEMMA ScanStartFacts ==
  ASSUME IInv, SInv, f.kind = "Global", InitForGlobal \/ InitForSecondChance, TmpAreHeld
  PROVE  /\ UNCHANGED <<f, LiveRange, Deleted, RegNum, Spilled>>
         /\ phase = "init" /\ phase' = "scan"
         /\ \A v \in Variables : RegNumTmp'[v] # NoReg => v \in Holders'
         /\ \A v \in Holders' : v \in Variables /\ HasReg(v) /\ RegNumTmp'[v] = RegNum[v]
<1>1. PICK unhandled \in SUBSET Variables :
        /\ StartScan(unhandled) /\ LiveRange' = LiveRange
        /\ \A v \in Variables : HasRegTmp(v) => v \in unhandled
  <2>1. CASE InitForGlobal
    <3> DEFINE unhandled == {v \in Variables \ f.mustNot : LiveRange[v] # <<>>}
    <3>1. StartScan(unhandled) /\ LiveRange' = LiveRange /\ Kind # "SecondChance" /\ phase = "init"
      BY <2>1 DEF InitForGlobal, StartScan
    <3>2. \A v \in Variables : ~HasRegTmp(v)
      BY <3>1 DEF SInv, FirstScanIsFresh, HasRegTmp
    <3>3. unhandled \in SUBSET Variables
      OBVIOUS
    <3> HIDE DEF unhandled
    <3> QED BY <3>1, <3>2, <3>3
  <2>2. CASE InitForSecondChance
    <3> DEFINE unhandled == {v \in Variables : HasReg(v)} \cup Evicted
    <3>1. StartScan(unhandled) /\ LiveRange' = LiveRange
      BY <2>2 DEF InitForSecondChance
    <3>2. unhandled \in SUBSET Variables
      BY DEF IInv, TypesOfScan
    <3>3. \A v \in Variables : HasRegTmp(v) => v \in unhandled
      BY <3>1 DEF TmpAreHeld, StartScan
    <3> HIDE DEF unhandled
    <3> QED BY <3>1, <3>2, <3>3
  <2> QED BY <2>1, <2>2
<1>2. /\ phase = "init" /\ phase' = "scan"
      /\ Unhandled' = unhandled /\ Active' = {} /\ Inactive' = {} /\ Handled' = {}
      /\ RegNumTmp' = [v \in Variables |-> IF v \in unhandled /\ HasReg(v) THEN RegNum[v] ELSE RegNumTmp[v]]
      /\ UNCHANGED <<f, Deleted, RegNum, Spilled>>
  BY <1>1 DEF StartScan
<1>3. Considered' = {}
  BY <1>2 DEF Considered
<1>4. \A v : v \in Holders' <=> v \in unhandled /\ HasReg(v)
  BY <1>2, <1>3 DEF Holders, HasReg
<1>5. ASSUME NEW v \in Variables, RegNumTmp'[v] # NoReg PROVE v \in Holders'
  <2>1. CASE v \in unhandled /\ HasReg(v)
    BY <1>4, <2>1
  <2>2. CASE ~(v \in unhandled /\ HasReg(v))
    <3>1. HasRegTmp(v)
      BY <1>2, <1>5, <2>2 DEF HasRegTmp
    <3> QED BY <1>1, <1>2, <1>4, <3>1 DEF TmpAreHeld
  <2> QED BY <2>1, <2>2
<1>6. \A v \in Holders' : v \in Variables /\ HasReg(v) /\ RegNumTmp'[v] = RegNum[v]
  BY <1>1, <1>2, <1>4
<1> QED BY <1>1, <1>2, <1>5, <1>6

LEMMA ScanEndFacts ==
  ASSUME IInv, SInv, f.kind = "Global", EndScan, TmpAreHeld
  PROVE  /\ UNCHANGED <<f, LiveRange, Deleted, Spilled>>
         /\ phase = "scan" /\ phase' \in {"init", "run"}
         /\ \A v \in Variables : RegNum'[v] # NoReg =>
              \/ HasReg(v) /\ RegNum'[v] = RegNum[v] /\ LiveRange[v] = <<>>
              \/ /\ v \in Holders /\ RegNum'[v] = RegNumTmp[v] /\ LiveRange[v] # <<>>
                 /\ HasReg(v) => RegNum'[v] = RegNum[v]
         /\ \A v \in Variables : RegNumTmp'[v] # NoReg => RegNum'[v] # NoReg
<1>1. /\ phase = "scan" /\ Unhandled = {} /\ phase' \in {"init", "run"}
      /\ RegNum' = [v \in Variables |-> IF v \in Considered THEN RegNumTmp[v] ELSE RegNum[v]]
      /\ UNCHANGED <<f, LiveRange, Deleted, Spilled, RegNumTmp>>
  BY DEF EndScan, Considered
<1>2. ScanIsSafe
  BY <1>1 DEF SInv
<1>3. ASSUME NEW v \in Variables, RegNum'[v] # NoReg, LiveRange[v] # <<>>
      PROVE  v \in Holders /\ RegNum'[v] = RegNumTmp[v]
  <2>1. v \in Considered
    BY <1>1, <1>2, <1>3 DEF ScanIsSafe, NobodyIsMissed, HasReg
  <2> QED BY <1>1, <1>3, <2>1 DEF Holders, HasRegTmp
<1>4. \A v \in Variables : HasReg(v) => RegNum'[v] = RegNum[v]
  BY EndScanFacts
<1>5. ASSUME NEW v \in Variables, RegNum'[v] # NoReg, LiveRange[v] = <<>> PROVE HasReg(v)
  BY <1>1, <1>2, <1>5 DEF ScanIsSafe, ConsideredHaveRanges, HasReg
<1>6. ASSUME NEW v \in Variables, RegNumTmp'[v] # NoReg PROVE RegNum'[v] # NoReg
  <2>1. v \in Holders
    BY <1>1, <1>6 DEF TmpAreHeld, HasRegTmp
  <2>2. v \in Considered
    BY <1>1, <2>1 DEF Holders
  <2> QED BY <1>1, <1>6, <2>2
<1> QED BY <1>1, <1>3, <1>4, <1>5, <1>6

LEMMA GlobalSteps ==
  ASSUME IInv, SInv, f.kind = "Global", [Next]_vars
  PROVE  \/ /\ phase = "liveness" /\ phase' \in {"liveness", "init"}
            /\ f' = f /\ RegNum' = f.reg /\ Spilled' = Spilled
            /\ \A v \in Variables : RegNumTmp'[v] = NoReg
            /\ \/ phase' = "liveness" /\ Live!Step
               \/ UNCHANGED <<LiveRange, Deleted, analysis>>
         \/ (InitForGlobal \/ InitForSecondChance) /\ UNCHANGED <<analysis, run>>
         \/ EndScan /\ UNCHANGED <<analysis, run>>
         \/ \E cur \in Variables : Consider(cur) /\ UNCHANGED <<analysis, run>>
         \/ UNCHANGED <<f, LiveRange, Deleted, analysis, scan>>
<1>1. CASE Analyse \/ UseRanges
  <2>1. phase = "liveness" /\ Kind # "SecondChance"
    BY <1>1 DEF Analyse, UseRanges, IInv, MustIsKept
  <2>2. RegNum = f.reg /\ RegNumTmp = [v \in Variables |-> NoReg]
    BY <2>1 DEF SInv, FirstScanIsFresh
  <2>3. CASE Analyse
    <3>1. Live!Step /\ UNCHANGED <<phase, RegNum, RegNumTmp, Spilled>>
      BY <2>3 DEF Analyse, scan
    <3>2. f' = f
      BY <3>1 DEF Live!Step, Live!Visit, Live!Converge, Live!FinalPass
    <3> QED BY <2>1, <2>2, <3>1, <3>2
  <2>4. CASE UseRanges
    <3>1. phase' = "init" /\ UNCHANGED <<f, LiveRange, Deleted, analysis, RegNum, RegNumTmp, Spilled>>
      BY <2>4 DEF UseRanges
    <3> QED BY <2>1, <2>2, <3>1
  <2> QED BY <1>1, <2>3, <2>4
<1>2. CASE Allocate
  <2>1. ~InitForInfOnly
    BY DEF InitForInfOnly, SInv, FirstScanIsFresh
  <2> QED BY <1>2, <2>1 DEF Allocate, RegAlloc
<1>3. CASE Enter \/ Execute \/ Terminated \/ UNCHANGED vars \/ \E s \in 1 .. f.nodes : TakeEdge(s)
  BY <1>3 DEF Enter, Execute, Terminated, TakeEdge, vars
<1> QED BY <1>1, <1>2, <1>3 DEF Next

LEMMA KInitHolds == Init => KInv
<1> SUFFICES ASSUME Init, f.kind = "Global" PROVE KInv
  BY DEF KInv
<1>1. /\ LP!Init /\ LP!IsFunction(f)
      /\ phase = "liveness" /\ RegNum = f.reg /\ Spilled = {}
  BY SameAnalysis, AssumptionsHold DEF Init, Live!Init
<1>2. AnalysisStays
  BY <1>1, AssumptionsHold, LP!RecordsInit, LP!FullInit, LP!SettledInit DEF AnalysisStays
<1>3. RegistersStay
  BY <1>1 DEF RegistersStay, HasReg
<1> QED BY <1>1, <1>2, <1>3 DEF KInv, TmpAreHeld, HoldersAvoidKills

LEMMA KStepHolds == IInv /\ SInv /\ LiveInv /\ KInv /\ [Next]_vars => KInv'
<1> SUFFICES ASSUME IInv, SInv, LiveInv, KInv, [Next]_vars, f'.kind = "Global" PROVE KInv'
  BY DEF KInv
<1>0. f.kind = "Global" /\ RangesAreOrdered
  <2>1. f' = f
    <3>1. CASE Analyse
      BY <3>1 DEF Analyse, Live!Step, Live!Visit, Live!Converge, Live!FinalPass
    <3>2. CASE UseRanges \/ Enter \/ Execute \/ Terminated \/ UNCHANGED vars
      BY <3>2 DEF UseRanges, Enter, Execute, Terminated, vars
    <3>3. CASE \E s \in 1 .. f.nodes : TakeEdge(s)
      BY <3>3 DEF TakeEdge
    <3>4. CASE InitForGlobal \/ InitForSecondChance \/ InitForInfOnly \/ EndScan
      BY <3>4 DEF InitForGlobal, InitForSecondChance, InitForInfOnly, StartScan, EndScan
    <3>5. ASSUME NEW cur, Consider(cur) PROVE f' = f
      BY <3>5 DEF Consider, AllocatePrecolored, AllocatePreferred, AllocateFree, Spill, Evict,
           AllocateReserve, Fail, AddSpillFill, EvictLightest, EvictAliases, Assign, LeaveWithout, Expire
    <3> QED BY <3>1, <3>2, <3>3, <3>4, <3>5 DEF Next, Allocate, RegAlloc
  <2> QED BY <2>1 DEF LiveInv
<1>1. AnalysisStays /\ RegistersStay /\ TmpAreHeld /\ HoldersAvoidKills /\ Spilled = {}
  BY <1>0 DEF KInv
<1>2. CASE /\ phase = "liveness" /\ phase' \in {"liveness", "init"}
           /\ f' = f /\ RegNum' = f.reg /\ Spilled' = Spilled
           /\ \A v \in Variables : RegNumTmp'[v] = NoReg
           /\ \/ phase' = "liveness" /\ Live!Step
              \/ UNCHANGED <<LiveRange, Deleted, analysis>>
  <2>1. AnalysisStays'
    BY <1>0, <1>1, <1>2, AnalysisStaysAlike
  <2>2. RegistersStay'
    BY <1>2 DEF RegistersStay, HasReg
  <2> QED BY <1>1, <1>2, <2>1, <2>2 DEF KInv, TmpAreHeld, HoldersAvoidKills, HasRegTmp
<1>3. CASE (InitForGlobal \/ InitForSecondChance) /\ UNCHANGED <<analysis, run>>
  <2>1. /\ UNCHANGED <<f, LiveRange, Deleted, RegNum, Spilled>>
        /\ phase' = "scan"
        /\ \A v \in Variables : RegNumTmp'[v] # NoReg => v \in Holders'
        /\ \A v \in Holders' : v \in Variables /\ HasReg(v) /\ RegNumTmp'[v] = RegNum[v]
    BY <1>0, <1>1, <1>3, ScanStartFacts
  <2>2. AnalysisStays'
    BY <1>0, <1>1, <1>3, <2>1, AnalysisStaysAlike
  <2>3. \A v : Crosses(v)' <=> Crosses(v)
    BY <2>1, KillsStay
  <2>4. RegistersStay'
    BY <1>1, <2>1, <2>3 DEF RegistersStay, HasReg
  <2>5. TmpAreHeld'
    BY <2>1 DEF TmpAreHeld, HasRegTmp
  <2>6. HoldersAvoidKills'
    BY <1>1, <2>1, <2>3 DEF RegistersStay, HoldersAvoidKills
  <2> QED BY <1>1, <2>1, <2>2, <2>4, <2>5, <2>6 DEF KInv
<1>4. CASE EndScan /\ UNCHANGED <<analysis, run>>
  <2>1. /\ UNCHANGED <<f, LiveRange, Deleted, Spilled>>
        /\ phase = "scan" /\ phase' \in {"init", "run"}
        /\ \A v \in Variables : RegNum'[v] # NoReg =>
             \/ HasReg(v) /\ RegNum'[v] = RegNum[v] /\ LiveRange[v] = <<>>
             \/ /\ v \in Holders /\ RegNum'[v] = RegNumTmp[v] /\ LiveRange[v] # <<>>
                /\ HasReg(v) => RegNum'[v] = RegNum[v]
        /\ \A v \in Variables : RegNumTmp'[v] # NoReg => RegNum'[v] # NoReg
    BY <1>0, <1>1, <1>4, ScanEndFacts
  <2>2. AnalysisStays'
    BY <1>0, <1>1, <1>4, <2>1, AnalysisStaysAlike
  <2>3. \A v : Crosses(v)' <=> Crosses(v)
    BY <2>1, KillsStay
  <2>4. RegistersStay'
    <3> SUFFICES ASSUME NEW v \in Variables
                 PROVE  /\ f.reg[v] # NoReg => RegNum'[v] = f.reg[v]
                        /\ f.reg[v] = NoReg /\ RegNum'[v] # NoReg =>
                             LiveRange[v] # <<>> /\ (Crosses(v) => RegNum'[v] \notin CallerSave)
      BY <2>1, <2>3 DEF RegistersStay, HasReg
    <3>1. ASSUME f.reg[v] # NoReg PROVE RegNum'[v] = f.reg[v]
      <4>1. HasReg(v) /\ RegNum[v] = f.reg[v]
        BY <1>1, <3>1 DEF RegistersStay, HasReg
      <4> QED BY <1>4, <4>1, EndScanFacts
    <3>2. ASSUME f.reg[v] = NoReg, RegNum'[v] # NoReg
          PROVE  LiveRange[v] # <<>> /\ (Crosses(v) => RegNum'[v] \notin CallerSave)
      <4>1. CASE HasReg(v)
        BY <1>1, <1>4, <3>2, <4>1, EndScanFacts DEF RegistersStay
      <4>2. CASE ~HasReg(v)
        BY <1>1, <2>1, <3>2, <4>2 DEF HoldersAvoidKills
      <4> QED BY <4>1, <4>2
    <3> QED BY <3>1, <3>2
  <2>5. TmpAreHeld' /\ HoldersAvoidKills'
    BY <2>1 DEF TmpAreHeld, HoldersAvoidKills, HasReg, HasRegTmp
  <2> QED BY <1>1, <2>1, <2>2, <2>4, <2>5 DEF KInv
<1>5. ASSUME NEW cur \in Variables, Consider(cur), UNCHANGED <<analysis, run>> PROVE KInv'
  <2>1. /\ phase = "scan" /\ cur \in Unhandled /\ Trimmed[cur] = -1
        /\ UNCHANGED <<f, LiveRange, Deleted, phase, RegNum, Spilled>>
    BY <1>0, <1>5, ConsiderCases
  <2>2. AnalysisStays'
    BY <1>0, <1>1, <1>5, <2>1, AnalysisStaysAlike
  <2>3. \A v : Crosses(v)' <=> Crosses(v)
    BY <2>1, KillsStay
  <2>4. RegistersStay'
    BY <1>1, <2>1, <2>3 DEF RegistersStay, HasReg
  <2>5. CASE Moves(cur)
    <3>1. TmpAreHeld'
      BY <1>1, <2>1, <2>5 DEF Moves, TmpAreHeld, Holders, HasReg, HasRegTmp
    <3>2. HoldersAvoidKills'
      BY <1>1, <2>1, <2>3, <2>5 DEF Moves, HoldersAvoidKills
    <3> QED BY <1>1, <2>1, <2>2, <2>4, <3>1, <3>2 DEF KInv
  <2>6. ASSUME NEW it \in Iterations(cur), NEW r, NEW outActive, NEW outInactive,
               Choice(cur, r, it, outActive, outInactive)
        PROVE  KInv'
    <3>1. /\ Unhandled' = Unhandled \ {cur}
          /\ Considered \cup {cur} \subseteq Considered'
          /\ r \in Regs /\ RegNumTmp'[cur] = r
          /\ \A v \in Variables \ {cur} : RegNumTmp'[v] \in {NoReg, RegNumTmp[v]}
          /\ \A w \in Holders' \ {cur} :
               w \in Holders \ (outActive \cup outInactive) /\ RegNumTmp'[w] = RegNumTmp[w]
      <4>1. f.kind # "Phi"
        BY <1>0
      <4> QED BY <1>0, <2>1, <2>6, <4>1, ChoiceFacts
    <3>2. TmpAreHeld'
      <4> SUFFICES ASSUME NEW v \in Variables, RegNumTmp'[v] # NoReg PROVE v \in Holders'
        BY <2>1 DEF TmpAreHeld, HasRegTmp
      <4>1. CASE v = cur
        BY <3>1, <4>1 DEF Holders, HasRegTmp
      <4>2. CASE v # cur
        <5>1. v \in Holders
          BY <1>1, <2>1, <3>1, <4>2 DEF TmpAreHeld, HasRegTmp
        <5> QED BY <2>1, <3>1, <4>2, <5>1 DEF Holders, HasReg, HasRegTmp
      <4> QED BY <4>1, <4>2
    <3>3. HoldersAvoidKills'
      <4> SUFFICES ASSUME NEW v \in Holders', f.reg[v] = NoReg, Crosses(v)
                   PROVE  RegNumTmp'[v] \notin CallerSave
        BY <2>1, <2>3 DEF HoldersAvoidKills
      <4>1. CASE v = cur
        <5>1. SpansKill(cur)
          BY <1>0, <2>1, <4>1, SpansIsCrosses
        <5> QED BY <2>6, <3>1, <4>1, <5>1 DEF Choice
      <4>2. CASE v # cur
        BY <1>1, <2>1, <3>1, <4>2 DEF HoldersAvoidKills
      <4> QED BY <4>1, <4>2
    <3> QED BY <1>1, <2>1, <2>2, <2>4, <3>2, <3>3 DEF KInv
  <2> QED BY <1>0, <1>5, <2>5, <2>6, ConsiderCases
<1>6. CASE UNCHANGED <<f, LiveRange, Deleted, analysis, scan>>
  <2>1. UNCHANGED <<f, LiveRange, Deleted, phase, Unhandled, Active, Inactive, Handled, RegNum,
                    RegNumTmp, Spilled>>
    BY <1>6 DEF scan
  <2>2. AnalysisStays'
    BY <1>0, <1>1, <1>6, <2>1, AnalysisStaysAlike
  <2>3. \A v : Crosses(v)' <=> Crosses(v)
    BY <2>1, KillsStay
  <2>4. Holders' = Holders
    BY <2>1 DEF Holders, Considered, HasReg, HasRegTmp
  <2>5. RegistersStay' /\ TmpAreHeld' /\ HoldersAvoidKills'
    BY <1>1, <2>1, <2>3, <2>4 DEF RegistersStay, TmpAreHeld, HoldersAvoidKills, HasReg, HasRegTmp
  <2> QED BY <1>1, <2>1, <2>2, <2>5 DEF KInv
<1> QED BY <1>0, <1>2, <1>3, <1>4, <1>5, <1>6, GlobalSteps

-----------------------------------------------------------------------------
(***************************************************************************)
(* Who may be in one register at the same time: v in r and w in q are      *)
(* twins if the only definition of one of them copies the other, or a      *)
(* twin of the other, or what the other does not overlap, while the other  *)
(* is not written; units the two registers share being those of the same   *)
(* half of the value.  (The largest such relation, as chains of copies     *)
(* may have been made in any order.)                                       *)
(***************************************************************************)
Aligned(r, q) ==
  \A k \in DOMAIN Registers[r], m \in DOMAIN Registers[q] : Registers[r][k] = Registers[q][m] => k = m
FollowsIn(v, r, w, q, Rel) ==
  /\ SharesAsCopy(v, w)
  /\ \A i \in Defs(v), s \in Variables :
       s \in f.code[i].uses =>
         \/ ~Overlap(s, w)
         \/ s = w /\ Aligned(r, q)
         \/ \E p \in Regs : <<s, p, w, q>> \in Rel /\ (Aligned(p, q) => Aligned(r, q))
Fours == Variables \X Regs \X Variables \X Regs
IsTwinship(Rel) ==
  \A v, w \in Variables, r, q \in Regs : <<v, r, w, q>> \in Rel =>
    /\ <<w, q, v, r>> \in Rel
    /\ FollowsIn(v, r, w, q, Rel) \/ FollowsIn(w, q, v, r, Rel)
Twins(v, r, w, q) == \E Rel \in SUBSET Fours : IsTwinship(Rel) /\ <<v, r, w, q>> \in Rel
Follows(v, r, w, q) ==
  /\ SharesAsCopy(v, w)
  /\ \A i \in Defs(v), s \in Variables :
       s \in f.code[i].uses =>
         \/ ~Overlap(s, w)
         \/ s = w /\ Aligned(r, q)
         \/ \E p \in Regs : Twins(s, p, w, q) /\ (Aligned(p, q) => Aligned(r, q))

LEMMA TwinsFollow ==
  ASSUME NEW v, NEW r, NEW w, NEW q, Twins(v, r, w, q)
  PROVE  /\ v \in Variables /\ r \in Regs /\ w \in Variables /\ q \in Regs
         /\ Twins(w, q, v, r)
         /\ Follows(v, r, w, q) \/ Follows(w, q, v, r)
<1>1. PICK Rel \in SUBSET Fours : IsTwinship(Rel) /\ <<v, r, w, q>> \in Rel
  BY DEF Twins
<1>2. v \in Variables /\ r \in Regs /\ w \in Variables /\ q \in Regs
  BY <1>1 DEF Fours
<1>3. /\ <<w, q, v, r>> \in Rel
      /\ FollowsIn(v, r, w, q, Rel) \/ FollowsIn(w, q, v, r, Rel)
  BY <1>1, <1>2 DEF IsTwinship
<1>4. \A s, p, u, t : <<s, p, u, t>> \in Rel => Twins(s, p, u, t)
  BY <1>1 DEF Twins
<1>5. FollowsIn(v, r, w, q, Rel) => Follows(v, r, w, q)
  BY <1>4 DEF FollowsIn, Follows
<1>6. FollowsIn(w, q, v, r, Rel) => Follows(w, q, v, r)
  BY <1>4 DEF FollowsIn, Follows
<1> QED BY <1>2, <1>3, <1>4, <1>5, <1>6

LEMMA FollowingIsTwin ==
  ASSUME NEW v \in Variables, NEW r \in Regs, NEW w \in Variables, NEW q \in Regs, Follows(v, r, w, q)
  PROVE  Twins(v, r, w, q) /\ Twins(w, q, v, r)
<1> DEFINE Old == {t \in Fours : Twins(t[1], t[2], t[3], t[4])}
           Rel == Old \cup {<<v, r, w, q>>, <<w, q, v, r>>}
<1>1. Rel \in SUBSET Fours
  BY DEF Fours
<1>2. \A s, p, u, t : Twins(s, p, u, t) => <<s, p, u, t>> \in Rel
  <2> SUFFICES ASSUME NEW s, NEW p, NEW u, NEW t, Twins(s, p, u, t) PROVE <<s, p, u, t>> \in Old
    OBVIOUS
  <2>1. <<s, p, u, t>> \in Fours
    BY TwinsFollow DEF Fours
  <2> QED BY <2>1
<1>3. \A s, p, u, t : <<s, p, u, t>> \in Rel =>
        \/ Twins(s, p, u, t)
        \/ s = v /\ p = r /\ u = w /\ t = q
        \/ s = w /\ p = q /\ u = v /\ t = r
  OBVIOUS
<1>4. <<v, r, w, q>> \in Rel /\ <<w, q, v, r>> \in Rel
  OBVIOUS
<1> HIDE DEF Rel
<1>5. \A s, p, u, t : Follows(s, p, u, t) => FollowsIn(s, p, u, t, Rel)
  BY <1>2 DEF Follows, FollowsIn
<1>6. IsTwinship(Rel)
  <2> SUFFICES ASSUME NEW s \in Variables, NEW u \in Variables, NEW p \in Regs, NEW t \in Regs,
                      <<s, p, u, t>> \in Rel
               PROVE  /\ <<u, t, s, p>> \in Rel
                      /\ FollowsIn(s, p, u, t, Rel) \/ FollowsIn(u, t, s, p, Rel)
    BY DEF IsTwinship
  <2>1. CASE Twins(s, p, u, t)
    BY <1>2, <1>5, <2>1, TwinsFollow
  <2>2. CASE s = v /\ p = r /\ u = w /\ t = q
    BY <1>4, <1>5, <2>2
  <2>3. CASE s = w /\ p = q /\ u = v /\ t = r
    BY <1>4, <1>5, <2>3
  <2> QED BY <1>3, <2>1, <2>2, <2>3
<1> QED BY <1>1, <1>4, <1>6 DEF Twins

LEMMA TwinsStay ==
  ASSUME f' = f, LiveRange' = LiveRange, Deleted' = Deleted
  PROVE  \A v, r, w, q : Twins(v, r, w, q)' <=> Twins(v, r, w, q)
<1>1. \A v, w : SharesAsCopy(v, w)' <=> SharesAsCopy(v, w)
  BY DEF SharesAsCopy, IsCopy, Defs, Kept, InRange, Num
<1>2. \A v : Defs(v)' = Defs(v)
  BY DEF Defs, Kept
<1>3. \A v, w : Overlap(v, w)' <=> Overlap(v, w)
  BY FunctionStays
<1>4. \A v, r, w, q, Rel : FollowsIn(v, r, w, q, Rel)' <=> FollowsIn(v, r, w, q, Rel)
  <2>1. \A r, q : Aligned(r, q)' <=> Aligned(r, q)
    BY DEF Aligned
  <2> SUFFICES ASSUME NEW v, NEW r, NEW w, NEW q, NEW Rel
               PROVE  FollowsIn(v, r, w, q, Rel)' <=> FollowsIn(v, r, w, q, Rel)
    OBVIOUS
  <2> QED BY <1>1, <1>2, <1>3, <2>1 DEF FollowsIn
<1>5. \A Rel : IsTwinship(Rel)' <=> IsTwinship(Rel)
  BY <1>4 DEF IsTwinship
<1> QED BY <1>5 DEF Twins

-----------------------------------------------------------------------------
(***************************************************************************)
(* What the theorem below takes for granted of a function, beyond what the *)
(* module does.  The last visits of the nodes are settled.  Behind a call  *)
(* is its FakeKill, and what has an effect reads what it assigns, as       *)
(* prefixed and read-modify-write instructions do, or is a call with its   *)
(* result in a scratch register.                                           *)
(***************************************************************************)
IsSettled == LP!Settled \/ LP!HasNoLoop \/ ~LP!HasPhis(f)
CallsAreKilled ==
  \A i \in DOMAIN f.code : f.code[i].call =>
    /\ ~f.code[i].copy /\ f.code[i].effect
    /\ i + 1 \in DOMAIN f.code
    /\ f.code[i + 1].node = f.code[i].node
    /\ f.code[i + 1].kill /\ f.code[i + 1].effect
    /\ f.code[i + 1].dest = None /\ f.code[i + 1].uses = {}
EffectsReadDest ==
  \A i \in DOMAIN f.code : f.code[i].effect /\ f.code[i].dest # None =>
    /\ ~f.code[i].copy
    /\ \/ f.code[i].dest \in f.code[i].uses
       \/ /\ f.code[i].call
          /\ f.reg[f.code[i].dest] # NoReg
          /\ Aliases(f.reg[f.code[i].dest]) \subseteq CallerSave

(***************************************************************************)
(* The register preferred for a copy begins with the units of its source's *)
(* register.  Pre-colored variables in registers that alias are not live   *)
(* together, and none but its result is in a scratch register behind a     *)
(* call.                                                                   *)
(***************************************************************************)
CopiesFindTheirPart ==
  \A i \in Kept, s \in Variables, q \in Regs :
    f.code[i].copy /\ s \in f.code[i].uses /\ q \in RegMaskUnfiltered(s) =>
      LET found == RegMask(f.code[i].dest) \cap Aliases(q) IN
      found # {} => \A k \in 1 .. Width(f.code[i].dest) : Registers[Min(found)][k] = Registers[q][k]
PrecoloredApart ==
  \A v, w \in Variables :
    v # w /\ f.reg[v] # NoReg /\ f.reg[w] # NoReg /\ f.reg[v] \in Aliases(f.reg[w]) => ~Overlap(v, w)
Spans(v, n) == \E k \in DOMAIN LiveRange[v] : LiveRange[v][k][1] < n /\ n < LiveRange[v][k][2]
PrecoloredAtCalls ==
  \A i \in Kept, v \in Variables :
    f.code[i].call /\ f.reg[v] \in CallerSave /\ Spans(v, Num(i) + 1) => f.code[i].dest = v

(***************************************************************************)
(* The entry has no phis, only arguments are live there, and arguments     *)
(* with a register or a range are.                                         *)
(***************************************************************************)
EntryHasArgs ==
  /\ LP!Phis(1) = {}
  /\ LiveIn[1] \subseteq Args
  /\ \A v \in Args : LiveRange[v] # <<>> \/ f.reg[v] # NoReg => InRange(v, 1)

IsRegular ==
  /\ IsSettled
  /\ CallsAreKilled
  /\ EffectsReadDest
  /\ CopiesFindTheirPart
  /\ PrecoloredApart
  /\ PrecoloredAtCalls
  /\ EntryHasArgs

-----------------------------------------------------------------------------
(***************************************************************************)
(* Registers that begin with the same units.                               *)
(***************************************************************************)
IsPartOf(r, p) == \A k \in DOMAIN Registers[r] : k \in DOMAIN Registers[p] /\ Registers[p][k] = Registers[r][k]

LEMMA PartFacts ==
  ASSUME NEW r \in Regs, NEW p \in Regs, NEW q \in Regs, IsPartOf(r, p)
  PROVE  /\ Aligned(p, q) => Aligned(r, q)
         /\ r \in Aliases(q) => p \in Aliases(q)
         /\ Aligned(r, p)
<1>1. Aligned(p, q) => Aligned(r, q)
  BY DEF Aligned, IsPartOf
<1>2. UnitsOf(r) \subseteq UnitsOf(p)
  BY DEF UnitsOf, IsPartOf
<1>3. r \in Aliases(q) => p \in Aliases(q)
  BY <1>2 DEF Aliases, AliasTable
<1>4. Aligned(r, p)
  BY RegistersAssumption DEF Aligned, IsPartOf, Regs
<1> QED BY <1>1, <1>3, <1>4

(***************************************************************************)
(* If Cur may share the register preferred, it is a copy of a variable     *)
(* that holds a register of which the preferred one is a part.             *)
(***************************************************************************)
LEMMA SourceIsHeld ==
  ASSUME IInv, CopiesFindTheirPart, NEW cur \in Variables, NEW it \in Iterations(cur), it.allowOverlap
  PROVE  \E s \in Variables :
           /\ HasRegTmp(s) /\ RegNumTmp[s] \in Regs
           /\ it.prefer \in Regs /\ IsPartOf(it.prefer, RegNumTmp[s])
           /\ \A i \in Defs(cur) : f.code[i].uses = {s}
<1> DEFINE active == NowActive(cur)
           uses == UsesWithout(Active \ active, active \ Active)
           overlapping == {v \in NowInactive(cur) : RangeOverlaps(v, cur)}
           precolored == UNION {Aliases(RegNum[v]) :
                                  v \in {w \in Unhandled : HasReg(w) /\ RangeOverlaps(w, cur)}}
           blocked == precolored \cup (IF SpansKill(cur) THEN CallerSave ELSE {})
           unused == {r \in Regs : uses[r] <= 0}
           free == unused \ (AliasesOf(overlapping) \cup blocked)
           weight == [r \in Regs |->
                        IF r \in blocked THEN Infinite
                        ELSE SumOfWeights({v \in active \cup overlapping : r \in Aliases(RegNumTmp[v])})]
<1>1. PICK p \in Preferences(cur, unused \cap RegMask(cur)) :
        it = [active |-> active, uses |-> uses, overlapping |-> overlapping, weight |-> weight,
              free |-> free \cap RegMask(cur),
              freeUnfiltered |-> free \cap RegMaskUnfiltered(cur),
              prefer |-> p.reg,
              allowOverlap |-> OverlapAllowed(cur, p, active, overlapping, precolored)]
  BY DEF Iterations
<1> HIDE DEF active, uses, overlapping, blocked, unused, free, weight, precolored
<1>2. it.prefer = p.reg /\ p.overlap
  BY <1>1 DEF OverlapAllowed
<1>3. p # NoPreference
  BY <1>2 DEF NoPreference
<1>4. PICK i \in DefInst(cur) :
        \E w \in {w \in f.code[i].uses : HasRegTmp(w) /\ RegMask(cur) \cap Aliases(RegNumTmp[w]) # {}} :
          p = Preference(cur, i, w, unused \cap RegMask(cur))
  BY <1>3 DEF Preferences
<1>5. PICK s \in f.code[i].uses :
        /\ HasRegTmp(s) /\ RegMask(cur) \cap Aliases(RegNumTmp[s]) # {}
        /\ p = Preference(cur, i, s, unused \cap RegMask(cur))
  BY <1>4
<1>6. /\ f.code[i].copy /\ Cardinality(Defs(cur)) = 1
      /\ it.prefer = Min(RegMask(cur) \cap Aliases(RegNumTmp[s]))
  BY <1>2, <1>5 DEF Preference
<1>7. Requirements(f) /\ Defs(cur) \subseteq 1 .. Len(f.code) /\ Len(f.code) \in Nat /\ DOMAIN f.code = 1 .. Len(f.code)
  BY FunctionIsFunction DEF Defs
<1>8. PICK j : Defs(cur) = {j}
  <2>1. IsFiniteSet(1 .. Len(f.code))
    <3>1. Len(f.code) \in Int /\ 1 \in Int
      BY <1>7
    <3> QED BY <3>1, FS_Interval
  <2>2. Defs(cur) \in SUBSET (1 .. Len(f.code))
    BY <1>7
  <2>3. IsFiniteSet(Defs(cur))
    BY <2>1, <2>2, FS_Subset
  <2> QED BY <1>6, <2>3, FS_Singleton
<1>9. i = j /\ i \in Kept /\ f.code[i].dest = cur
  <2>1. Defs(cur) \in SUBSET Nat /\ Defs(cur) # {}
    BY <1>7, <1>8
  <2>2. Min(Defs(cur)) \in Defs(cur)
    BY <2>1, MinIsIn
  <2>3. i = Min(Defs(cur))
    BY DEF DefInst
  <2> QED BY <1>8, <2>2, <2>3 DEF Defs
<1>10. s \in Variables /\ f.code[i].uses = {s}
  <2>1. i \in DOMAIN f.code
    BY <1>9 DEF Kept
  <2> QED BY <1>6, <1>7, <2>1 DEF Requirements
<1>11. RegNumTmp[s] \in Regs /\ RegNumTmp[s] \in RegMaskUnfiltered(s)
  BY <1>5, <1>10 DEF IInv, TypesOfScan, WidthsMatch, HasRegTmp
<1>12. it.prefer \in RegMask(cur) /\ it.prefer \in Regs
  BY <1>5, <1>6, MinIsIn, MasksAreRegs, RegsAreNumbers
<1>13. \A k \in 1 .. Width(cur) : Registers[it.prefer][k] = Registers[RegNumTmp[s]][k]
  BY <1>5, <1>6, <1>9, <1>10, <1>11 DEF CopiesFindTheirPart
<1>14. Len(Registers[it.prefer]) = Width(cur) /\ Len(Registers[RegNumTmp[s]]) = Width(s)
  BY <1>11, <1>12, MasksAreRegs DEF RegMaskUnfiltered
<1>15. 1 .. Width(cur) \subseteq 1 .. Width(s)
  <2>1. cur \in f.wide => s \in f.wide
    <3>1. i \in DOMAIN f.code
      BY <1>9 DEF Kept
    <3> QED BY <1>6, <1>7, <1>9, <1>10, <3>1 DEF Requirements
  <2> QED BY <2>1 DEF Width
<1>16. IsPartOf(it.prefer, RegNumTmp[s])
  <2>1. DOMAIN Registers[it.prefer] = 1 .. Width(cur) /\ DOMAIN Registers[RegNumTmp[s]] = 1 .. Width(s)
    BY <1>11, <1>12, <1>14, UnitsAreCells
  <2> QED BY <1>13, <1>15, <2>1 DEF IsPartOf
<1> QED BY <1>5, <1>8, <1>9, <1>10, <1>11, <1>12, <1>16

(***************************************************************************)
(* Variables that overlap and share units are twins: in a scan those that  *)
(* hold a register, and after it all.                                      *)
(***************************************************************************)
HoldersAreTwins ==
  \A v, w \in Holders, r, q \in Regs :
    v # w /\ RegNumTmp[v] = r /\ RegNumTmp[w] = q /\ r \in Aliases(q) /\ Overlap(v, w)
    => Twins(v, r, w, q)
SharersAreTwins ==
  \A v, w \in Variables, r, q \in Regs :
    v # w /\ RegNum[v] = r /\ RegNum[w] = q /\ r \in Aliases(q) /\ Overlap(v, w)
    => Twins(v, r, w, q)
TInv ==
  /\ f.kind = "Global"
  /\ phase \in {"init", "scan", "run"}
  /\ CopiesFindTheirPart /\ PrecoloredApart
  => /\ SharersAreTwins
     /\ phase = "scan" => HoldersAreTwins

LEMMA ChoiceKeepsTwins ==
  ASSUME IInv, SInv, RangesAreOrdered, f.kind = "Global", phase = "scan", TmpAreHeld,
         CopiesFindTheirPart, HoldersAreTwins,
         NEW cur \in Unhandled, NEW it \in Iterations(cur),
         NEW r, NEW outActive, NEW outInactive, Choice(cur, r, it, outActive, outInactive),
         UNCHANGED <<f, LiveRange, Deleted>>
  PROVE  HoldersAreTwins'
<1> DEFINE out == outActive \cup outInactive
<1>1. /\ r \in Regs /\ RegNumTmp'[cur] = r
      /\ \A w \in Holders' \ {cur} : w \in Holders \ out /\ RegNumTmp'[w] = RegNumTmp[w]
      /\ \A w \in Holders \ out :
           Overlap(w, cur) /\ r \in Aliases(RegNumTmp[w]) => w \in (it.active \cup it.overlapping) \ out
  <2>1. f.kind # "Phi"
    OBVIOUS
  <2> QED BY <2>1, ChoiceFacts
<1>2. /\ cur \in Variables /\ ~HasRegTmp(cur)
      /\ Holders \subseteq Variables
  BY DEF IInv, TypesOfScan, SInv, ScanIsSafe, UnhandledIsFresh, Choice, Holders, Considered
<1>3. /\ \A w \in (it.active \cup it.overlapping) \ out : r \in Aliases(RegNumTmp[w]) => SharesAsCopy(cur, w)
      /\ \/ \A w \in (it.active \cup it.overlapping) \ out : r \notin Aliases(RegNumTmp[w])
         \/ it.allowOverlap /\ r = it.prefer
  BY DEF Choice, Safe
<1> HIDE DEF out
<1>4. ASSUME NEW w \in Holders \ out, NEW q \in Regs, RegNumTmp[w] = q, r \in Aliases(q), Overlap(w, cur)
      PROVE  Twins(cur, r, w, q) /\ Twins(w, q, cur, r)
  <2>1. /\ w \in (it.active \cup it.overlapping) \ out
        /\ SharesAsCopy(cur, w) /\ it.allowOverlap /\ r = it.prefer
    BY <1>1, <1>3, <1>4
  <2>2. PICK s \in Variables :
          /\ HasRegTmp(s) /\ RegNumTmp[s] \in Regs
          /\ IsPartOf(r, RegNumTmp[s])
          /\ \A i \in Defs(cur) : f.code[i].uses = {s}
    BY <1>2, <2>1, SourceIsHeld
  <2> DEFINE p == RegNumTmp[s]
  <2>3. s \in Holders
    BY <2>2 DEF TmpAreHeld
  <2>4. /\ Aligned(p, q) => Aligned(r, q)
        /\ p \in Aliases(q)
        /\ Aligned(r, p)
    BY <1>1, <1>4, <2>2, PartFacts
  <2>5. /\ p \in Regs
        /\ s = w => Aligned(r, q)
        /\ s # w /\ Overlap(s, w) => Twins(s, p, w, q)
    BY <1>4, <2>2, <2>3, <2>4 DEF HoldersAreTwins
  <2> HIDE DEF p
  <2>6. Follows(cur, r, w, q)
    BY <2>1, <2>2, <2>4, <2>5 DEF Follows
  <2> QED BY <1>1, <1>2, <2>6, FollowingIsTwin
<1>5. \A v, w, p, q : Twins(v, p, w, q)' <=> Twins(v, p, w, q)
  BY TwinsStay
<1>6. \A v, w : Overlap(v, w)' <=> Overlap(v, w)
  BY FunctionStays
<1>7. SUFFICES ASSUME NEW v \in Holders', NEW w \in Holders', NEW p \in Regs, NEW q \in Regs,
                      v # w, RegNumTmp'[v] = p, RegNumTmp'[w] = q, p \in Aliases(q), Overlap(v, w)
               PROVE  Twins(v, p, w, q)
  BY <1>5, <1>6 DEF HoldersAreTwins
<1>8. CASE v = cur
  <2>1. w \in Holders \ out /\ RegNumTmp[w] = q /\ p = r
    BY <1>1, <1>7, <1>8
  <2> QED BY <1>4, <1>7, <1>8, <2>1, OverlapIsSymmetric
<1>9. CASE w = cur
  <2>1. v \in Holders \ out /\ RegNumTmp[v] = p /\ q = r
    BY <1>1, <1>7, <1>9
  <2>2. r \in Aliases(p)
    BY <1>7, <2>1, AliasesAreRegs
  <2> QED BY <1>4, <1>7, <1>9, <2>1, <2>2
<1>10. CASE v # cur /\ w # cur
  BY <1>1, <1>7, <1>10 DEF HoldersAreTwins
<1> QED BY <1>8, <1>9, <1>10

LEMMA FunctionIsConstant == ASSUME [Next]_vars PROVE f' = f
<1>1. CASE Analyse
  BY <1>1 DEF Analyse, Live!Step, Live!Visit, Live!Converge, Live!FinalPass
<1>2. CASE UseRanges \/ Enter \/ Execute \/ Terminated \/ UNCHANGED vars
  BY <1>2 DEF UseRanges, Enter, Execute, Terminated, vars
<1>3. CASE \E s \in 1 .. f.nodes : TakeEdge(s)
  BY <1>3 DEF TakeEdge
<1>4. CASE InitForGlobal \/ InitForSecondChance \/ InitForInfOnly \/ EndScan
  BY <1>4 DEF InitForGlobal, InitForSecondChance, InitForInfOnly, StartScan, EndScan
<1>5. ASSUME NEW cur, Consider(cur) PROVE f' = f
  BY <1>5 DEF Consider, AllocatePrecolored, AllocatePreferred, AllocateFree, Spill, Evict,
       AllocateReserve, Fail, AddSpillFill, EvictLightest, EvictAliases, Assign, LeaveWithout, Expire
<1> QED BY <1>1, <1>2, <1>3, <1>4, <1>5 DEF Next, Allocate, RegAlloc

LEMMA PremisesStay ==
  ASSUME f' = f, LiveRange' = LiveRange, Deleted' = Deleted
  PROVE  /\ CopiesFindTheirPart' <=> CopiesFindTheirPart
         /\ PrecoloredApart' <=> PrecoloredApart
<1>1. PrecoloredApart' <=> PrecoloredApart
  BY FunctionStays DEF PrecoloredApart
<1>2. Kept' = Kept /\ \A v : /\ RegMask(v)' = RegMask(v) /\ Width(v)' = Width(v)
                             /\ RegMaskUnfiltered(v)' = RegMaskUnfiltered(v)
  BY DEF Kept, RegMask, RegMaskUnfiltered, Width
<1>3. CopiesFindTheirPart' <=> CopiesFindTheirPart
  BY <1>2 DEF CopiesFindTheirPart
<1> QED BY <1>1, <1>3

LEMMA TStepHolds == IInv /\ SInv /\ LiveInv /\ KInv /\ TInv /\ [Next]_vars => TInv'
<1> SUFFICES ASSUME IInv, SInv, LiveInv, KInv, TInv, [Next]_vars,
                    f'.kind = "Global", phase' \in {"init", "scan", "run"},
                    CopiesFindTheirPart', PrecoloredApart'
             PROVE  SharersAreTwins' /\ (phase' = "scan" => HoldersAreTwins')
  BY DEF TInv
<1>0. f.kind = "Global" /\ RangesAreOrdered /\ TmpAreHeld
  <2>1. f' = f
    BY FunctionIsConstant
  <2> QED BY <2>1 DEF LiveInv, KInv
<1>1. ASSUME f' = f, LiveRange' = LiveRange, Deleted' = Deleted, phase \in {"init", "scan", "run"}
      PROVE  /\ CopiesFindTheirPart /\ PrecoloredApart
             /\ SharersAreTwins /\ (phase = "scan" => HoldersAreTwins)
             /\ \A v, w, p, q : Twins(v, p, w, q)' <=> Twins(v, p, w, q)
             /\ \A v, w : Overlap(v, w)' <=> Overlap(v, w)
  <2>1. CopiesFindTheirPart /\ PrecoloredApart
    BY <1>1, PremisesStay
  <2> QED BY <1>0, <1>1, <2>1, TwinsStay, FunctionStays DEF TInv
<1>2. CASE /\ phase = "liveness" /\ phase' \in {"liveness", "init"}
           /\ f' = f /\ RegNum' = f.reg /\ Spilled' = Spilled
           /\ \A v \in Variables : RegNumTmp'[v] = NoReg
           /\ \/ phase' = "liveness" /\ Live!Step
              \/ UNCHANGED <<LiveRange, Deleted, analysis>>
  <2>1. UNCHANGED <<f, LiveRange, Deleted>> /\ phase' = "init" /\ RegNum' = f.reg
    BY <1>2
  <2>2. PrecoloredApart /\ \A v, w : Overlap(v, w)' <=> Overlap(v, w)
    BY <2>1, PremisesStay, FunctionStays
  <2> QED BY <2>1, <2>2, RegsAreNumbers DEF SharersAreTwins, PrecoloredApart
<1>3. CASE (InitForGlobal \/ InitForSecondChance) /\ UNCHANGED <<analysis, run>>
  <2>1. /\ UNCHANGED <<f, LiveRange, Deleted, RegNum>> /\ phase = "init"
        /\ \A v \in Holders' : v \in Variables /\ HasReg(v) /\ RegNumTmp'[v] = RegNum[v]
    BY <1>0, <1>3, ScanStartFacts
  <2>2. SharersAreTwins'
    BY <1>1, <2>1 DEF SharersAreTwins
  <2>3. HoldersAreTwins'
    BY <1>1, <2>1 DEF SharersAreTwins, HoldersAreTwins
  <2> QED BY <2>2, <2>3
<1>4. CASE EndScan /\ UNCHANGED <<analysis, run>>
  <2>1. /\ UNCHANGED <<f, LiveRange, Deleted>> /\ phase = "scan" /\ phase' # "scan"
        /\ \A v \in Variables : RegNum'[v] # NoReg /\ LiveRange[v] # <<>> =>
             v \in Holders /\ RegNum'[v] = RegNumTmp[v]
    BY <1>0, <1>4, ScanEndFacts
  <2>2. \A v, w \in Variables : Overlap(v, w) => LiveRange[v] # <<>> /\ LiveRange[w] # <<>>
    BY DEF Overlap, Live!Overlaps
  <2>3. SharersAreTwins'
    <3> SUFFICES ASSUME NEW v \in Variables, NEW w \in Variables, NEW r \in Regs, NEW q \in Regs,
                        v # w, RegNum'[v] = r, RegNum'[w] = q, r \in Aliases(q), Overlap(v, w)
                 PROVE  Twins(v, r, w, q)
      BY <1>1, <2>1 DEF SharersAreTwins
    <3>1. v \in Holders /\ w \in Holders /\ RegNumTmp[v] = r /\ RegNumTmp[w] = q
      BY <2>1, <2>2, RegsAreNumbers
    <3> QED BY <1>1, <2>1, <3>1 DEF HoldersAreTwins
  <2> QED BY <2>1, <2>3
<1>5. ASSUME NEW cur \in Variables, Consider(cur), UNCHANGED <<analysis, run>>
      PROVE  SharersAreTwins' /\ (phase' = "scan" => HoldersAreTwins')
  <2>1. /\ phase = "scan" /\ cur \in Unhandled
        /\ UNCHANGED <<f, LiveRange, Deleted, phase, RegNum>>
    BY <1>0, <1>5, ConsiderCases
  <2>2. SharersAreTwins'
    BY <1>1, <2>1 DEF SharersAreTwins
  <2>3. CASE Moves(cur)
    BY <1>1, <2>1, <2>2, <2>3 DEF Moves, HoldersAreTwins
  <2>4. ASSUME NEW it \in Iterations(cur), NEW r, NEW outActive, NEW outInactive,
               Choice(cur, r, it, outActive, outInactive)
        PROVE  HoldersAreTwins'
    BY <1>0, <1>1, <2>1, <2>4, ChoiceKeepsTwins
  <2> QED BY <1>0, <1>5, <2>2, <2>3, <2>4, ConsiderCases
<1>6. CASE UNCHANGED <<f, LiveRange, Deleted, analysis, scan>>
  <2>1. UNCHANGED <<f, LiveRange, Deleted, phase, Unhandled, Active, Inactive, Handled, RegNum, RegNumTmp>>
    BY <1>6 DEF scan
  <2>2. Holders' = Holders
    BY <2>1 DEF Holders, Considered, HasReg, HasRegTmp
  <2> QED BY <1>1, <2>1, <2>2 DEF SharersAreTwins, HoldersAreTwins
<1> QED BY <1>0, <1>2, <1>3, <1>4, <1>5, <1>6, GlobalSteps

LEMMA TInitHolds == Init => TInv
<1> SUFFICES ASSUME Init, f.kind = "Global", phase \in {"init", "scan", "run"} PROVE FALSE
  BY DEF TInv
<1> QED BY DEF Init

-----------------------------------------------------------------------------
(***************************************************************************)
(* The machine.  Before each instruction the variables live above it are   *)
(* in their places, they overlap, and twins among them are in the same     *)
(* cells, as far as both have halves.                                      *)
(***************************************************************************)
Above == [i \in DOMAIN f.code |-> LP!LiveAbove(i, LP!Walk(f.code[i].node)[i])]
LiveNow == IF leaving THEN LiveOut[f.code[next].node] ELSE Above[next]
PlaceHas(h, v) == \A k \in 1 .. Width(v) : <<v, k>> \in h[Place(v)[k]]
Same(h, v, w) ==
  \A k \in (1 .. Width(v)) \cap (1 .. Width(w)), c \in Cells : <<v, k>> \in h[c] <=> <<w, k>> \in h[c]
GoodFor(h, L) ==
  /\ L \subseteq Variables
  /\ \A v \in L : PlaceHas(h, v)
  /\ \A v, w \in L : v # w => Overlap(v, w)
  /\ \A v, w \in L, r, q \in Regs : v # w /\ Twins(v, r, w, q) => Aligned(r, q) /\ Same(h, v, w)
RInv ==
  f.kind = "Global" /\ phase = "run" /\ next # 0 /\ IsRegular =>
    /\ next \in LP!Insts(f.code[next].node)
    /\ leaving => next = LP!Last(f.code[next].node)
    /\ GoodFor(holds, LiveNow)

(***************************************************************************)
(* What the earlier invariants say of the code that runs.                  *)
(***************************************************************************)
Ready ==
  /\ IInv
  /\ LP!Finished
  /\ RangesAreOrdered
  /\ RegistersStay
  /\ SharersAreTwins
  /\ Spilled = {}
  /\ PhisCanBeLowered
  /\ f.kind = "Global"
  /\ IsRegular

LEMMA ReadyAtRun ==
  ASSUME IInv, SInv, LiveInv, KInv, TInv, f.kind = "Global", phase = "run", IsRegular
  PROVE  Ready
<1>1. RangesAreOrdered /\ LP!IInv /\ pc = "done"
  BY DEF LiveInv
<1>2. LP!AnalysisIsRecorded /\ LP!RangesAreFull /\ LP!SettledSoFar /\ RegistersStay /\ Spilled = {}
  BY DEF KInv, AnalysisStays
<1>3. LP!Settled
  <2>1. CASE LP!Settled
    BY <2>1
  <2>2. CASE LP!HasNoLoop \/ ~LP!HasPhis(f)
    <3>1. LP!IsSimple
      BY <2>2 DEF LP!IsSimple
    <3> QED BY <1>1, <1>2, <3>1, AssumptionsHold, LP!SimpleIsSettled
  <2> QED BY <2>1, <2>2 DEF IsRegular, IsSettled
<1>4. LP!Finished
  BY <1>1, <1>2, <1>3, AssumptionsHold, LP!FinishedHolds
<1>5. SharersAreTwins
  BY DEF TInv, IsRegular
<1>6. PhisCanBeLowered
  BY PhisAreApart
<1> QED BY <1>1, <1>2, <1>4, <1>5, <1>6 DEF Ready

LEMMA SameOperators ==
  /\ \A n : Live!Insts(n) = LP!Insts(n) /\ Live!CodeOf(n) = LP!CodeOf(n) /\ Live!Phis(n) = LP!Phis(n)
  /\ \A v : Live!IsArg(v) <=> LP!IsArg(v)
  /\ \A v, w : Overlap(v, w) <=> LP!Overlaps(LiveRange[v], LiveRange[w])
  /\ \A v, n : InRange(v, n) <=> LP!Covers(LiveRange[v], n)
  /\ \A v : RangesAreOrdered /\ v \in Variables => LP!IsOrdered(LiveRange[v])
  /\ LP!Nodes = 1 .. f.nodes /\ LP!Code = DOMAIN f.code
<1>1. \A n : Live!Insts(n) = LP!Insts(n) /\ Live!CodeOf(n) = LP!CodeOf(n) /\ Live!Phis(n) = LP!Phis(n)
  BY DEF Live!Insts, LP!Insts, Live!CodeOf, LP!CodeOf, Live!Phis, LP!Phis, Live!Code, LP!Code,
         Live!IsPhi, LP!IsPhi
<1>2. \A v : Live!IsArg(v) <=> LP!IsArg(v)
  BY DEF Live!IsArg, LP!IsArg, Live!Code, LP!Code
<1>3. \A v, w : Overlap(v, w) <=> LP!Overlaps(LiveRange[v], LiveRange[w])
  BY DEF Overlap, Live!Overlaps, LP!Overlaps
<1>4. \A v, n : InRange(v, n) <=> LP!Covers(LiveRange[v], n)
  BY DEF InRange, LP!Covers
<1>5. \A v : RangesAreOrdered /\ v \in Variables => LP!IsOrdered(LiveRange[v])
  BY SameAnalysis DEF RangesAreOrdered
<1>6. LP!Nodes = 1 .. f.nodes /\ LP!Code = DOMAIN f.code
  BY DEF LP!Nodes, LP!Code
<1> QED BY <1>1, <1>2, <1>3, <1>4, <1>5, <1>6

LEMMA InRangeTogether ==
  ASSUME RangesAreOrdered, NEW v \in Variables, NEW w \in Variables, NEW n \in Nat,
         InRange(v, n), InRange(w, n)
  PROVE  Overlap(v, w)
<1>1. LP!IsOrdered(LiveRange[v]) /\ LP!IsOrdered(LiveRange[w])
      /\ LP!Covers(LiveRange[v], n) /\ LP!Covers(LiveRange[w], n)
  BY SameOperators
<1>2. LP!Overlaps(LiveRange[v], LiveRange[w])
  BY <1>1, AssumptionsHold, LP!CoveredOverlap
<1> QED BY <1>2, SameOperators

LEMMA InstructionFacts ==
  ASSUME Ready, NEW n \in 1 .. f.nodes, NEW i \in LP!Insts(n), NEW W, W = LP!Walk(n)[i]
  PROVE  /\ i \in Nat \ {0} /\ i \in DOMAIN f.code /\ f.code[i].node = n /\ f.code[i].uses \subseteq Variables
         /\ W \subseteq Variables /\ Above[i] \subseteq Variables
         /\ i \in Deleted => Above[i] = W
         /\ i \notin Deleted => i \in Kept /\ f.code[i].uses \subseteq Above[i] /\ W \ {f.code[i].dest} \subseteq Above[i]
         /\ i \notin Deleted /\ f.code[i].dest # None /\ f.code[i].dest \notin W => f.code[i].effect
         /\ i \notin Deleted => /\ \A v \in W : InRange(v, Num(i))
                                /\ \A v, w \in W : Overlap(v, w)
         /\ i # LP!Last(n) => i + 1 \in LP!Insts(n) /\ W = Above[i + 1]
         /\ i = LP!Last(n) => W = LiveOut[n]
<1>1. n \in LP!Nodes /\ LP!Finished /\ RangesAreOrdered
  BY SameOperators DEF Ready
<1>2. PICK A : A = LP!LiveAbove(i, W)
  OBVIOUS
<1>3. /\ i \in Nat \ {0} /\ i \in LP!Code /\ f.code[i].node = n /\ f.code[i].uses \subseteq Variables
      /\ W \subseteq Variables /\ A \subseteq Variables
      /\ i \in Deleted => A = W
      /\ i \notin Deleted => f.code[i].uses \subseteq A /\ W \ {f.code[i].dest} \subseteq A
      /\ i \notin Deleted /\ f.code[i].dest # None /\ f.code[i].dest \notin W => f.code[i].effect
      /\ i \notin Deleted => \A v \in W : LP!Covers(LiveRange[v], i + 1)
      /\ i # LP!Last(n) => i + 1 \in LP!Insts(n) /\ W = LP!LiveAbove(i + 1, LP!Walk(n)[i + 1])
      /\ i = LP!Last(n) => W = LiveOut[n]
  BY <1>1, <1>2, AssumptionsHold, LP!InstFacts
<1>4. i \in DOMAIN f.code /\ Above[i] = A
  BY <1>2, <1>3, SameOperators DEF Above
<1>5. i \notin Deleted => i \in Kept
  BY <1>4 DEF Kept
<1>6. ASSUME i # LP!Last(n) PROVE W = Above[i + 1]
  <2>1. i + 1 \in DOMAIN f.code /\ f.code[i + 1].node = n
    BY <1>3, <1>6 DEF LP!Insts, LP!CodeOf, LP!Code
  <2> QED BY <1>3, <1>6, <2>1 DEF Above
<1>7. i \notin Deleted => \A v \in W : InRange(v, Num(i))
  BY <1>3, SameOperators DEF Num
<1>8. Num(i) \in Nat
  BY <1>3 DEF Num
<1>9. i \notin Deleted => \A v, w \in W : Overlap(v, w)
  BY <1>1, <1>3, <1>7, <1>8, InRangeTogether
<1> QED BY <1>3, <1>4, <1>5, <1>6, <1>7, <1>9

(***************************************************************************)
(* Places.                                                                 *)
(***************************************************************************)
LEMMA PlaceFacts ==
  ASSUME IInv, NEW v \in Variables
  PROVE  /\ DOMAIN Place(v) = 1 .. Width(v)
         /\ \A k \in 1 .. Width(v) : Place(v)[k] \in Cells
         /\ \A k, m \in 1 .. Width(v) : Place(v)[k] = Place(v)[m] => k = m
         /\ HasReg(v) => RegNum[v] \in Regs /\ Place(v) = Registers[RegNum[v]]
         /\ ~HasReg(v) => \A k \in 1 .. Width(v) : Place(v)[k] \notin Units
<1>1. DOMAIN Place(v) = 1 .. Width(v) /\ \A k \in 1 .. Width(v) : Place(v)[k] \in Cells
  BY PlaceHasWidth
<1>2. HasReg(v) => RegNum[v] \in Regs /\ Place(v) = Registers[RegNum[v]]
  BY DEF IInv, TypesOfScan, HasReg, Place
<1>3. ~HasReg(v) => \A k \in 1 .. Width(v) : Place(v)[k] = <<v, k>>
  BY DEF Place
<1>4. \A k, m \in 1 .. Width(v) : Place(v)[k] = Place(v)[m] => k = m
  <2>1. CASE HasReg(v)
    BY <1>1, <1>2, <2>1, RegistersAssumption DEF Regs
  <2>2. CASE ~HasReg(v)
    BY <1>3, <2>2
  <2> QED BY <2>1, <2>2
<1>5. ~HasReg(v) => \A k \in 1 .. Width(v) : Place(v)[k] \notin Units
  <2>1. \A k \in 1 .. Width(v) : <<v, k>> \in Variables \X {1, 2}
    BY WidthIsOneOrTwo
  <2> QED BY <1>3, <2>1, UnitsAssumption
<1> QED BY <1>1, <1>2, <1>4, <1>5

LEMMA SharedCell ==
  ASSUME IInv, NEW v \in Variables, NEW w \in Variables, v # w,
         NEW k \in 1 .. Width(v), NEW m \in 1 .. Width(w), Place(v)[k] = Place(w)[m]
  PROVE  /\ HasReg(v) /\ HasReg(w) /\ RegNum[v] \in Regs /\ RegNum[w] \in Regs
         /\ RegNum[v] \in Aliases(RegNum[w])
         /\ Aligned(RegNum[v], RegNum[w]) => k = m
<1>1. /\ DOMAIN Place(v) = 1 .. Width(v) /\ DOMAIN Place(w) = 1 .. Width(w)
      /\ HasReg(v) => RegNum[v] \in Regs /\ Place(v) = Registers[RegNum[v]]
      /\ HasReg(w) => RegNum[w] \in Regs /\ Place(w) = Registers[RegNum[w]]
      /\ ~HasReg(v) => Place(v)[k] \notin Units
      /\ ~HasReg(w) => Place(w)[m] \notin Units
  BY PlaceFacts
<1>0. \A r \in Regs : \A j \in DOMAIN Registers[r] : Registers[r][j] \in Units
  BY DEF Units, Regs
<1>2. HasReg(v) => Place(v)[k] \in Units
  BY <1>0, <1>1
<1>3. HasReg(w) => Place(w)[m] \in Units
  BY <1>0, <1>1
<1>4. HasReg(v) /\ HasReg(w)
  <2>1. ASSUME ~HasReg(v), ~HasReg(w) PROVE FALSE
    <3>1. Place(v) = [j \in 1 .. Width(v) |-> <<v, j>>] /\ Place(w) = [j \in 1 .. Width(w) |-> <<w, j>>]
      BY <2>1 DEF Place
    <3>2. Place(v)[k] = <<v, k>> /\ Place(w)[m] = <<w, m>>
      BY <3>1
    <3>3. <<v, k>> = <<w, m>>
      BY <3>2
    <3>4. \A a1, a2, b1, b2 : <<a1, a2>> = <<b1, b2>> => a1 = b1
      OBVIOUS
    <3> QED BY <3>3, <3>4
  <2> QED BY <1>1, <1>2, <1>3, <2>1
<1>5. Registers[RegNum[v]][k] = Registers[RegNum[w]][m]
  BY <1>1, <1>4
<1>6. RegNum[v] \in Aliases(RegNum[w])
  BY <1>1, <1>4, <1>5 DEF Aliases, AliasTable, UnitsOf
<1>7. Aligned(RegNum[v], RegNum[w]) => k = m
  BY <1>1, <1>4, <1>5 DEF Aligned
<1> QED BY <1>1, <1>4, <1>6, <1>7

LEMMA SharersMustBeTwins ==
  ASSUME IInv, SharersAreTwins, NEW v \in Variables, NEW w \in Variables, v # w, Overlap(v, w),
         NEW k \in 1 .. Width(v), NEW m \in 1 .. Width(w), Place(v)[k] = Place(w)[m]
  PROVE  \E r, q \in Regs : Twins(v, r, w, q) /\ (Aligned(r, q) => k = m)
<1>1. /\ RegNum[v] \in Regs /\ RegNum[w] \in Regs
      /\ RegNum[v] \in Aliases(RegNum[w])
      /\ Aligned(RegNum[v], RegNum[w]) => k = m
  BY SharedCell
<1> QED BY <1>1 DEF SharersAreTwins

(***************************************************************************)
(* What the operations of the machine do to the contents of one cell.      *)
(***************************************************************************)
IsCellOf(c, v) == \E k \in 1 .. Width(v) : Place(v)[k] = c

LEMMA NothingToMove ==
  ASSUME Spilled = {}, NEW h, h = [c \in Cells |-> h[c]], NEW S, S \subseteq Spilled
  PROVE  Save(h, S) = h /\ Fill(h, S) = h
<1>1. S = {}
  OBVIOUS
<1>2. Moved(h, {}) = h
  <2>1. Moved(h, {}) = [c \in Cells |-> h[c]]
    BY DEF Moved
  <2> QED BY <2>1
<1> QED BY <1>1, <1>2 DEF Save, Fill

LEMMA DefineAt ==
  ASSUME IInv, NEW h, NEW v \in Variables, NEW contents
  PROVE  /\ \A c \in Cells : ~IsCellOf(c, v) => Define(h, v, contents)[c] = h[c]
         /\ \A k \in 1 .. Width(v) : Define(h, v, contents)[Place(v)[k]] = contents[k] \cup {<<v, k>>}
<1> DEFINE new == [k \in 1 .. Width(v) |-> contents[k] \cup {<<v, k>>}]
<1>1. /\ DOMAIN Place(v) = 1 .. Width(v)
      /\ \A k \in 1 .. Width(v) : Place(v)[k] \in Cells
      /\ \A k, m \in 1 .. Width(v) : Place(v)[k] = Place(v)[m] => k = m
  BY PlaceFacts
<1>2. \A k \in 1 .. Width(v) : new[k] = contents[k] \cup {<<v, k>>}
  OBVIOUS
<1>3. Define(h, v, contents) = Store(h, Place(v), new)
  BY DEF Define
<1> HIDE DEF new
<1>4. ASSUME NEW c \in Cells, ~IsCellOf(c, v) PROVE Define(h, v, contents)[c] = h[c]
  <2>1. IndexIn(Place(v), c) = {}
    BY <1>1, <1>4 DEF IndexIn, IsCellOf
  <2> QED BY <1>3, <2>1 DEF Store
<1>5. ASSUME NEW k \in 1 .. Width(v) PROVE Define(h, v, contents)[Place(v)[k]] = contents[k] \cup {<<v, k>>}
  <2>1. IndexIn(Place(v), Place(v)[k]) = {k}
    BY <1>1 DEF IndexIn
  <2>2. Store(h, Place(v), new)[Place(v)[k]] = UNION {new[m] : m \in {k}}
    BY <1>1, <2>1 DEF Store
  <2>3. UNION {new[m] : m \in {k}} = new[k]
    OBVIOUS
  <2> QED BY <1>2, <1>3, <2>2, <2>3
<1> QED BY <1>4, <1>5

(***************************************************************************)
(* Behind a copy, what a cell has is what it had, or what the cell of the  *)
(* source had, and the dest is wherever the source was.                    *)
(***************************************************************************)
Copied(h, g, x, s) ==
  \A c \in Cells : \E d \in Cells :
    /\ \A v \in Variables \ {x}, k \in {1, 2} : <<v, k>> \in g[c] <=> <<v, k>> \in h[d]
    /\ \A k \in 1 .. Width(x) : <<x, k>> \in g[c] <=> <<s, k>> \in h[d]
    /\ ~IsCellOf(c, x) => d = c
    /\ \A m \in 1 .. Width(x) : Place(x)[m] = c => d = Place(s)[m]

LEMMA CopyEffect ==
  ASSUME IInv, NEW h \in Contents, NEW x \in Variables, NEW s \in Variables, x \in f.wide => s \in f.wide,
         PlaceHas(h, s),
         NEW known, known = Alike(h, x, s), NEW g, g = Define(known, x, Load(known, Place(s)))
  PROVE  Copied(h, g, x, s) /\ PlaceHas(g, x)
<1>1. \A k \in 1 .. Width(x) : k \in 1 .. Width(s)
  BY DEF Width
<1>2. /\ DOMAIN Place(s) = 1 .. Width(s)
      /\ \A k \in 1 .. Width(s) : Place(s)[k] \in Cells
      /\ \A k \in 1 .. Width(x) : Place(x)[k] \in Cells
      /\ \A k, m \in 1 .. Width(x) : Place(x)[k] = Place(x)[m] => k = m
  BY PlaceFacts
<1>3. /\ \A c \in Cells : ~IsCellOf(c, x) => g[c] = known[c]
      /\ \A k \in 1 .. Width(x) : g[Place(x)[k]] = known[Place(s)[k]] \cup {<<x, k>>}
  <2>1. \A k \in 1 .. Width(x) : Load(known, Place(s))[k] = known[Place(s)[k]]
    BY <1>1, <1>2 DEF Load
  <2> QED BY <2>1, DefineAt
<1>4. ASSUME NEW c \in Cells
      PROVE  /\ \A v \in Variables \ {x}, k \in {1, 2} : <<v, k>> \in known[c] <=> <<v, k>> \in h[c]
             /\ \A k \in 1 .. Width(x) : <<x, k>> \in known[c] <=> <<s, k>> \in h[c]
  <2>1. known[c] = {p \in h[c] : p[1] # x} \cup {<<x, k>> : k \in {m \in 1 .. Width(x) : <<s, m>> \in h[c]}}
    BY DEF Alike
  <2> QED BY <2>1
<1>5. PlaceHas(g, x)
  BY <1>3 DEF PlaceHas
<1>6. ASSUME NEW c \in Cells
      PROVE  \E d \in Cells :
               /\ \A v \in Variables \ {x}, k \in {1, 2} : <<v, k>> \in g[c] <=> <<v, k>> \in h[d]
               /\ \A k \in 1 .. Width(x) : <<x, k>> \in g[c] <=> <<s, k>> \in h[d]
               /\ ~IsCellOf(c, x) => d = c
               /\ \A m \in 1 .. Width(x) : Place(x)[m] = c => d = Place(s)[m]
  <2>1. CASE ~IsCellOf(c, x)
    BY <1>3, <1>4, <2>1 DEF IsCellOf
  <2>2. CASE IsCellOf(c, x)
    <3>1. PICK m \in 1 .. Width(x) : Place(x)[m] = c
      BY <2>2 DEF IsCellOf
    <3> DEFINE d == Place(s)[m]
    <3>2. d \in Cells /\ \A k \in 1 .. Width(x) : Place(x)[k] = c => d = Place(s)[k]
      BY <1>1, <1>2, <3>1
    <3>3. <<s, m>> \in h[d]
      BY <1>1 DEF PlaceHas
    <3>4. g[c] = known[d] \cup {<<x, m>>}
      BY <1>3, <3>1
    <3> HIDE DEF d
    <3>5. \A v \in Variables \ {x}, k \in {1, 2} : <<v, k>> \in g[c] <=> <<v, k>> \in h[d]
      BY <1>4, <3>2, <3>4
    <3>6. \A k \in 1 .. Width(x) : <<x, k>> \in g[c] <=> <<s, k>> \in h[d]
      BY <1>4, <3>2, <3>3, <3>4
    <3> QED BY <2>2, <3>2, <3>5, <3>6
  <2> QED BY <2>1, <2>2
<1> QED BY <1>5, <1>6 DEF Copied

(***************************************************************************)
(* Behind any other instruction, cells are lost, to the dest or to a call, *)
(* and the others have of all variables but the dest what they had.        *)
(***************************************************************************)
Spared(h, g, x, Lost) ==
  \A c \in Cells, v \in Variables \ {x}, k \in {1, 2} :
    <<v, k>> \in g[c] <=> c \notin Lost /\ <<v, k>> \in h[c]

LEMMA PlainEffect ==
  ASSUME IInv, NEW h \in Contents, NEW x \in Variables, NEW Lost,
         NEW called, \A c \in Cells : called[c] = IF c \in Lost THEN {} ELSE h[c],
         NEW g, g = Define(Forget(called, {x}), x, Nothing(x))
  PROVE  Spared(h, g, x, Lost \cup {c \in Cells : IsCellOf(c, x)}) /\ PlaceHas(g, x)
<1> DEFINE known == Forget(called, {x})
           Gone == Lost \cup {c \in Cells : IsCellOf(c, x)}
<1>0. g = Define(known, x, Nothing(x))
  OBVIOUS
<1>3. \A c \in Cells : known[c] = {p \in called[c] : p[1] # x}
  BY DEF Forget
<1> HIDE DEF known
<1>1. /\ \A c \in Cells : ~IsCellOf(c, x) => g[c] = known[c]
      /\ \A k \in 1 .. Width(x) : g[Place(x)[k]] = Nothing(x)[k] \cup {<<x, k>>}
  <2>1. PICK old, new : old = known /\ new = Nothing(x)
    OBVIOUS
  <2>2. /\ \A c \in Cells : ~IsCellOf(c, x) => Define(old, x, new)[c] = old[c]
        /\ \A k \in 1 .. Width(x) : Define(old, x, new)[Place(x)[k]] = new[k] \cup {<<x, k>>}
    BY DefineAt
  <2> QED BY <1>0, <2>1, <2>2
<1>2. \A k \in 1 .. Width(x) : Nothing(x)[k] = {}
  BY DEF Nothing
<1>4. PlaceHas(g, x)
  BY <1>1 DEF PlaceHas
<1>5. ASSUME NEW c \in Cells, NEW v \in Variables \ {x}, NEW k \in {1, 2}
      PROVE  <<v, k>> \in g[c] <=> c \notin Gone /\ <<v, k>> \in h[c]
  <2>1. CASE IsCellOf(c, x)
    <3>1. PICK m \in 1 .. Width(x) : Place(x)[m] = c
      BY <2>1 DEF IsCellOf
    <3>2. g[c] = {<<x, m>>}
      BY <1>1, <1>2, <3>1
    <3>3. \A a1, a2, b1, b2 : <<a1, a2>> = <<b1, b2>> => a1 = b1
      OBVIOUS
    <3>4. v # x
      OBVIOUS
    <3>5. <<v, k>> # <<x, m>>
      BY <3>3, <3>4
    <3> QED BY <2>1, <3>2, <3>5
  <2>2. CASE ~IsCellOf(c, x)
    <3>1. <<v, k>> \in g[c] <=> <<v, k>> \in called[c]
      BY <1>1, <1>3, <2>2
    <3>2. called[c] = IF c \in Lost THEN {} ELSE h[c]
      OBVIOUS
    <3> QED BY <2>2, <3>1, <3>2
  <2> QED BY <2>1, <2>2
<1> QED BY <1>4, <1>5 DEF Spared

(***************************************************************************)
(* Who lives across a call, but is not its result, is in no scratch        *)
(* register.                                                               *)
(***************************************************************************)
LEMMA CallsSpare ==
  ASSUME Ready, NEW n \in 1 .. f.nodes, NEW i \in LP!Insts(n), i \notin Deleted, f.code[i].call,
         NEW v \in LP!Walk(n)[i], v # f.code[i].dest, HasReg(v)
  PROVE  RegNum[v] \notin CallerSave
<1>1. /\ i + 1 \in DOMAIN f.code /\ f.code[i + 1].node = f.code[i].node
      /\ f.code[i + 1].kill /\ f.code[i + 1].dest = None /\ f.code[i + 1].uses = {}
  <2>1. i \in DOMAIN f.code
    BY DEF LP!Insts, LP!CodeOf, LP!Code
  <2> QED BY <2>1 DEF Ready, IsRegular, CallsAreKilled
<1>2. /\ LP!Finished /\ RangesAreOrdered /\ RegistersStay /\ f.kind = "Global" /\ PrecoloredAtCalls
      /\ LP!IsFunction(f) /\ LP!NodesAreConsistent /\ Deleted = Dead
  BY DEF Ready, IsRegular, LP!Finished, LP!IInv, LP!TypesOfAnalysis
<1>3. n \in LP!Nodes
  BY SameOperators
<1> DEFINE W == LP!Walk(n)[i]
           below == LP!Walk(n)[i + 1]
<1>4. /\ i \in Nat \ {0} /\ i \in Kept /\ f.code[i].node = n /\ W \subseteq Variables
      /\ \A w \in W : InRange(w, Num(i))
      /\ i # LP!Last(n) => i + 1 \in LP!Insts(n) /\ W = Above[i + 1]
  BY InstructionFacts
<1>5. i # LP!Last(n)
  <2>1. /\ LP!Last(n) \in Nat /\ LP!First(n) \in Nat \ {0}
        /\ LP!CodeOf(n) = LP!First(n) .. LP!Last(n)
    BY <1>2, <1>3, AssumptionsHold, LP!BlockIsInterval
  <2>2. i + 1 \in LP!CodeOf(n)
    BY <1>1, <1>4 DEF LP!CodeOf, LP!Code
  <2>3. i + 1 <= LP!Last(n)
    BY <2>1, <2>2
  <2> QED BY <1>4, <2>1, <2>3
<1>6. i + 1 \in LP!Insts(n) /\ W = Above[i + 1]
  BY <1>4, <1>5
<1>7. i + 1 \notin Deleted
  BY <1>1, <1>2 DEF LP!NodesAreConsistent
<1>8. i + 1 \in Kept /\ below \subseteq Variables /\ \A w \in below : InRange(w, Num(i + 1))
  BY <1>6, <1>7, InstructionFacts
<1>9. Above[i + 1] \subseteq below
  <2>1. Above[i + 1] = LP!LiveAbove(i + 1, below)
    BY <1>1, <1>4 DEF Above
  <2> HIDE DEF below
  <2> QED BY <1>1, <2>1 DEF LP!LiveAbove, LP!UsedBy
<1>10. v \in Variables /\ InRange(v, Num(i)) /\ InRange(v, Num(i + 1))
  BY <1>4, <1>6, <1>8, <1>9
<1>11. Num(i) \in Nat /\ Num(i + 1) = Num(i) + 1
  BY <1>4 DEF Num
<1>12. PICK k \in DOMAIN LiveRange[v] :
         LiveRange[v][k][1] < Num(i) + 1 /\ Num(i) + 1 < LiveRange[v][k][2]
  <2>1. /\ LP!IsOrdered(LiveRange[v]) /\ LP!HasGaps(LiveRange[v])
        /\ LP!Covers(LiveRange[v], Num(i)) /\ LP!Covers(LiveRange[v], Num(i) + 1)
    BY <1>2, <1>10, <1>11, SameOperators DEF LP!Finished
  <2> QED BY <1>11, <2>1, AssumptionsHold, LP!CoveredInOneSegment
<1>13. CASE f.reg[v] # NoReg
  <2>1. RegNum[v] = f.reg[v]
    BY <1>2, <1>10, <1>13 DEF RegistersStay
  <2>2. Spans(v, Num(i) + 1)
    BY <1>12 DEF Spans
  <2> QED BY <1>2, <1>4, <1>10, <2>1, <2>2 DEF PrecoloredAtCalls
<1>14. CASE f.reg[v] = NoReg
  <2>1. i + 1 \in Kept /\ f.code[i + 1].kill /\ (i + 1) - 1 = i
    BY <1>1, <1>4, <1>8
  <2>2. Num(i + 1) \in Kills
    BY <1>2, <1>4, <2>1 DEF Kills
  <2>3. Crosses(v)
    BY <1>11, <1>12, <2>2 DEF Crosses
  <2> QED BY <1>2, <1>10, <1>14, <2>3 DEF RegistersStay
<1> QED BY <1>13, <1>14

(***************************************************************************)
(* Nobody copies itself out of its range.                                  *)
(***************************************************************************)
LEMMA NoTwinOfItself ==
  ASSUME Ready, NEW w, NEW p, NEW q
  PROVE  ~Twins(w, p, w, q)
<1> SUFFICES ASSUME Twins(w, p, w, q) PROVE FALSE
  OBVIOUS
<1>1. SharesAsCopy(w, w) /\ w \in Variables
  BY TwinsFollow DEF Follows
<1>2. PICK d \in Defs(w) : f.code[d].copy /\ ~InRange(w, Num(d))
  BY <1>1 DEF SharesAsCopy, IsCopy
<1>3. d \in DOMAIN f.code /\ d \notin Deleted /\ f.code[d].dest = w /\ w # None
  BY <1>1, AssumptionsHold DEF Defs, Kept
<1>4. Requirements(f) /\ LP!IsFunction(f) /\ EffectsReadDest
  BY FunctionIsFunction DEF Ready, IsRegular
<1>5. f.code[d].from = <<>> /\ f.code[d].node \in 1 .. f.nodes /\ ~f.code[d].effect
  BY <1>2, <1>3, <1>4 DEF Requirements, EffectsReadDest, LP!IsFunction
<1>6. d \in LP!Insts(f.code[d].node)
  BY <1>3, <1>5 DEF LP!Insts, LP!CodeOf, LP!Phis, LP!IsPhi, LP!Code
<1> DEFINE n == f.code[d].node
           W == LP!Walk(n)[d]
<1>7. /\ d \notin Deleted /\ f.code[d].dest # None /\ f.code[d].dest \notin W => f.code[d].effect
      /\ d \notin Deleted => \A v \in W : InRange(v, Num(d))
  BY <1>5, <1>6, InstructionFacts
<1> QED BY <1>2, <1>3, <1>5, <1>7

(***************************************************************************)
(* A twin of the dest of an instruction, live behind it, makes it a copy,  *)
(* and the twin is the source, or where the source is.                     *)
(***************************************************************************)
LEMMA DestTwins ==
  ASSUME Ready, NEW n \in 1 .. f.nodes, NEW i \in LP!Insts(n), i \notin Deleted,
         NEW h, GoodFor(h, Above[i]),
         NEW x, x = f.code[i].dest, NEW w \in LP!Walk(n)[i], w # x, NEW r, NEW q, Twins(x, r, w, q)
  PROVE  /\ f.code[i].copy
         /\ Aligned(r, q)
         /\ \E s \in Variables : f.code[i].uses = {s} /\ (s = w \/ Same(h, s, w))
<1>1. /\ i \in Kept /\ i \in DOMAIN f.code
      /\ f.code[i].uses \subseteq Above[i] /\ w \in Above[i]
      /\ w \in Variables /\ InRange(w, Num(i)) /\ Above[i] \subseteq Variables
  <2> DEFINE W == LP!Walk(n)[i]
  <2>1. /\ i \in DOMAIN f.code /\ i \in Kept /\ f.code[i].uses \subseteq Above[i]
        /\ W \ {f.code[i].dest} \subseteq Above[i]
        /\ \A v \in W : InRange(v, Num(i))
        /\ W \subseteq Variables /\ Above[i] \subseteq Variables
    BY InstructionFacts
  <2> QED BY <2>1
<1>2. i \in Defs(x)
  BY <1>1 DEF Defs
<1>3. ~SharesAsCopy(w, x)
  BY <1>1, <1>2 DEF SharesAsCopy
<1>4. Follows(x, r, w, q) /\ r \in Regs /\ q \in Regs
  <2>1. Follows(x, r, w, q) \/ Follows(w, q, x, r)
    BY TwinsFollow
  <2>2. ~Follows(w, q, x, r)
    BY <1>3 DEF Follows
  <2> QED BY <2>1, <2>2, TwinsFollow
<1>5. f.code[i].copy
  BY <1>2, <1>4 DEF Follows, SharesAsCopy, IsCopy
<1>6. PICK s \in Variables : f.code[i].uses = {s}
  <2>1. Requirements(f)
    BY FunctionIsFunction DEF Ready
  <2> QED BY <1>1, <1>5, <2>1 DEF Requirements
<1>7. \/ ~Overlap(s, w)
      \/ s = w /\ Aligned(r, q)
      \/ \E p \in Regs : Twins(s, p, w, q) /\ (Aligned(p, q) => Aligned(r, q))
  BY <1>2, <1>4, <1>6 DEF Follows
<1>8. s \in Above[i]
  BY <1>1, <1>6
<1>9. s # w => /\ Overlap(s, w)
               /\ \A p \in Regs : Twins(s, p, w, q) => Aligned(p, q) /\ Same(h, s, w)
  BY <1>1, <1>4, <1>8 DEF GoodFor
<1>10. Aligned(r, q) /\ (s = w \/ Same(h, s, w))
  <2>1. CASE s = w
    <3>1. Overlap(w, w)
      <4>1. RangesAreOrdered /\ Num(i) \in Nat
        <5>1. i \in Nat
          BY InstructionFacts
        <5> QED BY <5>1 DEF Ready, Num
      <4> QED BY <1>1, <4>1, InRangeTogether
    <3>2. \A p \in Regs : ~Twins(w, p, w, q)
      BY NoTwinOfItself
    <3> QED BY <1>7, <2>1, <3>1, <3>2
  <2>2. CASE s # w
    BY <1>7, <1>9, <2>2
  <2> QED BY <2>1, <2>2
<1> QED BY <1>5, <1>6, <1>10

(***************************************************************************)
(* A copy keeps what is live behind it.                                    *)
(***************************************************************************)
LEMMA CopyKeeps ==
  ASSUME Ready, NEW n \in 1 .. f.nodes, NEW i \in LP!Insts(n), i \notin Deleted, f.code[i].copy,
         NEW x \in Variables, x = f.code[i].dest, NEW s \in Variables, f.code[i].uses = {s},
         NEW h, GoodFor(h, Above[i]), NEW g, Copied(h, g, x, s), PlaceHas(g, x)
  PROVE  GoodFor(g, LP!Walk(n)[i])
<1> DEFINE W == LP!Walk(n)[i]
<1>1. /\ i \in DOMAIN f.code /\ i \in Kept
      /\ W \subseteq Variables /\ Above[i] \subseteq Variables
      /\ s \in Above[i] /\ W \ {x} \subseteq Above[i]
      /\ x \notin W => f.code[i].effect
      /\ \A v, w \in W : Overlap(v, w)
  <2>1. x # None
    BY AssumptionsHold
  <2> QED BY <2>1, InstructionFacts
<1>2. x \in W
  <2>1. x # None /\ EffectsReadDest
    BY AssumptionsHold DEF Ready, IsRegular
  <2> QED BY <1>1, <2>1 DEF EffectsReadDest
<1>3. IInv /\ SharersAreTwins /\ Requirements(f)
  BY FunctionIsFunction DEF Ready
<1>4. \A k \in 1 .. Width(x) : k \in 1 .. Width(s)
  <2>1. x \in f.wide => s \in f.wide
    BY <1>1, <1>3 DEF Requirements
  <2> QED BY <2>1 DEF Width
<1>5. PlaceHas(h, s) /\ \A v \in W \ {x} : PlaceHas(h, v)
  BY <1>1 DEF GoodFor
<1>6. \A w \in W \ {x} : \A r, q : Twins(x, r, w, q) => Aligned(r, q) /\ (s = w \/ Same(h, s, w))
  <2> SUFFICES ASSUME NEW w \in W \ {x}, NEW r, NEW q, Twins(x, r, w, q)
               PROVE  Aligned(r, q) /\ (s = w \/ Same(h, s, w))
    OBVIOUS
  <2>1. \E t \in Variables : Aligned(r, q) /\ f.code[i].uses = {t} /\ (t = w \/ Same(h, t, w))
    BY DestTwins
  <2>2. PICK t \in Variables : Aligned(r, q) /\ f.code[i].uses = {t} /\ (t = w \/ Same(h, t, w))
    BY <2>1
  <2>3. t = s
    BY <2>2
  <2> QED BY <2>2, <2>3
<1> HIDE DEF W
<1>7. ASSUME NEW v \in W \ {x}, NEW k \in 1 .. Width(v) PROVE <<v, k>> \in g[Place(v)[k]]
  <2> DEFINE c == Place(v)[k]
  <2>1. v \in Variables /\ c \in Cells /\ k \in {1, 2}
    BY <1>1, <1>3, PlaceFacts, WidthIsOneOrTwo
  <2>2. PICK d \in Cells :
          /\ <<v, k>> \in g[c] <=> <<v, k>> \in h[d]
          /\ ~IsCellOf(c, x) => d = c
          /\ \A m \in 1 .. Width(x) : Place(x)[m] = c => d = Place(s)[m]
    <3> HIDE DEF c
    <3>1. PICK d \in Cells :
            /\ \A u \in Variables \ {x}, m \in {1, 2} : <<u, m>> \in g[c] <=> <<u, m>> \in h[d]
            /\ \A m \in 1 .. Width(x) : <<x, m>> \in g[c] <=> <<s, m>> \in h[d]
            /\ ~IsCellOf(c, x) => d = c
            /\ \A m \in 1 .. Width(x) : Place(x)[m] = c => d = Place(s)[m]
      BY <2>1 DEF Copied
    <3>2. v \in Variables \ {x}
      BY <1>7, <2>1
    <3>3. <<v, k>> \in g[c] <=> <<v, k>> \in h[d]
      BY <2>1, <3>1, <3>2
    <3> QED BY <3>1, <3>3
  <2>3. CASE ~IsCellOf(c, x)
    BY <1>5, <2>2, <2>3 DEF PlaceHas
  <2>4. CASE IsCellOf(c, x)
    <3>1. PICK m \in 1 .. Width(x) : Place(x)[m] = c
      BY <2>4 DEF IsCellOf
    <3>2. PICK r \in Regs, q \in Regs : Twins(x, r, v, q) /\ (Aligned(r, q) => m = k)
      <4>1. Overlap(x, v) /\ x # v
        BY <1>1, <1>2, <1>7
      <4> QED BY <1>3, <2>1, <3>1, <4>1, SharersMustBeTwins
    <3>3. m = k /\ (s = v \/ Same(h, s, v))
      BY <1>6, <3>2
    <3>4. d = Place(s)[k] /\ k \in 1 .. Width(s) /\ d \in Cells
      BY <1>4, <2>2, <3>1, <3>3
    <3>5. <<s, k>> \in h[d]
      BY <1>5, <3>4 DEF PlaceHas
    <3>6. <<v, k>> \in h[d]
      BY <3>3, <3>4, <3>5 DEF Same
    <3> QED BY <2>2, <3>6
  <2> QED BY <2>3, <2>4
<1>8. \A v \in W : PlaceHas(g, v)
  BY <1>7 DEF PlaceHas
<1>9. ASSUME NEW v \in W \ {x}, NEW w \in W \ {x}, Same(h, v, w) PROVE Same(g, v, w)
  <2> SUFFICES ASSUME NEW k \in (1 .. Width(v)) \cap (1 .. Width(w)), NEW c \in Cells
               PROVE  <<v, k>> \in g[c] <=> <<w, k>> \in g[c]
    BY DEF Same
  <2>1. k \in {1, 2} /\ v \in Variables \ {x} /\ w \in Variables \ {x}
    BY <1>1, WidthIsOneOrTwo
  <2>2. PICK d \in Cells : \A u \in Variables \ {x} : <<u, k>> \in g[c] <=> <<u, k>> \in h[d]
    BY <2>1 DEF Copied
  <2>3. <<v, k>> \in h[d] <=> <<w, k>> \in h[d]
    BY <1>9, <2>2 DEF Same
  <2> QED BY <2>1, <2>2, <2>3
<1>10. ASSUME NEW w \in W \ {x}, s = w \/ Same(h, s, w) PROVE Same(g, x, w) /\ Same(g, w, x)
  <2> SUFFICES ASSUME NEW k \in (1 .. Width(x)) \cap (1 .. Width(w)), NEW c \in Cells
               PROVE  <<x, k>> \in g[c] <=> <<w, k>> \in g[c]
    BY DEF Same
  <2>1. k \in {1, 2} /\ w \in Variables \ {x} /\ k \in 1 .. Width(x) /\ k \in 1 .. Width(s)
    BY <1>1, <1>4, WidthIsOneOrTwo
  <2>2. PICK d \in Cells : /\ \A u \in Variables \ {x} : <<u, k>> \in g[c] <=> <<u, k>> \in h[d]
                           /\ <<x, k>> \in g[c] <=> <<s, k>> \in h[d]
    BY <2>1 DEF Copied
  <2>3. <<s, k>> \in h[d] <=> <<w, k>> \in h[d]
    BY <1>10, <2>1, <2>2 DEF Same
  <2> QED BY <2>1, <2>2, <2>3
<1>11. ASSUME NEW v \in W, NEW w \in W, NEW r \in Regs, NEW q \in Regs, v # w, Twins(v, r, w, q)
       PROVE  Aligned(r, q) /\ Same(g, v, w)
  <2>1. CASE v = x
    BY <1>6, <1>10, <1>11, <2>1
  <2>2. CASE w = x
    <3>1. Twins(x, q, v, r)
      BY <1>11, <2>2, TwinsFollow
    <3>2. Aligned(q, r) /\ Same(g, v, x)
      BY <1>6, <1>10, <1>11, <2>2, <3>1
    <3> QED BY <2>2, <3>2 DEF Aligned
  <2>3. CASE v # x /\ w # x
    <3>1. v \in Above[i] /\ w \in Above[i]
      BY <1>1, <1>11, <2>3
    <3>2. Aligned(r, q) /\ Same(h, v, w)
      BY <1>11, <3>1 DEF GoodFor
    <3> QED BY <1>9, <1>11, <2>3, <3>2
  <2> QED BY <2>1, <2>2, <2>3
<1> QED BY <1>1, <1>8, <1>11 DEF GoodFor, W

(***************************************************************************)
(* So does any other instruction.                                          *)
(***************************************************************************)
LEMMA PlainKeeps ==
  ASSUME Ready, NEW n \in 1 .. f.nodes, NEW i \in LP!Insts(n), i \notin Deleted,
         ~f.code[i].copy \/ f.code[i].dest = None,
         NEW x, x = f.code[i].dest,
         NEW h, GoodFor(h, Above[i]), NEW g, NEW Lost, Spared(h, g, x, Lost),
         \A c \in Lost : (f.code[i].call /\ c \in Scratch) \/ (x \in Variables /\ IsCellOf(c, x)),
         x \in Variables => PlaceHas(g, x)
  PROVE  GoodFor(g, LP!Walk(n)[i])
<1> DEFINE W == LP!Walk(n)[i]
<1>1. /\ i \in DOMAIN f.code /\ i \in Kept
      /\ W \subseteq Variables /\ Above[i] \subseteq Variables
      /\ f.code[i].uses \subseteq Above[i] /\ W \ {x} \subseteq Above[i]
      /\ x # None /\ x \notin W => f.code[i].effect
      /\ \A v, w \in W : Overlap(v, w)
  BY InstructionFacts
<1>2. IInv /\ SharersAreTwins /\ RegistersStay /\ EffectsReadDest /\ None \notin Variables
  BY AssumptionsHold DEF Ready, IsRegular
<1>3. \A w \in W \ {x} : \A r, q : ~Twins(x, r, w, q)
  <2> SUFFICES ASSUME NEW w \in W \ {x}, NEW r, NEW q, Twins(x, r, w, q) PROVE FALSE
    OBVIOUS
  <2>1. x \in Variables
    BY TwinsFollow
  <2>2. f.code[i].copy
    BY DestTwins
  <2> QED BY <1>2, <2>1, <2>2
<1>4. ASSUME f.code[i].call, NEW v \in W \ {x}, HasReg(v) PROVE RegNum[v] \notin CallerSave
  BY <1>4, CallsSpare
<1> HIDE DEF W
<1>5. \A v \in W \ {x} : PlaceHas(h, v)
  BY <1>1 DEF GoodFor
<1>6. ASSUME NEW v \in W \ {x}, NEW k \in 1 .. Width(v) PROVE <<v, k>> \in g[Place(v)[k]]
  <2> DEFINE c == Place(v)[k]
  <2>1. v \in Variables /\ c \in Cells /\ k \in {1, 2} /\ v # x
    BY <1>1, <1>2, PlaceFacts, WidthIsOneOrTwo
  <2>2. <<v, k>> \in h[c]
    BY <1>5 DEF PlaceHas
  <2> HIDE DEF c
  <2>3. <<v, k>> \in g[c] <=> c \notin Lost /\ <<v, k>> \in h[c]
    BY <2>1 DEF Spared
  <2>4. ~(f.code[i].call /\ c \in Scratch)
    <3> SUFFICES ASSUME f.code[i].call, c \in Scratch PROVE FALSE
      OBVIOUS
    <3>1. c \in Units /\ \A r \in Regs : c \in UnitsOf(r) => r \in CallerSave
      BY DEF Scratch
    <3>2. HasReg(v) /\ RegNum[v] \in Regs /\ c \in UnitsOf(RegNum[v])
      BY <1>2, <2>1, <3>1, PlaceFacts DEF UnitsOf, c
    <3> QED BY <1>4, <3>1, <3>2
  <2>5. ~(x \in Variables /\ IsCellOf(c, x))
    <3> SUFFICES ASSUME x \in Variables, IsCellOf(c, x) PROVE FALSE
      OBVIOUS
    <3>1. PICK m \in 1 .. Width(x) : Place(x)[m] = Place(v)[k]
      BY DEF IsCellOf, c
    <3>2. ~Overlap(x, v)
      BY <1>2, <1>3, <2>1, <3>1, SharersMustBeTwins
    <3>3. x \notin W /\ x # None /\ f.code[i].effect
      BY <1>1, <1>2, <3>2
    <3>4. x \notin f.code[i].uses
      <4>1. v \in Above[i]
        BY <1>1, <2>1
      <4> QED BY <1>1, <2>1, <3>2, <4>1 DEF GoodFor
    <3>5. f.code[i].call /\ f.reg[x] # NoReg /\ Aliases(f.reg[x]) \subseteq CallerSave
      BY <1>1, <1>2, <3>3, <3>4 DEF EffectsReadDest
    <3>6. RegNum[x] = f.reg[x]
      BY <1>2, <3>5 DEF RegistersStay
    <3>7. HasReg(v) /\ RegNum[v] \in Aliases(RegNum[x])
      <4>1. Place(v)[k] = Place(x)[m] /\ v # x
        BY <2>1, <3>1
      <4> QED BY <1>2, <2>1, <4>1, SharedCell
    <3> QED BY <1>4, <3>5, <3>6, <3>7
  <2>6. c \notin Lost
    BY <2>4, <2>5
  <2> QED BY <2>2, <2>3, <2>6 DEF c
<1>7. \A v \in W : PlaceHas(g, v)
  BY <1>1, <1>6 DEF PlaceHas
<1>8. ASSUME NEW v \in W \ {x}, NEW w \in W \ {x}, Same(h, v, w) PROVE Same(g, v, w)
  <2> SUFFICES ASSUME NEW k \in (1 .. Width(v)) \cap (1 .. Width(w)), NEW c \in Cells
               PROVE  <<v, k>> \in g[c] <=> <<w, k>> \in g[c]
    BY DEF Same
  <2>1. k \in {1, 2} /\ v \in Variables \ {x} /\ w \in Variables \ {x}
    BY <1>1, WidthIsOneOrTwo
  <2>2. <<v, k>> \in h[c] <=> <<w, k>> \in h[c]
    BY <1>8 DEF Same
  <2> QED BY <2>1, <2>2 DEF Spared
<1>9. ASSUME NEW v \in W, NEW w \in W, NEW r \in Regs, NEW q \in Regs, v # w, Twins(v, r, w, q)
      PROVE  Aligned(r, q) /\ Same(g, v, w)
  <2>1. v # x
    BY <1>3, <1>9
  <2>2. w # x
    BY <1>3, <1>9, TwinsFollow
  <2>3. v \in Above[i] /\ w \in Above[i]
    BY <1>1, <1>9, <2>1, <2>2
  <2>4. Aligned(r, q) /\ Same(h, v, w)
    BY <1>9, <2>3 DEF GoodFor
  <2> QED BY <1>8, <1>9, <2>1, <2>2, <2>4
<1> QED BY <1>1, <1>7, <1>9 DEF GoodFor, W

(***************************************************************************)
(* An instruction: with nothing to save or to fill, a call, a copy, or an  *)
(* ordinary instruction.                                                   *)
(***************************************************************************)
Outcome(i, h, x, s, called, known, new, g) ==
  /\ h \in Contents
  /\ DOMAIN called = Cells
  /\ \A c \in Cells : called[c] = IF c \in (IF f.code[i].call THEN Scratch ELSE {}) THEN {} ELSE h[c]
  /\ ~f.code[i].call => called = h
  /\ known = IF f.code[i].copy THEN Alike(called, x, s) ELSE Forget(called, {x})
  /\ new = IF f.code[i].copy THEN Load(known, Place(s)) ELSE Nothing(x)
  /\ g = IF x = None THEN called ELSE Define(known, x, new)

LEMMA ExecuteResult ==
  ASSUME MInv, Spilled = {}, Execute, next \notin Deleted,
         NEW i, i = next, NEW h, h = holds, NEW x, x = f.code[i].dest, NEW s, s = CHOOSE v \in f.code[i].uses : TRUE
  PROVE  \E called, known, new : Outcome(i, h, x, s, called, known, new, holds')
<1> DEFINE saved == Save(holds, {t \in Spilled : t.from = Num(i)})
           called == IF f.code[i].call THEN [c \in Cells |-> IF c \in Scratch THEN {} ELSE saved[c]] ELSE saved
           known == IF f.code[i].copy THEN Alike(called, x, s) ELSE Forget(called, {x})
           new == IF f.code[i].copy THEN Load(known, Place(s)) ELSE Nothing(x)
           done == IF x = None THEN called ELSE Define(known, x, new)
           filled == Fill(done, {t \in Spilled : t.to = Num(i)})
<1>1. holds' = filled /\ h \in Contents
  <2>1. holds' = IF i \in Deleted THEN holds ELSE filled
    BY DEF Execute
  <2>2. h \in Contents
    BY DEF Execute, MInv
  <2> QED BY <2>1, <2>2
<1>2. saved = h
  <2>1. h = [c \in Cells |-> h[c]]
    BY <1>1 DEF Contents
  <2> QED BY <2>1, NothingToMove
<1> HIDE DEF saved
<1>3. /\ called = [c \in Cells |-> called[c]]
      /\ \A c \in Cells : called[c] = IF c \in (IF f.code[i].call THEN Scratch ELSE {}) THEN {} ELSE h[c]
      /\ ~f.code[i].call => called = h
      /\ DOMAIN called = Cells
  BY <1>1, <1>2 DEF Contents
<1> HIDE DEF called
<1>4. done = [c \in Cells |-> done[c]]
  <2>1. CASE x = None
    BY <1>3, <2>1
  <2>2. CASE x # None
    BY <2>2 DEF Define, Store
  <2> QED BY <2>1, <2>2
<1> HIDE DEF done
<1>5. filled = done
  BY <1>4, NothingToMove
<1>6. done = IF x = None THEN called ELSE Define(known, x, new)
  BY DEF done
<1> HIDE DEF filled
<1>7. holds' = IF x = None THEN called ELSE Define(known, x, new)
  BY <1>1, <1>5, <1>6
<1>8. known = IF f.code[i].copy THEN Alike(called, x, s) ELSE Forget(called, {x})
  OBVIOUS
<1>9. new = IF f.code[i].copy THEN Load(known, Place(s)) ELSE Nothing(x)
  OBVIOUS
<1> HIDE DEF known, new
<1>10. Outcome(i, h, x, s, called, known, new, holds')
  BY <1>1, <1>3, <1>7, <1>8, <1>9 DEF Outcome
<1> QED BY <1>10

LEMMA ExecuteKeeps ==
  ASSUME Ready, MInv, Execute, NEW n, n = f.code[next].node, next \in LP!Insts(n),
         GoodFor(holds, Above[next]), NEW g, g = holds'
  PROVE  GoodFor(g, LP!Walk(n)[next])
<1>1. PICK i, h, x, s : i = next /\ h = holds /\ x = f.code[i].dest /\ s = CHOOSE v \in f.code[i].uses : TRUE
  OBVIOUS
<1>2. i \in LP!Insts(n) /\ GoodFor(h, Above[i]) /\ Requirements(f) /\ IInv
  BY <1>1, FunctionIsFunction DEF Ready
<1>3. i \in DOMAIN f.code /\ n \in 1 .. f.nodes /\ x \in Variables \cup {None} /\ None \notin Variables
  BY <1>1, <1>2, AssumptionsHold DEF Requirements, Live!IsFunction, LP!Insts, LP!CodeOf, LP!Code
<1>4. CASE i \in Deleted
  <2>1. g = h
    BY <1>1, <1>4 DEF Execute
  <2>2. Above[i] = LP!Walk(n)[i]
    BY <1>2, <1>3, <1>4, InstructionFacts
  <2> QED BY <1>1, <1>2, <2>1, <2>2
<1>5. CASE i \notin Deleted
  <2> DEFINE Lost == IF f.code[i].call THEN Scratch ELSE {}
  <2>1. Spilled = {}
    BY DEF Ready
  <2>0. PICK called, known, new : Outcome(i, h, x, s, called, known, new, holds')
    BY <1>1, <1>5, <2>1, ExecuteResult
  <2>2. /\ h \in Contents
        /\ DOMAIN called = Cells
        /\ \A c \in Cells : called[c] = IF c \in Lost THEN {} ELSE h[c]
        /\ ~f.code[i].call => called = h
        /\ known = IF f.code[i].copy THEN Alike(called, x, s) ELSE Forget(called, {x})
        /\ new = IF f.code[i].copy THEN Load(known, Place(s)) ELSE Nothing(x)
        /\ g = IF x = None THEN called ELSE Define(known, x, new)
    BY <2>0 DEF Outcome
  <2>3. \A c \in Lost : f.code[i].call /\ c \in Scratch
    OBVIOUS
  <2> HIDE DEF Lost
  <2>4. CASE x = None
    <3>1. Spared(h, g, x, Lost)
      BY <2>2, <2>4 DEF Spared
    <3>2. ~f.code[i].copy \/ f.code[i].dest = None
      BY <1>1, <2>4
    <3>3. x \notin Variables
      BY <1>3, <2>4
    <3>4. \A c \in Lost : (f.code[i].call /\ c \in Scratch) \/ (x \in Variables /\ IsCellOf(c, x))
      BY <2>3
    <3> QED BY <1>1, <1>2, <1>3, <1>5, <3>1, <3>2, <3>3, <3>4, PlainKeeps
  <2>5. CASE x \in Variables /\ f.code[i].copy
    <3>1. s \in Variables /\ f.code[i].uses = {s} /\ (x \in f.wide => s \in f.wide)
      <4>1. PICK t \in Variables : f.code[i].uses = {t}
        BY <1>2, <1>3, <2>5 DEF Requirements
      <4>2. s = t
        BY <1>1, <4>1
      <4>3. x \in f.wide => f.code[i].uses \subseteq f.wide
        BY <1>1, <1>2, <1>3, <2>5 DEF Requirements
      <4> QED BY <4>1, <4>2, <4>3
    <3>2. ~f.code[i].call
      BY <1>3, <2>5 DEF Ready, IsRegular, CallsAreKilled
    <3>3. known = Alike(h, x, s) /\ g = Define(known, x, Load(known, Place(s)))
      BY <1>3, <2>2, <2>5, <3>2
    <3>4. PlaceHas(h, s)
      <4>1. f.code[i].uses \subseteq Above[i]
        BY <1>2, <1>3, <1>5, InstructionFacts
      <4> QED BY <1>2, <3>1, <4>1 DEF GoodFor
    <3>5. Copied(h, g, x, s) /\ PlaceHas(g, x)
      BY <1>2, <2>2, <2>5, <3>1, <3>3, <3>4, CopyEffect
    <3> QED BY <1>1, <1>2, <1>3, <1>5, <2>5, <3>1, <3>5, CopyKeeps
  <2>6. CASE x \in Variables /\ ~f.code[i].copy
    <3> DEFINE Gone == Lost \cup {c \in Cells : IsCellOf(c, x)}
    <3>1. g = Define(Forget(called, {x}), x, Nothing(x))
      BY <1>3, <2>2, <2>6
    <3>2. Spared(h, g, x, Gone) /\ PlaceHas(g, x)
      BY <1>2, <2>2, <2>6, <3>1, PlainEffect
    <3>3. \A c \in Gone : (f.code[i].call /\ c \in Scratch) \/ (x \in Variables /\ IsCellOf(c, x))
      BY <2>3, <2>6
    <3>4. ~f.code[i].copy \/ f.code[i].dest = None
      BY <2>6
    <3> HIDE DEF Gone
    <3> QED BY <1>1, <1>2, <1>3, <1>5, <3>2, <3>3, <3>4, PlainKeeps
  <2> QED BY <1>3, <2>4, <2>5, <2>6
<1> QED BY <1>4, <1>5

(***************************************************************************)
(* Neither an argument nor the dest of a phi is a copy.                    *)
(***************************************************************************)
LEMMA CopiesAreDefined ==
  ASSUME NEW v, IsCopy(v), NEW i \in Kept, f.code[i].dest = v
  PROVE  f.code[i].copy
BY DEF IsCopy, Defs

LEMMA TwinIsCopy ==
  ASSUME NEW v, NEW r, NEW w, NEW q, Twins(v, r, w, q)
  PROVE  SharesAsCopy(v, w) \/ SharesAsCopy(w, v)
BY TwinsFollow DEF Follows

(***************************************************************************)
(* The entry: arguments do not share.                                      *)
(***************************************************************************)
LEMMA ArgsAreApart ==
  ASSUME NEW v \in Args, NEW r, NEW w \in Args, NEW q
  PROVE  ~Twins(v, r, w, q)
<1>1. \A u \in Args : ~IsCopy(u)
  BY DEF Args, Live!IsArg, Live!Code, IsCopy, Defs, Kept
<1> QED BY <1>1, TwinIsCopy DEF SharesAsCopy

LEMMA EnterKeeps ==
  ASSUME Ready, Enter, NEW j, j = next', NEW g, g = holds'
  PROVE  1 \in 1 .. f.nodes /\ j \in LP!Insts(1) /\ GoodFor(g, Above[j])
<1>1. /\ LP!Finished /\ RangesAreOrdered /\ IInv /\ SharersAreTwins /\ RegistersStay
      /\ LP!Phis(1) = {} /\ LiveIn[1] \subseteq Args
      /\ \A v \in Args : LiveRange[v] # <<>> \/ f.reg[v] # NoReg => InRange(v, 1)
  BY DEF Ready, IsRegular, EntryHasArgs
<1> DEFINE first == LP!FirstOf(LP!Insts(1))
<1>2. /\ 1 \in LP!Nodes /\ first \in LP!Insts(1)
      /\ LP!LiveAbove(first, LP!Walk(1)[first]) \subseteq Variables
      /\ \A v \in LP!LiveAbove(first, LP!Walk(1)[first]) : LP!IsArg(v) /\ LP!Covers(LiveRange[v], 1)
  <2>1. \A v \in LiveIn[1] : LP!IsArg(v)
    BY <1>1, SameOperators DEF Args
  <2>2. PICK A : A = LP!LiveAbove(first, LP!Walk(1)[first])
    OBVIOUS
  <2>3. /\ 1 \in LP!Nodes /\ first \in LP!Insts(1)
        /\ A \subseteq Variables
        /\ \A v \in A : LP!IsArg(v) /\ LP!Covers(LiveRange[v], 1)
    BY <1>1, <2>1, <2>2, AssumptionsHold, LP!EntryFacts
  <2> QED BY <2>2, <2>3
<1>3. j = first /\ 1 \in 1 .. f.nodes
  <2>1. j = Min(LP!Insts(1))
    BY SameOperators DEF FirstInst, Enter
  <2> QED BY <1>2, <2>1, SameOperators DEF Min, LP!FirstOf
<1>4. j \in LP!Insts(1) /\ Above[j] = LP!LiveAbove(j, LP!Walk(1)[j])
  <2>1. first \in DOMAIN f.code /\ f.code[first].node = 1
    BY <1>2 DEF LP!Insts, LP!CodeOf, LP!Code
  <2> HIDE DEF first
  <2> QED BY <1>2, <1>3, <2>1 DEF Above
<1>5. Above[j] \subseteq Variables /\ \A v \in Above[j] : v \in Args /\ InRange(v, 1)
  <2> HIDE DEF first
  <2>1. Above[j] \subseteq Variables /\ \A v \in Above[j] : LP!IsArg(v) /\ LP!Covers(LiveRange[v], 1)
    BY <1>2, <1>3, <1>4
  <2> QED BY <2>1, SameOperators DEF Args
<1>6. Args \subseteq Variables
  BY DEF Args
<1> DEFINE here(c) == UNION {{<<v, k>> : k \in {m \in 1 .. Width(v) : Place(v)[m] = c}} : v \in Args}
<1>7. ASSUME NEW v \in Above[j], NEW k \in 1 .. Width(v) PROVE <<v, k>> \in g[Place(v)[k]]
  <2> DEFINE c == Place(v)[k]
  <2>1. v \in Args /\ v \in Variables /\ InRange(v, 1) /\ c \in Cells
    BY <1>1, <1>5, PlaceFacts
  <2>2. ASSUME NEW w \in Args, NEW m \in 1 .. Width(w), Place(w)[m] = c PROVE w = v /\ m = k
    <3>1. w \in Variables
      BY <1>6
    <3>2. CASE w = v
      BY <1>1, <2>1, <2>2, <3>2, PlaceFacts
    <3>3. CASE w # v
      <4>1. HasReg(w)
        BY <1>1, <2>1, <2>2, <3>1, <3>3, SharedCell
      <4>2. InRange(w, 1)
        BY <1>1, <3>1, <4>1 DEF RegistersStay
      <4>3. Overlap(v, w)
        BY <1>1, <2>1, <3>1, <4>2, InRangeTogether
      <4>4. \E r, q \in Regs : Twins(v, r, w, q) /\ (Aligned(r, q) => k = m)
        BY <1>1, <2>1, <2>2, <3>1, <3>3, <4>3, SharersMustBeTwins
      <4> QED BY <2>1, <4>4, ArgsAreApart
    <3> QED BY <3>2, <3>3
  <2>3. here(c) = {<<v, k>>}
    <3>1. <<v, k>> \in here(c)
      BY <2>1
    <3>2. \A p \in here(c) : p = <<v, k>>
      BY <2>2
    <3> QED BY <3>1, <3>2
  <2>4. g = [d \in Cells |-> IF Cardinality(here(d)) = 1 THEN here(d) ELSE {}]
    BY DEF Enter
  <2> HIDE DEF here, c
  <2>5. Cardinality(here(c)) = 1
    BY <2>3, FS_Singleton
  <2>6. g[c] = {<<v, k>>}
    BY <2>1, <2>3, <2>4, <2>5
  <2> QED BY <2>6 DEF c
<1> HIDE DEF here
<1>8. \A v \in Above[j] : PlaceHas(g, v)
  BY <1>7 DEF PlaceHas
<1>9. \A v, w \in Above[j] : Overlap(v, w)
  BY <1>1, <1>5, InRangeTogether
<1>10. \A v, w \in Above[j] : \A r, q : ~Twins(v, r, w, q)
  BY <1>5, ArgsAreApart
<1> QED BY <1>3, <1>4, <1>5, <1>8, <1>9, <1>10 DEF GoodFor

(***************************************************************************)
(* An edge: each cell has what it had, or the value of an operand and the  *)
(* dest of one phi, or nothing that is known.                              *)
(***************************************************************************)
PhiAt(c, s) ==
  UNION {{<<i, k>> : k \in {m \in 1 .. Width(f.code[i].dest) : Place(f.code[i].dest)[m] = c}} : i \in PhisOf(s)}
AsIn(h, d, g, c, D) == \A v \in Variables \ D, m \in {1, 2} : <<v, m>> \in g[c] <=> <<v, m>> \in h[d]
Carried(h, g, s) ==
  \A c \in Cells :
    /\ \/ \E d \in Cells : AsIn(h, d, g, c, Dests(s))
       \/ \A v \in Variables \ Dests(s), m \in {1, 2} : <<v, m>> \notin g[c]
    /\ (\A p \in PhisOf(s) : ~IsCellOf(c, f.code[p].dest)) => AsIn(h, c, g, c, Dests(s))
    /\ \A p \in PhisOf(s) : \A k \in 1 .. Width(f.code[p].dest) :
         Place(f.code[p].dest)[k] = c => <<f.code[p].dest, k>> \in g[c]

LEMMA PhiDests ==
  ASSUME Ready, NEW n \in 1 .. f.nodes, NEW s \in f.succ[n], NEW p \in PhisOf(s)
  PROVE  /\ p \in Kept /\ s \in 1 .. f.nodes /\ f.code[p].dest \in Variables /\ f.code[p].dest \in Dests(s)
         /\ ~IsCopy(f.code[p].dest)
         /\ f.code[p].from[n] # None =>
              /\ f.code[p].from[n] \in Variables
              /\ \A k \in 1 .. Width(f.code[p].dest) : k \in 1 .. Width(f.code[p].from[n])
<1>1. Requirements(f) /\ LP!IsFunction(f)
  BY FunctionIsFunction DEF Ready
<1>2. p \in DOMAIN f.code /\ f.code[p].node = s /\ f.code[p].from # <<>> /\ p \in Kept
  BY DEF PhisOf, Live!Phis, Live!CodeOf, Live!Code, Live!IsPhi, Kept
<1>3. s \in 1 .. f.nodes
  BY <1>1 DEF LP!IsFunction
<1>4. /\ f.code[p].dest \in Variables
      /\ f.code[p].uses \subseteq Variables
      /\ f.code[p].from[n] \in f.code[p].uses \cup {None}
  BY <1>1, <1>2, <1>3 DEF LP!IsFunction
<1>5. ~f.code[p].copy /\ (f.code[p].dest \in f.wide => f.code[p].uses \subseteq f.wide)
  BY <1>1, <1>2 DEF Requirements
<1>6. ~IsCopy(f.code[p].dest)
  BY <1>2, <1>5, CopiesAreDefined
<1>7. f.code[p].from[n] # None =>
        /\ f.code[p].from[n] \in Variables
        /\ \A k \in 1 .. Width(f.code[p].dest) : k \in 1 .. Width(f.code[p].from[n])
  BY <1>4, <1>5 DEF Width
<1> QED BY <1>2, <1>3, <1>4, <1>6, <1>7 DEF Dests

LEMMA PhiDestsApart ==
  ASSUME Ready, NEW n \in 1 .. f.nodes, NEW s \in f.succ[n], NEW p \in PhisOf(s), NEW q \in PhisOf(s),
         NEW k \in 1 .. Width(f.code[p].dest), NEW m \in 1 .. Width(f.code[q].dest),
         Place(f.code[p].dest)[k] = Place(f.code[q].dest)[m]
  PROVE  p = q /\ k = m
<1>1. PICK x, y : x = f.code[p].dest /\ y = f.code[q].dest
  OBVIOUS
<1>2. x \in Variables /\ y \in Variables /\ s \in 1 .. f.nodes /\ IInv /\ PhisCanBeLowered
  BY <1>1, PhiDests DEF Ready
<1>3. CASE p = q
  BY <1>1, <1>2, <1>3, PlaceFacts
<1>4. CASE p # q
  <2>1. Requirements(f) /\ ~Alias(x, y)
    BY <1>1, <1>2, <1>4, FunctionIsFunction DEF PhisCanBeLowered
  <2>2. x # y
    BY <1>1, <1>4, <2>1 DEF Requirements, PhisOf, Live!Phis, Live!CodeOf, Live!Code, Live!IsPhi
  <2>3. HasReg(x) /\ HasReg(y) /\ RegNum[x] \in Aliases(RegNum[y])
    <3>1. k \in 1 .. Width(x) /\ m \in 1 .. Width(y) /\ Place(x)[k] = Place(y)[m]
      BY <1>1
    <3> QED BY <1>2, <2>2, <3>1, SharedCell
  <2> QED BY <2>1, <2>3 DEF Alias
<1> QED BY <1>3, <1>4

LEMMA EdgeEffect ==
  ASSUME Ready, NEW n \in 1 .. f.nodes, NEW s \in f.succ[n], TakeEdge(s), n = f.code[next].node,
         NEW h, h = holds, NEW g, g = holds'
  PROVE  Carried(h, g, s)
<1> DEFINE D == Dests(s)
           operand(i) == f.code[i].from[n]
           moved(i, k) == {<<f.code[i].dest, k>>} \cup
                          (IF operand(i) = None THEN {}
                           ELSE {p \in holds[Place(operand(i))[k]] : p[1] \notin D})
           merged(W) == UNION {moved(w[1], w[2]) : w \in W}
           writes(p, k, c) == /\ p \in PhisOf(s)
                              /\ k \in 1 .. Width(f.code[p].dest)
                              /\ Place(f.code[p].dest)[k] = c
<1>1. \A c \in Cells : g[c] =
        IF PhiAt(c, s) = {} THEN {p \in holds[c] : p[1] \notin D}
        ELSE IF Cardinality(PhiAt(c, s)) = 1 THEN merged(PhiAt(c, s)) ELSE {}
  <2>1. \A c \in Cells : g[c] = PhiContents(n, s, c)
    BY DEF TakeEdge
  <2>2. ASSUME NEW c
        PROVE  PhiContents(n, s, c) =
                 IF PhiAt(c, s) = {} THEN {p \in holds[c] : p[1] \notin D}
                 ELSE IF Cardinality(PhiAt(c, s)) = 1 THEN merged(PhiAt(c, s)) ELSE {}
    BY Zenon DEF PhiContents, PhiAt
  <2> HIDE DEF D, merged
  <2> QED BY <2>1, <2>2
<1> HIDE DEF operand, moved, merged, writes
<1>2. ASSUME NEW c, NEW w \in PhiAt(c, s)
      PROVE  \E p \in PhisOf(s) : \E k \in 1 .. Width(f.code[p].dest) : w = <<p, k>> /\ writes(p, k, c)
  BY DEF PhiAt, writes
<1>3. ASSUME NEW c, NEW p, NEW k, writes(p, k, c)
      PROVE  PhiAt(c, s) = {<<p, k>>}
  <2>1. <<p, k>> \in PhiAt(c, s)
    BY <1>3 DEF PhiAt, writes
  <2>2. ASSUME NEW w \in PhiAt(c, s) PROVE w = <<p, k>>
    <3>1. PICK q \in PhisOf(s) : \E m \in 1 .. Width(f.code[q].dest) : w = <<q, m>> /\ writes(q, m, c)
      BY <1>2
    <3>2. PICK m \in 1 .. Width(f.code[q].dest) : w = <<q, m>> /\ writes(q, m, c)
      BY <3>1
    <3>3. p \in PhisOf(s) /\ k \in 1 .. Width(f.code[p].dest)
      BY <1>3 DEF writes
    <3>4. Place(f.code[p].dest)[k] = Place(f.code[q].dest)[m]
      BY <1>3, <3>2 DEF writes
    <3>5. p = q /\ k = m
      BY <3>3, <3>4, PhiDestsApart
    <3> QED BY <3>2, <3>5
  <2> QED BY <2>1, <2>2
<1>4. ASSUME NEW c \in Cells, NEW p, NEW k, writes(p, k, c)
      PROVE  g[c] = moved(p, k)
  <2>1. PhiAt(c, s) = {<<p, k>>}
    BY <1>3, <1>4
  <2>2. PhiAt(c, s) # {} /\ Cardinality(PhiAt(c, s)) = 1
    <3>1. Cardinality({<<p, k>>}) = 1
      BY FS_Singleton
    <3> QED BY <2>1, <3>1
  <2>3. g[c] = merged({<<p, k>>})
    <3>1. g[c] = merged(PhiAt(c, s))
      BY <1>1, <2>2
    <3> QED BY <2>1, <3>1
  <2>4. merged({<<p, k>>}) = moved(p, k)
    BY DEF merged
  <2> QED BY <2>3, <2>4
<1> SUFFICES ASSUME NEW c \in Cells
             PROVE  /\ \/ \E d \in Cells : AsIn(h, d, g, c, D)
                       \/ \A v \in Variables \ D, m \in {1, 2} : <<v, m>> \notin g[c]
                    /\ (\A p \in PhisOf(s) : ~IsCellOf(c, f.code[p].dest)) => AsIn(h, c, g, c, D)
                    /\ \A p \in PhisOf(s) : \A k \in 1 .. Width(f.code[p].dest) :
                         Place(f.code[p].dest)[k] = c => <<f.code[p].dest, k>> \in g[c]
  BY DEF Carried
<1>5. \A v \in Variables \ D, m \in {1, 2} : <<v, m>>[1] = v
  OBVIOUS
<1>6. CASE PhiAt(c, s) = {}
  <2>1. g[c] = {p \in h[c] : p[1] \notin D}
    BY <1>1, <1>6
  <2>2. AsIn(h, c, g, c, D)
    BY <1>5, <2>1 DEF AsIn
  <2>3. \A p, k : ~writes(p, k, c)
    BY <1>3, <1>6
  <2>4. \A p \in PhisOf(s) : \A k \in 1 .. Width(f.code[p].dest) : Place(f.code[p].dest)[k] # c
    BY <2>3 DEF writes
  <2> QED BY <2>2, <2>4
<1>7. CASE PhiAt(c, s) # {}
  <2>1. PICK p \in PhisOf(s) : \E k \in 1 .. Width(f.code[p].dest) : writes(p, k, c)
    BY <1>2, <1>7
  <2>2. PICK k \in 1 .. Width(f.code[p].dest) : writes(p, k, c)
    BY <2>1
  <2>3. g[c] = moved(p, k)
    BY <1>4, <2>2
  <2>4. IsCellOf(c, f.code[p].dest)
    BY <2>2 DEF IsCellOf, writes
  <2>5. \A q \in PhisOf(s) : \A m \in 1 .. Width(f.code[q].dest) :
          Place(f.code[q].dest)[m] = c => <<f.code[q].dest, m>> \in g[c]
    <3>1. \A q, m : writes(q, m, c) => g[c] = moved(q, m)
      BY <1>4
    <3>2. \A q, m : <<f.code[q].dest, m>> \in moved(q, m)
      BY DEF moved
    <3>3. \A q, m : writes(q, m, c) => <<f.code[q].dest, m>> \in g[c]
      BY <3>1, <3>2
    <3> QED BY <3>3 DEF writes
  <2>6. f.code[p].dest \in D
    BY PhiDests
  <2>7. \A v \in Variables \ D, m \in {1, 2} : <<v, m>> # <<f.code[p].dest, k>>
    BY <2>6
  <2>8. CASE operand(p) = None
    <3>1. g[c] = {<<f.code[p].dest, k>>}
      BY <2>3, <2>8 DEF moved
    <3> QED BY <2>4, <2>5, <2>7, <3>1
  <2>9. CASE operand(p) # None
    <3>1. operand(p) \in Variables /\ k \in 1 .. Width(operand(p))
      BY <2>2, <2>9, PhiDests DEF operand, writes
    <3>2. PICK d : d = Place(operand(p))[k]
      OBVIOUS
    <3>3. d \in Cells
      BY <3>1, <3>2, PlaceFacts DEF Ready
    <3>4. g[c] = {<<f.code[p].dest, k>>} \cup {q \in h[d] : q[1] \notin D}
      BY <2>3, <2>9, <3>2 DEF moved
    <3>5. AsIn(h, d, g, c, D)
      BY <1>5, <2>7, <3>4 DEF AsIn
    <3> QED BY <2>4, <2>5, <3>3, <3>5
  <2> QED BY <2>8, <2>9
<1> QED BY <1>6, <1>7

LEMMA TakeEdgeKeeps ==
  ASSUME Ready, NEW n \in 1 .. f.nodes, NEW s \in f.succ[n], TakeEdge(s), n = f.code[next].node,
         GoodFor(holds, LiveOut[n]), NEW j, j = next', NEW g, g = holds'
  PROVE  s \in 1 .. f.nodes /\ j \in LP!Insts(s) /\ GoodFor(g, Above[j])
<1>1. /\ LP!Finished /\ RangesAreOrdered /\ IInv /\ SharersAreTwins
      /\ n \in LP!Nodes
  BY SameOperators DEF Ready
<1>2. PICK h, T : h = holds /\ T = LP!Top(s)
  OBVIOUS
<1>3. /\ s \in LP!Nodes /\ s \in 1 .. f.nodes
      /\ T \subseteq LiveOut[n]
  BY <1>1, <1>2, AssumptionsHold, LP!EdgeFacts, SameOperators
<1> DEFINE first == LP!FirstOf(LP!Insts(s))
           D == Dests(s)
<1>4. PICK A : A = LP!LiveAbove(first, LP!Walk(s)[first])
  OBVIOUS
<1>5. first \in LP!Insts(s) /\ A \subseteq Variables
  BY <1>1, <1>3, <1>4, AssumptionsHold, LP!FirstInstFacts
<1>6. j = first
  <2>1. j = Min(LP!Insts(s))
    BY SameOperators DEF FirstInst, TakeEdge
  <2> QED BY <2>1 DEF Min, LP!FirstOf
<1>7. Above[j] = A
  <2>1. first \in DOMAIN f.code /\ f.code[first].node = s
    BY <1>5 DEF LP!Insts, LP!CodeOf, LP!Code
  <2> HIDE DEF first
  <2> QED BY <1>4, <1>6, <2>1 DEF Above
<1>8. PhisOf(s) = LP!Phis(s) \ Deleted
  BY SameOperators DEF PhisOf
<1>9. /\ \A v \in A : v \in T \/ \E p \in PhisOf(s) : v = f.code[p].dest
      /\ \A p \in PhisOf(s) :
           /\ LP!Number(LP!Behind(p)) \in Nat
           /\ f.code[p].dest \in A /\ f.code[p].dest \notin T
           /\ \A v \in A : InRange(v, LP!Number(LP!Behind(p)))
           /\ \A v \in T : InRange(v, Num(p))
           /\ T \subseteq A
  <2>1. /\ \A v \in A : v \in T \/ \E p \in LP!Phis(s) \ Deleted : v = f.code[p].dest
        /\ \A p \in LP!Phis(s) \ Deleted :
              /\ p \in LP!Code /\ LP!Number(LP!Behind(p)) \in Nat
              /\ f.code[p].dest \in A /\ f.code[p].dest \notin T
              /\ \A v \in A : LP!Covers(LiveRange[v], LP!Number(LP!Behind(p)))
              /\ \A v \in T : LP!Covers(LiveRange[v], LP!Number(p))
              /\ T \subseteq A
    BY <1>1, <1>2, <1>3, <1>4, AssumptionsHold, LP!PhiFacts
  <2>2. \A p \in LP!Phis(s) \ Deleted : LP!Number(p) = Num(p)
    <3>1. \A p \in LP!Phis(s) : p \in Nat
      BY FunctionIsFunction DEF LP!Phis, LP!CodeOf, LP!Code, Ready
    <3> QED BY <3>1 DEF LP!Number, LP!NumberInitial, Num
  <2> QED BY <1>8, <2>1, <2>2, SameOperators
<1>10. Carried(h, g, s)
  BY <1>2, EdgeEffect
<1>11. /\ \A v \in T : v \in Variables \ D /\ PlaceHas(h, v)
       /\ \A v, w \in T : v # w => Overlap(v, w)
       /\ \A v, w \in T, r, q \in Regs : v # w /\ Twins(v, r, w, q) => Aligned(r, q) /\ Same(h, v, w)
  <2>1. \A v \in T : v \notin D
    BY <1>9 DEF Dests
  <2> QED BY <1>2, <1>3, <2>1 DEF GoodFor
<1>12. \A p \in PhisOf(s) : /\ p \in Kept /\ f.code[p].dest \in Variables /\ ~IsCopy(f.code[p].dest)
  BY PhiDests
<1> HIDE DEF first, D
<1>13. ASSUME NEW v \in A, NEW w \in A, v # w PROVE Overlap(v, w)
  <2>1. CASE PhisOf(s) = {}
    BY <1>9, <1>11, <1>13, <2>1
  <2>2. CASE PhisOf(s) # {}
    <3>1. PICK p \in PhisOf(s) : TRUE
      BY <2>2
    <3>2. PICK m \in Nat : InRange(v, m) /\ InRange(w, m)
      BY <1>9, <3>1
    <3> QED BY <1>1, <1>5, <3>2, InRangeTogether
  <2> QED BY <2>1, <2>2
<1>14. ASSUME NEW p \in PhisOf(s), NEW w \in A, NEW r, NEW q
       PROVE  ~Twins(f.code[p].dest, r, w, q)
  <2> SUFFICES ASSUME Twins(f.code[p].dest, r, w, q) PROVE FALSE
    OBVIOUS
  <2>1. SharesAsCopy(w, f.code[p].dest)
    BY <1>12, TwinIsCopy DEF SharesAsCopy
  <2>2. IsCopy(w) /\ ~InRange(w, Num(p))
    BY <1>12, <2>1 DEF SharesAsCopy, Defs
  <2>3. w \in T
    BY <1>9, <1>12, <2>2
  <2> QED BY <1>9, <2>2, <2>3
<1>15. ASSUME NEW p \in PhisOf(s) PROVE PlaceHas(g, f.code[p].dest)
  <2> SUFFICES ASSUME NEW k \in 1 .. Width(f.code[p].dest)
               PROVE  <<f.code[p].dest, k>> \in g[Place(f.code[p].dest)[k]]
    BY DEF PlaceHas
  <2>1. Place(f.code[p].dest)[k] \in Cells
    BY <1>1, <1>12, PlaceFacts
  <2> QED BY <1>10, <2>1 DEF Carried
<1>16. ASSUME NEW v \in T, v \in A PROVE PlaceHas(g, v)
  <2> SUFFICES ASSUME NEW k \in 1 .. Width(v) PROVE <<v, k>> \in g[Place(v)[k]]
    BY DEF PlaceHas
  <2>1. PICK c : c = Place(v)[k]
    OBVIOUS
  <2>2. v \in Variables \ D /\ c \in Cells /\ k \in {1, 2} /\ <<v, k>> \in h[c]
    <3>1. v \in Variables \ D /\ PlaceHas(h, v)
      BY <1>11, <1>16
    <3> QED BY <1>1, <2>1, <3>1, PlaceFacts, WidthIsOneOrTwo DEF PlaceHas
  <2>3. ASSUME NEW p \in PhisOf(s), IsCellOf(c, f.code[p].dest) PROVE FALSE
    <3>1. PICK x : x = f.code[p].dest
      OBVIOUS
    <3>2. PICK m \in 1 .. Width(x) : Place(x)[m] = Place(v)[k]
      BY <2>1, <2>3, <3>1 DEF IsCellOf
    <3>3. x \in Variables /\ x \in A /\ x # v
      BY <1>9, <1>12, <1>16, <3>1
    <3>4. Overlap(x, v)
      BY <1>13, <1>16, <3>3
    <3>5. \E r, q \in Regs : Twins(x, r, v, q) /\ (Aligned(r, q) => m = k)
      BY <1>1, <2>2, <3>2, <3>3, <3>4, SharersMustBeTwins
    <3> QED BY <1>14, <1>16, <3>1, <3>5
  <2>4. AsIn(h, c, g, c, D)
    BY <1>10, <2>2, <2>3 DEF Carried, D
  <2> QED BY <2>1, <2>2, <2>4 DEF AsIn
<1>17. \A v \in A : PlaceHas(g, v)
  BY <1>9, <1>15, <1>16
<1>18. ASSUME NEW v \in T, NEW w \in T, Same(h, v, w) PROVE Same(g, v, w)
  <2> SUFFICES ASSUME NEW k \in (1 .. Width(v)) \cap (1 .. Width(w)), NEW c \in Cells
               PROVE  <<v, k>> \in g[c] <=> <<w, k>> \in g[c]
    BY DEF Same
  <2>1. k \in {1, 2} /\ v \in Variables \ D /\ w \in Variables \ D
    BY <1>11, WidthIsOneOrTwo
  <2>2. \/ \E d \in Cells : AsIn(h, d, g, c, D)
        \/ \A u \in Variables \ D, m \in {1, 2} : <<u, m>> \notin g[c]
    BY <1>10 DEF Carried, D
  <2>3. CASE \A u \in Variables \ D, m \in {1, 2} : <<u, m>> \notin g[c]
    BY <2>1, <2>3
  <2>4. CASE \E d \in Cells : AsIn(h, d, g, c, D)
    <3>1. PICK d \in Cells : AsIn(h, d, g, c, D)
      BY <2>4
    <3>2. <<v, k>> \in h[d] <=> <<w, k>> \in h[d]
      BY <1>18 DEF Same
    <3> QED BY <2>1, <3>1, <3>2 DEF AsIn
  <2> QED BY <2>2, <2>3, <2>4
<1>19. ASSUME NEW v \in A, NEW w \in A, NEW r \in Regs, NEW q \in Regs, v # w, Twins(v, r, w, q)
       PROVE  Aligned(r, q) /\ Same(g, v, w)
  <2>1. v \in T
    BY <1>9, <1>14, <1>19
  <2>2. Twins(w, q, v, r)
    BY <1>19, TwinsFollow
  <2>3. w \in T
    BY <1>9, <1>14, <2>2
  <2> QED BY <1>11, <1>18, <1>19, <2>1, <2>3
<1> QED BY <1>3, <1>5, <1>6, <1>7, <1>13, <1>17, <1>19 DEF GoodFor

(***************************************************************************)
(* Once the code runs, nothing but the machine changes.                    *)
(***************************************************************************)
LEMMA OperatorsStay ==
  ASSUME UNCHANGED <<f, LiveRange, Deleted, analysis, RegNum, Spilled>>
  PROVE  /\ Above' = Above /\ LiveOut' = LiveOut /\ f' = f
         /\ \A n : LP!Insts(n)' = LP!Insts(n) /\ LP!Last(n)' = LP!Last(n)
         /\ IsRegular' => IsRegular
<1>1. /\ f' = f /\ LiveRange' = LiveRange /\ Deleted' = Deleted /\ LiveOut' = LiveOut /\ LiveIn' = LiveIn
      /\ Dead' = Dead /\ LiveBegin' = LiveBegin /\ LiveEnd' = LiveEnd /\ NumNonDeadPhis' = NumNonDeadPhis
      /\ RegNum' = RegNum
  BY DEF analysis
<1>2. \A n : LP!Insts(n)' = LP!Insts(n) /\ LP!Last(n)' = LP!Last(n)
  BY <1>1 DEF LP!Insts, LP!CodeOf, LP!Phis, LP!IsPhi, LP!Code, LP!Last, LP!LastOf
<1>3. \A n, i : LP!Walk(n)[i]' = LP!Walk(n)[i]
  BY <1>1 DEF LP!Walk, LP!LiveAfter, LP!LiveAbove, LP!CodeOf, LP!Code, LP!Begins, LP!UsedBy, LP!IsDead, LP!IsPhi
<1>4. Above' = Above
  BY <1>1, <1>3 DEF Above, LP!LiveAbove, LP!Begins, LP!UsedBy, LP!IsDead, LP!IsPhi
<1>5. IsSettled' => IsSettled
  <2>1. \A n : LP!LiveAtEnd(n)' = LP!LiveAtEnd(n)
    BY <1>1 DEF LP!LiveAtEnd, LP!PhiOperands, LP!Phis, LP!CodeOf, LP!Code, LP!IsPhi
  <2>2. LP!Settled' => LP!Settled
    BY <1>1, <2>1 DEF LP!Settled, LP!Nodes
  <2>3. (LP!HasNoLoop' => LP!HasNoLoop) /\ (LP!HasPhis(f)' <=> LP!HasPhis(f))
    BY <1>1 DEF LP!HasNoLoop, LP!HasPhis, LP!Nodes
  <2> QED BY <2>2, <2>3 DEF IsSettled
<1>6. CopiesFindTheirPart' /\ PrecoloredApart' => CopiesFindTheirPart /\ PrecoloredApart
  BY <1>1, PremisesStay
<1>7. CallsAreKilled' /\ EffectsReadDest' => CallsAreKilled /\ EffectsReadDest
  BY <1>1 DEF CallsAreKilled, EffectsReadDest
<1>8. PrecoloredAtCalls' => PrecoloredAtCalls
  BY <1>1 DEF PrecoloredAtCalls, Kept, Spans
<1>9. EntryHasArgs' => EntryHasArgs
  BY <1>1 DEF EntryHasArgs, LP!Phis, LP!CodeOf, LP!Code, LP!IsPhi, Args, Live!IsArg, Live!Code, InRange
<1> QED BY <1>1, <1>2, <1>4, <1>5, <1>6, <1>7, <1>8, <1>9 DEF IsRegular

LEMMA GoodForStays ==
  ASSUME UNCHANGED <<f, LiveRange, Deleted, analysis, RegNum, Spilled>>, NEW h, NEW L, GoodFor(h, L)
  PROVE  GoodFor(h, L)'
<1>1. f' = f /\ LiveRange' = LiveRange /\ Deleted' = Deleted /\ RegNum' = RegNum /\ Spilled' = Spilled
  OBVIOUS
<1>2. \A v : Width(v)' = Width(v) /\ Place(v)' = Place(v)
  BY <1>1 DEF Width, Place, HasReg
<1>3. Cells' = Cells
  BY <1>1 DEF Cells, SpillLoc
<1>4. \A v : PlaceHas(h, v)' <=> PlaceHas(h, v)
  BY <1>2 DEF PlaceHas
<1>5. \A v, w : Same(h, v, w)' <=> Same(h, v, w)
  BY <1>2, <1>3 DEF Same
<1>6. \A v, w : Overlap(v, w)' <=> Overlap(v, w)
  BY <1>1, FunctionStays
<1>7. \A v, r, w, q : Twins(v, r, w, q)' <=> Twins(v, r, w, q)
  BY <1>1, TwinsStay
<1>8. \A r, q : Aligned(r, q)' <=> Aligned(r, q)
  BY DEF Aligned
<1> QED BY <1>4, <1>5, <1>6, <1>7, <1>8 DEF GoodFor

(***************************************************************************)
(* The machine's steps.                                                    *)
(***************************************************************************)
LEMMA RKept ==
  ASSUME UNCHANGED <<f, LiveRange, Deleted, analysis, scan>>, NEW n \in 1 .. f.nodes,
         NEW j, j = next', f.code[j].node = n, j \in LP!Insts(n),
         NEW g, g = holds', NEW L, GoodFor(g, L), leaving' \in BOOLEAN,
         leaving' => j = LP!Last(n) /\ L = LiveOut[n],
         ~leaving' => L = Above[j]
  PROVE  RInv'
<1>1. UNCHANGED <<f, LiveRange, Deleted, analysis, RegNum, Spilled>>
  BY DEF scan
<1>2. /\ Above' = Above /\ LiveOut' = LiveOut /\ f' = f
      /\ \A m : LP!Insts(m)' = LP!Insts(m) /\ LP!Last(m)' = LP!Last(m)
  BY <1>1, OperatorsStay
<1>3. GoodFor(g, L)'
  BY <1>1, GoodForStays
<1>4. LiveNow' = L
  BY <1>2 DEF LiveNow
<1>5. GoodFor(holds, LiveNow)'
  BY <1>3, <1>4 DEF GoodFor, PlaceHas, Same
<1>6. /\ next' \in LP!Insts(f.code[next].node)'
      /\ leaving' => next' = LP!Last(f.code[next].node)'
  BY <1>2
<1> QED BY <1>5, <1>6 DEF RInv

LEMMA ExecuteKeepsValues ==
  ASSUME Ready, MInv, RInv, Execute
  PROVE  RInv'
<1>1. PICK n, i, j : n = f.code[next].node /\ i = next /\ j = next'
  OBVIOUS
<1>2. /\ phase = "run" /\ next # 0 /\ ~leaving
      /\ UNCHANGED <<f, LiveRange, Deleted, analysis, scan>>
      /\ leaving' = (i = Max(Live!CodeOf(n)))
      /\ j = IF leaving' THEN i ELSE i + 1
  BY <1>1 DEF Execute
<1>3. i \in LP!Insts(n) /\ GoodFor(holds, Above[i])
  BY <1>1, <1>2 DEF RInv, Ready, LiveNow
<1>4. n \in 1 .. f.nodes /\ n \in LP!Nodes /\ LP!IsFunction(f)
  <2>1. LP!IsFunction(f)
    BY FunctionIsFunction DEF Ready
  <2>2. i \in DOMAIN f.code /\ f.code[i].node = n
    BY <1>3 DEF LP!Insts, LP!CodeOf, LP!Code
  <2> QED BY <2>1, <2>2, SameOperators DEF LP!IsFunction
<1>5. PICK g : g = holds'
  OBVIOUS
<1>6. GoodFor(g, LP!Walk(n)[i])
  BY <1>1, <1>3, <1>5, ExecuteKeeps
<1>7. leaving' = (i = LP!Last(n))
  <2>1. Max(LP!CodeOf(n)) = LP!Last(n)
    <3>1. \A S : Max(S) = CHOOSE x \in S : \A y \in S : x >= y
      BY DEF Max
    <3>2. /\ LP!Last(n) \in Nat /\ LP!First(n) \in Nat \ {0} /\ LP!First(n) <= LP!Last(n)
          /\ LP!CodeOf(n) = LP!First(n) .. LP!Last(n)
      BY <1>4, AssumptionsHold, LP!BlockIsInterval
    <3>3. LP!CodeOf(n) \in SUBSET (1 .. LP!Last(n)) /\ LP!CodeOf(n) # {}
      BY <3>2
    <3>4. Max(LP!CodeOf(n)) \in LP!CodeOf(n) /\ \A k \in LP!CodeOf(n) : k <= Max(LP!CodeOf(n))
      BY <3>2, <3>3, MaxIsIn
    <3>5. LP!Last(n) \in LP!CodeOf(n)
      BY <3>2
    <3> QED BY <3>2, <3>4, <3>5
  <2> QED BY <1>2, <2>1, SameOperators
<1>8. PICK W : W = LP!Walk(n)[i]
  OBVIOUS
<1>9. /\ i \in DOMAIN f.code /\ f.code[i].node = n
      /\ i # LP!Last(n) => i + 1 \in LP!Insts(n) /\ W = Above[i + 1]
      /\ i = LP!Last(n) => W = LiveOut[n]
  BY <1>3, <1>4, <1>8, InstructionFacts
<1>10. CASE i = LP!Last(n)
  <2>1. j = i /\ j \in LP!Insts(n) /\ f.code[j].node = n /\ leaving' \in BOOLEAN
    BY <1>2, <1>3, <1>7, <1>9, <1>10
  <2>2. leaving' /\ j = LP!Last(n) /\ W = LiveOut[n] /\ GoodFor(g, W)
    BY <1>6, <1>7, <1>8, <1>9, <1>10, <2>1
  <2> QED BY <1>1, <1>2, <1>4, <1>5, <2>1, <2>2, RKept
<1>11. CASE i # LP!Last(n)
  <2>1. j = i + 1 /\ j \in LP!Insts(n) /\ ~leaving' /\ leaving' \in BOOLEAN
    BY <1>2, <1>7, <1>9, <1>11
  <2>2. f.code[j].node = n
    BY <2>1 DEF LP!Insts, LP!CodeOf, LP!Code
  <2>3. GoodFor(g, Above[j])
    BY <1>6, <1>8, <1>9, <1>11, <2>1
  <2> QED BY <1>1, <1>2, <1>4, <1>5, <2>1, <2>2, <2>3, RKept
<1> QED BY <1>10, <1>11

LEMMA EnterKeepsValues ==
  ASSUME Ready, Enter
  PROVE  RInv'
<1>1. PICK j, g : j = next' /\ g = holds'
  OBVIOUS
<1>2. 1 \in 1 .. f.nodes /\ j \in LP!Insts(1) /\ GoodFor(g, Above[j])
  BY <1>1, EnterKeeps
<1>3. f.code[j].node = 1
  BY <1>2 DEF LP!Insts, LP!CodeOf, LP!Code
<1>4. leaving' = FALSE /\ UNCHANGED <<f, LiveRange, Deleted, analysis, scan>>
  BY DEF Enter
<1> QED BY <1>1, <1>2, <1>3, <1>4, RKept

LEMMA TakeEdgeKeepsValues ==
  ASSUME Ready, MInv, RInv, NEW s \in 1 .. f.nodes, TakeEdge(s)
  PROVE  RInv'
<1>1. PICK n, j, g : n = f.code[next].node /\ j = next' /\ g = holds'
  OBVIOUS
<1>2. /\ phase = "run" /\ next # 0 /\ leaving /\ s \in f.succ[n] /\ leaving' = FALSE
      /\ UNCHANGED <<f, LiveRange, Deleted, analysis, scan>>
  BY <1>1 DEF TakeEdge, MInv
<1>3. next \in LP!Insts(n) /\ GoodFor(holds, LiveOut[n])
  BY <1>1, <1>2 DEF RInv, Ready, LiveNow
<1>4. n \in 1 .. f.nodes
  <2>1. LP!IsFunction(f)
    BY FunctionIsFunction DEF Ready
  <2>2. next \in DOMAIN f.code
    BY <1>3 DEF LP!Insts, LP!CodeOf, LP!Code
  <2> QED BY <1>1, <2>1, <2>2 DEF LP!IsFunction
<1>5. j \in LP!Insts(s) /\ GoodFor(g, Above[j])
  BY <1>1, <1>2, <1>3, <1>4, TakeEdgeKeeps
<1>6. f.code[j].node = s
  BY <1>5 DEF LP!Insts, LP!CodeOf, LP!Code
<1> QED BY <1>1, <1>2, <1>5, <1>6, RKept

LEMMA RStutterHolds ==
  ASSUME RInv, UNCHANGED <<f, LiveRange, Deleted, analysis, scan, run>>
  PROVE  RInv'
<1>1. UNCHANGED <<f, LiveRange, Deleted, analysis, RegNum, Spilled>>
  BY DEF scan
<1>2. /\ Above' = Above /\ LiveOut' = LiveOut /\ f' = f
      /\ \A m : LP!Insts(m)' = LP!Insts(m) /\ LP!Last(m)' = LP!Last(m)
      /\ IsRegular' => IsRegular
  BY <1>1, OperatorsStay
<1>3. next' = next /\ leaving' = leaving /\ holds' = holds /\ phase' = phase
  BY DEF run, scan
<1> SUFFICES ASSUME f.kind' = "Global", phase' = "run", next' # 0, IsRegular'
             PROVE  /\ next' \in LP!Insts(f.code[next].node)'
                    /\ leaving' => next' = LP!Last(f.code[next].node)'
                    /\ GoodFor(holds, LiveNow)'
  BY DEF RInv
<1>4. /\ next \in LP!Insts(f.code[next].node)
      /\ leaving => next = LP!Last(f.code[next].node)
      /\ GoodFor(holds, LiveNow)
  BY <1>2, <1>3 DEF RInv
<1>5. LiveNow' = LiveNow
  BY <1>2, <1>3 DEF LiveNow
<1>6. PICK h, L : h = holds /\ L = LiveNow
  OBVIOUS
<1>7. GoodFor(h, L)'
  BY <1>1, <1>4, <1>6, GoodForStays
<1>8. GoodFor(holds, LiveNow)'
  BY <1>3, <1>5, <1>6, <1>7 DEF GoodFor, PlaceHas, Same
<1>9. next' \in LP!Insts(f.code[next].node)' /\ (leaving' => next' = LP!Last(f.code[next].node)')
  BY <1>2, <1>3, <1>4
<1> QED BY <1>8, <1>9

LEMMA RStepHolds == IInv /\ SInv /\ LiveInv /\ MInv /\ KInv /\ TInv /\ RInv /\ [Next]_vars => RInv'
<1> SUFFICES ASSUME IInv, SInv, LiveInv, MInv, KInv, TInv, RInv, [Next]_vars PROVE RInv'
  OBVIOUS
<1>1. CASE Analyse \/ UseRanges \/ Allocate
  <2>1. phase # "run" /\ UNCHANGED run
    <3>1. CASE Analyse \/ UseRanges
      BY <3>1 DEF Analyse, UseRanges
    <3>2. CASE Allocate
      <4>1. UNCHANGED run
        BY <3>2 DEF Allocate
      <4>2. CASE InitForGlobal \/ InitForSecondChance \/ InitForInfOnly
        <5>1. phase = "init"
          BY <4>2 DEF InitForGlobal, InitForSecondChance, InitForInfOnly, StartScan
        <5> QED BY <4>1, <5>1
      <4>3. ASSUME NEW cur \in Variables, Consider(cur) PROVE phase # "run"
        <5>1. phase = "scan"
          BY <4>3 DEF Consider, AllocatePrecolored, AllocatePreferred, AllocateFree, Spill, Evict,
                      AllocateReserve, Fail, AddSpillFill, EvictLightest, EvictAliases, Assign, LeaveWithout,
                      Expire, IsNext
        <5> QED BY <5>1
      <4>4. CASE EndScan
        BY <4>1, <4>4 DEF EndScan
      <4> QED BY <3>2, <4>1, <4>2, <4>3, <4>4 DEF Allocate, RegAlloc
    <3> QED BY <1>1, <3>1, <3>2
  <2>2. next' = 0
    BY <2>1 DEF MInv, run
  <2> QED BY <2>2 DEF RInv
<1>2. CASE Terminated \/ UNCHANGED vars
  BY <1>2, RStutterHolds DEF Terminated, vars
<1>3. CASE Enter \/ Execute \/ \E s \in 1 .. f.nodes : TakeEdge(s)
  <2>1. phase = "run" /\ UNCHANGED <<f, LiveRange, Deleted, analysis, scan>>
    BY <1>3 DEF Enter, Execute, TakeEdge
  <2>2. CASE ~(f.kind = "Global" /\ IsRegular)
    <3>1. UNCHANGED <<f, LiveRange, Deleted, analysis, RegNum, Spilled>>
      BY <2>1 DEF scan
    <3>2. ~(f'.kind = "Global" /\ IsRegular')
      BY <2>2, <3>1, OperatorsStay
    <3> QED BY <3>2 DEF RInv
  <2>3. CASE f.kind = "Global" /\ IsRegular
    <3>1. Ready
      BY <2>1, <2>3, ReadyAtRun
    <3> QED BY <1>3, <3>1, EnterKeepsValues, ExecuteKeepsValues, TakeEdgeKeepsValues
  <2> QED BY <2>2, <2>3
<1> QED BY <1>1, <1>2, <1>3 DEF Next

LEMMA RInitHolds == Init => RInv
BY DEF Init, RInv

(***************************************************************************)
(* What an instruction or an edge reads is live.                           *)
(***************************************************************************)
LEMMA ReadIsLive ==
  ASSUME Ready, MInv, next # 0, NEW n, n = f.code[next].node, next \in LP!Insts(n)
  PROVE  Read \subseteq LiveNow
<1>1. LP!IsFunction(f) /\ next \in DOMAIN f.code /\ LP!Finished
  BY FunctionIsFunction DEF Ready, LP!Insts, LP!CodeOf, LP!Code
<1>2. n \in 1 .. f.nodes /\ n \in LP!Nodes
  BY <1>1, SameOperators DEF LP!IsFunction
<1>3. CASE leaving
  <2>1. ASSUME NEW s \in f.succ[n] PROVE OperandsTo(n, s) \subseteq LiveOut[n]
    <3>1. \A p \in LP!Phis(s) \ Deleted : f.code[p].from[n] # None => f.code[p].from[n] \in LiveOut[n]
      BY <1>1, <1>2, AssumptionsHold, LP!EdgeFacts
    <3> QED BY <3>1, SameOperators DEF OperandsTo, PhisOf
  <2>2. Read = UNION {OperandsTo(n, s) : s \in f.succ[n]}
    BY <1>3 DEF Read
  <2>3. LiveNow = LiveOut[n]
    BY <1>3 DEF LiveNow
  <2> QED BY <2>1, <2>2, <2>3
<1>4. CASE ~leaving
  <2>1. PICK i : i = next
    OBVIOUS
  <2>2. i \notin Deleted => f.code[i].uses \subseteq Above[i]
    BY <1>2, <2>1, InstructionFacts
  <2>3. LiveNow = Above[i] /\ Read = IF i \in Deleted THEN {} ELSE f.code[i].uses
    BY <1>4, <2>1 DEF LiveNow, Read
  <2> QED BY <2>2, <2>3
<1> QED BY <1>3, <1>4

LEMMA LiveIsInPlace ==
  IInv /\ SInv /\ LiveInv /\ MInv /\ KInv /\ TInv /\ RInv /\ f.kind = "Global" /\ IsRegular => ValuesKept
<1> SUFFICES ASSUME IInv, SInv, LiveInv, MInv, KInv, TInv, RInv, f.kind = "Global", IsRegular,
                    phase = "run", next # 0, NEW v \in Read
             PROVE  InPlace(v)
  BY DEF ValuesKept
<1>1. Ready
  BY ReadyAtRun
<1>2. next \in LP!Insts(f.code[next].node) /\ GoodFor(holds, LiveNow)
  BY DEF RInv
<1>3. v \in LiveNow
  BY <1>1, <1>2, ReadIsLive
<1>4. PlaceHas(holds, v)
  BY <1>2, <1>3 DEF GoodFor
<1> QED BY <1>4 DEF PlaceHas, InPlace

(***************************************************************************)
(* The promise of register allocation.                                     *)
(***************************************************************************)
AllInv == IInv /\ SInv /\ LiveInv /\ MInv /\ KInv /\ TInv /\ RInv
THEOREM ValuesKeptCorrect == Spec => [](f.kind = "Global" /\ IsRegular => ValuesKept)
<1>1. Init => AllInv
  BY InitHolds, SInitHolds, LiveInitHolds, MachineInit, KInitHolds, TInitHolds, RInitHolds DEF AllInv
<1>2. AllInv /\ [Next]_vars => AllInv'
  <2> SUFFICES ASSUME AllInv, [Next]_vars PROVE AllInv'
    OBVIOUS
  <2>1. IInv /\ SInv /\ LiveInv /\ MInv /\ KInv /\ TInv /\ RInv /\ RangesAreOrdered
    BY DEF AllInv, LiveInv
  <2>2. IInv'
    BY <2>1, StepHolds
  <2>3. SInv'
    BY <2>1, SStepHolds
  <2>4. LiveInv'
    BY <2>1, LiveStepHolds
  <2>5. MInv'
    BY <2>1, MachineStepHolds
  <2>6. KInv'
    BY <2>1, KStepHolds
  <2>7. TInv'
    BY <2>1, TStepHolds
  <2>8. RInv'
    BY <2>1, RStepHolds
  <2> QED BY <2>2, <2>3, <2>4, <2>5, <2>6, <2>7, <2>8 DEF AllInv
<1>3. AllInv => (f.kind = "Global" /\ IsRegular => ValuesKept)
  BY LiveIsInPlace DEF AllInv
<1> QED BY <1>1, <1>2, <1>3, PTL DEF Spec
==============================================================================
