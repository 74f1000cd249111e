------------------------------ MODULE LinearScan ------------------------------
(***************************************************************************)
(* LinearScan and TargetLowering::regAlloc(): registers for the variables  *)
(* of a function, from their live ranges.  One action is one iteration of  *)
(* the loop of scan(), with everything it does for the variable Cur, or    *)
(* the start or the end of a scan.                                         *)
(*                                                                         *)
(* A function is a record as in Liveness, and also has                     *)
(*   kind     "Global" (with live ranges), "InfOnly" (without) or "Phi"    *)
(*            (the blocks that phi lowering adds)                          *)
(*   repeat   the flag -regalloc-repeat                                    *)
(*   reg      the register of each variable that is pre-colored, or NoReg  *)
(*   must     variables that must have a register                          *)
(*   mustNot  variables that must not                                      *)
(*   wide     variables of two units                                       *)
(*   depth    loop nest depth of each node                                 *)
(*   reserve  registers kept back for -reg-reserve                         *)
(* and of an instruction also                                              *)
(*   copy     it assigns a variable to a variable                          *)
(*   call     it overwrites the scratch registers                          *)
(*   kill     it is the FakeKill behind a call                             *)
(*                                                                         *)
(* Registers are sequences of units and alias when they share one.  The    *)
(* order of the variables with one starting point, and of the operands of  *)
(* an instruction, is that of their numbers in the code and any here.      *)
(***************************************************************************)
EXTENDS Integers, FiniteSets, Sequences, FiniteSetsExt

CONSTANTS Variables,  \* the variables of the functions
          Registers,  \* Registers[r] are the units of register r
          CallerSave  \* the scratch registers

Units == UNION {{Registers[r][k] : k \in DOMAIN Registers[r]} : r \in DOMAIN Registers}

ASSUME VariablesAssumption == IsFiniteSet(Variables)
ASSUME RegistersAssumption ==
  /\ Registers \in Seq(Seq(Units) \ {<<>>})
  /\ \A r \in DOMAIN Registers : \A k, m \in DOMAIN Registers[r] :
       k # m => Registers[r][k] # Registers[r][m]
  /\ CallerSave \subseteq DOMAIN Registers

VARIABLES f,          \* the function
          LiveRange,  \* the live range of each variable
          Deleted,    \* instructions that liveness analysis deleted
          phase,      \* "liveness", "init", "scan", "run" or "fatal"
          Kind,       \* the kind of this scan
          Unhandled, Active, Inactive, Handled, Evicted,
          Trimmed,    \* of each variable, up to where its range is trimmed
          RegNum,     \* final registers
          RegNumTmp,  \* registers assigned in this scan
          RegUses,    \* of each register, how many active variables alias it
          MustHaveReg,
          Spilled,    \* spills and fills around the range of a variable
          failed      \* Func->setError()

scan == <<phase, Kind, Unhandled, Active, Inactive, Handled, Evicted, Trimmed, RegNum, RegNumTmp,
          RegUses, MustHaveReg, Spilled, failed>>

NoReg == 0
Regs == DOMAIN Registers
UnitsOf(r) == {Registers[r][k] : k \in DOMAIN Registers[r]}
AliasTable == [r \in Regs |-> {q \in Regs : UnitsOf(q) \cap UnitsOf(r) # {}}]
Aliases(r) == AliasTable[r]
Width(v) == IF v \in f.wide THEN 2 ELSE 1
RegMaskUnfiltered(v) == {r \in Regs : Len(Registers[r]) = Width(v)}
RegMask(v) == RegMaskUnfiltered(v) \ f.reserve
UseReserve == f.reserve # {}

HasReg(v) == RegNum[v] # NoReg
HasRegTmp(v) == RegNumTmp[v] # NoReg

Kept == DOMAIN f.code \ Deleted
Num(i) == i + 1
Defs(v) == {i \in Kept : f.code[i].dest = v}
Uses(v) == {i \in Kept : v \in f.code[i].uses}

-----------------------------------------------------------------------------
(***************************************************************************)
(* Operations of LiveRange.  trim() drops the segments that end up to a    *)
(* number; endsBefore() looks at the whole range.                          *)
(***************************************************************************)
Start(v) == IF LiveRange[v] = <<>> THEN -1 ELSE LiveRange[v][1][1]
End(v) == IF LiveRange[v] = <<>> THEN -1 ELSE LiveRange[v][Len(LiveRange[v])][2]
Segments(v) == {k \in DOMAIN LiveRange[v] : LiveRange[v][k][2] > Trimmed[v]}
RangeEndsBefore(v, w) == LiveRange[v] = <<>> \/ LiveRange[w] = <<>> \/ End(v) <= Start(w)
OverlapsNumber(v, n) == \E k \in Segments(v) : LiveRange[v][k][1] <= n /\ n < LiveRange[v][k][2]
RangeOverlaps(v, w) ==
  \E k \in Segments(v), m \in Segments(w) :
    /\ LiveRange[v][k][1] < LiveRange[w][m][2]
    /\ LiveRange[w][m][1] < LiveRange[v][k][2]
OverlapsDefs(item, v) == \E i \in Defs(v) : OverlapsNumber(item, Num(i))

(***************************************************************************)
(* The FakeKills, as a range of empty segments.                            *)
(***************************************************************************)
Kills ==
  IF f.kind # "Global" THEN {}
  ELSE {Num(i) : i \in {j \in Kept : f.code[j].kill /\ j - 1 \in Kept}}
SpansKill(v) ==
  \E n \in Kills, k \in Segments(v) : LiveRange[v][k][1] < n /\ n < LiveRange[v][k][2]

(***************************************************************************)
(* Weights: four to the loop depth for each definition and each use of the *)
(* variable, infinite for a variable that must have a register.  (~0 is    *)
(* infinite in the code, and sums stop just below; here they do not stop.) *)
(***************************************************************************)
UseWeight(i) == 4 ^ f.depth[f.code[i].node]
AllUses(v) == MapThenSumSet(UseWeight, Defs(v)) + MapThenSumSet(UseWeight, Uses(v))
WeightByUse(v) == [infinite |-> FALSE, uses |-> AllUses(v)]  \* faulty: none is infinite
Weight(v) == [infinite |-> v \in MustHaveReg, uses |-> AllUses(v)]
SumOfWeights(S) ==
  [infinite |-> \E v \in S : Weight(v).infinite, uses |-> MapThenSumSet(AllUses, S)]
Infinite == [infinite |-> TRUE, uses |-> 0]
Heavier(w1, w2) == ~w2.infinite /\ (w1.infinite \/ w1.uses > w2.uses)

-----------------------------------------------------------------------------
(***************************************************************************)
(* init(): the variables to handle.                                        *)
(***************************************************************************)
StartScanAnew(unhandled) ==  \* faulty: registers of an earlier scan may be taken away
  /\ phase = "init"
  /\ phase' = "scan"
  /\ Unhandled' = unhandled
  /\ Active' = {}
  /\ Inactive' = {}
  /\ Handled' = {}
  /\ Evicted' = {}
  /\ Trimmed' = [v \in Variables |-> IF v \in unhandled THEN -1 ELSE Trimmed[v]]
  /\ RegNumTmp' = [v \in Variables |-> IF v \in unhandled /\ HasReg(v) THEN RegNum[v] ELSE RegNumTmp[v]]
  /\ RegUses' = [r \in Regs |-> 0]
  /\ UNCHANGED <<f, Deleted, Kind, RegNum, MustHaveReg, Spilled, failed>>

StartScan(unhandled) ==
  /\ phase = "init"
  /\ phase' = "scan"
  /\ Unhandled' = unhandled
  /\ Active' = {}
  /\ Inactive' = {}
  /\ Handled' = {}
  /\ Evicted' = {}
  /\ Trimmed' = [v \in Variables |-> IF v \in unhandled THEN -1 ELSE Trimmed[v]]
  /\ RegNumTmp' = [v \in Variables |-> IF v \in unhandled /\ HasReg(v) THEN RegNum[v] ELSE RegNumTmp[v]]
  /\ MustHaveReg' = MustHaveReg \cup {v \in unhandled : HasReg(v)}
  /\ RegUses' = [r \in Regs |-> 0]
  /\ UNCHANGED <<f, Deleted, Kind, RegNum, Spilled, failed>>

InitForGlobal ==
  /\ Kind \in {"Global", "Phi"}
  /\ StartScan({v \in Variables \ f.mustNot : LiveRange[v] # <<>>})
  /\ UNCHANGED LiveRange

InitForSecondChance ==
  /\ Kind = "SecondChance"
  /\ StartScan({v \in Variables : HasReg(v)} \cup Evicted)
  /\ UNCHANGED LiveRange

(***************************************************************************)
(* Without liveness analysis, the range of a variable that has or must     *)
(* have a register goes from its first definition to its last use.  A use  *)
(* without a definition before it, or a definition without a use, is fatal.*)
(***************************************************************************)
Tracked == {v \in Variables : (HasReg(v) \/ v \in f.must) /\ Defs(v) # {}}
SimpleRange(v) == <<<<Num(Min(Defs(v))), Num(Max(Uses(v)))>>>>
LivenessError ==
  \E v \in Tracked : Uses(v) = {} \/ Min(Uses(v)) <= Min(Defs(v))

InitForInfOnly ==
  /\ Kind = "InfOnly"
  /\ IF LivenessError
     THEN /\ phase = "init"
          /\ phase' = "fatal"
          /\ UNCHANGED <<f, LiveRange, Deleted, Kind, Unhandled, Active, Inactive, Handled, Evicted,
                         Trimmed, RegNum, RegNumTmp, RegUses, MustHaveReg, Spilled, failed>>
     ELSE /\ StartScan(Tracked)
          /\ LiveRange' = [v \in Variables |-> IF v \in Tracked THEN SimpleRange(v) ELSE <<>>]

-----------------------------------------------------------------------------
(***************************************************************************)
(* What findRegisterPreference() may find for Cur: a source of the first   *)
(* definition of Cur, if all of them are in one block.  Overlap is allowed *)
(* if Cur is defined once, as a copy of the source, and the source is not  *)
(* written while Cur is live.                                              *)
(***************************************************************************)
FindPreference == Kind # "InfOnly"
FindOverlap == Kind \notin {"InfOnly", "Phi"}
NoPreference == [prefer |-> {}, reg |-> NoReg, overlap |-> FALSE]
DefInst(v) ==
  LET defs == Defs(v) IN
  IF defs # {} /\ \A i, j \in defs : f.code[i].node = f.code[j].node THEN {Min(defs)} ELSE {}
MayShare(cur, v) == ~OverlapsDefs(cur, v)
Preference(cur, i, v, free) ==
  LET srcReg == Min(RegMask(cur) \cap Aliases(RegNumTmp[v]))
      singleDefAssign == f.code[i].copy /\ Cardinality(Defs(cur)) = 1
  IN [prefer |-> {v}, reg |-> srcReg,
      overlap |-> FindOverlap /\ singleDefAssign /\ srcReg \notin free /\ MayShare(cur, v)]
Preferences(cur, free) ==
  LET found == {p \in UNION {{Preference(cur, i, v, free) :
                       v \in {w \in f.code[i].uses :
                                HasRegTmp(w) /\ RegMask(cur) \cap Aliases(RegNumTmp[w]) # {}}} :
                       i \in DefInst(cur)} : p.overlap \/ p.reg \in free}
  IN IF FindPreference /\ found # {} THEN found ELSE {NoPreference}

(***************************************************************************)
(* The sets after the expiry of ranges, when Cur is considered.            *)
(***************************************************************************)
Expired(cur) == {v \in Active \cup Inactive : RangeEndsBefore(v, cur)}
NowActive(cur) ==
  {v \in (Active \cup Inactive) \ Expired(cur) : OverlapsNumber(v, Start(cur))}
NowInactive(cur) == (Active \cup Inactive) \ (Expired(cur) \cup NowActive(cur))
UsesWithoutLeft(left, entered) ==  \* faulty: what becomes active again is not counted
  [r \in Regs |-> RegUses[r] - Cardinality({v \in left : r \in Aliases(RegNumTmp[v])})]
UsesWithoutInactive(left, entered) ==  \* faulty: inactive variables give their registers back again
  [r \in Regs |-> RegUses[r] - Cardinality({v \in left \cup Inactive : r \in Aliases(RegNumTmp[v])})
                             + Cardinality({v \in entered : r \in Aliases(RegNumTmp[v])})]
UsesWithout(left, entered) ==
  [r \in Regs |-> RegUses[r] - Cardinality({v \in left : r \in Aliases(RegNumTmp[v])})
                             + Cardinality({v \in entered : r \in Aliases(RegNumTmp[v])})]
AliasesOf(S) == UNION {Aliases(RegNumTmp[v]) : v \in S}

(***************************************************************************)
(* The IterationState for Cur: what is free and what may be shared after   *)
(* the filters, and the weight of each register.                           *)
(***************************************************************************)
OverlapIfPreferred(cur, p, active, overlapping, precolored) ==  \* faulty: others in the register
  /\ p.overlap
  /\ p.reg \notin precolored
  /\ SpansKill(cur) => p.reg \notin CallerSave
OverlapAllowed(cur, p, active, overlapping, precolored) ==
  LET others == (active \cup overlapping) \ p.prefer IN
  /\ p.overlap
  /\ \A v \in others : p.reg \in Aliases(RegNumTmp[v]) => ~OverlapsDefs(cur, v)
  /\ p.reg \notin precolored
  /\ SpansKill(cur) => p.reg \notin CallerSave

Iterations(cur) ==
  LET active == NowActive(cur)
      uses == UsesWithout(Active \ active, active \ Active)
      overlapping == {v \in NowInactive(cur) : RangeOverlaps(v, cur)}
      precolored == UNION {Aliases(RegNum[v]) :
                             v \in {w \in Unhandled : HasReg(w) /\ RangeOverlaps(w, cur)}}
      blocked == precolored \cup (IF SpansKill(cur) THEN CallerSave ELSE {})
      unused == {r \in Regs : uses[r] <= 0}
      free == unused \ (AliasesOf(overlapping) \cup blocked)
      weight == [r \in Regs |->
                   IF r \in blocked THEN Infinite
                   ELSE SumOfWeights({v \in active \cup overlapping : r \in Aliases(RegNumTmp[v])})]
  IN {[active |-> active, uses |-> uses, overlapping |-> overlapping, weight |-> weight,
       free |-> free \cap RegMask(cur),
       freeUnfiltered |-> free \cap RegMaskUnfiltered(cur),
       prefer |-> p.reg,
       allowOverlap |-> OverlapAllowed(cur, p, active, overlapping, precolored)] :
        p \in Preferences(cur, unused \cap RegMask(cur))}

IsLightest(it, mask, r) ==
  /\ r \in mask
  /\ \A q \in mask : /\ ~Heavier(it.weight[r], it.weight[q])
                     /\ q < r => Heavier(it.weight[q], it.weight[r])

-----------------------------------------------------------------------------
(***************************************************************************)
(* The choices for Cur.                                                    *)
(***************************************************************************)
IsNext(cur) == phase = "scan" /\ cur \in Unhandled /\ \A v \in Unhandled : Start(cur) <= Start(v)
Increment(uses, r) == [q \in Regs |-> IF q \in Aliases(r) THEN uses[q] + 1 ELSE uses[q]]

AllocatePrecolored(cur) ==
  /\ IsNext(cur)
  /\ HasReg(cur)
  /\ Unhandled' = Unhandled \ {cur}
  /\ Active' = Active \cup {cur}
  /\ RegUses' = Increment(RegUses, RegNum[cur])
  /\ UNCHANGED <<f, LiveRange, Deleted, phase, Kind, Inactive, Handled, Evicted, Trimmed, RegNum,
                 RegNumTmp, MustHaveReg, Spilled, failed>>

(***************************************************************************)
(* Cur gets register r, after the active variables in outActive and the    *)
(* inactive ones in outInactive have lost theirs.                          *)
(***************************************************************************)
Expire(cur) ==
  /\ Unhandled' = Unhandled \ {cur}
  /\ Trimmed' = [v \in Variables |-> IF v \in Active \cup Inactive THEN Start(cur) ELSE Trimmed[v]]
  /\ UNCHANGED <<f, LiveRange, Deleted, phase, Kind, RegNum, MustHaveReg>>

Assign(cur, r, it, outActive, outInactive) ==
  LET out == outActive \cup outInactive
      left == [q \in Regs |-> it.uses[q]
                 - Cardinality({v \in outActive : q \in Aliases(RegNumTmp[v])})]
  IN /\ Expire(cur)
     /\ Active' = (it.active \ outActive) \cup {cur}
     /\ Inactive' = NowInactive(cur) \ outInactive
     /\ Handled' = Handled \cup Expired(cur) \cup out
     /\ Evicted' = Evicted \cup out
     /\ RegNumTmp' = [v \in Variables |-> IF v = cur THEN r ELSE IF v \in out THEN NoReg ELSE RegNumTmp[v]]
     /\ RegUses' = Increment(left, r)
     /\ UNCHANGED <<Spilled, failed>>

LeaveWithout(cur, it) ==
  /\ Expire(cur)
  /\ Active' = it.active
  /\ Inactive' = NowInactive(cur)
  /\ Handled' = Handled \cup Expired(cur) \cup {cur}
  /\ RegUses' = it.uses
  /\ UNCHANGED Evicted

Preferred(it) == it.prefer # NoReg /\ (it.allowOverlap \/ it.prefer \in it.free)
NoneFree(it) == ~Preferred(it) /\ it.free = {}
TooLight(cur, it, mask) == \A r \in mask : ~Heavier(Weight(cur), it.weight[r])

AllocatePreferred(cur) ==
  /\ IsNext(cur)
  /\ ~HasReg(cur)
  /\ \E it \in Iterations(cur) : Preferred(it) /\ Assign(cur, it.prefer, it, {}, {})

AllocateFree(cur) ==
  /\ IsNext(cur)
  /\ ~HasReg(cur)
  /\ \E it \in Iterations(cur) :
       ~Preferred(it) /\ it.free # {} /\ Assign(cur, Min(it.free), it, {}, {})

(***************************************************************************)
(* No register is free: Cur stays without one, or takes the register whose *)
(* variables weigh least.                                                  *)
(***************************************************************************)
Spill(cur) ==
  /\ IsNext(cur)
  /\ ~HasReg(cur)
  /\ cur \notin MustHaveReg
  /\ \E it \in Iterations(cur) :
       NoneFree(it) /\ TooLight(cur, it, RegMask(cur)) /\ LeaveWithout(cur, it)
  /\ UNCHANGED <<RegNumTmp, Spilled, failed>>

EvictSame(cur, r, it) ==  \* faulty: not from the registers that alias it
  Assign(cur, r, it, {v \in it.active : RegNumTmp[v] = r}, {v \in it.overlapping : RegNumTmp[v] = r})
EvictAliases(cur, r, it) ==
  Assign(cur, r, it, {v \in it.active : RegNumTmp[v] \in Aliases(r)},
                     {v \in it.overlapping : RegNumTmp[v] \in Aliases(r)})
EvictLightest(cur, it, mask) ==
  \E r \in Regs : IsLightest(it, mask, r) /\ EvictAliases(cur, r, it)
Evict(cur) ==
  /\ IsNext(cur)
  /\ ~HasReg(cur)
  /\ \E it \in Iterations(cur) :
       /\ NoneFree(it)
       /\ \/ /\ ~TooLight(cur, it, RegMask(cur))
             /\ EvictLightest(cur, it, RegMask(cur))
          \/ /\ TooLight(cur, it, RegMask(cur))  \* a reserve register that holds a lighter variable
             /\ cur \in MustHaveReg /\ Kind # "Phi" /\ UseReserve /\ it.freeUnfiltered = {}
             /\ ~TooLight(cur, it, RegMaskUnfiltered(cur))
             /\ EvictLightest(cur, it, RegMaskUnfiltered(cur))

AllocateReserve(cur) ==
  /\ IsNext(cur)
  /\ ~HasReg(cur)
  /\ cur \in MustHaveReg /\ Kind # "Phi" /\ UseReserve
  /\ \E it \in Iterations(cur) :
       /\ NoneFree(it) /\ TooLight(cur, it, RegMask(cur))
       /\ it.freeUnfiltered # {}
       /\ Assign(cur, Min(it.freeUnfiltered), it, {}, {})

Fail(cur) ==
  /\ IsNext(cur)
  /\ ~HasReg(cur)
  /\ cur \in MustHaveReg /\ Kind # "Phi"
  /\ \E it \in Iterations(cur) :
       /\ NoneFree(it) /\ TooLight(cur, it, RegMask(cur))
       /\ UseReserve => it.freeUnfiltered = {} /\ TooLight(cur, it, RegMaskUnfiltered(cur))
       /\ LeaveWithout(cur, it)
  /\ failed' = TRUE
  /\ UNCHANGED <<RegNumTmp, Spilled>>

(***************************************************************************)
(* addSpillFill(): Cur takes a register that no instruction of its range   *)
(* reads; what is in it is saved before and restored afterwards.  A        *)
(* register that an instruction of the range only writes is not excluded.  *)
(***************************************************************************)
MentionedBeforeEnd(cur) ==  \* faulty: the last instruction of the range is not looked at
  {v \in Variables : HasRegTmp(v) /\ \E i \in Uses(v) : Num(i) \in Start(cur) .. End(cur) - 1}
Mentioned(cur) ==
  {v \in Variables : HasRegTmp(v) /\ \E i \in Uses(v) : Num(i) \in Start(cur) .. End(cur)}
AddSpillFill(cur) ==
  /\ IsNext(cur)
  /\ ~HasReg(cur)
  /\ cur \in MustHaveReg /\ Kind = "Phi"
  /\ \E it \in Iterations(cur) :
       /\ NoneFree(it) /\ TooLight(cur, it, RegMask(cur))
       /\ LeaveWithout(cur, it)
  /\ LET left == RegMask(cur) \ AliasesOf(Mentioned(cur)) IN
     /\ left # {}
     /\ RegNumTmp' = [RegNumTmp EXCEPT ![cur] = Min(left)]
     /\ Spilled' = Spilled \cup {[reg |-> Min(left), from |-> Start(cur), to |-> End(cur)]}
  /\ UNCHANGED failed

-----------------------------------------------------------------------------
(***************************************************************************)
(* assignFinalRegisters(), and the loop of regAlloc().                     *)
(***************************************************************************)
RepeatAlways == f.kind = "Global" /\ f.repeat  \* faulty: also when nothing was evicted
Repeat == f.kind = "Global" /\ f.repeat /\ Evicted # {}
EndScan ==
  /\ phase = "scan"
  /\ Unhandled = {}
  /\ Handled' = Handled \cup Active \cup Inactive
  /\ Active' = {}
  /\ Inactive' = {}
  /\ RegNum' = [v \in Variables |-> IF v \in Handled' THEN RegNumTmp[v] ELSE RegNum[v]]
  /\ Kind' = "SecondChance"
  /\ phase' = IF Repeat THEN "init" ELSE "run"
  /\ UNCHANGED <<f, LiveRange, Deleted, Unhandled, Evicted, Trimmed, RegNumTmp, RegUses, MustHaveReg,
                 Spilled, failed>>

Consider(cur) ==
  \/ AllocatePrecolored(cur)
  \/ AllocatePreferred(cur)
  \/ AllocateFree(cur)
  \/ Spill(cur)
  \/ Evict(cur)
  \/ AllocateReserve(cur)
  \/ Fail(cur)
  \/ AddSpillFill(cur)

RegAlloc ==
  \/ InitForGlobal
  \/ InitForSecondChance
  \/ InitForInfOnly
  \/ \E cur \in Variables : Consider(cur)
  \/ EndScan
=============================================================================
