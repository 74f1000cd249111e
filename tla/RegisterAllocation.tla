-------------------------- MODULE RegisterAllocation --------------------------
(***************************************************************************)
(* A function from liveness analysis through register allocation to code   *)
(* that runs: Liveness finds the ranges, LinearScan assigns the registers, *)
(* and then any path of the function is executed on the registers and      *)
(* stack slots, with a record of whose current value each cell contains.   *)
(***************************************************************************)
EXTENDS LinearScan

CONSTANTS Functions,  \* the functions considered
          None        \* no dest, or a constant operand

VARIABLES pc, at, NeedToProcess, LiveIn, LiveOut, NumNonDeadPhis, Dead, LiveBegin, LiveEnd,
          next,       \* the instruction to execute
          leaving,    \* the last instruction of its node has been executed
          holds       \* whose values each cell contains

analysis == <<pc, at, NeedToProcess, LiveIn, LiveOut, NumNonDeadPhis, Dead, LiveBegin, LiveEnd>>
run == <<next, leaving, holds>>
vars == <<f, LiveRange, Deleted, analysis, scan, run>>

Live == INSTANCE Liveness

Init ==
  /\ Live!Init
  /\ phase = IF f.kind = "InfOnly" THEN "init" ELSE "liveness"
  /\ Kind = f.kind
  /\ Unhandled = {} /\ Active = {} /\ Inactive = {} /\ Handled = {} /\ Evicted = {}
  /\ Trimmed = [v \in Variables |-> -1]
  /\ RegNum = f.reg
  /\ RegNumTmp = [v \in Variables |-> NoReg]
  /\ RegUses = [r \in Regs |-> 0]
  /\ MustHaveReg = f.must
  /\ Spilled = {}
  /\ failed = FALSE
  /\ next = 0
  /\ leaving = FALSE
  /\ holds = <<>>

Analyse ==
  /\ phase = "liveness"
  /\ Live!Step
  /\ UNCHANGED <<scan, run>>

(***************************************************************************)
(* What is taken for granted of a function: a variable either must or must *)
(* not have a register or neither; a pre-color has the variable's width,   *)
(* and may not be forbidden.  Only the first allocation finds phis, and    *)
(* their dests are different variables without a register.  A copy has one *)
(* source, and a source or an operand has the units that its dest gets.    *)
(***************************************************************************)
Requirements(g) ==
  /\ Live!IsFunction(g)
  /\ g.kind \in {"Global", "InfOnly", "Phi"}
  /\ g.reg \in [Variables -> Regs \cup {NoReg}]
  /\ g.must \subseteq Variables
  /\ g.must \cap g.mustNot = {}
  /\ \A v \in Variables : g.reg[v] # NoReg =>
       /\ v \notin g.mustNot
       /\ Len(Registers[g.reg[v]]) = IF v \in g.wide THEN 2 ELSE 1
  /\ \A i \in DOMAIN g.code : g.code[i].from # <<>> =>
       /\ g.kind = "Global"
       /\ ~g.code[i].copy
       /\ g.reg[g.code[i].dest] = NoReg
       /\ \A j \in DOMAIN g.code : g.code[j].from # <<>> /\ i # j => g.code[i].dest # g.code[j].dest
  /\ \A i \in DOMAIN g.code :
       /\ g.code[i].copy => \E v \in Variables : g.code[i].uses = {v}
       /\ (g.code[i].copy \/ g.code[i].from # <<>>) /\ g.code[i].dest \in g.wide =>
            g.code[i].uses \subseteq g.wide

(***************************************************************************)
(* The block of an edge holds what lowerAssign() makes of an assignment: a *)
(* value is brought into the dest through temporaries.  While a temporary  *)
(* is live, another variable is written only to be read before the         *)
(* temporary is, or with it (an address that is built up in the dest), so  *)
(* that addSpillFill(), which looks for reads only, finds it.              *)
(***************************************************************************)
WritesAreRead(g) ==
  \A v \in g.must : \A i, k, j \in DOMAIN g.code :
    /\ i < k /\ k < j /\ g.code[j].node = 1
    /\ g.code[i].dest = v /\ v \in g.code[j].uses
    /\ g.code[k].dest # None
    => \E m \in k + 1 .. j : g.code[k].dest \in g.code[m].uses

ASSUME FunctionsAssumption == \A g \in Functions : Requirements(g)
ASSUME EdgeBlocksAssumption == \A g \in Functions : g.kind = "Phi" => WritesAreRead(g)
ASSUME NoneAssumption == None \notin Variables
ASSUME UnitsAssumption == Units \cap (Variables \X {1, 2}) = {}

(***************************************************************************)
(* The ranges are those of the analysis; after phi lowering, only those of *)
(* variables that have or must have a register, in the new block (node 1). *)
(***************************************************************************)
LastNum == Num(Max(Live!CodeOf(1)))
InNewNode(range) ==
  [k \in 1 .. Cardinality({m \in DOMAIN range : range[m][1] <= LastNum}) |->
     <<range[k][1], IF range[k][2] <= LastNum THEN range[k][2] ELSE LastNum + 1>>]
UseRanges ==
  /\ phase = "liveness"
  /\ pc = "done"
  /\ phase' = "init"
  /\ LiveRange' = IF f.kind = "Phi"
                  THEN [v \in Variables |-> IF HasReg(v) \/ v \in f.must
                                            THEN InNewNode(LiveRange[v]) ELSE <<>>]
                  ELSE LiveRange
  /\ UNCHANGED <<f, Deleted, analysis, Kind, Unhandled, Active, Inactive, Handled, Evicted, Trimmed,
                 RegNum, RegNumTmp, RegUses, MustHaveReg, Spilled, failed, run>>

Allocate == RegAlloc /\ UNCHANGED <<analysis, run>>

-----------------------------------------------------------------------------
(***************************************************************************)
(* The machine.  A variable is in its register or in a slot of its own; a  *)
(* value of two units is two values.                                       *)
(***************************************************************************)
Place(v) == IF HasReg(v) THEN Registers[RegNum[v]] ELSE [k \in 1 .. Width(v) |-> <<v, k>>]
SpillLoc(s) == [k \in DOMAIN Registers[s.reg] |-> <<s, k>>]
Scratch == {u \in Units : \A r \in Regs : u \in UnitsOf(r) => r \in CallerSave}
Cells == Units \cup {<<v, k>> : v \in Variables, k \in 1 .. 2}
         \cup UNION {{SpillLoc(s)[k] : k \in DOMAIN SpillLoc(s)} : s \in Spilled}
InPlace(v) == \A k \in 1 .. Width(v) : <<v, k>> \in holds[Place(v)[k]]

(***************************************************************************)
(* The contents h after the cells of a place were given other contents,    *)
(* after moves from place to place (what certainly is in a cell that two   *)
(* of them write), when the variables in S get new values, and when v gets *)
(* the value that s has, wherever that is.                                 *)
(***************************************************************************)
IndexIn(place, c) == {k \in DOMAIN place : place[k] = c}
Store(h, place, contents) ==
  [c \in Cells |-> IF IndexIn(place, c) = {} THEN h[c] ELSE UNION {contents[k] : k \in IndexIn(place, c)}]
Load(h, place) == [k \in DOMAIN place |-> h[place[k]]]
Moved(h, moves) ==
  [c \in Cells |->
     LET into == UNION {{m.from[k] : k \in IndexIn(m.to, c)} : m \in moves}
     IN IF into = {} THEN h[c] ELSE {p \in UNION {h[d] : d \in into} : \A d \in into : p \in h[d]}]
Save(h, S) == Moved(h, {[from |-> Registers[s.reg], to |-> SpillLoc(s)] : s \in S})
Fill(h, S) == Moved(h, {[from |-> SpillLoc(s), to |-> Registers[s.reg]] : s \in S})
Forget(h, S) == [c \in Cells |-> {p \in h[c] : p[1] \notin S}]
Alike(h, v, s) ==
  [c \in Cells |-> {p \in h[c] : p[1] # v}
                    \cup {<<v, k>> : k \in {m \in 1 .. Width(v) : <<s, m>> \in h[c]}}]
Nothing(v) == [k \in 1 .. Width(v) |-> {}]
Define(h, v, contents) == Store(h, Place(v), [k \in 1 .. Width(v) |-> contents[k] \cup {<<v, k>>}])

(***************************************************************************)
(* Execution begins with the arguments in their places.                    *)
(***************************************************************************)
Args == {v \in Variables : Live!IsArg(v)}
FirstInst(n) == Min(Live!Insts(n))
Enter ==
  /\ phase = "run"
  /\ ~failed
  /\ next = 0
  /\ next' = FirstInst(1)
  /\ leaving' = FALSE
  /\ holds' = [c \in Cells |->
       LET here == UNION {{<<v, k>> : k \in {m \in 1 .. Width(v) : Place(v)[m] = c}} : v \in Args}
       IN IF Cardinality(here) = 1 THEN here ELSE {}]
  /\ UNCHANGED <<f, LiveRange, Deleted, analysis, scan>>

(***************************************************************************)
(* One instruction, between the spills before it and the fills behind it.  *)
(***************************************************************************)
Execute ==
  /\ phase = "run"
  /\ next # 0
  /\ ~leaving
  /\ LET i == next
         inst == f.code[i]
         saved == Save(holds, {s \in Spilled : s.from = Num(i)})
         called == IF inst.call THEN [c \in Cells |-> IF c \in Scratch THEN {} ELSE saved[c]] ELSE saved
         source == CHOOSE v \in inst.uses : TRUE
         known == IF inst.copy THEN Alike(called, inst.dest, source) ELSE Forget(called, {inst.dest})
         done == IF inst.dest = None THEN called
                 ELSE Define(known, inst.dest,
                             IF inst.copy THEN Load(known, Place(source)) ELSE Nothing(inst.dest))
         filled == Fill(done, {s \in Spilled : s.to = Num(i)})
     IN /\ holds' = IF i \in Deleted THEN holds ELSE filled
        /\ leaving' = (i = Max(Live!CodeOf(inst.node)))
        /\ next' = IF leaving' THEN i ELSE i + 1
  /\ UNCHANGED <<f, LiveRange, Deleted, analysis, scan>>

(***************************************************************************)
(* An edge: the phis of the successor act together.                        *)
(***************************************************************************)
PhisOf(n) == Live!Phis(n) \ Deleted
Dests(n) == {f.code[i].dest : i \in PhisOf(n)}
PhiContents(n, s, c) ==
  LET written == UNION {{<<i, k>> : k \in {m \in 1 .. Width(f.code[i].dest) :
                                              Place(f.code[i].dest)[m] = c}} : i \in PhisOf(s)}
      operand(i) == f.code[i].from[n]
      moved(i, k) == {<<f.code[i].dest, k>>} \cup
                     (IF operand(i) = None THEN {}
                      ELSE {p \in holds[Place(operand(i))[k]] : p[1] \notin Dests(s)})
  IN IF written = {} THEN {p \in holds[c] : p[1] \notin Dests(s)}
     ELSE IF Cardinality(written) = 1 THEN UNION {moved(w[1], w[2]) : w \in written} ELSE {}
TakeEdge(s) ==
  /\ phase = "run"
  /\ leaving
  /\ LET n == f.code[next].node IN
     /\ s \in f.succ[n]
     /\ holds' = [c \in Cells |-> PhiContents(n, s, c)]
  /\ next' = FirstInst(s)
  /\ leaving' = FALSE
  /\ UNCHANGED <<f, LiveRange, Deleted, analysis, scan>>

Returned == phase = "run" /\ leaving /\ f.succ[f.code[next].node] = {}
Failed == phase = "run" /\ failed
Terminated == (phase = "fatal" \/ Failed \/ Returned) /\ UNCHANGED vars

Next ==
  \/ Analyse
  \/ UseRanges
  \/ Allocate
  \/ Enter
  \/ Execute
  \/ \E s \in 1 .. f.nodes : TakeEdge(s)
  \/ Terminated

Spec == Init /\ [][Next]_vars
FairSpec == Spec /\ WF_vars(Analyse \/ UseRanges \/ Allocate)

-----------------------------------------------------------------------------
(***************************************************************************)
(* Live ranges are ordered, as LiveRange::addSegment() asserts.            *)
(***************************************************************************)
RangesAreOrdered == \A v \in Variables : Live!IsOrdered(LiveRange[v])

(***************************************************************************)
(* Types.                                                                  *)
(***************************************************************************)
TypeOK ==
  /\ RangesAreOrdered
  /\ phase \in {"liveness", "init", "scan", "run", "fatal"}
  /\ Kind \in {"Global", "SecondChance", "InfOnly", "Phi"}
  /\ \A S \in {Unhandled, Active, Inactive, Handled, Evicted, MustHaveReg} : S \subseteq Variables
  /\ Trimmed \in [Variables -> Int]
  /\ RegNum \in [Variables -> Regs \cup {NoReg}]
  /\ RegNumTmp \in [Variables -> Regs \cup {NoReg}]
  /\ RegUses \in [Regs -> Nat]
  /\ failed \in BOOLEAN
  /\ leaving \in BOOLEAN
  /\ next \in 0 .. Len(f.code)
  /\ next # 0 => holds \in [Cells -> SUBSET ((Variables \X {1, 2}))]

(***************************************************************************)
(* The promise of register allocation: whatever path the function takes,   *)
(* an instruction finds the current value of each variable it reads where  *)
(* the variable is, although variables share registers, registers alias,   *)
(* calls overwrite them and ranges have holes.                             *)
(***************************************************************************)
OperandsTo(n, s) == {f.code[i].from[n] : i \in PhisOf(s)} \ {None}
Read ==
  IF leaving THEN UNION {OperandsTo(f.code[next].node, s) : s \in f.succ[f.code[next].node]}
  ELSE IF next \in Deleted THEN {} ELSE f.code[next].uses
ValuesKept == phase = "run" /\ next # 0 => \A v \in Read : InPlace(v)

(***************************************************************************)
(* Two variables whose ranges overlap share a register only if one of them *)
(* is a copy (of the other, or of what it is a copy of) during whose life  *)
(* the other is not written, or if both were pre-colored.  The phis of a   *)
(* node never do, although one may be the other's source, or its copy: so  *)
(* CfgNode::advancedPhiLowering() takes for granted (and PhiLowering       *)
(* assumes).                                                               *)
(***************************************************************************)
Alias(v, w) == HasReg(v) /\ HasReg(w) /\ RegNum[v] \in Aliases(RegNum[w])
IsCopy(v) == \E i \in Defs(v) : f.code[i].copy /\ Defs(v) = {i}
InRange(v, n) == \E k \in DOMAIN LiveRange[v] : LiveRange[v][k][1] <= n /\ n < LiveRange[v][k][2]
SharesAsCopy(v, w) == IsCopy(v) /\ \A i \in Defs(w) : ~InRange(v, Num(i))
MayAlias(v, w) ==
  \/ SharesAsCopy(v, w)
  \/ SharesAsCopy(w, v)
  \/ f.reg[v] # NoReg /\ f.reg[w] # NoReg
OverlapsAreHarmless ==
  \A v, w \in Variables :
    v # w /\ Alias(v, w) /\ Live!Overlaps(LiveRange[v], LiveRange[w]) => MayAlias(v, w)
PhisCanBeLowered ==
  \A n \in 1 .. f.nodes : \A i, j \in PhisOf(n) :
    i # j => ~Alias(f.code[i].dest, f.code[j].dest)
NoInterference ==
  phase = "run" => (f.kind # "Phi" => OverlapsAreHarmless) /\ PhisCanBeLowered

(***************************************************************************)
(* The use counts are right after every expiry, reactivation and eviction: *)
(* RegUses[r] is the number of active variables whose register aliases r.  *)
(***************************************************************************)
RegUsesExact ==
  phase = "scan" => \A r \in Regs :
    RegUses[r] = Cardinality({v \in Active : r \in Aliases(RegNumTmp[v])})

(***************************************************************************)
(* A register that a scan has assigned, or that the variable had before,   *)
(* stays ("Regnum shouldn't be set more than once"), also when evicted     *)
(* variables get their second chance.                                      *)
(***************************************************************************)
RegNumIsFinal == [][\A v \in Variables : HasReg(v) => RegNum'[v] = RegNum[v]]_vars

(***************************************************************************)
(* If no error is reported, a variable that must have a register has one,  *)
(* of its own width.                                                       *)
(***************************************************************************)
RequirementsMet ==
  phase = "run" /\ ~failed => \A v \in Variables :
    /\ v \in f.must /\ LiveRange[v] # <<>> => HasReg(v)
    /\ HasReg(v) => RegNum[v] \in RegMaskUnfiltered(v)

(***************************************************************************)
(* The second-chance scans come to an end.                                 *)
(***************************************************************************)
AllocationEnds == <>(phase \in {"run", "fatal"})
=============================================================================
