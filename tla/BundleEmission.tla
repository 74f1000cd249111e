--------------------------- MODULE BundleEmission ---------------------------
(***************************************************************************)
(* Cfg::emitIAS() for sandboxed code: no instruction, and no region        *)
(* between bundle_lock and bundle_unlock, may cross a bundle boundary.     *)
(* Each region is emitted twice.  The preliminary pass finds out its size, *)
(* is rolled back, and nops are put in front; then the final pass repeats  *)
(* it.  An instruction outside of regions is a region of its own.          *)
(*                                                                         *)
(* A function is the sequence of its instructions, with an entry for the   *)
(* start of each node.  An entry is a record of                            *)
(*   kind    "node", "lock", "unlock", "inst" or "branch"                  *)
(*   option  of a lock "None", "AlignToEnd" or "PadToEnd";                 *)
(*           of a node "Align" or "None" (needsAlignment)                  *)
(*   lock    the bundle_lock of its region, or 0                           *)
(*   size    bytes (of a lock: of all the region)                          *)
(*   offset  bytes of the region in front of it                            *)
(*   targets the nodes a branch goes to: one, or two if it is conditional  *)
(*           and neither target follows                                    *)
(***************************************************************************)
EXTENDS Integers, Sequences, FiniteSets

CONSTANTS Functions,   \* the functions considered
          BundleSize,  \* bytes of a bundle
          ShortReach   \* bytes a short branch can go back

kShortSize == 2
kLongSizeJ == 6
kLongSizeJmp == 5

InOneBundle(begin, end) == begin \div BundleSize = (end - 1) \div BundleSize

(***************************************************************************)
(* What the target lowerings insert: regions are not nested (AutoBundle),  *)
(* fit into a bundle, and have no branch to a label in them.               *)
(***************************************************************************)
WellFormed(f) ==
  /\ f \in Seq({f[i] : i \in DOMAIN f})
  /\ \A i \in DOMAIN f :
       /\ f[i].kind \in {"node", "lock", "unlock", "inst", "branch"}
       /\ f[i].lock \in 0 .. i
       /\ f[i].size \in 0 .. BundleSize
       /\ f[i].offset \in Nat
       /\ f[i].kind = "lock" <=> f[i].lock = i
       /\ f[i].kind = "unlock" => f[i].lock # 0
       /\ f[i].kind \in {"node", "branch"} => f[i].lock = 0
       /\ f[i].kind = "lock" =>
            f[i].offset = 0 /\ f[i].option \in {"None", "AlignToEnd", "PadToEnd"}
       /\ f[i].kind = "unlock" => f[i].offset = f[f[i].lock].size
       /\ f[i].kind = "inst" /\ f[i].lock # 0 => f[i].offset + f[i].size <= f[f[i].lock].size
       /\ \/ f[i].kind = "unlock" \/ f[i].lock = 0
          \/ /\ i + 1 \in DOMAIN f
             /\ f[i + 1].lock = f[i].lock
             /\ f[i + 1].offset = f[i].offset + (IF f[i].kind = "inst" THEN f[i].size ELSE 0)
       /\ (f[i].kind = "unlock" \/ f[i].lock = 0) /\ i + 1 \in DOMAIN f => f[i + 1].lock \in {0, i + 1}

ASSUME BundleAssumption ==
  /\ BundleSize \in Nat \ {0}
  /\ ShortReach \in Nat
  /\ kLongSizeJ + kLongSizeJmp <= BundleSize
  /\ \A f \in Functions : WellFormed(f)

VARIABLES function,          \* the function being emitted
          I,                 \* the next entry
          text,              \* the instructions in the buffer, and where
          size,              \* Buffer.size()
          Preliminary,       \* effects other than on the buffer are held back
          effects,           \* fixups, links and label bindings made, in order
          label,             \* where each node has been bound
          BundleLockStart,   \* the lock of the region being emitted, or 0
          Retrying,          \* in the final pass over it
          SizeSnapshotPre,   \* where the region begins
          SizeSnapshotPost,  \* where it ended in the last pass
          stats              \* instructions counted by updateStats()

vars == <<function, I, text, size, Preliminary, effects, label, BundleLockStart, Retrying,
          SizeSnapshotPre, SizeSnapshotPost, stats>>

Entry == function[I]
NotEnded == I \in DOMAIN function
Emits(i) == function[i].kind \in {"inst", "branch"}
InBundleLockRegion == BundleLockStart # 0

-----------------------------------------------------------------------------
(***************************************************************************)
(* How long an instruction is at a position.  A branch back to a bound     *)
(* label is short if the distance permits, so padding can lengthen it; a   *)
(* branch forward is long.                                                 *)
(***************************************************************************)
IsShort(target, at) == label[target] >= 0 /\ label[target] - at - kShortSize >= -ShortReach
JmpSize(target, at) == IF IsShort(target, at) THEN kShortSize ELSE kLongSizeJmp
JSize(target, at) == IF IsShort(target, at) THEN kShortSize ELSE kLongSizeJ
BranchSize(branch, at) ==
  CASE branch.option = "jmp" -> JmpSize(branch.targets[1], at)
    [] branch.option = "j" -> JSize(branch.targets[1], at)
    [] OTHER -> LET first == JSize(branch.targets[1], at)
                IN first + JmpSize(branch.targets[2], at + first)
SizeAt(i, at) ==
  IF function[i].kind = "branch" THEN BranchSize(function[i], at) ELSE function[i].size

(***************************************************************************)
(* An instruction of no bytes (a label) leaves nothing in the buffer.      *)
(***************************************************************************)
Piece(i, at) == [of |-> i, at |-> at, size |-> SizeAt(i, at)]
Emitted(i, at) == IF SizeAt(i, at) = 0 THEN text ELSE text \cup {Piece(i, at)}
Aligned(at) == (at % BundleSize) = 0
ToNextBundle(at) == IF Aligned(at) THEN 0 ELSE BundleSize - (at % BundleSize)

SameBundleBySize(pre, post) == post - pre <= BundleSize  \* faulty: fits into some bundle
SameBundle(pre, post) == pre = post \/ InOneBundle(pre, post)

Init ==
  /\ function \in Functions
  /\ I = 1
  /\ text = {}
  /\ size = 0
  /\ Preliminary = FALSE
  /\ effects = <<>>
  /\ label = [i \in DOMAIN function |-> -1]
  /\ BundleLockStart = 0
  /\ Retrying = FALSE
  /\ SizeSnapshotPre = 0
  /\ SizeSnapshotPost = 0
  /\ stats = 0

(***************************************************************************)
(* The start of a node: alignCfgNode() if jump tables refer to it,         *)
(* bindCfgNodeLabel(), and a new BundleEmitHelper.                         *)
(***************************************************************************)
StartNode ==
  /\ NotEnded
  /\ Entry.kind = "node"
  /\ LET at == size + (IF Entry.option = "Align" THEN ToNextBundle(size) ELSE 0) IN
       /\ size' = at
       /\ label' = [label EXCEPT ![I] = at]
  /\ I' = I + 1
  /\ BundleLockStart' = 0
  /\ Retrying' = FALSE
  /\ SizeSnapshotPre' = 0
  /\ SizeSnapshotPost' = 0
  /\ UNCHANGED <<function, text, Preliminary, effects, stats>>

EnterLockCommitting ==  \* faulty: the preliminary pass has effects
  /\ NotEnded
  /\ Entry.kind = "lock"
  /\ BundleLockStart' = I
  /\ SizeSnapshotPre' = size
  /\ I' = I + 1
  /\ UNCHANGED <<function, text, size, Preliminary, effects, label, Retrying, SizeSnapshotPost,
                 stats>>

EnterBundleLock ==
  /\ NotEnded
  /\ Entry.kind = "lock"
  /\ BundleLockStart' = I
  /\ SizeSnapshotPre' = size
  /\ Preliminary' = TRUE
  /\ I' = I + 1
  /\ UNCHANGED <<function, text, size, effects, label, Retrying, SizeSnapshotPost, stats>>

EmitInRegion ==
  /\ NotEnded
  /\ Emits(I)
  /\ InBundleLockRegion
  /\ text' = Emitted(I, size)
  /\ size' = size + SizeAt(I, size)
  /\ effects' = IF Preliminary THEN effects ELSE Append(effects, <<I, size>>)
  /\ stats' = IF Retrying THEN stats + 1 ELSE stats
  /\ I' = I + 1
  /\ UNCHANGED <<function, Preliminary, label, BundleLockStart, Retrying, SizeSnapshotPre,
                 SizeSnapshotPost>>

(***************************************************************************)
(* The end of the preliminary pass: roll back, pad, and repeat.            *)
(***************************************************************************)
PadForAlignToEndOld(pre, post) ==  \* faulty: by the end it had before padToNextBundle()
  IF function[BundleLockStart].option = "AlignToEnd" THEN ToNextBundle(size) ELSE 0
PadForAlignToEnd(pre, post) ==
  IF function[BundleLockStart].option = "AlignToEnd" THEN ToNextBundle(post) ELSE 0
PadToNextBundle(pre, post) ==
  IF SameBundle(pre, post) THEN 0 ELSE BundleSize - (pre % BundleSize)

BundleUnlockFirstHere ==  \* faulty: the buffer is not rolled back
  /\ NotEnded
  /\ Entry.kind = "unlock"
  /\ ~Retrying
  /\ SizeSnapshotPre' = size
  /\ SizeSnapshotPost' = size
  /\ Preliminary' = FALSE
  /\ Retrying' = TRUE
  /\ I' = BundleLockStart + 1
  /\ UNCHANGED <<function, text, size, effects, label, BundleLockStart, stats>>

BundleUnlockFirst ==
  /\ NotEnded
  /\ Entry.kind = "unlock"
  /\ ~Retrying
  /\ LET pad == PadToNextBundle(SizeSnapshotPre, size)
         pre == SizeSnapshotPre + pad
         post == size + pad
     IN /\ SizeSnapshotPost' = post
        /\ SizeSnapshotPre' = pre + PadForAlignToEnd(pre, post)
        /\ size' = pre + PadForAlignToEnd(pre, post)
  /\ text' = {p \in text : p.at < SizeSnapshotPre}
  /\ Preliminary' = FALSE
  /\ Retrying' = TRUE
  /\ I' = BundleLockStart + 1
  /\ UNCHANGED <<function, effects, label, BundleLockStart, stats>>

(***************************************************************************)
(* The end of the final pass.                                              *)
(***************************************************************************)
PadForPadToEnd ==
  IF function[BundleLockStart].option = "PadToEnd" THEN ToNextBundle(size) ELSE 0

BundleUnlockFinal ==
  /\ NotEnded
  /\ Entry.kind = "unlock"
  /\ Retrying
  /\ SizeSnapshotPost' = size
  /\ size' = size + PadForPadToEnd
  /\ SizeSnapshotPre' = IF PadForPadToEnd = 0 THEN SizeSnapshotPre ELSE size + PadForPadToEnd
  /\ BundleLockStart' = 0
  /\ Retrying' = FALSE
  /\ I' = I + 1
  /\ UNCHANGED <<function, text, Preliminary, effects, label, stats>>

(***************************************************************************)
(* An instruction by itself: both passes in one iteration of the loop.     *)
(***************************************************************************)
EmitAlone ==
  /\ NotEnded
  /\ Emits(I)
  /\ ~InBundleLockRegion
  /\ LET post == size + SizeAt(I, size)
         pad == PadToNextBundle(size, post)
         at == size + pad
     IN /\ SizeSnapshotPre' = at
        /\ SizeSnapshotPost' = post + pad
        /\ text' = Emitted(I, at)
        /\ size' = at + SizeAt(I, at)
        /\ effects' = Append(effects, <<I, at>>)
  /\ stats' = stats + 1
  /\ I' = I + 1
  /\ UNCHANGED <<function, Preliminary, label, BundleLockStart, Retrying>>

Terminated == ~NotEnded /\ UNCHANGED vars

Step ==
  \/ StartNode
  \/ EnterBundleLock
  \/ EmitInRegion
  \/ BundleUnlockFirst
  \/ BundleUnlockFinal
  \/ EmitAlone
Next == Step \/ Terminated

Spec == Init /\ [][Next]_vars

-----------------------------------------------------------------------------
(***************************************************************************)
(* Types.                                                                  *)
(***************************************************************************)
TypeOK ==
  /\ function \in Functions
  /\ I \in 1 .. Len(function) + 1
  /\ size \in Nat
  /\ \A p \in text : p.of \in DOMAIN function /\ p.at \in Nat /\ p.size \in 1 .. BundleSize
  /\ Preliminary \in BOOLEAN
  /\ label \in [DOMAIN function -> Nat \cup {-1}]
  /\ BundleLockStart \in DOMAIN function \cup {0}
  /\ Retrying \in BOOLEAN
  /\ SizeSnapshotPre \in Nat
  /\ SizeSnapshotPost \in Nat
  /\ stats \in Nat
  /\ InBundleLockRegion <=> Preliminary \/ Retrying

(***************************************************************************)
(* What is final: everything but the preliminary pass over a region.       *)
(***************************************************************************)
Final(i) == ~(Preliminary /\ function[i].lock = BundleLockStart)
FinalText == {p \in text : Final(p.of)}
SameRegion(i, j) == i = j \/ (function[i].lock # 0 /\ function[i].lock = function[j].lock)

(***************************************************************************)
(* No instruction and no region crosses a bundle boundary, although the    *)
(* final pass takes place elsewhere than the one that was measured, and    *)
(* branches may be longer there.                                           *)
(***************************************************************************)
RegionsFit ==
  \A p, q \in FinalText :
    SameRegion(p.of, q.of) => p.at \div BundleSize = (q.at + q.size - 1) \div BundleSize

(***************************************************************************)
(* Code that is jumped or returned to begins a bundle: what follows a call *)
(* (AlignToEnd), with nothing between the call and the boundary, what      *)
(* follows the push and jump that replace a call (PadToEnd), and nodes     *)
(* that jump tables refer to.                                              *)
(***************************************************************************)
AfterUnlock == I > 1 /\ function[I - 1].kind = "unlock"
ReturnPointsAreAligned ==
  /\ AfterUnlock =>
       LET l == function[I - 1].lock IN
       /\ function[l].option # "None" => Aligned(size)
       /\ function[l].option = "AlignToEnd" /\ function[l].size > 0 =>
            \E p \in text : function[p.of].lock = l /\ p.at + p.size = size
  /\ \A i \in DOMAIN function :
       function[i].kind = "node" /\ function[i].option = "Align" /\ label[i] >= 0 =>
         Aligned(label[i])

(***************************************************************************)
(* The code is that of the function: each instruction is there once, in    *)
(* order and whole, and the preliminary passes leave nothing behind.       *)
(***************************************************************************)
EmittedOnce ==
  /\ \A p, q \in FinalText :
       /\ p.of = q.of => p = q
       /\ p.of < q.of => p.at + p.size <= q.at
  /\ \A i \in 1 .. I - 1 :
       Emits(i) /\ Final(i) /\ (function[i].size > 0 \/ function[i].kind = "branch") =>
         \E p \in text : p.of = i
  /\ \A p \in text : p.at + p.size <= size

(***************************************************************************)
(* Fixups, links and label bindings are made once for each instruction,    *)
(* and for the place where it ends up.                                     *)
(***************************************************************************)
EffectsMatchText ==
  /\ {effects[k][1] : k \in DOMAIN effects} = {i \in 1 .. I - 1 : Emits(i) /\ Final(i)}
  /\ \A k \in DOMAIN effects :
       /\ k > 1 => effects[k - 1][1] < effects[k][1]
       /\ \A p \in FinalText :
            /\ p.of = effects[k][1] => p.at = effects[k][2]
            /\ p.of < effects[k][1] => p.at + p.size <= effects[k][2]
            /\ p.of > effects[k][1] => effects[k][2] <= p.at
  /\ ~NotEnded => stats = Len(effects)
=============================================================================
