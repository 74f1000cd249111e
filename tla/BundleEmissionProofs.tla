------------------------ MODULE BundleEmissionProofs ------------------------
(***************************************************************************)
(* Proofs about the emission in bundles: for any functions, any size of    *)
(* bundles that two branches fit into, and any reach of short branches.    *)
(*                                                                         *)
(* What was measured in the preliminary pass over a region is true of the  *)
(* final pass because both passes are at a known distance from where the   *)
(* region begins (Position, Layout), and the padding makes the region fit  *)
(* there (RegionFits, RegionEndsAligned).                                  *)
(***************************************************************************)
EXTENDS BundleEmission, SequenceTheorems, TLAPS

TypeInv == TypeOK /\ ~(Preliminary /\ Retrying)

(***************************************************************************)
(* Inside a region: the entries since its bundle_lock belong to it, and    *)
(* the buffer ends as far behind its beginning as the entry says.          *)
(***************************************************************************)
Position ==
  /\ InBundleLockRegion =>
       /\ NotEnded
       /\ BundleLockStart < I
       /\ function[BundleLockStart].kind = "lock"
       /\ \A i \in BundleLockStart .. I : function[i].lock = BundleLockStart
       /\ size = SizeSnapshotPre + Entry.offset
  /\ ~InBundleLockRegion /\ NotEnded => Entry.lock \in {0, I}

(***************************************************************************)
(* Where the instructions in the buffer are: in front of the region being  *)
(* emitted, or in it at their offset.                                      *)
(***************************************************************************)
Layout ==
  \A p \in text :
    /\ p.of < I
    /\ Emits(p.of)
    /\ p.at + p.size <= size
    /\ InBundleLockRegion /\ p.of <= BundleLockStart => p.at + p.size <= SizeSnapshotPre
    /\ InBundleLockRegion /\ p.of > BundleLockStart =>
         /\ p.at = SizeSnapshotPre + function[p.of].offset
         /\ p.size = function[p.of].size

(***************************************************************************)
(* After padding, the region is to end up in one bundle, at the end of it  *)
(* if it is asked to, and the buffer ends with an instruction of it.       *)
(***************************************************************************)
RegionFits ==
  Retrying =>
    \/ function[BundleLockStart].size = 0
    \/ InOneBundle(SizeSnapshotPre, SizeSnapshotPre + function[BundleLockStart].size)

RegionEndsAligned ==
  Retrying =>
    /\ function[BundleLockStart].option = "AlignToEnd" =>
         Aligned(SizeSnapshotPre + function[BundleLockStart].size)
    /\ Entry.offset > 0 =>
         \E p \in text : function[p.of].lock = BundleLockStart /\ p.at + p.size = size

(***************************************************************************)
(* Effects are counted as they are made, and none is made for a place that *)
(* is rolled back.                                                         *)
(***************************************************************************)
EffectsSoFar ==
  /\ effects \in Seq(Nat \X Nat)
  /\ stats = Len(effects)
  /\ \A k \in DOMAIN effects :
       effects[k][2] <= size /\ (Preliminary => effects[k][2] <= SizeSnapshotPre)

IInv ==
  /\ TypeInv /\ Position /\ Layout
  /\ RegionFits /\ RegionsFit
  /\ RegionEndsAligned /\ ReturnPointsAreAligned
  /\ EmittedOnce
  /\ EffectsSoFar /\ EffectsMatchText

-----------------------------------------------------------------------------
(***************************************************************************)
(* Arithmetic of bundles.                                                  *)
(***************************************************************************)
LEMMA BundleIsNat == BundleSize \in Nat \ {0}
BY BundleAssumption

LEMMA Division ==
  ASSUME NEW a \in Nat
  PROVE  /\ a \div BundleSize \in Nat
         /\ (a % BundleSize) \in 0 .. BundleSize - 1
         /\ a = BundleSize * (a \div BundleSize) + (a % BundleSize)
BY BundleIsNat, SMT

LEMMA DivisionIs ==
  ASSUME NEW a \in Nat, NEW k \in Int, BundleSize * k <= a, a < BundleSize * k + BundleSize
  PROVE  a \div BundleSize = k
<1> DEFINE d == a \div BundleSize
<1>1. /\ d \in Int
      /\ BundleSize * d <= a
      /\ a < BundleSize * d + BundleSize
  BY Division, BundleIsNat
<1>2. BundleSize \in Nat \ {0}
  BY BundleIsNat
<1> HIDE DEF d
<1>3. CASE d - k >= 1
  <2>1. BundleSize * d >= BundleSize * k + BundleSize
    BY <1>1, <1>2, <1>3, SMT
  <2>2. QED
    BY <1>1, <1>2, <2>1
<1>4. CASE d - k <= -1
  <2>1. BundleSize * k >= BundleSize * d + BundleSize
    BY <1>1, <1>2, <1>4, SMT
  <2>2. QED
    BY <1>1, <1>2, <2>1
<1>5. CASE d = k
  BY <1>5 DEF d
<1>6. QED
  BY <1>1, <1>3, <1>4, <1>5

(***************************************************************************)
(* What lies within one bundle has parts within the same bundle.           *)
(***************************************************************************)
LEMMA PartOfBundle ==
  ASSUME NEW a \in Nat, NEW e \in Nat, InOneBundle(a, e),
         NEW x \in Nat, a <= x, x < e
  PROVE  x \div BundleSize = a \div BundleSize
<1> DEFINE k == a \div BundleSize
<1>1. /\ k \in Int
      /\ BundleSize * k <= a
  BY Division, BundleIsNat
<1>2. e - 1 < BundleSize * k + BundleSize
  <2>1. e - 1 \in Nat
    OBVIOUS
  <2>2. (e - 1) \div BundleSize = k
    BY DEF InOneBundle
  <2>3. QED
    BY <2>1, <2>2, Division, BundleIsNat
<1>3. BundleSize * k \in Int
  BY <1>1, BundleIsNat
<1> HIDE DEF k
<1>4. x \div BundleSize = k
  BY <1>1, <1>2, <1>3, DivisionIs, BundleIsNat
<1>5. QED
  BY <1>4 DEF k

(***************************************************************************)
(* What is not longer than a bundle fits at the beginning of one, and at   *)
(* the end of one.                                                         *)
(***************************************************************************)
LEMMA FitsAtBegin ==
  ASSUME NEW a \in Nat, NEW s \in 1 .. BundleSize, Aligned(a)
  PROVE  InOneBundle(a, a + s)
<1> DEFINE k == a \div BundleSize
<1>1. /\ k \in Int
      /\ a = BundleSize * k
  BY Division, BundleIsNat DEF Aligned
<1>2. a + s - 1 \in Nat
  BY BundleIsNat
<1> HIDE DEF k
<1>3. (a + s - 1) \div BundleSize = k
  BY <1>1, <1>2, DivisionIs, BundleIsNat
<1>4. QED
  BY <1>3 DEF InOneBundle, k

LEMMA FitsAtEnd ==
  ASSUME NEW a \in Nat, NEW s \in 1 .. BundleSize, Aligned(a + s)
  PROVE  InOneBundle(a, a + s)
<1> DEFINE k == (a + s) \div BundleSize
<1>1. /\ k \in Int
      /\ a + s = BundleSize * k
      /\ a + s - 1 \in Nat
      /\ a + s \in Nat
  BY Division, BundleIsNat DEF Aligned
<1> HIDE DEF k
<1>2. BundleSize * (k - 1) = BundleSize * k - BundleSize
  BY <1>1, BundleIsNat, SMT
<1>3. a \div BundleSize = k - 1
  BY <1>1, <1>2, DivisionIs, BundleIsNat
<1>4. (a + s - 1) \div BundleSize = k - 1
  BY <1>1, <1>2, DivisionIs, BundleIsNat
<1>5. QED
  BY <1>3, <1>4 DEF InOneBundle

LEMMA PaddingAligns ==
  ASSUME NEW a \in Nat
  PROVE  /\ ToNextBundle(a) \in 0 .. BundleSize - 1
         /\ Aligned(a + ToNextBundle(a))
         /\ Aligned(a + (BundleSize - (a % BundleSize)))
<1> DEFINE k == a \div BundleSize
           r == a % BundleSize
<1>1. /\ k \in Nat
      /\ r \in 0 .. BundleSize - 1
      /\ a = BundleSize * k + r
      /\ BundleSize \in Nat \ {0}
  BY Division, BundleIsNat
<1>2. ToNextBundle(a) = IF r = 0 THEN 0 ELSE BundleSize - r
  BY DEF ToNextBundle, Aligned
<1> HIDE DEF k, r
<1>3. ASSUME NEW b \in Nat, b = BundleSize * (k + 1)
      PROVE  Aligned(b)
  <2>1. BundleSize * (k + 1) + BundleSize > b
    BY <1>1, <1>3
  <2>2. b \div BundleSize = k + 1
    BY <1>1, <1>3, <2>1, DivisionIs
  <2>3. QED
    BY <1>3, <2>2, Division DEF Aligned
<1>4. a + (BundleSize - r) = BundleSize * (k + 1)
  BY <1>1, SMT
<1>5. Aligned(a + (BundleSize - r))
  BY <1>1, <1>3, <1>4
<1>6. r = 0 => Aligned(a)
  BY DEF r, Aligned
<1>7. QED
  BY <1>1, <1>2, <1>5, <1>6 DEF r

-----------------------------------------------------------------------------
(***************************************************************************)
(* Facts about the function being emitted.                                 *)
(***************************************************************************)
LEMMA FunctionFacts ==
  ASSUME function \in Functions
  PROVE  /\ WellFormed(function)
         /\ Len(function) \in Nat
         /\ DOMAIN function = 1 .. Len(function)
<1>1. WellFormed(function)
  BY BundleAssumption
<1>2. function \in Seq({function[i] : i \in DOMAIN function})
  BY <1>1 DEF WellFormed
<1>3. QED
  BY <1>1, <1>2, LenProperties

LEMMA Sizes ==
  ASSUME function \in Functions, NEW i \in DOMAIN function, NEW at
  PROVE  /\ SizeAt(i, at) \in 0 .. BundleSize
         /\ function[i].kind = "branch" => SizeAt(i, at) > 0
         /\ function[i].kind # "branch" => SizeAt(i, at) = function[i].size
<1>1. function[i].size \in 0 .. BundleSize
  BY FunctionFacts DEF WellFormed
<1>2. /\ BundleSize \in Nat
      /\ kLongSizeJ + kLongSizeJmp <= BundleSize
  BY BundleAssumption
<1>3. \A t, x : JSize(t, x) \in {kShortSize, kLongSizeJ} /\ JmpSize(t, x) \in {kShortSize, kLongSizeJmp}
  BY DEF JSize, JmpSize
<1>4. BranchSize(function[i], at) \in 1 .. BundleSize
  BY <1>2, <1>3 DEF BranchSize, kShortSize, kLongSizeJ, kLongSizeJmp
<1>5. QED
  BY <1>1, <1>2, <1>4 DEF SizeAt

(***************************************************************************)
(* Regions are not nested, and end in themselves.                          *)
(***************************************************************************)
LEMMA WhereWeAre ==
  ASSUME TypeInv, Position, NotEnded
  PROVE  /\ I \in Nat
         /\ InBundleLockRegion => BundleLockStart \in DOMAIN function
         /\ Entry.kind \in {"node", "lock", "branch"} => ~InBundleLockRegion
         /\ Entry.kind = "unlock" => InBundleLockRegion
         /\ ~InBundleLockRegion => ~Preliminary /\ ~Retrying
         /\ InBundleLockRegion => Preliminary = ~Retrying
         /\ InBundleLockRegion => Entry.lock = BundleLockStart
<1>1. /\ WellFormed(function)
      /\ Len(function) \in Nat
      /\ DOMAIN function = 1 .. Len(function)
  BY FunctionFacts DEF TypeInv, TypeOK
<1>2. I \in DOMAIN function /\ I \in Nat
  BY <1>1 DEF NotEnded
<1>3. /\ Entry.kind \in {"node", "lock", "unlock", "inst", "branch"}
      /\ Entry.lock \in 0 .. I
      /\ Entry.kind = "lock" <=> Entry.lock = I
      /\ Entry.kind = "unlock" => Entry.lock # 0
      /\ Entry.kind \in {"node", "branch"} => Entry.lock = 0
  BY <1>1, <1>2 DEF WellFormed, Entry
<1>4. InBundleLockRegion => BundleLockStart \in DOMAIN function /\ BundleLockStart \in Nat \ {0}
  BY <1>1 DEF TypeInv, TypeOK, InBundleLockRegion
<1>5. InBundleLockRegion => Entry.lock = BundleLockStart /\ BundleLockStart < I
  BY <1>2, <1>4 DEF Position, Entry
<1>6. QED
  BY <1>2, <1>3, <1>4, <1>5 DEF Position, TypeInv, TypeOK, InBundleLockRegion

-----------------------------------------------------------------------------
(***************************************************************************)
(* Types.                                                                  *)
(***************************************************************************)
LEMMA PadsAreNat ==
  ASSUME NEW pre \in Nat, NEW post \in Nat
  PROVE  /\ PadToNextBundle(pre, post) \in 0 .. BundleSize
         /\ PadForAlignToEnd(pre, post) \in 0 .. BundleSize
<1>1. /\ ToNextBundle(post) \in 0 .. BundleSize - 1
      /\ (pre % BundleSize) \in 0 .. BundleSize - 1
  BY PaddingAligns, Division
<1>2. QED
  BY <1>1, BundleIsNat DEF PadToNextBundle, PadForAlignToEnd

LEMMA TypesStep ==
  ASSUME TypeInv, Position, Step
  PROVE  TypeInv'
<1>1. /\ Len(function) \in Nat
      /\ DOMAIN function = 1 .. Len(function)
      /\ function \in Functions
      /\ size \in Nat
      /\ SizeSnapshotPre \in Nat
      /\ NotEnded
  BY FunctionFacts DEF TypeInv, TypeOK, Step, StartNode, EnterBundleLock, EmitInRegion,
     BundleUnlockFirst, BundleUnlockFinal, EmitAlone
<1>2. /\ I \in 1 .. Len(function)
      /\ I + 1 \in 1 .. Len(function) + 1
  BY <1>1 DEF NotEnded
<1>3. \A x \in Nat : SizeAt(I, x) \in 0 .. BundleSize /\ x + SizeAt(I, x) \in Nat
  BY <1>1, <1>2, Sizes, BundleIsNat
<1>4. \A x \in Nat : \A p \in Emitted(I, x) :
        p.of \in DOMAIN function /\ p.at \in Nat /\ p.size \in 1 .. BundleSize
  <2>1. SUFFICES ASSUME NEW x \in Nat, NEW p \in Emitted(I, x)
                 PROVE  p.of \in DOMAIN function /\ p.at \in Nat /\ p.size \in 1 .. BundleSize
    OBVIOUS
  <2>2. CASE p \in text
    BY <2>2 DEF TypeInv, TypeOK
  <2>3. CASE p = Piece(I, x) /\ SizeAt(I, x) # 0
    BY <1>1, <1>2, <1>3, <2>3 DEF Piece
  <2>4. QED
    BY <2>1, <2>2, <2>3 DEF Emitted
<1>5. CASE StartNode
  <2>1. ToNextBundle(size) \in 0 .. BundleSize - 1
    BY <1>1, PaddingAligns
  <2>2. size' \in Nat
    BY <1>1, <2>1, <1>5, BundleIsNat DEF StartNode
  <2>3. label' = [label EXCEPT ![I] = size']
    BY <1>5 DEF StartNode
  <2>4. label' \in [DOMAIN function -> Nat \cup {-1}]
    BY <1>1, <2>2, <2>3 DEF TypeInv, TypeOK
  <2>5. ~InBundleLockRegion /\ ~Preliminary
    BY <1>1, <1>5, WhereWeAre DEF StartNode
  <2>6. QED
    BY <1>2, <1>5, <2>2, <2>4, <2>5 DEF StartNode, TypeInv, TypeOK, InBundleLockRegion
<1>6. CASE EnterBundleLock
  <2>1. ~InBundleLockRegion /\ ~Preliminary /\ ~Retrying
    BY <1>1, <1>6, WhereWeAre DEF EnterBundleLock
  <2>2. QED
    BY <1>1, <1>2, <1>6, <2>1 DEF EnterBundleLock, TypeInv, TypeOK, InBundleLockRegion
<1>7. CASE EmitInRegion
  <2>1. /\ size' \in Nat
        /\ stats' \in Nat
        /\ \A p \in text' : p.of \in DOMAIN function /\ p.at \in Nat /\ p.size \in 1 .. BundleSize
    BY <1>1, <1>3, <1>4, <1>7 DEF EmitInRegion, TypeInv, TypeOK
  <2>2. QED
    BY <1>2, <1>7, <2>1 DEF EmitInRegion, TypeInv, TypeOK, InBundleLockRegion
<1>8. CASE BundleUnlockFirst
  <2>1. InBundleLockRegion /\ BundleLockStart \in DOMAIN function
    BY <1>1, <1>8, WhereWeAre DEF BundleUnlockFirst
  <2>2. BundleLockStart + 1 \in 1 .. Len(function) + 1
    BY <1>1, <2>1
  <2>3. /\ SizeSnapshotPre' \in Nat
        /\ SizeSnapshotPost' \in Nat
        /\ size' \in Nat
    <3> DEFINE pad == PadToNextBundle(SizeSnapshotPre, size)
    <3>1. pad \in 0 .. BundleSize
      BY <1>1, PadsAreNat
    <3>2. SizeSnapshotPre + pad \in Nat /\ size + pad \in Nat
      BY <1>1, <3>1, BundleIsNat
    <3>3. PadForAlignToEnd(SizeSnapshotPre + pad, size + pad) \in 0 .. BundleSize
      BY <3>2, PadsAreNat
    <3>4. QED
      BY <1>8, <3>2, <3>3, BundleIsNat DEF BundleUnlockFirst
  <2>4. QED
    BY <1>8, <2>1, <2>2, <2>3 DEF BundleUnlockFirst, TypeInv, TypeOK, InBundleLockRegion
<1>9. CASE BundleUnlockFinal
  <2>1. PadForPadToEnd \in 0 .. BundleSize - 1
    <3>1. ToNextBundle(size) \in 0 .. BundleSize - 1
      BY <1>1, PaddingAligns
    <3>2. QED
      BY <3>1, BundleIsNat DEF PadForPadToEnd
  <2>2. SizeSnapshotPre' \in Nat /\ SizeSnapshotPost' \in Nat /\ size' \in Nat
    BY <1>1, <1>9, <2>1, BundleIsNat DEF BundleUnlockFinal
  <2>3. QED
    BY <1>2, <1>9, <2>2 DEF BundleUnlockFinal, TypeInv, TypeOK, InBundleLockRegion
<1>10. CASE EmitAlone
  <2> DEFINE post == size + SizeAt(I, size)
             pad == PadToNextBundle(size, post)
             at == size + pad
  <2>1. post \in Nat
    BY <1>1, <1>3
  <2>2. pad \in Nat
    BY <1>1, <2>1, PadsAreNat, BundleIsNat
  <2>3. at \in Nat /\ post + pad \in Nat
    BY <1>1, <2>1, <2>2
  <2>4. /\ SizeSnapshotPre' = at
        /\ SizeSnapshotPost' = post + pad
        /\ size' = at + SizeAt(I, at)
        /\ text' = Emitted(I, at)
    BY <1>10 DEF EmitAlone
  <2> HIDE DEF post, pad, at
  <2>5. /\ at + SizeAt(I, at) \in Nat
        /\ \A p \in text' : p.of \in DOMAIN function /\ p.at \in Nat /\ p.size \in 1 .. BundleSize
    BY <1>3, <1>4, <2>3, <2>4
  <2>6. QED
    BY <1>2, <1>10, <2>3, <2>4, <2>5 DEF EmitAlone, TypeInv, TypeOK, InBundleLockRegion
<1>11. QED
  BY <1>5, <1>6, <1>7, <1>8, <1>9, <1>10 DEF Step

-----------------------------------------------------------------------------
(***************************************************************************)
(* Position.                                                               *)
(***************************************************************************)
LEMMA StepFacts ==
  ASSUME TypeInv, Step
  PROVE  /\ NotEnded
         /\ I \in DOMAIN function
         /\ I \in Nat \ {0}
         /\ function \in Functions
         /\ function' = function
         /\ size \in Nat
         /\ SizeSnapshotPre \in Nat
         /\ Len(function) \in Nat
         /\ DOMAIN function = 1 .. Len(function)
<1>1. /\ Len(function) \in Nat
      /\ DOMAIN function = 1 .. Len(function)
  BY FunctionFacts DEF TypeInv, TypeOK
<1>2. NotEnded /\ function' = function
  BY DEF Step, StartNode, EnterBundleLock, EmitInRegion, BundleUnlockFirst, BundleUnlockFinal,
     EmitAlone
<1>3. I \in 1 .. Len(function)
  BY <1>1, <1>2 DEF NotEnded
<1>4. QED
  BY <1>1, <1>2, <1>3 DEF TypeInv, TypeOK

LEMMA EntryFacts ==
  ASSUME function \in Functions, NEW i \in DOMAIN function
  PROVE  /\ i \in Nat \ {0}
         /\ function[i].kind \in {"node", "lock", "unlock", "inst", "branch"}
         /\ function[i].lock \in 0 .. i
         /\ function[i].size \in 0 .. BundleSize
         /\ function[i].offset \in Nat
         /\ function[i].kind = "lock" <=> function[i].lock = i
         /\ function[i].kind = "unlock" => function[i].lock # 0
         /\ function[i].kind \in {"node", "branch"} => function[i].lock = 0
         /\ function[i].kind = "lock" =>
              function[i].offset = 0 /\ function[i].option \in {"None", "AlignToEnd", "PadToEnd"}
         /\ function[i].kind = "unlock" => function[i].offset = function[function[i].lock].size
         /\ function[i].kind = "inst" /\ function[i].lock # 0 =>
              function[i].offset + function[i].size <= function[function[i].lock].size
<1>1. i \in Nat \ {0}
  BY FunctionFacts
<1>2. /\ function[i].kind \in {"node", "lock", "unlock", "inst", "branch"}
      /\ function[i].lock \in 0 .. i
      /\ function[i].size \in 0 .. BundleSize
      /\ function[i].offset \in Nat
      /\ function[i].kind = "lock" <=> function[i].lock = i
      /\ function[i].kind = "unlock" => function[i].lock # 0
  BY FunctionFacts DEF WellFormed
<1>3. /\ function[i].kind \in {"node", "branch"} => function[i].lock = 0
      /\ function[i].kind = "lock" =>
           function[i].offset = 0 /\ function[i].option \in {"None", "AlignToEnd", "PadToEnd"}
      /\ function[i].kind = "unlock" => function[i].offset = function[function[i].lock].size
      /\ function[i].kind = "inst" /\ function[i].lock # 0 =>
           function[i].offset + function[i].size <= function[function[i].lock].size
  BY FunctionFacts DEF WellFormed
<1>4. QED
  BY <1>1, <1>2, <1>3

LEMMA NextEntryFacts ==
  ASSUME function \in Functions, NEW i \in DOMAIN function
  PROVE  /\ function[i].kind # "unlock" /\ function[i].lock # 0 =>
              /\ i + 1 \in DOMAIN function
              /\ function[i + 1].lock = function[i].lock
              /\ function[i].kind = "inst" =>
                   function[i + 1].offset = function[i].offset + function[i].size
              /\ function[i].kind # "inst" => function[i + 1].offset = function[i].offset
         /\ function[i].kind = "unlock" \/ function[i].lock = 0 =>
              (i + 1 \in DOMAIN function => function[i + 1].lock \in {0, i + 1})
<1>1. /\ function[i].offset \in Nat
      /\ \/ function[i].kind = "unlock" \/ function[i].lock = 0
         \/ /\ i + 1 \in DOMAIN function
            /\ function[i + 1].lock = function[i].lock
            /\ function[i + 1].offset =
                 function[i].offset + (IF function[i].kind = "inst" THEN function[i].size ELSE 0)
      /\ (function[i].kind = "unlock" \/ function[i].lock = 0) /\ i + 1 \in DOMAIN function =>
           function[i + 1].lock \in {0, i + 1}
  BY FunctionFacts DEF WellFormed
<1>2. QED
  BY <1>1

LEMMA PositionStep ==
  ASSUME TypeInv, Position, Step
  PROVE  Position'
<1>1. /\ NotEnded
      /\ I \in DOMAIN function
      /\ I \in Nat \ {0}
      /\ function \in Functions
      /\ function' = function
      /\ size \in Nat
      /\ SizeSnapshotPre \in Nat
  BY StepFacts
<1>2. /\ InBundleLockRegion => BundleLockStart \in DOMAIN function
      /\ Entry.kind \in {"node", "lock", "branch"} => ~InBundleLockRegion
      /\ Entry.kind = "unlock" => InBundleLockRegion
      /\ InBundleLockRegion => Entry.lock = BundleLockStart
  BY <1>1, WhereWeAre
<1>3. Entry = function[I] /\ Entry' = function[I']
  BY <1>1 DEF Entry
<1>4. ASSUME BundleLockStart' = 0, I' = I + 1, Entry.kind = "unlock" \/ Entry.lock = 0
      PROVE  Position'
  <2>1. I + 1 \in DOMAIN function => function[I + 1].lock \in {0, I + 1}
    BY <1>1, <1>3, <1>4, NextEntryFacts
  <2>2. QED
    BY <1>1, <1>3, <1>4, <2>1 DEF Position, InBundleLockRegion, NotEnded
<1>5. CASE StartNode
  BY <1>1, <1>3, <1>4, <1>5, EntryFacts DEF StartNode
<1>6. CASE EnterBundleLock
  <2>1. Entry.kind = "lock" /\ Entry.lock = I /\ Entry.offset = 0
    BY <1>1, <1>3, <1>6, EntryFacts DEF EnterBundleLock
  <2>2. /\ I + 1 \in DOMAIN function
        /\ function[I + 1].lock = I
        /\ function[I + 1].offset = 0
    BY <1>1, <1>3, <2>1, NextEntryFacts
  <2>3. \A i \in I .. I + 1 : function[i].lock = I
    BY <1>1, <1>3, <2>1, <2>2
  <2>4. QED
    BY <1>1, <1>3, <1>6, <2>1, <2>2, <2>3 DEF EnterBundleLock, Position, InBundleLockRegion, NotEnded
<1>7. CASE EmitInRegion
  <2>1. /\ InBundleLockRegion
        /\ BundleLockStart \in Nat \ {0}
        /\ BundleLockStart < I
        /\ Entry.lock = BundleLockStart
        /\ Entry.kind = "inst"
    <3>1. InBundleLockRegion /\ Entry.kind \in {"inst", "branch"}
      BY <1>3, <1>7 DEF EmitInRegion, Emits
    <3>2. QED
      BY <1>1, <1>2, <3>1, EntryFacts DEF Position
  <2>2. SizeAt(I, size) = Entry.size
    BY <1>1, <1>3, <2>1, Sizes
  <2>3. /\ I + 1 \in DOMAIN function
        /\ function[I + 1].lock = BundleLockStart
        /\ function[I + 1].offset = Entry.offset + Entry.size
    BY <1>1, <1>3, <2>1, NextEntryFacts
  <2>4. \A i \in BundleLockStart .. I + 1 : function[i].lock = BundleLockStart
    BY <1>1, <2>1, <2>3 DEF Position
  <2>5. size + Entry.size = SizeSnapshotPre + (Entry.offset + Entry.size)
    BY <1>1, <1>3, <2>1, EntryFacts, BundleIsNat DEF Position
  <2>6. /\ I' = I + 1
        /\ size' = size + Entry.size
        /\ BundleLockStart' = BundleLockStart
        /\ SizeSnapshotPre' = SizeSnapshotPre
    BY <1>7, <2>2 DEF EmitInRegion
  <2>7. BundleLockStart < I + 1
    BY <1>1, <2>1
  <2>8. QED
    BY <1>1, <1>3, <2>1, <2>3, <2>4, <2>5, <2>6, <2>7 DEF Position, InBundleLockRegion, NotEnded
<1>8. CASE BundleUnlockFirst
  <2>1. /\ InBundleLockRegion
        /\ BundleLockStart \in DOMAIN function
        /\ BundleLockStart \in Nat \ {0}
        /\ BundleLockStart < I
        /\ function[BundleLockStart].kind = "lock"
    BY <1>1, <1>2, <1>8, EntryFacts DEF BundleUnlockFirst, Position
  <2>2. function[BundleLockStart].lock = BundleLockStart /\ function[BundleLockStart].offset = 0
    BY <1>1, <2>1, EntryFacts
  <2>3. /\ BundleLockStart + 1 \in DOMAIN function
        /\ function[BundleLockStart + 1].lock = BundleLockStart
        /\ function[BundleLockStart + 1].offset = 0
    BY <1>1, <2>1, <2>2, NextEntryFacts
  <2>4. /\ I' = BundleLockStart + 1
        /\ BundleLockStart' = BundleLockStart
        /\ size' = SizeSnapshotPre'
    BY <1>8 DEF BundleUnlockFirst
  <2>5. SizeSnapshotPre' \in Nat
    BY TypesStep DEF TypeInv, TypeOK
  <2>6. \A i \in BundleLockStart .. BundleLockStart + 1 : function[i].lock = BundleLockStart
    BY <2>1, <2>2, <2>3
  <2>7. QED
    BY <1>1, <1>3, <2>1, <2>3, <2>4, <2>5, <2>6 DEF Position, InBundleLockRegion, NotEnded
<1>9. CASE BundleUnlockFinal
  BY <1>3, <1>4, <1>9 DEF BundleUnlockFinal
<1>10. CASE EmitAlone
  <2>1. ~InBundleLockRegion /\ Entry.kind \in {"inst", "branch"}
    BY <1>3, <1>10 DEF EmitAlone, Emits
  <2>2. Entry.lock = 0
    BY <1>1, <1>3, <2>1, EntryFacts DEF Position
  <2>3. QED
    BY <1>4, <1>10, <2>1, <2>2 DEF EmitAlone, InBundleLockRegion
<1>11. QED
  BY <1>5, <1>6, <1>7, <1>8, <1>9, <1>10 DEF Step

-----------------------------------------------------------------------------
(***************************************************************************)
(* Layout.                                                                 *)
(***************************************************************************)
LEMMA TextFacts ==
  ASSUME TypeInv, NEW p \in text
  PROVE  /\ p.of \in DOMAIN function
         /\ p.of \in Nat \ {0}
         /\ p.at \in Nat
         /\ p.size \in 1 .. BundleSize
         /\ p.size \in Nat \ {0}
<1>1. /\ DOMAIN function = 1 .. Len(function)
      /\ Len(function) \in Nat
  BY FunctionFacts DEF TypeInv, TypeOK
<1>2. QED
  BY <1>1, BundleIsNat DEF TypeInv, TypeOK

LEMMA InRegionFacts ==
  ASSUME TypeInv, Position, EmitInRegion
  PROVE  /\ InBundleLockRegion
         /\ BundleLockStart \in DOMAIN function
         /\ BundleLockStart \in Nat \ {0}
         /\ BundleLockStart < I
         /\ function[I].kind = "inst"
         /\ function[I].lock = BundleLockStart
         /\ size = SizeSnapshotPre + function[I].offset
         /\ SizeAt(I, size) = function[I].size
         /\ size' = size + function[I].size
<1>1. NotEnded /\ I \in DOMAIN function /\ function \in Functions
  BY StepFacts DEF Step
<1>2. InBundleLockRegion /\ function[I].kind \in {"inst", "branch"}
  BY DEF EmitInRegion, Emits
<1>3. /\ BundleLockStart \in DOMAIN function
      /\ BundleLockStart < I
      /\ function[I].lock = BundleLockStart
      /\ function[I].kind = "inst"
  BY <1>1, <1>2, WhereWeAre, EntryFacts DEF Position, Entry
<1>4. BundleLockStart \in Nat \ {0}
  BY <1>1, <1>3, EntryFacts
<1>5. SizeAt(I, size) = function[I].size
  BY <1>1, <1>3, Sizes
<1>6. QED
  BY <1>1, <1>2, <1>3, <1>4, <1>5 DEF EmitInRegion, Position, Entry

LEMMA UnlockFacts ==
  ASSUME TypeInv, Position, Layout, BundleUnlockFirst
  PROVE  /\ InBundleLockRegion
         /\ Preliminary
         /\ BundleLockStart \in DOMAIN function
         /\ BundleLockStart \in Nat \ {0}
         /\ BundleLockStart < I
         /\ size = SizeSnapshotPre + function[BundleLockStart].size
         /\ SizeSnapshotPre' >= SizeSnapshotPre
         /\ SizeSnapshotPre' = size'
         /\ I' = BundleLockStart + 1
         /\ text' = {p \in text : p.of <= BundleLockStart}
<1>1. /\ NotEnded
      /\ I \in DOMAIN function
      /\ function \in Functions
      /\ SizeSnapshotPre \in Nat
      /\ size \in Nat
  BY StepFacts DEF Step
<1>2. function[I].kind = "unlock" /\ ~Retrying
  BY DEF BundleUnlockFirst, Entry
<1>3. /\ InBundleLockRegion
      /\ Preliminary
      /\ BundleLockStart \in DOMAIN function
      /\ BundleLockStart < I
      /\ function[I].lock = BundleLockStart
      /\ size = SizeSnapshotPre + function[I].offset
  BY <1>1, <1>2, WhereWeAre DEF Position, Entry
<1>4. function[I].offset = function[BundleLockStart].size /\ BundleLockStart \in Nat \ {0}
  BY <1>1, <1>2, <1>3, EntryFacts
<1>5. SizeSnapshotPre' >= SizeSnapshotPre
  <2> DEFINE pad == PadToNextBundle(SizeSnapshotPre, size)
             align == PadForAlignToEnd(SizeSnapshotPre + pad, size + pad)
  <2>1. pad \in Nat
    BY <1>1, PadsAreNat, BundleIsNat
  <2>2. SizeSnapshotPre + pad \in Nat /\ size + pad \in Nat
    BY <1>1, <2>1
  <2>3. align \in 0 .. BundleSize
    BY <2>2, PadsAreNat
  <2>4. SizeSnapshotPre' = SizeSnapshotPre + pad + align
    BY DEF BundleUnlockFirst
  <2> HIDE DEF pad, align
  <2>5. QED
    BY <1>1, <2>1, <2>3, <2>4, BundleIsNat
<1>6. text' = {p \in text : p.of <= BundleLockStart}
  <2>1. SUFFICES ASSUME NEW p \in text
                 PROVE  p.at < SizeSnapshotPre <=> p.of <= BundleLockStart
    BY DEF BundleUnlockFirst
  <2>2. /\ p.of \in Nat /\ p.at \in Nat /\ p.size \in Nat \ {0}
        /\ function[p.of].offset \in Nat
    BY <1>1, TextFacts, EntryFacts
  <2>3. CASE p.of <= BundleLockStart
    <3>1. p.at + p.size <= SizeSnapshotPre
      BY <1>3, <2>3 DEF Layout
    <3>2. QED
      BY <1>1, <2>2, <2>3, <3>1
  <2>4. CASE p.of > BundleLockStart
    <3>1. p.at = SizeSnapshotPre + function[p.of].offset
      BY <1>3, <2>4 DEF Layout
    <3>2. QED
      BY <1>1, <1>4, <2>2, <2>4, <3>1
  <2>5. QED
    BY <1>4, <2>2, <2>3, <2>4
<1>7. QED
  BY <1>1, <1>3, <1>4, <1>5, <1>6 DEF BundleUnlockFirst

LEMMA AloneFacts ==
  ASSUME TypeInv, Position, EmitAlone
  PROVE  /\ ~InBundleLockRegion
         /\ ~Preliminary /\ ~Retrying
         /\ function[I].kind \in {"inst", "branch"}
         /\ function[I].lock = 0
         /\ \E at \in Nat :
              /\ at >= size
              /\ text' = Emitted(I, at)
              /\ size' = at + SizeAt(I, at)
              /\ effects' = Append(effects, <<I, at>>)
              /\ SizeAt(I, at) \in Nat
              /\ SizeAt(I, at) # 0 => InOneBundle(at, at + SizeAt(I, at))
<1>1. NotEnded /\ I \in DOMAIN function /\ function \in Functions /\ size \in Nat
  BY StepFacts DEF Step
<1>2. ~InBundleLockRegion /\ function[I].kind \in {"inst", "branch"}
  BY DEF EmitAlone, Emits
<1>3. ~Preliminary /\ ~Retrying /\ function[I].lock = 0
  BY <1>1, <1>2, WhereWeAre, EntryFacts DEF Position, Entry
<1> DEFINE post == size + SizeAt(I, size)
           pad == PadToNextBundle(size, post)
           at == size + pad
<1>4. post \in Nat /\ SizeAt(I, size) \in 0 .. BundleSize /\ SizeAt(I, at) \in 0 .. BundleSize
  BY <1>1, Sizes, BundleIsNat
<1>5. pad \in 0 .. BundleSize
  BY <1>1, <1>4, PadsAreNat
<1>6. at \in Nat /\ at >= size
  BY <1>1, <1>5, BundleIsNat
<1>7. SizeAt(I, at) # 0 => InOneBundle(at, at + SizeAt(I, at))
  <2>1. SUFFICES ASSUME SizeAt(I, at) # 0
                 PROVE  InOneBundle(at, at + SizeAt(I, at))
    OBVIOUS
  <2>2. CASE SameBundle(size, post)
    <3>1. pad = 0 /\ at = size
      BY <1>1, <2>2 DEF PadToNextBundle
    <3>2. post # size
      BY <1>1, <1>4, <2>1, <3>1
    <3>3. QED
      BY <2>2, <3>1, <3>2 DEF SameBundle
  <2>3. CASE ~SameBundle(size, post)
    <3>1. Aligned(at)
      BY <1>1, <2>3, PaddingAligns DEF PadToNextBundle
    <3>2. SizeAt(I, at) \in 1 .. BundleSize
      BY <1>4, <2>1, BundleIsNat
    <3>3. QED
      BY <1>6, <3>1, <3>2, FitsAtBegin
  <2>4. QED
    BY <2>2, <2>3
<1>8. /\ text' = Emitted(I, at)
      /\ size' = at + SizeAt(I, at)
      /\ effects' = Append(effects, <<I, at>>)
  BY DEF EmitAlone
<1>9. SizeAt(I, at) \in Nat
  BY <1>4, BundleIsNat
<1> HIDE DEF at
<1>10. QED
  BY <1>2, <1>3, <1>6, <1>7, <1>8, <1>9

LEMMA LayoutStep ==
  ASSUME TypeInv, Position, Layout, Step
  PROVE  Layout'
<1>1. /\ NotEnded
      /\ I \in DOMAIN function
      /\ I \in Nat \ {0}
      /\ function \in Functions
      /\ function' = function
      /\ size \in Nat
      /\ SizeSnapshotPre \in Nat
  BY StepFacts
<1>2. \A p \in text : /\ p.of \in Nat \ {0} /\ p.at \in Nat /\ p.size \in Nat \ {0}
                      /\ p.of \in DOMAIN function
                      /\ p.of < I /\ Emits(p.of) /\ p.at + p.size <= size
  BY TextFacts DEF Layout
<1>3. \A i : Emits(i)' <=> Emits(i)
  BY <1>1 DEF Emits
<1>4. ASSUME NEW at \in Nat, at >= size, size' = at + SizeAt(I, at), SizeAt(I, at) \in Nat,
             Emits(I), I' = I + 1, NEW p \in Emitted(I, at)
      PROVE  /\ p \in text \/ p = Piece(I, at)
             /\ p.of < I' /\ Emits(p.of)' /\ p.at + p.size <= size'
  BY <1>1, <1>2, <1>3, <1>4 DEF Emitted, Piece
<1>5. CASE StartNode
  <2>1. ToNextBundle(size) \in 0 .. BundleSize - 1
    BY <1>1, PaddingAligns
  <2>2. size' >= size /\ size' \in Nat
    BY <1>1, <1>5, <2>1, BundleIsNat DEF StartNode
  <2>3. text' = text /\ I' = I + 1 /\ ~InBundleLockRegion'
    BY <1>5 DEF StartNode, InBundleLockRegion
  <2>4. QED
    BY <1>1, <1>2, <1>3, <2>2, <2>3 DEF Layout
<1>6. CASE EnterBundleLock
  <2>1. /\ text' = text
        /\ I' = I + 1
        /\ BundleLockStart' = I
        /\ size' = size
        /\ SizeSnapshotPre' = size
    BY <1>6 DEF EnterBundleLock
  <2>2. QED
    BY <1>1, <1>2, <1>3, <2>1 DEF Layout
<1>7. CASE EmitInRegion
  <2>1. /\ InBundleLockRegion
        /\ BundleLockStart \in Nat \ {0}
        /\ BundleLockStart < I
        /\ size = SizeSnapshotPre + function[I].offset
        /\ SizeAt(I, size) = function[I].size
        /\ function[I].size \in Nat
    BY <1>1, <1>7, InRegionFacts, EntryFacts, BundleIsNat
  <2>2. /\ text' = Emitted(I, size)
        /\ size' = size + SizeAt(I, size)
        /\ I' = I + 1
        /\ Emits(I)
        /\ BundleLockStart' = BundleLockStart
        /\ SizeSnapshotPre' = SizeSnapshotPre
    BY <1>7 DEF EmitInRegion
  <2>3. \A p \in text' : /\ p \in text \/ p = Piece(I, size)
                         /\ p.of < I' /\ Emits(p.of)' /\ p.at + p.size <= size'
    BY <1>1, <1>4, <2>1, <2>2
  <2>4. SUFFICES ASSUME NEW p \in text'
                 PROVE  /\ p.of <= BundleLockStart => p.at + p.size <= SizeSnapshotPre
                        /\ p.of > BundleLockStart =>
                             /\ p.at = SizeSnapshotPre + function[p.of].offset
                             /\ p.size = function[p.of].size
    BY <1>1, <2>1, <2>2, <2>3 DEF Layout, InBundleLockRegion
  <2>5. CASE p \in text
    BY <2>1, <2>5 DEF Layout
  <2>6. CASE p = Piece(I, size)
    BY <1>1, <2>1, <2>6 DEF Piece
  <2>7. QED
    BY <2>3, <2>5, <2>6
<1>8. CASE BundleUnlockFirst
  <2>1. /\ text' = {p \in text : p.of <= BundleLockStart}
        /\ InBundleLockRegion
        /\ BundleLockStart \in Nat \ {0}
        /\ SizeSnapshotPre' >= SizeSnapshotPre
        /\ size' = SizeSnapshotPre'
        /\ I' = BundleLockStart + 1
    BY <1>8, UnlockFacts
  <2>2. BundleLockStart' = BundleLockStart /\ SizeSnapshotPre' \in Nat
    BY <1>8, TypesStep DEF BundleUnlockFirst, TypeInv, TypeOK
  <2>3. \A p \in text' : p \in text /\ p.of <= BundleLockStart /\ p.at + p.size <= SizeSnapshotPre
    BY <2>1 DEF Layout
  <2>4. \A p \in text' : p.at + p.size <= SizeSnapshotPre' /\ p.of < BundleLockStart + 1
    BY <1>1, <1>2, <2>1, <2>2, <2>3
  <2>5. QED
    BY <1>2, <1>3, <2>1, <2>2, <2>3, <2>4 DEF Layout
<1>9. CASE BundleUnlockFinal
  <2>1. PadForPadToEnd \in 0 .. BundleSize - 1
    <3>1. ToNextBundle(size) \in 0 .. BundleSize - 1
      BY <1>1, PaddingAligns
    <3>2. QED
      BY <3>1, BundleIsNat DEF PadForPadToEnd
  <2>2. size' >= size /\ size' \in Nat
    BY <1>1, <1>9, <2>1, BundleIsNat DEF BundleUnlockFinal
  <2>3. text' = text /\ I' = I + 1 /\ ~InBundleLockRegion'
    BY <1>9 DEF BundleUnlockFinal, InBundleLockRegion
  <2>4. QED
    BY <1>1, <1>2, <1>3, <2>2, <2>3 DEF Layout
<1>10. CASE EmitAlone
  <2>1. PICK at \in Nat : at >= size /\ text' = Emitted(I, at) /\ size' = at + SizeAt(I, at)
                          /\ SizeAt(I, at) \in Nat
    BY <1>10, AloneFacts
  <2>2. I' = I + 1 /\ Emits(I) /\ ~InBundleLockRegion'
    BY <1>10 DEF EmitAlone, InBundleLockRegion
  <2>3. QED
    BY <1>4, <2>1, <2>2 DEF Layout
<1>11. QED
  BY <1>5, <1>6, <1>7, <1>8, <1>9, <1>10 DEF Step

-----------------------------------------------------------------------------
(***************************************************************************)
(* Regions fit.                                                            *)
(***************************************************************************)
LEMMA PaddedRegionFits ==
  ASSUME TypeInv, Position, Layout, BundleUnlockFirst
  PROVE  /\ RegionFits'
         /\ function[BundleLockStart].option = "AlignToEnd" =>
              Aligned(SizeSnapshotPre' + function[BundleLockStart].size)
<1> DEFINE s == function[BundleLockStart].size
           pad == PadToNextBundle(SizeSnapshotPre, size)
           pre == SizeSnapshotPre + pad
           align == PadForAlignToEnd(pre, size + pad)
<1>1. /\ size = SizeSnapshotPre + s
      /\ SizeSnapshotPre \in Nat
      /\ s \in 0 .. BundleSize
      /\ function' = function
      /\ BundleLockStart' = BundleLockStart
  BY UnlockFacts, StepFacts, EntryFacts DEF Step, BundleUnlockFirst
<1>2. size \in Nat /\ s \in Nat
  BY <1>1, BundleIsNat
<1>3. SizeSnapshotPre' = pre + align
  BY DEF BundleUnlockFirst
<1>4. pad \in 0 .. BundleSize
  BY <1>1, <1>2, PadsAreNat
<1>5. pre \in Nat /\ size + pad = pre + s
  BY <1>1, <1>2, <1>4, BundleIsNat
<1>6. s # 0 => InOneBundle(pre, pre + s)
  <2>1. SUFFICES ASSUME s # 0
                 PROVE  InOneBundle(pre, pre + s)
    OBVIOUS
  <2>2. CASE SameBundle(SizeSnapshotPre, size)
    <3>1. pad = 0
      BY <2>2 DEF PadToNextBundle
    <3>2. pre = SizeSnapshotPre /\ pre + s = size /\ SizeSnapshotPre # size
      BY <1>1, <1>2, <2>1, <3>1
    <3>3. QED
      BY <2>2, <3>2 DEF SameBundle
  <2>3. CASE ~SameBundle(SizeSnapshotPre, size)
    <3>1. Aligned(pre)
      BY <1>1, <2>3, PaddingAligns DEF PadToNextBundle
    <3>2. s \in 1 .. BundleSize
      BY <1>1, <2>1, BundleIsNat
    <3>3. QED
      BY <1>5, <3>1, <3>2, FitsAtBegin
  <2>4. QED
    BY <2>2, <2>3
<1>7. align = IF function[BundleLockStart].option = "AlignToEnd" THEN ToNextBundle(pre + s) ELSE 0
  BY <1>5 DEF PadForAlignToEnd
<1> HIDE DEF pad, pre, align, s
<1>8. CASE function[BundleLockStart].option = "AlignToEnd"
  <2>1. /\ align \in 0 .. BundleSize - 1
        /\ Aligned((pre + s) + align)
    BY <1>2, <1>5, <1>7, <1>8, PaddingAligns
  <2>2. pre + align \in Nat /\ (pre + align) + s = (pre + s) + align
    BY <1>2, <1>5, <2>1, BundleIsNat
  <2>3. s # 0 => InOneBundle(pre + align, (pre + align) + s)
    <3>1. s # 0 => s \in 1 .. BundleSize
      BY <1>1, BundleIsNat
    <3>2. QED
      BY <2>1, <2>2, <3>1, FitsAtEnd
  <2>4. QED
    BY <1>1, <1>3, <2>1, <2>2, <2>3 DEF RegionFits, InOneBundle, s
<1>9. CASE function[BundleLockStart].option # "AlignToEnd"
  <2>1. SizeSnapshotPre' = pre
    BY <1>3, <1>5, <1>7, <1>9
  <2>2. QED
    BY <1>1, <1>6, <1>9, <2>1 DEF RegionFits, InOneBundle, s
<1>10. QED
  BY <1>8, <1>9

-----------------------------------------------------------------------------
(***************************************************************************)
(* A step either leaves all that is final as it was, or adds the next      *)
(* instruction at the end.                                                 *)
(***************************************************************************)
FinalEntries == {i \in 1 .. I - 1 : Emits(i) /\ Final(i)}

Adds == EmitAlone \/ (EmitInRegion /\ Retrying)

LEMMA OldEntriesAreFinal ==
  ASSUME function \in Functions, NEW i \in DOMAIN function, NEW l \in Nat, i < l
  PROVE  function[i].lock # l
BY EntryFacts

LEMMA NothingFinalHappens ==
  ASSUME TypeInv, Position, Layout, Step, ~Adds
  PROVE  FinalText' = FinalText /\ FinalEntries' = FinalEntries
<1>1. /\ NotEnded
      /\ I \in DOMAIN function
      /\ I \in Nat \ {0}
      /\ function \in Functions
      /\ function' = function
      /\ Len(function) \in Nat
      /\ DOMAIN function = 1 .. Len(function)
  BY StepFacts
<1>2. \A i : Emits(i)' <=> Emits(i)
  BY <1>1 DEF Emits
<1>3. \A p \in text : p.of \in Nat \ {0} /\ p.of \in DOMAIN function /\ p.of < I /\ Emits(p.of)
  BY TextFacts DEF Layout
<1>4. 1 .. I - 1 \subseteq DOMAIN function
  BY <1>1
<1>5. \A i \in 1 .. I - 1 : i \in Nat /\ i < I
  BY <1>1
<1>6. CASE StartNode \/ BundleUnlockFinal
  <2>1. ~Preliminary /\ ~Preliminary'
    BY <1>1, <1>6, WhereWeAre DEF StartNode, BundleUnlockFinal, TypeInv
  <2>2. /\ text' = text
        /\ I' = I + 1
        /\ ~Emits(I)
    BY <1>6 DEF StartNode, BundleUnlockFinal, Emits, Entry
  <2>3. \A i : Final(i) /\ Final(i)'
    BY <2>1 DEF Final
  <2>4. QED
    BY <1>1, <1>2, <2>2, <2>3 DEF FinalText, FinalEntries
<1>7. CASE EnterBundleLock
  <2>1. ~Preliminary
    BY <1>1, <1>7, WhereWeAre DEF EnterBundleLock
  <2>2. /\ text' = text
        /\ I' = I + 1
        /\ BundleLockStart' = I
        /\ ~Emits(I)
    BY <1>7 DEF EnterBundleLock, Emits, Entry
  <2>3. \A i : Final(i)
    BY <2>1 DEF Final
  <2>4. \A i \in DOMAIN function : i < I => Final(i)'
    BY <1>1, <2>2, OldEntriesAreFinal DEF Final
  <2>5. FinalText' = FinalText
    BY <1>3, <2>2, <2>3, <2>4 DEF FinalText
  <2>6. FinalEntries' = FinalEntries
    BY <1>1, <1>2, <1>4, <1>5, <2>2, <2>3, <2>4 DEF FinalEntries
  <2>7. QED
    BY <2>5, <2>6
<1>8. CASE EmitInRegion /\ ~Retrying
  <2>1. /\ InBundleLockRegion
        /\ function[I].lock = BundleLockStart
    BY <1>8, InRegionFacts
  <2>2. Preliminary
    BY <1>1, <1>8, <2>1, WhereWeAre
  <2>3. /\ text' = Emitted(I, size)
        /\ I' = I + 1
        /\ Preliminary' = Preliminary
        /\ BundleLockStart' = BundleLockStart
    BY <1>8 DEF EmitInRegion
  <2>4. \A i : Final(i)' <=> Final(i)
    BY <1>1, <2>3 DEF Final
  <2>5. ~Final(I)
    BY <2>1, <2>2 DEF Final
  <2>6. \A p \in Emitted(I, size) : p \in text \/ p.of = I
    BY DEF Emitted, Piece
  <2>7. text \subseteq Emitted(I, size)
    BY DEF Emitted
  <2>8. FinalText' = FinalText
    BY <2>3, <2>4, <2>5, <2>6, <2>7 DEF FinalText
  <2>9. FinalEntries' = FinalEntries
    BY <1>1, <1>2, <2>3, <2>4, <2>5 DEF FinalEntries
  <2>10. QED
    BY <2>8, <2>9
<1>9. CASE BundleUnlockFirst
  <2>1. /\ InBundleLockRegion
        /\ Preliminary
        /\ BundleLockStart \in DOMAIN function
        /\ BundleLockStart \in Nat \ {0}
        /\ BundleLockStart < I
        /\ I' = BundleLockStart + 1
        /\ text' = {p \in text : p.of <= BundleLockStart}
    BY <1>9, UnlockFacts
  <2>2. ~Preliminary'
    BY <1>9 DEF BundleUnlockFirst
  <2>3. \A i : Final(i)'
    BY <2>2 DEF Final
  <2>4. ASSUME NEW i \in 1 .. I - 1, Emits(i)
        PROVE  Final(i) <=> i <= BundleLockStart
    <3>1. CASE i < BundleLockStart
      <4>1. function[i].lock # BundleLockStart
        BY <1>1, <1>4, <2>1, <3>1, OldEntriesAreFinal
      <4>2. QED
        BY <1>5, <2>1, <3>1, <4>1 DEF Final
    <3>2. CASE i = BundleLockStart
      BY <1>1, <2>1, <2>4, <3>2 DEF Position, Emits
    <3>3. CASE i > BundleLockStart
      <4>1. function[i].lock = BundleLockStart
        BY <1>1, <2>1, <3>3 DEF Position
      <4>2. QED
        BY <1>5, <2>1, <3>3, <4>1 DEF Final
    <3>4. QED
      BY <1>1, <2>1, <3>1, <3>2, <3>3
  <2>5. \A p \in text : p.of \in 1 .. I - 1
    BY <1>1, <1>3
  <2>6. FinalText' = FinalText
    BY <1>3, <2>1, <2>3, <2>4, <2>5 DEF FinalText
  <2>7. FinalEntries' = FinalEntries
    <3>1. FinalEntries' = {i \in 1 .. BundleLockStart : Emits(i)}
      BY <1>2, <2>1, <2>3 DEF FinalEntries
    <3>2. FinalEntries = {i \in 1 .. I - 1 : Emits(i) /\ i <= BundleLockStart}
      BY <2>4 DEF FinalEntries
    <3>3. QED
      BY <1>1, <2>1, <3>1, <3>2
  <2>8. QED
    BY <2>6, <2>7
<1>10. QED
  BY <1>6, <1>7, <1>8, <1>9 DEF Step, Adds

LEMMA NextInstructionIsAdded ==
  ASSUME TypeInv, Position, Layout, Step, Adds
  PROVE  \E at \in Nat :
           /\ ~Preliminary /\ ~Preliminary'
           /\ FinalText = text
           /\ FinalText' = text'
           /\ FinalEntries' = FinalEntries \cup {I}
           /\ I' = I + 1
           /\ at >= size
           /\ text' = Emitted(I, at)
           /\ size' = at + SizeAt(I, at)
           /\ effects' = Append(effects, <<I, at>>)
           /\ stats' = stats + 1
<1>1. /\ NotEnded
      /\ I \in DOMAIN function
      /\ I \in Nat \ {0}
      /\ function' = function
      /\ size \in Nat
  BY StepFacts
<1>2. ~Preliminary /\ Emits(I) /\ I' = I + 1 /\ stats' = stats + 1 /\ Preliminary' = Preliminary
  BY AloneFacts DEF Adds, EmitAlone, EmitInRegion, TypeInv
<1>3. \A i : Final(i) /\ Final(i)' /\ (Emits(i)' <=> Emits(i))
  BY <1>1, <1>2 DEF Final, Emits
<1>4. FinalText = text /\ FinalText' = text'
  BY <1>3 DEF FinalText
<1>5. FinalEntries' = FinalEntries \cup {I}
  BY <1>1, <1>2, <1>3 DEF FinalEntries
<1>6. CASE EmitAlone
  BY <1>2, <1>4, <1>5, <1>6, AloneFacts
<1>7. CASE EmitInRegion
  <2>1. /\ text' = Emitted(I, size)
        /\ size' = size + SizeAt(I, size)
        /\ effects' = Append(effects, <<I, size>>)
        /\ size >= size
    BY <1>1, <1>2, <1>7 DEF EmitInRegion
  <2>2. QED
    BY <1>1, <1>2, <1>4, <1>5, <2>1
<1>8. QED
  BY <1>6, <1>7 DEF Adds

-----------------------------------------------------------------------------
(***************************************************************************)
(* No instruction and no region crosses a bundle boundary.                 *)
(***************************************************************************)
LEMMA PiecesOfRegion ==
  ASSUME TypeInv, Position, Layout, InBundleLockRegion,
         NEW p \in text, function[p.of].lock = BundleLockStart
  PROVE  /\ p.at >= SizeSnapshotPre
         /\ p.at + p.size <= SizeSnapshotPre + function[BundleLockStart].size
<1>1. /\ function \in Functions
      /\ SizeSnapshotPre \in Nat
      /\ BundleLockStart # 0
      /\ function[BundleLockStart].kind = "lock"
  BY DEF TypeInv, TypeOK, Position, InBundleLockRegion
<1>2. p.of \in DOMAIN function /\ Emits(p.of) /\ p.at \in Nat /\ p.size \in Nat
  BY TextFacts DEF Layout
<1>3. /\ p.of \in Nat
      /\ function[p.of].lock \in 0 .. p.of
      /\ function[p.of].kind = "inst"
      /\ function[p.of].offset \in Nat
      /\ function[p.of].size \in Nat
      /\ function[p.of].offset + function[p.of].size <= function[BundleLockStart].size
  BY <1>1, <1>2, EntryFacts, BundleIsNat DEF Emits
<1>4. p.of > BundleLockStart
  <2>1. p.of # BundleLockStart
    BY <1>1, <1>3
  <2>2. BundleLockStart \in 0 .. p.of
    BY <1>3
  <2>3. QED
    BY <1>3, <2>1, <2>2
<1>5. p.at = SizeSnapshotPre + function[p.of].offset /\ p.size = function[p.of].size
  BY <1>4 DEF Layout
<1>6. BundleLockStart \in DOMAIN function
  BY <1>1 DEF TypeInv, TypeOK
<1>7. function[BundleLockStart].size \in Nat
  BY <1>1, <1>6, EntryFacts, BundleIsNat
<1>8. QED
  BY <1>1, <1>3, <1>5, <1>7

LEMMA RegionFitsStep ==
  ASSUME TypeInv, Position, Layout, RegionFits, Step
  PROVE  RegionFits'
<1>1. NotEnded /\ function' = function
  BY StepFacts
<1>2. CASE StartNode \/ EnterBundleLock \/ BundleUnlockFinal \/ EmitAlone
  <2>1. ~Retrying'
    BY <1>1, <1>2, WhereWeAre, AloneFacts
       DEF StartNode, EnterBundleLock, BundleUnlockFinal, EmitAlone
  <2>2. QED
    BY <2>1 DEF RegionFits
<1>3. CASE EmitInRegion
  BY <1>1, <1>3 DEF EmitInRegion, RegionFits, InOneBundle
<1>4. CASE BundleUnlockFirst
  BY <1>4, PaddedRegionFits
<1>5. QED
  BY <1>2, <1>3, <1>4 DEF Step

LEMMA PiecesShareBundle ==
  ASSUME TypeInv, RegionFits, Retrying, BundleLockStart \in DOMAIN function,
         NEW p, p.at \in Nat, p.at >= SizeSnapshotPre,
         p.at < SizeSnapshotPre + function[BundleLockStart].size,
         NEW q, q.at \in Nat, q.size \in Nat \ {0}, q.at >= SizeSnapshotPre,
         q.at + q.size <= SizeSnapshotPre + function[BundleLockStart].size
  PROVE  p.at \div BundleSize = (q.at + q.size - 1) \div BundleSize
<1> DEFINE a == SizeSnapshotPre
           s == function[BundleLockStart].size
<1>1. a \in Nat /\ s \in Nat
  BY EntryFacts, BundleIsNat DEF TypeInv, TypeOK
<1>2. s # 0
  BY <1>1
<1>3. InOneBundle(a, a + s)
  BY <1>2 DEF RegionFits
<1> HIDE DEF a, s
<1>4. /\ a + s \in Nat
      /\ q.at + q.size - 1 \in Nat
      /\ a <= q.at + q.size - 1
      /\ q.at + q.size - 1 < a + s
      /\ a <= p.at
      /\ p.at < a + s
  BY <1>1 DEF a, s
<1>5. p.at \div BundleSize = a \div BundleSize
  BY <1>1, <1>3, <1>4, PartOfBundle
<1>6. (q.at + q.size - 1) \div BundleSize = a \div BundleSize
  BY <1>1, <1>3, <1>4, PartOfBundle
<1>7. QED
  BY <1>5, <1>6

LEMMA RegionsFitStep ==
  ASSUME TypeInv, Position, Layout, RegionFits, RegionsFit, Step
  PROVE  RegionsFit'
<1>1. /\ NotEnded
      /\ I \in DOMAIN function
      /\ I \in Nat \ {0}
      /\ function \in Functions
      /\ function' = function
      /\ size \in Nat
      /\ SizeSnapshotPre \in Nat
  BY StepFacts
<1>2. CASE ~Adds
  BY <1>1, <1>2, NothingFinalHappens DEF RegionsFit, SameRegion
<1>3. CASE EmitAlone
  <2>1. PICK at \in Nat : /\ text' = Emitted(I, at)
                          /\ SizeAt(I, at) \in Nat
                          /\ SizeAt(I, at) # 0 => InOneBundle(at, at + SizeAt(I, at))
    BY <1>3, AloneFacts
  <2>2. FinalText = text /\ FinalText' = text'
    BY <1>3, NextInstructionIsAdded DEF Adds
  <2>3. function[I].lock = 0
    BY <1>3, AloneFacts
  <2>4. SUFFICES ASSUME NEW p \in text', NEW q \in text', SameRegion(p.of, q.of)
                 PROVE  p.at \div BundleSize = (q.at + q.size - 1) \div BundleSize
    BY <1>1, <2>2 DEF RegionsFit, SameRegion
  <2>5. /\ p \in text \/ (p = Piece(I, at) /\ SizeAt(I, at) # 0)
        /\ q \in text \/ (q = Piece(I, at) /\ SizeAt(I, at) # 0)
    BY <2>1 DEF Emitted
  <2>6. \A r \in text : r.of < I /\ r.of \in Nat
    BY TextFacts DEF Layout
  <2>7. CASE p \in text /\ q \in text
    BY <2>2, <2>4, <2>7 DEF RegionsFit
  <2>8. CASE p = Piece(I, at) /\ q = Piece(I, at) /\ SizeAt(I, at) # 0
    <3>1. p.at = at /\ q.at = at /\ q.size = SizeAt(I, at)
      BY <2>8 DEF Piece
    <3>2. at \div BundleSize = (at + SizeAt(I, at) - 1) \div BundleSize
      BY <2>1, <2>8 DEF InOneBundle
    <3>3. QED
      BY <3>1, <3>2
  <2>9. ~(p \in text /\ q = Piece(I, at)) /\ ~(p = Piece(I, at) /\ q \in text)
    BY <1>1, <2>3, <2>4, <2>6 DEF SameRegion, Piece
  <2>10. QED
    BY <2>5, <2>7, <2>8, <2>9
<1>4. CASE EmitInRegion /\ Retrying
  <2>1. /\ InBundleLockRegion
        /\ BundleLockStart \in DOMAIN function
        /\ function[I].kind = "inst"
        /\ function[I].lock = BundleLockStart
        /\ size = SizeSnapshotPre + function[I].offset
        /\ SizeAt(I, size) = function[I].size
    BY <1>4, InRegionFacts
  <2>2. text' = Emitted(I, size)
    BY <1>4 DEF EmitInRegion
  <2>3. FinalText = text /\ FinalText' = text'
    BY <1>4, NextInstructionIsAdded DEF Adds
  <2>4. SUFFICES ASSUME NEW p \in text', NEW q \in text', SameRegion(p.of, q.of)
                 PROVE  p.at \div BundleSize = (q.at + q.size - 1) \div BundleSize
    BY <1>1, <2>3 DEF RegionsFit, SameRegion
  <2>5. CASE p \in text /\ q \in text
    BY <2>3, <2>4, <2>5 DEF RegionsFit
  <2>6. CASE ~(p \in text /\ q \in text)
    <3>1. function[p.of].lock = BundleLockStart /\ function[q.of].lock = BundleLockStart
      BY <2>1, <2>2, <2>4, <2>6 DEF SameRegion, Emitted, Piece
    <3>2. ASSUME NEW r \in text', function[r.of].lock = BundleLockStart
          PROVE  /\ r.at \in Nat
                 /\ r.size \in Nat \ {0}
                 /\ r.at >= SizeSnapshotPre
                 /\ r.at + r.size <= SizeSnapshotPre + function[BundleLockStart].size
      <4>1. CASE r \in text
        BY <2>1, <3>2, <4>1, TextFacts, PiecesOfRegion
      <4>2. CASE r = Piece(I, size) /\ SizeAt(I, size) # 0
        <5>1. /\ function[I].offset \in Nat
              /\ function[I].size \in Nat
              /\ function[BundleLockStart].size \in Nat
              /\ function[I].offset + function[I].size <= function[BundleLockStart].size
          BY <1>1, <2>1, EntryFacts, BundleIsNat DEF InBundleLockRegion
        <5>2. r.at = size /\ r.size = function[I].size /\ function[I].size # 0
          BY <2>1, <4>2 DEF Piece
        <5>3. QED
          BY <1>1, <2>1, <5>1, <5>2
      <4>3. QED
        BY <2>2, <4>1, <4>2 DEF Emitted
    <3>3. function[BundleLockStart].size \in Nat
      BY <1>1, <2>1, EntryFacts, BundleIsNat
    <3>4. p.at < SizeSnapshotPre + function[BundleLockStart].size
      BY <1>1, <3>1, <3>2, <3>3
    <3>5. QED
      BY <1>4, <2>1, <3>1, <3>2, <3>4, PiecesShareBundle
  <2>7. QED
    BY <2>5, <2>6
<1>5. QED
  BY <1>2, <1>3, <1>4 DEF Adds

-----------------------------------------------------------------------------
(***************************************************************************)
(* Code that is jumped or returned to begins a bundle.                     *)
(***************************************************************************)
LEMMA RegionEndsAlignedStep ==
  ASSUME TypeInv, Position, Layout, RegionEndsAligned, Step
  PROVE  RegionEndsAligned'
<1>1. /\ NotEnded
      /\ I \in DOMAIN function
      /\ function \in Functions
      /\ function' = function
      /\ size \in Nat
  BY StepFacts
<1>2. CASE StartNode \/ EnterBundleLock \/ BundleUnlockFinal \/ EmitAlone
  <2>1. ~Retrying'
    BY <1>1, <1>2, WhereWeAre, AloneFacts
       DEF StartNode, EnterBundleLock, BundleUnlockFinal, EmitAlone
  <2>2. QED
    BY <2>1 DEF RegionEndsAligned
<1>3. CASE EmitInRegion
  <2>1. /\ function[I].kind = "inst"
        /\ function[I].lock = BundleLockStart
        /\ function[I].lock # 0
        /\ SizeAt(I, size) = function[I].size
        /\ size' = size + function[I].size
        /\ function[I].size \in Nat
        /\ function[I].offset \in Nat
    BY <1>1, <1>3, InRegionFacts, EntryFacts, BundleIsNat DEF InBundleLockRegion
  <2>2. /\ text' = Emitted(I, size)
        /\ I' = I + 1
        /\ UNCHANGED <<BundleLockStart, Retrying, SizeSnapshotPre>>
    BY <1>3 DEF EmitInRegion
  <2>3. Entry'.offset = function[I].offset + function[I].size
    BY <1>1, <2>1, <2>2, NextEntryFacts DEF Entry
  <2>4. SUFFICES ASSUME Retrying, Entry'.offset > 0
                 PROVE  \E p \in text' : function[p.of].lock = BundleLockStart /\ p.at + p.size = size'
    BY <1>1, <2>2 DEF RegionEndsAligned, Aligned
  <2>5. CASE function[I].size = 0
    <3>1. Entry.offset > 0 /\ text' = text /\ size' = size
      BY <1>1, <2>1, <2>2, <2>3, <2>4, <2>5 DEF Entry, Emitted
    <3>2. QED
      BY <2>4, <3>1 DEF RegionEndsAligned
  <2>6. CASE function[I].size # 0
    <3>1. Piece(I, size) \in text'
      BY <2>1, <2>2, <2>6 DEF Emitted
    <3>2. /\ Piece(I, size).of = I
          /\ Piece(I, size).at = size
          /\ Piece(I, size).size = function[I].size
      BY <2>1 DEF Piece
    <3>3. QED
      BY <2>1, <3>1, <3>2
  <2>7. QED
    BY <2>5, <2>6
<1>4. CASE BundleUnlockFirst
  <2>1. /\ I' = BundleLockStart + 1
        /\ BundleLockStart \in DOMAIN function
        /\ BundleLockStart \in Nat \ {0}
        /\ function[BundleLockStart].kind = "lock"
        /\ BundleLockStart' = BundleLockStart
    BY <1>4, UnlockFacts DEF Position, BundleUnlockFirst
  <2>2. function[BundleLockStart].lock = BundleLockStart /\ function[BundleLockStart].offset = 0
    BY <1>1, <2>1, EntryFacts
  <2>3. Entry'.offset = 0
    BY <1>1, <2>1, <2>2, NextEntryFacts DEF Entry
  <2>4. QED
    BY <1>1, <1>4, <2>1, <2>3, PaddedRegionFits DEF RegionEndsAligned, Aligned
<1>5. QED
  BY <1>2, <1>3, <1>4 DEF Step

LEMMA ReturnPointsStep ==
  ASSUME TypeInv, Position, Layout, RegionEndsAligned, ReturnPointsAreAligned, Step
  PROVE  ReturnPointsAreAligned'
<1>1. /\ NotEnded
      /\ I \in DOMAIN function
      /\ I \in Nat \ {0}
      /\ function \in Functions
      /\ function' = function
      /\ size \in Nat
  BY StepFacts
<1>2. \A i \in DOMAIN function :
        function[i].kind = "node" /\ function[i].option = "Align" /\ label'[i] >= 0 =>
          Aligned(label'[i])
  <2>1. SUFFICES ASSUME NEW i \in DOMAIN function, function[i].kind = "node",
                        function[i].option = "Align", label'[i] >= 0
                 PROVE  Aligned(label'[i])
    OBVIOUS
  <2>2. CASE label'[i] = label[i]
    BY <2>1, <2>2 DEF ReturnPointsAreAligned
  <2>3. CASE StartNode /\ i = I
    <3>1. label'[i] = size + ToNextBundle(size)
      BY <1>1, <2>1, <2>3 DEF StartNode, Entry, TypeInv, TypeOK
    <3>2. QED
      BY <1>1, <3>1, PaddingAligns
  <2>4. StartNode => label'[i] = label[i] \/ i = I
    BY <1>1 DEF StartNode, TypeInv, TypeOK
  <2>5. ~StartNode => label' = label
    BY DEF Step, EnterBundleLock, EmitInRegion, BundleUnlockFirst, BundleUnlockFinal, EmitAlone
  <2>6. QED
    BY <2>2, <2>3, <2>4, <2>5
<1>3. ASSUME AfterUnlock'
      PROVE  LET l == function[I' - 1].lock IN
             /\ function[l].option # "None" => Aligned(size')
             /\ function[l].option = "AlignToEnd" /\ function[l].size > 0 =>
                  \E p \in text' : function[p.of].lock = l /\ p.at + p.size = size'
  <2>1. function[I' - 1].kind = "unlock"
    BY <1>1, <1>3 DEF AfterUnlock
  <2>2. ~BundleUnlockFirst
    <3>1. SUFFICES ASSUME BundleUnlockFirst
                   PROVE  FALSE
      OBVIOUS
    <3>2. I' - 1 = BundleLockStart /\ function[BundleLockStart].kind = "lock"
      BY <3>1, UnlockFacts DEF Position
    <3>3. QED
      BY <2>1, <3>2
  <2>3. BundleUnlockFinal
    <3>1. I' = I + 1
      BY <2>2 DEF Step, StartNode, EnterBundleLock, EmitInRegion, BundleUnlockFinal, EmitAlone
    <3>2. Entry.kind = "unlock"
      BY <1>1, <2>1, <3>1 DEF Entry
    <3>3. QED
      BY <2>2, <3>2 DEF Step, StartNode, EnterBundleLock, EmitInRegion, EmitAlone, Emits, Entry
  <2>4. /\ InBundleLockRegion
        /\ function[I].lock = BundleLockStart
        /\ Retrying
        /\ I' - 1 = I
        /\ text' = text
        /\ size' = size + PadForPadToEnd
        /\ function[I].kind = "unlock"
    BY <1>1, <2>3, WhereWeAre DEF BundleUnlockFinal, Entry
  <2>5. /\ BundleLockStart \in DOMAIN function
        /\ function[BundleLockStart].kind = "lock"
        /\ size = SizeSnapshotPre + function[I].offset
        /\ function[I].offset = function[BundleLockStart].size
    BY <1>1, <2>4, WhereWeAre, EntryFacts DEF Position, Entry
  <2>6. function[BundleLockStart].option \in {"None", "AlignToEnd", "PadToEnd"}
    BY <1>1, <2>5, EntryFacts
  <2>7. CASE function[BundleLockStart].option = "AlignToEnd"
    <3>1. size' = size
      BY <1>1, <2>4, <2>7 DEF PadForPadToEnd
    <3>2. Aligned(size)
      BY <2>4, <2>5, <2>7 DEF RegionEndsAligned
    <3>3. function[BundleLockStart].size > 0 =>
            \E p \in text : function[p.of].lock = BundleLockStart /\ p.at + p.size = size
      BY <2>4, <2>5 DEF RegionEndsAligned, Entry
    <3>4. QED
      BY <2>4, <3>1, <3>2, <3>3
  <2>8. CASE function[BundleLockStart].option = "PadToEnd"
    <3>1. size' = size + ToNextBundle(size)
      BY <2>4, <2>8 DEF PadForPadToEnd
    <3>2. Aligned(size')
      BY <1>1, <3>1, PaddingAligns
    <3>3. QED
      BY <2>4, <2>8, <3>2
  <2>9. CASE function[BundleLockStart].option = "None"
    BY <2>4, <2>9
  <2>10. QED
    BY <2>6, <2>7, <2>8, <2>9
<1>4. QED
  BY <1>1, <1>2, <1>3 DEF ReturnPointsAreAligned, Aligned

-----------------------------------------------------------------------------
(***************************************************************************)
(* Each instruction is there once, in order and whole.                     *)
(***************************************************************************)
LEMMA EmittedOnceStep ==
  ASSUME TypeInv, Position, Layout, EmittedOnce, Step
  PROVE  EmittedOnce'
<1>1. /\ I \in DOMAIN function
      /\ I \in Nat \ {0}
      /\ function \in Functions
      /\ function' = function
      /\ size \in Nat
  BY StepFacts
<1> DEFINE Whole(i) == function[i].size > 0 \/ function[i].kind = "branch"
<1>2. \A i \in FinalEntries : Whole(i) => \E p \in FinalText : p.of = i
  BY DEF EmittedOnce, FinalEntries, FinalText
<1>3. \A p \in text' : p.at + p.size <= size'
  BY LayoutStep DEF Layout
<1>4. ASSUME NEW i \in FinalEntries', Whole(i)
      PROVE  \E p \in text' : p.of = i
  <2>1. CASE ~Adds
    <3>1. \E p \in FinalText' : p.of = i
      BY <1>2, <1>4, <2>1, NothingFinalHappens
    <3>2. QED
      BY <3>1 DEF FinalText
  <2>2. CASE Adds
    <3>1. PICK at \in Nat : /\ FinalText = text
                            /\ FinalEntries' = FinalEntries \cup {I}
                            /\ text' = Emitted(I, at)
      BY <2>2, NextInstructionIsAdded
    <3>2. CASE i \in FinalEntries
      BY <1>2, <1>4, <3>1, <3>2 DEF Emitted
    <3>3. CASE i = I
      <4>1. SizeAt(I, at) # 0
        BY <1>1, <1>4, <3>3, Sizes, BundleIsNat
      <4>2. Piece(I, at) \in text' /\ Piece(I, at).of = I
        BY <3>1, <4>1 DEF Emitted, Piece
      <4>3. QED
        BY <3>3, <4>2
    <3>4. QED
      BY <1>4, <3>1, <3>2, <3>3
  <2>3. QED
    BY <2>1, <2>2
<1>5. \A p, q \in FinalText' : /\ p.of = q.of => p = q
                               /\ p.of < q.of => p.at + p.size <= q.at
  <2>1. CASE ~Adds
    BY <2>1, NothingFinalHappens DEF EmittedOnce
  <2>2. CASE Adds
    <3>1. PICK at \in Nat : /\ FinalText = text
                            /\ FinalText' = text'
                            /\ text' = Emitted(I, at)
                            /\ at >= size
      BY <2>2, NextInstructionIsAdded
    <3>2. SUFFICES ASSUME NEW p \in text', NEW q \in text'
                   PROVE  /\ p.of = q.of => p = q
                          /\ p.of < q.of => p.at + p.size <= q.at
      BY <3>1
    <3>3. /\ p \in text \/ p = Piece(I, at)
          /\ q \in text \/ q = Piece(I, at)
      BY <3>1 DEF Emitted
    <3>4. Piece(I, at).of = I /\ Piece(I, at).at = at
      BY DEF Piece
    <3>5. \A r \in text : /\ r.of < I /\ r.of \in Nat
                          /\ r.at + r.size <= size /\ r.at \in Nat /\ r.size \in Nat
      BY TextFacts DEF Layout
    <3>6. CASE p \in text /\ q \in text
      BY <3>1, <3>6 DEF EmittedOnce
    <3>7. CASE p \in text /\ q = Piece(I, at)
      BY <1>1, <3>1, <3>4, <3>5, <3>7
    <3>8. CASE p = Piece(I, at) /\ q \in text
      BY <1>1, <3>4, <3>5, <3>8
    <3>9. CASE p = Piece(I, at) /\ q = Piece(I, at)
      BY <1>1, <3>4, <3>9
    <3>10. QED
      BY <3>3, <3>6, <3>7, <3>8, <3>9
  <2>3. QED
    BY <2>1, <2>2
<1>6. QED
  BY <1>1, <1>3, <1>4, <1>5 DEF EmittedOnce, FinalEntries

-----------------------------------------------------------------------------
(***************************************************************************)
(* Effects are made once, for the final place.                             *)
(***************************************************************************)
LEMMA NoEffectsUnlessFinal ==
  ASSUME TypeInv, Position, Step, ~Adds
  PROVE  effects' = effects /\ stats' = stats
<1>1. NotEnded
  BY StepFacts
<1>2. EmitInRegion => Preliminary
  BY <1>1, WhereWeAre DEF Adds, EmitInRegion
<1>3. QED
  BY <1>2 DEF Step, Adds, StartNode, EnterBundleLock, EmitInRegion, BundleUnlockFirst,
     BundleUnlockFinal

LEMMA EffectsSoFarStep ==
  ASSUME TypeInv, Position, Layout, EffectsSoFar, Step
  PROVE  EffectsSoFar'
<1>1. /\ NotEnded
      /\ I \in DOMAIN function
      /\ I \in Nat \ {0}
      /\ function \in Functions
      /\ size \in Nat
      /\ SizeSnapshotPre \in Nat
      /\ size' \in Nat
  BY StepFacts, TypesStep DEF TypeInv, TypeOK
<1>2. /\ effects \in Seq(Nat \X Nat)
      /\ DOMAIN effects = 1 .. Len(effects)
      /\ Len(effects) \in Nat
      /\ \A k \in DOMAIN effects : effects[k][1] \in Nat /\ effects[k][2] \in Nat
  <2>1. effects \in Seq(Nat \X Nat)
    BY DEF EffectsSoFar
  <2>2. DOMAIN effects = 1 .. Len(effects) /\ Len(effects) \in Nat
    BY <2>1, LenProperties
  <2>3. \A k \in DOMAIN effects : effects[k] \in Nat \X Nat
    BY <2>1, <2>2, ElementOfSeq
  <2>4. QED
    BY <2>1, <2>2, <2>3
<1>3. ASSUME ~Adds, size' >= size, Preliminary' => SizeSnapshotPre' >= size \/
               (Preliminary /\ SizeSnapshotPre' = SizeSnapshotPre)
      PROVE  EffectsSoFar'
  <2>1. effects' = effects /\ stats' = stats
    BY <1>3, NoEffectsUnlessFinal
  <2>2. SUFFICES ASSUME NEW k \in DOMAIN effects
                 PROVE  /\ effects[k][2] <= size'
                        /\ Preliminary' => effects[k][2] <= SizeSnapshotPre'
    BY <2>1 DEF EffectsSoFar
  <2>3. effects[k][2] \in Nat /\ effects[k][2] <= size
    BY <1>2, <2>2 DEF EffectsSoFar
  <2>4. SizeSnapshotPre' \in Nat
    BY TypesStep DEF TypeInv, TypeOK
  <2>5. QED
    BY <1>1, <1>3, <2>2, <2>3, <2>4 DEF EffectsSoFar
<1>4. CASE Adds
  <2>1. PICK at \in Nat : /\ ~Preliminary'
                          /\ at >= size
                          /\ size' = at + SizeAt(I, at)
                          /\ effects' = Append(effects, <<I, at>>)
                          /\ stats' = stats + 1
    BY <1>4, NextInstructionIsAdded
  <2>2. SizeAt(I, at) \in Nat
    BY <1>1, Sizes, BundleIsNat
  <2>3. /\ effects' \in Seq(Nat \X Nat)
        /\ Len(effects') = Len(effects) + 1
        /\ DOMAIN effects' = 1 .. Len(effects) + 1
        /\ \A k \in 1 .. Len(effects) : effects'[k] = effects[k]
        /\ effects'[Len(effects) + 1] = <<I, at>>
    BY <1>1, <1>2, <2>1, AppendProperties, LenProperties
  <2>4. ASSUME NEW k \in DOMAIN effects'
        PROVE  effects'[k][2] <= size'
    <3>1. CASE k \in 1 .. Len(effects)
      BY <1>1, <1>2, <2>1, <2>2, <2>3, <3>1 DEF EffectsSoFar
    <3>2. CASE k = Len(effects) + 1
      BY <2>1, <2>2, <2>3, <3>2
    <3>3. QED
      BY <1>2, <2>3, <3>1, <3>2
  <2>5. stats' = Len(effects')
    BY <2>1, <2>3 DEF EffectsSoFar
  <2>6. QED
    BY <2>1, <2>3, <2>4, <2>5 DEF EffectsSoFar
<1>5. CASE StartNode
  <2>1. ToNextBundle(size) \in 0 .. BundleSize - 1
    BY <1>1, PaddingAligns
  <2>2. size' >= size
    BY <1>1, <1>5, <2>1, BundleIsNat DEF StartNode
  <2>3. ~Preliminary'
    BY <1>1, <1>5, WhereWeAre DEF StartNode
  <2>4. QED
    BY <1>3, <1>4, <2>2, <2>3
<1>6. CASE EnterBundleLock
  <2>1. size' = size /\ SizeSnapshotPre' = size
    BY <1>6 DEF EnterBundleLock
  <2>2. QED
    BY <1>1, <1>3, <1>4, <2>1
<1>7. CASE EmitInRegion
  <2>1. size' = size + function[I].size /\ function[I].size \in Nat
    BY <1>1, <1>7, InRegionFacts, EntryFacts, BundleIsNat
  <2>2. Preliminary' = Preliminary /\ SizeSnapshotPre' = SizeSnapshotPre
    BY <1>7 DEF EmitInRegion
  <2>3. QED
    BY <1>1, <1>3, <1>4, <2>1, <2>2
<1>8. CASE BundleUnlockFirst
  <2>1. /\ Preliminary
        /\ SizeSnapshotPre' >= SizeSnapshotPre
        /\ SizeSnapshotPre' = size'
        /\ ~Preliminary'
    BY <1>8, UnlockFacts DEF BundleUnlockFirst
  <2>2. ~Adds => effects' = effects /\ stats' = stats
    BY NoEffectsUnlessFinal
  <2>3. \A k \in DOMAIN effects : effects[k][2] <= size'
    BY <1>1, <1>2, <2>1 DEF EffectsSoFar
  <2>4. QED
    BY <1>4, <2>1, <2>2, <2>3 DEF EffectsSoFar
<1>9. CASE BundleUnlockFinal
  <2>1. ToNextBundle(size) \in 0 .. BundleSize - 1
    BY <1>1, PaddingAligns
  <2>2. size' >= size
    BY <1>1, <1>9, <2>1, BundleIsNat DEF BundleUnlockFinal, PadForPadToEnd
  <2>3. ~Preliminary'
    BY <1>9 DEF BundleUnlockFinal, TypeInv
  <2>4. QED
    BY <1>3, <1>4, <2>2, <2>3
<1>10. CASE EmitAlone
  BY <1>4, <1>10 DEF Adds
<1>11. QED
  BY <1>5, <1>6, <1>7, <1>8, <1>9, <1>10 DEF Step

LEMMA EffectsMatchTextStep ==
  ASSUME TypeInv, Position, Layout, EffectsSoFar, EffectsMatchText, Step
  PROVE  EffectsMatchText'
<1>1. /\ I \in DOMAIN function
      /\ I \in Nat \ {0}
      /\ function \in Functions
      /\ size \in Nat
  BY StepFacts
<1>2. stats' = Len(effects')
  BY EffectsSoFarStep DEF EffectsSoFar
<1>3. {effects[k][1] : k \in DOMAIN effects} = FinalEntries
  BY DEF EffectsMatchText, FinalEntries
<1>4. SUFFICES
        /\ {effects'[k][1] : k \in DOMAIN effects'} = FinalEntries'
        /\ \A k \in DOMAIN effects' :
             /\ k > 1 => effects'[k - 1][1] < effects'[k][1]
             /\ \A p \in FinalText' :
                  /\ p.of = effects'[k][1] => p.at = effects'[k][2]
                  /\ p.of < effects'[k][1] => p.at + p.size <= effects'[k][2]
                  /\ p.of > effects'[k][1] => effects'[k][2] <= p.at
  BY <1>2 DEF EffectsMatchText, FinalEntries
<1>5. CASE ~Adds
  BY <1>3, <1>5, NothingFinalHappens, NoEffectsUnlessFinal DEF EffectsMatchText
<1>6. CASE Adds
  <2>1. PICK at \in Nat : /\ FinalText = text
                          /\ FinalText' = text'
                          /\ FinalEntries' = FinalEntries \cup {I}
                          /\ text' = Emitted(I, at)
                          /\ at >= size
                          /\ effects' = Append(effects, <<I, at>>)
    BY <1>6, NextInstructionIsAdded
  <2> DEFINE n == Len(effects)
  <2>2. /\ n \in Nat
        /\ DOMAIN effects = 1 .. n
        /\ DOMAIN effects' = 1 .. n + 1
        /\ \A k \in 1 .. n : effects'[k] = effects[k]
        /\ effects'[n + 1] = <<I, at>>
    BY <1>1, <2>1, AppendProperties, LenProperties DEF EffectsSoFar
  <2>3. \A k \in 1 .. n : effects[k][1] \in Nat /\ effects[k][1] < I
    <3>1. \A k \in 1 .. n : effects[k][1] \in FinalEntries
      BY <1>3, <2>2
    <3>2. \A i \in FinalEntries : i \in Nat /\ i < I
      BY <1>1 DEF FinalEntries
    <3>3. QED
      BY <3>1, <3>2
  <2>4. \A k \in 1 .. n : effects[k][2] \in Nat /\ effects[k][2] <= at
    <3>1. SUFFICES ASSUME NEW k \in 1 .. n
                   PROVE  effects[k][2] \in Nat /\ effects[k][2] <= at
      OBVIOUS
    <3>2. effects[k] \in Nat \X Nat
      BY <2>2, ElementOfSeq DEF EffectsSoFar
    <3>3. effects[k][2] <= size
      BY <2>2 DEF EffectsSoFar
    <3>4. QED
      BY <1>1, <2>1, <3>2, <3>3
  <2> HIDE DEF n
  <2>5. {effects'[k][1] : k \in DOMAIN effects'} = FinalEntries'
    <3>1. {effects'[k][1] : k \in 1 .. n + 1} = {effects'[k][1] : k \in 1 .. n} \cup {effects'[n + 1][1]}
      BY <2>2
    <3>2. {effects'[k][1] : k \in 1 .. n} = {effects[k][1] : k \in 1 .. n}
      BY <2>2
    <3>3. effects'[n + 1][1] = I
      BY <2>2
    <3>4. QED
      BY <1>3, <2>1, <2>2, <3>1, <3>2, <3>3
  <2>6. ASSUME NEW k \in 1 .. n + 1, k > 1
        PROVE  effects'[k - 1][1] < effects'[k][1]
    <3>1. CASE k \in 1 .. n
      BY <2>2, <2>6, <3>1 DEF EffectsMatchText
    <3>2. CASE k = n + 1
      BY <2>2, <2>3, <2>6, <3>2
    <3>3. QED
      BY <2>2, <3>1, <3>2
  <2>7. ASSUME NEW k \in 1 .. n + 1, NEW p \in text'
        PROVE  /\ p.of = effects'[k][1] => p.at = effects'[k][2]
               /\ p.of < effects'[k][1] => p.at + p.size <= effects'[k][2]
               /\ p.of > effects'[k][1] => effects'[k][2] <= p.at
    <3>1. p \in text \/ (p.of = I /\ p.at = at)
      BY <2>1 DEF Emitted, Piece
    <3>2. k \in 1 .. n \/ k = n + 1
      BY <2>2
    <3>3. CASE p \in text /\ k \in 1 .. n
      BY <2>1, <2>2, <3>3 DEF EffectsMatchText
    <3>4. CASE p \in text /\ k = n + 1
      <4>1. p.of \in Nat /\ p.of < I /\ p.at \in Nat /\ p.size \in Nat /\ p.at + p.size <= size
        BY <3>4, TextFacts DEF Layout
      <4>2. QED
        BY <1>1, <2>1, <2>2, <3>4, <4>1
    <3>5. CASE p.of = I /\ p.at = at /\ k \in 1 .. n
      BY <1>1, <2>2, <2>3, <2>4, <3>5
    <3>6. CASE p.of = I /\ p.at = at /\ k = n + 1
      BY <1>1, <2>2, <3>6
    <3>7. QED
      BY <3>1, <3>2, <3>3, <3>4, <3>5, <3>6
  <2>8. QED
    BY <2>1, <2>2, <2>5, <2>6, <2>7
<1>7. QED
  BY <1>5, <1>6

-----------------------------------------------------------------------------
(***************************************************************************)
(* The inductive invariant.                                                *)
(***************************************************************************)
LEMMA InitEstablishes ==
  ASSUME Init
  PROVE  IInv
<1>1. /\ function \in Functions
      /\ Len(function) \in Nat
      /\ DOMAIN function = 1 .. Len(function)
  BY FunctionFacts DEF Init
<1>2. TypeInv
  <2>1. label \in [DOMAIN function -> Nat \cup {-1}]
    BY DEF Init
  <2>2. I \in 1 .. Len(function) + 1
    BY <1>1 DEF Init
  <2>3. QED
    BY <1>1, <2>1, <2>2 DEF Init, TypeInv, TypeOK, InBundleLockRegion
<1>3. Position
  <2>1. NotEnded => Entry.lock \in {0, I}
    BY <1>1, EntryFacts DEF Init, NotEnded, Entry
  <2>2. QED
    BY <2>1 DEF Init, Position, InBundleLockRegion
<1>4. Layout /\ RegionFits /\ RegionsFit /\ RegionEndsAligned
  BY DEF Init, Layout, RegionFits, RegionsFit, FinalText, RegionEndsAligned
<1>5. ReturnPointsAreAligned
  BY DEF Init, ReturnPointsAreAligned, AfterUnlock
<1>6. 1 .. I - 1 = {}
  BY DEF Init
<1>7. EmittedOnce
  BY <1>6 DEF Init, EmittedOnce, FinalText
<1>8. DOMAIN effects = {} /\ effects \in Seq(Nat \X Nat) /\ Len(effects) = 0
  BY DEF Init
<1>9. EffectsSoFar /\ EffectsMatchText
  BY <1>6, <1>8 DEF Init, EffectsSoFar, EffectsMatchText
<1>10. QED
  BY <1>2, <1>3, <1>4, <1>5, <1>7, <1>9 DEF IInv

LEMMA NextPreserves ==
  ASSUME IInv, [Next]_vars
  PROVE  IInv'
<1>1. CASE Step
  BY <1>1, TypesStep, PositionStep, LayoutStep, RegionFitsStep, RegionsFitStep,
     RegionEndsAlignedStep, ReturnPointsStep, EmittedOnceStep, EffectsSoFarStep,
     EffectsMatchTextStep DEF IInv
<1>2. CASE UNCHANGED vars
  <2>1. TypeInv' /\ Position' /\ Layout'
    BY <1>2 DEF IInv, vars, TypeInv, TypeOK, Position, Layout, InBundleLockRegion, NotEnded,
       Entry, Emits
  <2>2. RegionFits' /\ RegionsFit' /\ RegionEndsAligned' /\ ReturnPointsAreAligned'
    BY <1>2 DEF IInv, vars, RegionFits, InOneBundle, RegionsFit, FinalText, Final, SameRegion,
       RegionEndsAligned, Aligned, Entry, ReturnPointsAreAligned, AfterUnlock
  <2>3. EmittedOnce' /\ EffectsSoFar' /\ EffectsMatchText'
    BY <1>2 DEF IInv, vars, EmittedOnce, FinalText, Final, Emits, EffectsSoFar,
       EffectsMatchText, NotEnded
  <2>4. QED
    BY <2>1, <2>2, <2>3 DEF IInv
<1>3. QED
  BY <1>1, <1>2 DEF Next, Terminated

LEMMA Invariance == Spec => []IInv
<1>1. Init => IInv
  BY InitEstablishes
<1>2. IInv /\ [Next]_vars => IInv'
  BY NextPreserves
<1>3. QED
  BY <1>1, <1>2, PTL DEF Spec

(***************************************************************************)
(* Types.                                                                  *)
(***************************************************************************)
THEOREM TypeCorrect == Spec => []TypeOK
<1>1. IInv => TypeOK
  BY DEF IInv, TypeInv
<1>2. QED
  BY <1>1, Invariance, PTL

(***************************************************************************)
(* No instruction and no region between bundle_lock and bundle_unlock      *)
(* crosses a bundle boundary: padToNextBundle() and padForAlignToEnd() are *)
(* right for any function and any size of bundles.                         *)
(***************************************************************************)
THEOREM RegionsFitCorrect == Spec => []RegionsFit
<1>1. IInv => RegionsFit
  BY DEF IInv
<1>2. QED
  BY <1>1, Invariance, PTL

(***************************************************************************)
(* Return addresses and the targets of jump tables begin a bundle.         *)
(***************************************************************************)
THEOREM ReturnPointsCorrect == Spec => []ReturnPointsAreAligned
<1>1. IInv => ReturnPointsAreAligned
  BY DEF IInv
<1>2. QED
  BY <1>1, Invariance, PTL

(***************************************************************************)
(* The two passes of emitIAS() leave each instruction once, in order.      *)
(***************************************************************************)
THEOREM EmittedOnceCorrect == Spec => []EmittedOnce
<1>1. IInv => EmittedOnce
  BY DEF IInv
<1>2. QED
  BY <1>1, Invariance, PTL

(***************************************************************************)
(* What setPreliminary() holds back is done once, for the final place.     *)
(***************************************************************************)
THEOREM EffectsCorrect == Spec => []EffectsMatchText
<1>1. IInv => EffectsMatchText
  BY DEF IInv
<1>2. QED
  BY <1>1, Invariance, PTL
=============================================================================
