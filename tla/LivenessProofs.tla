---------------------------- MODULE LivenessProofs ----------------------------
(***************************************************************************)
(* Liveness analysis builds ranges that are ordered, as                    *)
(* LiveRange::addSegment() asserts, for every function, and the ranges of  *)
(* all phis that a node keeps begin together.  The argument is about one   *)
(* visit of a node: walking the block from its end, a variable is live     *)
(* above an instruction because it is read there, or live below and not    *)
(* defined there.  Then, what really is live at a point of the code left   *)
(* is in the walk of the last visit, and the ranges cover that point.      *)
(* What is needed is read behind its definition, so it is not dead; and    *)
(* without loops each node is visited once, after its successors, and so   *)
(* the walks hold nothing else.  Last, what a client of the analysis needs *)
(* of single instructions, edges, phis and the entry: how the walks go     *)
(* over into each other, and that all that is live there is in range.      *)
(***************************************************************************)
EXTENDS Liveness, FiniteSetTheorems, SequenceTheorems, TLAPS

-----------------------------------------------------------------------------
(***************************************************************************)
(* A nonempty set of natural numbers has a smallest element: the finite    *)
(* sets 0 .. (n - 1) have a minimal one under inclusion.                   *)
(***************************************************************************)
LEMMA SmallestNumber == ASSUME NEW S \in SUBSET Nat, S # {}
                        PROVE  \E m \in S : \A k \in S : m <= k
<1> DEFINE below == {0 .. (n - 1) : n \in S}
           R == StrictSubsetOrdering(Nat)
<1>1. IsWellFoundedOn(R, FiniteSubsetsOf(Nat))
  BY FS_StrictSubsetOrderingWellFounded
<1>2. below \subseteq FiniteSubsetsOf(Nat)
  <2>1. \A n \in Nat : IsFiniteSet(0 .. (n - 1)) /\ 0 .. (n - 1) \subseteq Nat
    BY FS_Interval
  <2> QED BY <2>1 DEF FiniteSubsetsOf
<1>3. below # {}
  OBVIOUS
<1>4. \E x \in below : \A y \in below : ~ (<<y, x>> \in R)
  <2> HIDE DEF below, R
  <2> QED BY <1>1, <1>2, <1>3, WFMin
<1>5. PICK m \in S : \A y \in below : ~ (<<y, 0 .. (m - 1)>> \in R)
  BY <1>4
<1>6. ASSUME NEW k \in S, k < m PROVE FALSE
  <2>1. 0 .. (k - 1) \in below
    OBVIOUS
  <2>2. /\ 0 .. (k - 1) \subseteq 0 .. (m - 1)
        /\ 0 .. (k - 1) # 0 .. (m - 1)
    <3>1. k \in 0 .. (m - 1) /\ k \notin 0 .. (k - 1)
      BY <1>6
    <3> QED BY <3>1
  <2>3. <<0 .. (k - 1), 0 .. (m - 1)>> \in R
    BY <2>2 DEF StrictSubsetOrdering
  <2> QED BY <1>5, <2>1, <2>3
<1> QED BY <1>6

(***************************************************************************)
(* A set that holds b, and with each number above a the one below it,      *)
(* holds all numbers from a to b.                                          *)
(***************************************************************************)
LEMMA Downward ==
  ASSUME NEW a \in Nat, NEW b \in Nat, NEW S, b \in S,
         \A i \in a .. b : i + 1 \in S /\ i < b => i \in S
  PROVE  a .. b \subseteq S
<1> SUFFICES ASSUME NEW x \in a .. b, x \notin S PROVE FALSE
  OBVIOUS
<1> DEFINE T == {k \in 0 .. b - a : b - k \notin S}
<1>1. T \in SUBSET Nat
  OBVIOUS
<1>2. b - x \in T
  <2>1. x \in Int /\ a <= x /\ x <= b
    OBVIOUS
  <2>2. b - x \in 0 .. b - a /\ b - (b - x) = x
    BY <2>1
  <2> QED BY <2>2
<1>3. PICK k \in T : \A j \in T : k <= j
  <2> HIDE DEF T
  <2> QED BY <1>1, <1>2, SmallestNumber
<1>4. k \in 0 .. b - a /\ b - k \notin S
  BY <1>3
<1>5. k # 0
  BY <1>4
<1>6. k - 1 \in 0 .. b - a /\ k - 1 \notin T
  BY <1>3, <1>4, <1>5
<1>7. b - (k - 1) \in S
  BY <1>6
<1>8. b - (k - 1) = (b - k) + 1 /\ b - k \in a .. b /\ b - k < b
  BY <1>4, <1>5
<1> QED BY <1>4, <1>7, <1>8

LEMMA FirstIsFirst ==
  ASSUME NEW S \in SUBSET Nat, S # {}
  PROVE  FirstOf(S) \in S /\ \A j \in S : FirstOf(S) <= j
BY SmallestNumber DEF FirstOf

LEMMA LastIsLast ==
  ASSUME NEW k \in Nat, NEW S \in SUBSET (1 .. k), S # {}
  PROVE  LastOf(S) \in S /\ \A j \in S : j <= LastOf(S)
<1> DEFINE T == {k - j : j \in S}
<1>1. T \in SUBSET Nat /\ T # {}
  <2>1. \A j \in S : j \in 1 .. k
    OBVIOUS
  <2>2. \A j \in S : k - j \in Nat
    BY <2>1
  <2>3. T # {}
    OBVIOUS
  <2> QED BY <2>2, <2>3
<1>2. PICK m \in T : \A t \in T : m <= t
  <2> HIDE DEF T
  <2> QED BY <1>1, SmallestNumber
<1>3. PICK i \in S : m = k - i
  BY <1>2
<1>4. \A j \in S : j <= i
  BY <1>2, <1>3
<1> QED BY <1>4 DEF LastOf

(***************************************************************************)
(* The code of a node: consecutive numbers, phis first, and behind them at *)
(* least the terminator, which has no dest.                                *)
(***************************************************************************)
LEMMA CodeIsOrdered ==
  ASSUME IsFunction(f)
  PROVE  /\ Code \subseteq Nat \ {0}
         /\ Len(f.code) \in Nat
         /\ Code = 1 .. Len(f.code)
         /\ f.nodes \in Nat
         /\ \A n : CodeOf(n) \subseteq Code /\ Phis(n) \subseteq CodeOf(n)
         /\ \A n \in Nodes : \E i \in CodeOf(n) \ Phis(n) : f.code[i].dest = None
         /\ \A n : \A i \in Phis(n), j \in CodeOf(n) \ Phis(n) : i < j
<1>1. f.code \in Seq({f.code[i] : i \in DOMAIN f.code})
  BY DEF IsFunction
<1>2. Len(f.code) \in Nat /\ Code = 1 .. Len(f.code)
  BY <1>1 DEF Code
<1>3. \A n : CodeOf(n) \subseteq Code /\ Phis(n) \subseteq CodeOf(n)
  BY DEF CodeOf, Phis
<1>4. \A n \in Nodes : \E i \in CodeOf(n) \ Phis(n) : f.code[i].dest = None
  BY DEF IsFunction, CodeOf, Phis, Code, IsPhi, Nodes
<1>5. ASSUME NEW n, NEW i \in Phis(n), NEW j \in CodeOf(n) \ Phis(n) PROVE i < j
  <2>1. /\ i \in Code /\ j \in Code
        /\ f.code[i].node = n /\ f.code[j].node = n
        /\ f.code[i].from # <<>> /\ f.code[j].from = <<>>
    BY DEF CodeOf, Phis, IsPhi
  <2>2. ~(j < i)
    BY <2>1 DEF IsFunction, Code
  <2>3. i # j
    BY <2>1
  <2> QED BY <1>2, <2>1, <2>2, <2>3
<1>6. f.nodes \in Nat
  BY DEF IsFunction
<1> QED BY <1>2, <1>3, <1>4, <1>5, <1>6

First(n) == FirstOf(CodeOf(n))
Last(n) == LastOf(CodeOf(n))

LEMMA BlockIsInterval ==
  ASSUME IsFunction(f), NEW n \in Nodes
  PROVE  /\ First(n) \in Nat \ {0} /\ Last(n) \in Nat /\ First(n) <= Last(n)
         /\ Last(n) <= Len(f.code)
         /\ CodeOf(n) = First(n) .. Last(n)
<1>1. /\ Len(f.code) \in Nat /\ Code = 1 .. Len(f.code)
      /\ CodeOf(n) \in SUBSET Code /\ CodeOf(n) # {}
  BY CodeIsOrdered
<1>2. First(n) \in CodeOf(n) /\ \A j \in CodeOf(n) : First(n) <= j
  BY <1>1, FirstIsFirst DEF First
<1>3. Last(n) \in CodeOf(n) /\ \A j \in CodeOf(n) : j <= Last(n)
  BY <1>1, LastIsLast DEF Last
<1>4. First(n) \in 1 .. Len(f.code) /\ Last(n) \in 1 .. Len(f.code)
  BY <1>1, <1>2, <1>3
<1>5. ASSUME NEW i \in First(n) .. Last(n) PROVE i \in CodeOf(n)
  <2>1. i \in Code
    BY <1>1, <1>4
  <2>2. f.code[First(n)].node = n /\ f.code[Last(n)].node = n
    BY <1>2, <1>3 DEF CodeOf
  <2>3. i = First(n) \/ i = Last(n) \/ (First(n) < i /\ i < Last(n))
    BY <1>4
  <2>4. ASSUME First(n) < i, i < Last(n) PROVE f.code[i].node = n
    <3>1. First(n) \in DOMAIN f.code /\ Last(n) \in DOMAIN f.code /\ i \in DOMAIN f.code
      BY <1>1, <1>4, <2>1 DEF Code
    <3>2. \A j, k \in DOMAIN f.code : j < k => f.code[j].node <= f.code[k].node
      BY DEF IsFunction
    <3>3. n <= f.code[i].node /\ f.code[i].node <= n
      BY <2>2, <2>4, <3>1, <3>2
    <3>4. n \in Nat /\ f.code[i].node \in Nat
      BY <2>1 DEF IsFunction, Code, Nodes
    <3> QED BY <3>3, <3>4
  <2>5. f.code[i].node = n
    BY <2>2, <2>3, <2>4
  <2> QED BY <2>1, <2>5 DEF CodeOf
<1>6. ASSUME NEW i \in CodeOf(n) PROVE i \in First(n) .. Last(n)
  <2>1. i \in 1 .. Len(f.code)
    BY <1>1
  <2> QED BY <1>2, <1>3, <1>4, <2>1
<1>7. CodeOf(n) = First(n) .. Last(n)
  BY <1>5, <1>6
<1>8. First(n) <= Last(n)
  BY <1>2, <1>3
<1> QED BY <1>4, <1>7, <1>8

-----------------------------------------------------------------------------
(***************************************************************************)
(* Walking a block.  There are values that satisfy the recursive           *)
(* definition, from the last instruction of the function to the first; so  *)
(* LiveAfter does, and its values are sets of variables.                   *)
(***************************************************************************)
LEMMA StepTypes ==
  ASSUME IsFunction(f), NEW i \in Code, NEW live \in SUBSET Variables
  PROVE  /\ Begins(i, live) \subseteq Variables /\ Ends(i, live) \subseteq Variables
         /\ LiveAbove(i, live) \subseteq Variables
<1>1. f.code[i].uses \subseteq Variables
  BY DEF IsFunction, Code
<1>2. Begins(i, live) \subseteq Variables
  BY DEF Begins
<1>3. UsedBy(i, live) \subseteq Variables
  BY <1>1 DEF UsedBy
<1> QED BY <1>2, <1>3 DEF Ends, LiveAbove

LEMMA LiveExists ==
  ASSUME IsFunction(f), NEW n, NEW out \in SUBSET Variables
  PROVE  \E live \in [Code -> SUBSET Variables] :
           live = [i \in Code |-> IF i + 1 \in CodeOf(n) THEN LiveAbove(i + 1, live[i + 1]) ELSE out]
<1> DEFINE l == Len(f.code)
           value(live, i) == IF i + 1 \in CodeOf(n) THEN LiveAbove(i + 1, live[i + 1]) ELSE out
           S == {i \in 1 .. l : \E live \in [Code -> SUBSET Variables] :
                                  \A j \in i .. l : live[j] = value(live, j)}
<1>1. l \in Nat /\ Code = 1 .. l /\ CodeOf(n) \subseteq Code
  BY CodeIsOrdered
<1>2. ASSUME NEW i \in Code, NEW live \in [Code -> SUBSET Variables]
      PROVE  value(live, i) \in SUBSET Variables
  BY <1>1, <1>2, StepTypes
<1>3. CASE l = 0
  <2>1. Code = {}
    BY <1>1, <1>3
  <2> DEFINE none == [i \in Code |-> {}]
  <2>2. none \in [Code -> SUBSET Variables]
    BY <2>1
  <2>3. none = [i \in Code |-> value(none, i)]
    BY <2>1
  <2> QED BY <2>2, <2>3
<1>4. CASE l # 0
  <2>1. l \in S
    <3> DEFINE live == [i \in Code |-> out]
    <3>1. live \in [Code -> SUBSET Variables] /\ l \in 1 .. l /\ l \in Code
      BY <1>1, <1>4
    <3>2. l + 1 \notin Code
      BY <1>1
    <3>3. \A j \in l .. l : live[j] = value(live, j)
      BY <1>1, <3>1, <3>2
    <3> QED BY <3>1, <3>3
  <2>2. ASSUME NEW i \in 1 .. l, i + 1 \in S, i < l PROVE i \in S
    <3>1. PICK live \in [Code -> SUBSET Variables] : \A j \in (i + 1) .. l : live[j] = value(live, j)
      BY <2>2
    <3> DEFINE v == value(live, i)
               new == [live EXCEPT ![i] = v]
    <3>2. v \in SUBSET Variables /\ i \in Code
      BY <1>1, <1>2
    <3> HIDE DEF v
    <3>3. new \in [Code -> SUBSET Variables] /\ new[i] = v /\ \A j \in Code : j # i => new[j] = live[j]
      BY <3>2
    <3> HIDE DEF new
    <3>4. ASSUME NEW j \in i .. l PROVE new[j] = value(new, j)
      <4>1. j \in Int /\ i \in Int /\ i <= j /\ j <= l /\ j + 1 # i
        OBVIOUS
      <4>2. j + 1 \in CodeOf(n) => new[j + 1] = live[j + 1]
        BY <1>1, <3>3, <4>1
      <4>3. value(new, j) = value(live, j)
        BY <4>2
      <4>4. j = i \/ (j \in (i + 1) .. l /\ j # i /\ j \in Code)
        BY <1>1, <4>1
      <4> HIDE DEF value
      <4> QED BY <3>1, <3>3, <4>3, <4>4 DEF v
    <3> HIDE DEF value
    <3> QED BY <3>3, <3>4
  <2> HIDE DEF S, value
  <2>3. 1 .. l \subseteq S
    BY <1>1, <2>1, <2>2, Downward
  <2>4. PICK live \in [Code -> SUBSET Variables] : \A j \in 1 .. l : live[j] = value(live, j)
    <3>1. 1 \in S
      BY <1>1, <1>4, <2>3
    <3> QED BY <3>1 DEF S
  <2>5. live = [i \in Code |-> value(live, i)]
    BY <1>1, <2>4
  <2> QED BY <2>5 DEF value
<1> QED BY <1>3, <1>4

LEMMA LiveAfterEquation ==
  ASSUME IsFunction(f), NEW n, NEW out \in SUBSET Variables
  PROVE  LET live == LiveAfter(n, out) IN
         live = [i \in Code |-> IF i + 1 \in CodeOf(n) THEN LiveAbove(i + 1, live[i + 1]) ELSE out]
BY LiveExists DEF LiveAfter

IsWalk(n, out, live) ==
  /\ \A i \in CodeOf(n) : live[i] \in SUBSET Variables
  /\ live[Last(n)] = out
  /\ \A i \in CodeOf(n) : i < Last(n) =>
       i + 1 \in CodeOf(n) /\ live[i] = LiveAbove(i + 1, live[i + 1])

LEMMA LiveAfterIsWalk ==
  ASSUME IsFunction(f), NEW n \in Nodes, NEW out \in SUBSET Variables
  PROVE  IsWalk(n, out, LiveAfter(n, out))
<1> DEFINE live == LiveAfter(n, out)
           S == {i \in CodeOf(n) : live[i] \in SUBSET Variables}
<1>1. live = [i \in Code |-> IF i + 1 \in CodeOf(n) THEN LiveAbove(i + 1, live[i + 1]) ELSE out]
  BY LiveAfterEquation
<1>2. /\ First(n) \in Nat \ {0} /\ Last(n) \in Nat /\ First(n) <= Last(n)
      /\ CodeOf(n) = First(n) .. Last(n) /\ CodeOf(n) \subseteq Code /\ Code \subseteq Nat
  BY BlockIsInterval, CodeIsOrdered
<1> HIDE DEF live
<1>3. live[Last(n)] = out
  <2>1. Last(n) \in Code /\ Last(n) + 1 \notin CodeOf(n)
    BY <1>2
  <2> QED BY <1>1, <2>1
<1>4. ASSUME NEW i \in CodeOf(n), i < Last(n)
      PROVE  i + 1 \in CodeOf(n) /\ live[i] = LiveAbove(i + 1, live[i + 1])
  <2>1. i \in Code /\ i + 1 \in CodeOf(n)
    BY <1>2, <1>4
  <2> QED BY <1>1, <2>1
<1>5. First(n) .. Last(n) \subseteq S
  <2>1. Last(n) \in S
    BY <1>2, <1>3
  <2>2. ASSUME NEW i \in First(n) .. Last(n), i + 1 \in S, i < Last(n) PROVE i \in S
    <3>1. i \in CodeOf(n) /\ i + 1 \in Code
      BY <1>2, <2>2
    <3> QED BY <1>4, <2>2, <3>1, StepTypes
  <2> HIDE DEF S
  <2> QED BY <1>2, <2>1, <2>2, Downward
<1>6. \A i \in CodeOf(n) : live[i] \in SUBSET Variables
  BY <1>2, <1>5
<1> QED BY <1>3, <1>4, <1>6 DEF live, IsWalk

(***************************************************************************)
(* A variable that is live below the block, and ends in it, begins again   *)
(* behind its end.                                                         *)
(***************************************************************************)
LEMMA EndsBeforeBegins ==
  ASSUME IsFunction(f), NEW n \in Nodes, NEW out, NEW live, IsWalk(n, out, live),
         NEW i \in CodeOf(n), NEW v \in Ends(i, live[i]), v \in out
  PROVE  \E b \in CodeOf(n) : i < b /\ v \in Begins(b, live[b])
<1> SUFFICES ASSUME \A b \in CodeOf(n) : i < b => v \notin Begins(b, live[b]) PROVE FALSE
  OBVIOUS
<1> DEFINE S == {j \in CodeOf(n) : v \in live[j]}
<1>1. /\ Last(n) \in Nat /\ First(n) \in Nat /\ i \in First(n) .. Last(n) /\ i \in Nat
      /\ CodeOf(n) = First(n) .. Last(n) /\ CodeOf(n) \subseteq Code /\ Last(n) \in CodeOf(n)
  BY BlockIsInterval, CodeIsOrdered
<1>2. Last(n) \in S
  BY <1>1 DEF IsWalk
<1>3. ASSUME NEW j \in i .. Last(n), j + 1 \in S, j < Last(n) PROVE j \in S
  <2>1. j \in CodeOf(n) /\ j + 1 \in CodeOf(n) /\ i < j + 1
    BY <1>1, <1>3
  <2>2. v \in live[j + 1] /\ v \notin Begins(j + 1, live[j + 1])
    BY <1>3, <2>1
  <2>3. live[j] = LiveAbove(j + 1, live[j + 1])
    BY <1>3, <2>1 DEF IsWalk
  <2>4. v \in live[j]
    BY <2>2, <2>3 DEF LiveAbove
  <2> QED BY <2>1, <2>4
<1> HIDE DEF S
<1>4. i .. Last(n) \subseteq S
  BY <1>1, <1>2, <1>3, Downward
<1>5. v \in live[i]
  BY <1>1, <1>4 DEF S
<1>6. v \in Begins(i, live[i]) /\ v \in UsedBy(i, live[i])
  BY <1>5 DEF Ends
<1>7. ~f.code[i].redefined /\ f.code[i].dest = v /\ f.code[i].from = <<>> /\ v \in f.code[i].uses
  BY <1>6 DEF Begins, UsedBy, IsPhi
<1>8. i \in DOMAIN f.code
  BY <1>1 DEF Code
<1>9. IF HasPhis(f) THEN i < i ELSE i # i
  BY <1>7, <1>8 DEF IsFunction
<1> QED BY <1>1, <1>9

(***************************************************************************)
(* While there are phis, a variable that is defined in a block is not live *)
(* above it.                                                               *)
(***************************************************************************)
LEMMA DefinedIsNotAbove ==
  ASSUME IsFunction(f), HasPhis(f), NEW n \in Nodes, NEW out, NEW live, IsWalk(n, out, live),
         NEW i \in CodeOf(n), ~f.code[i].redefined
  PROVE  f.code[i].dest \notin LiveAbove(First(n), live[First(n)])
<1> DEFINE v == f.code[i].dest
           S == {j \in CodeOf(n) : v \notin LiveAbove(j, live[j])}
<1>1. /\ Last(n) \in Nat /\ First(n) \in Nat /\ i \in First(n) .. Last(n) /\ i \in Nat
      /\ CodeOf(n) = First(n) .. Last(n) /\ CodeOf(n) \subseteq Code /\ First(n) \in CodeOf(n)
  BY BlockIsInterval, CodeIsOrdered
<1>2. ASSUME NEW j \in CodeOf(n), j <= i PROVE v \notin UsedBy(j, live[j])
  <2>1. i \in DOMAIN f.code /\ j \in DOMAIN f.code /\ f.code[i].node = f.code[j].node
    BY <1>1 DEF Code, CodeOf
  <2>2. j \in Nat /\ ~(i < j)
    BY <1>1, <1>2
  <2>3. ~(f.code[j].from = <<>> /\ v \in f.code[j].uses)
    BY <2>1, <2>2 DEF IsFunction
  <2> QED BY <2>3 DEF UsedBy, IsPhi
<1>3. i \in S
  <2>1. v \notin live[i] \ Begins(i, live[i])
    BY DEF Begins
  <2> QED BY <1>1, <1>2, <2>1 DEF LiveAbove
<1>4. ASSUME NEW j \in First(n) .. i, j + 1 \in S, j < i PROVE j \in S
  <2>1. j \in CodeOf(n) /\ j < Last(n) /\ j <= i
    BY <1>1, <1>4
  <2>2. v \notin live[j]
    BY <1>4, <2>1 DEF IsWalk
  <2>3. v \notin LiveAbove(j, live[j])
    BY <1>2, <2>1, <2>2 DEF LiveAbove
  <2> QED BY <2>1, <2>3
<1> HIDE DEF S, v
<1>5. First(n) .. i \subseteq S
  BY <1>1, <1>3, <1>4, Downward
<1>6. First(n) \in S
  BY <1>1, <1>5
<1> QED BY <1>6 DEF S, v

(***************************************************************************)
(* A variable that is live above the block, and begins in it, ends in it.  *)
(***************************************************************************)
LEMMA BeginsAfterEnds ==
  ASSUME IsFunction(f), NEW n \in Nodes, NEW out, NEW live, IsWalk(n, out, live),
         NEW i \in CodeOf(n), NEW v \in Begins(i, live[i]),
         v \in LiveAbove(First(n), live[First(n)])
  PROVE  \E j \in CodeOf(n) : v \in Ends(j, live[j])
<1> SUFFICES ASSUME \A j \in CodeOf(n) : v \notin Ends(j, live[j]) PROVE FALSE
  OBVIOUS
<1> DEFINE S == {j \in CodeOf(n) : v \notin LiveAbove(j, live[j])}
<1>1. /\ Last(n) \in Nat /\ First(n) \in Nat /\ i \in First(n) .. Last(n) /\ i \in Nat
      /\ CodeOf(n) = First(n) .. Last(n) /\ CodeOf(n) \subseteq Code /\ First(n) \in CodeOf(n)
  BY BlockIsInterval, CodeIsOrdered
<1>2. i \in S
  <2>1. v \notin UsedBy(i, live[i])
    BY DEF Ends
  <2> QED BY <2>1 DEF LiveAbove
<1>3. ASSUME NEW j \in First(n) .. i, j + 1 \in S, j < i PROVE j \in S
  <2>1. j \in CodeOf(n) /\ j < Last(n)
    BY <1>1, <1>3
  <2>2. v \notin live[j]
    BY <1>3, <2>1 DEF IsWalk
  <2>3. v \notin UsedBy(j, live[j])
    BY <2>1, <2>2 DEF Ends
  <2> QED BY <2>1, <2>2, <2>3 DEF LiveAbove
<1> HIDE DEF S
<1>4. First(n) .. i \subseteq S
  BY <1>1, <1>2, <1>3, Downward
<1>5. First(n) \in S
  BY <1>1, <1>4
<1> QED BY <1>5 DEF S

(***************************************************************************)
(* The more is live below the block, the more is live above it.            *)
(***************************************************************************)
LEMMA WalkIsMonotonic ==
  ASSUME IsFunction(f), NEW n \in Nodes, NEW out1, NEW out2, out1 \subseteq out2,
         NEW live1, IsWalk(n, out1, live1), NEW live2, IsWalk(n, out2, live2)
  PROVE  LiveAbove(First(n), live1[First(n)]) \subseteq LiveAbove(First(n), live2[First(n)])
<1> DEFINE S == {j \in CodeOf(n) : live1[j] \subseteq live2[j]}
<1>1. /\ Last(n) \in Nat /\ First(n) \in Nat /\ First(n) <= Last(n)
      /\ CodeOf(n) = First(n) .. Last(n) /\ First(n) \in CodeOf(n) /\ Last(n) \in CodeOf(n)
  BY BlockIsInterval
<1>2. ASSUME NEW j, NEW A, NEW B, A \subseteq B PROVE LiveAbove(j, A) \subseteq LiveAbove(j, B)
  <2>1. IsDead(j, B) => IsDead(j, A)
    BY <1>2 DEF IsDead
  <2>2. UsedBy(j, A) \subseteq UsedBy(j, B)
    BY <2>1 DEF UsedBy
  <2>3. A \ Begins(j, A) \subseteq B \ Begins(j, B)
    BY <1>2 DEF Begins
  <2> QED BY <2>2, <2>3 DEF LiveAbove
<1>3. Last(n) \in S
  BY <1>1 DEF IsWalk
<1>4. ASSUME NEW j \in First(n) .. Last(n), j + 1 \in S, j < Last(n) PROVE j \in S
  <2>1. j \in CodeOf(n)
    BY <1>1
  <2>2. live1[j] = LiveAbove(j + 1, live1[j + 1]) /\ live2[j] = LiveAbove(j + 1, live2[j + 1])
    BY <1>4, <2>1 DEF IsWalk
  <2>3. live1[j] \subseteq live2[j]
    BY <1>2, <1>4, <2>2
  <2> QED BY <2>1, <2>3
<1> HIDE DEF S
<1>5. First(n) .. Last(n) \subseteq S
  BY <1>1, <1>3, <1>4, Downward
<1>6. live1[First(n)] \subseteq live2[First(n)]
  BY <1>1, <1>5 DEF S
<1> QED BY <1>2, <1>6

-----------------------------------------------------------------------------
(***************************************************************************)
(* The inductive invariant.                                                *)
(***************************************************************************)
TypesOfAnalysis ==
  /\ IsFunction(f)
  /\ pc \in {"solve", "final", "done", "fatal"}
  /\ at \in 0 .. f.nodes + 1
  /\ NeedToProcess \subseteq Nodes
  /\ LiveIn \in [Nodes -> SUBSET Globals]
  /\ LiveOut \in [Nodes -> SUBSET Globals]
  /\ NumNonDeadPhis \in [Nodes -> 0 .. Len(f.code)]
  /\ Dead \subseteq Code
  /\ LiveBegin \in [Nodes -> SUBSET (Variables \X (NumberInitial .. Number(Len(f.code))))]
  /\ LiveEnd \in [Nodes -> SUBSET (Variables \X (NumberInitial .. Number(Len(f.code))))]
  /\ Deleted \subseteq Code
  /\ DOMAIN LiveRange = Variables

(***************************************************************************)
(* What a visit of n leaves behind.  Ranges begin at what is kept, and end *)
(* at what is kept and not a phi.  A variable that ends and is live out    *)
(* begins later; one that begins and is live in ends.                      *)
(***************************************************************************)
KeptOf(n) == CodeOf(n) \ Dead
BeginsAtKept(n) ==
  \A e \in LiveBegin[n] : \E i \in KeptOf(n) : e[2] = NumberAt(i)
EndsAtKept(n) ==
  \A e \in LiveEnd[n] : \E i \in KeptOf(n) \ Phis(n) : e[2] = Number(i)
BeginsAgain(n) ==
  \A e \in LiveEnd[n] : e[1] \in LiveOut[n] => \E b \in LiveBegin[n] : b[1] = e[1] /\ e[2] < b[2]
EndsToo(n) ==
  \A b \in LiveBegin[n] : b[1] \in LiveIn[n] => \E e \in LiveEnd[n] : e[1] = b[1]

(***************************************************************************)
(* LiveIn only grows.  That it has nothing which the last visit did not    *)
(* find is clear without phis, as then all sets only grow; with phis it    *)
(* can have more, but nothing that begins in the node.                     *)
(***************************************************************************)
LiveAboveBlock(n, out) == LiveAbove(First(n), LiveAfter(n, out)[First(n)])
LiveInIsClean ==
  /\ HasPhis(f) => \A n \in Nodes : \A i \in CodeOf(n) :
                     f.code[i].redefined \/ f.code[i].dest \notin LiveIn[n]
  /\ ~HasPhis(f) => \A n \in Nodes : LiveIn[n] \subseteq LiveAboveBlock(n, LiveAtEnd(n))

(***************************************************************************)
(* All phis kept of n begin at the number of the first.                    *)
(***************************************************************************)
PhiNumber(n) == Number(FirstOf(Phis(n)))
PhisBegin(n) == \A i \in Phis(n) \ Dead : <<f.code[i].dest, PhiNumber(n)>> \in LiveBegin[n]
Covers(range, q) == \E k \in DOMAIN range : range[k][1] <= q /\ q < range[k][2]
PhisInRange(n) == \A i \in Phis(n) \ Dead : Covers(LiveRange[f.code[i].dest], PhiNumber(n))

NodesAreConsistent ==
  /\ \A i \in Dead : f.code[i].dest # None
  /\ \A n \in Nodes : BeginsAtKept(n) /\ EndsAtKept(n) /\ BeginsAgain(n) /\ EndsToo(n)
  /\ \A n \in Nodes \ NeedToProcess : PhisBegin(n)

(***************************************************************************)
(* The ranges, of which the final pass adds those in one node after those  *)
(* in another.                                                             *)
(***************************************************************************)
EndsBefore(range, n) ==
  /\ n = 1 => range = <<>>
  /\ \A k \in DOMAIN range : \A i \in Code : n <= f.code[i].node => range[k][2] <= Number(i)
RangesGrow ==
  /\ RangesAreOrdered
  /\ pc = "solve" => \A v \in Variables : LiveRange[v] = <<>>
  /\ pc = "final" => /\ NeedToProcess = {} /\ at < f.nodes
                     /\ \A v \in Variables : EndsBefore(LiveRange[v], at + 1)
  /\ pc = "done" => at = f.nodes
  /\ pc \in {"final", "done"} =>
       \A n \in 1 .. at : PhisInRange(n) /\ Dead \cap CodeOf(n) \subseteq Deleted

IInv == TypesOfAnalysis /\ NodesAreConsistent /\ LiveInIsClean /\ RangesGrow

-----------------------------------------------------------------------------
(***************************************************************************)
(* A visit.                                                                *)
(***************************************************************************)
LEMMA LiveAtEndIsGlobal ==
  ASSUME TypesOfAnalysis, NEW n \in Nodes
  PROVE  LiveAtEnd(n) \subseteq Globals /\ Globals \subseteq Variables
<1>1. ASSUME NEW s \in f.succ[n] PROVE LiveIn[s] \subseteq Globals
  <2>1. s \in Nodes
    BY DEF TypesOfAnalysis, IsFunction, Nodes
  <2> QED BY <2>1 DEF TypesOfAnalysis
<1>2. ASSUME NEW s \in f.succ[n], NEW i \in Phis(s), f.code[i].from[n] # None
      PROVE  f.code[i].from[n] \in Globals
  <2>1. i \in DOMAIN f.code /\ f.code[i].node = s /\ IsPhi(i)
    BY DEF Phis, CodeOf, Code
  <2>2. f.code[i].from[n] \in f.code[i].uses /\ f.code[i].uses \subseteq Variables
    BY <1>2, <2>1 DEF TypesOfAnalysis, IsFunction, Nodes, IsPhi
  <2> QED BY <2>1, <2>2 DEF Globals, Mentions, Code
<1>3. PhiOperands(n) \subseteq Globals
  BY <1>2 DEF PhiOperands
<1>4. UNION {LiveIn[s] : s \in f.succ[n]} \subseteq Globals
  BY <1>1
<1>5. Globals \subseteq Variables
  BY DEF Globals
<1> QED BY <1>3, <1>4, <1>5 DEF LiveAtEnd

LEMMA VisitFacts ==
  ASSUME TypesOfAnalysis, NEW n \in Nodes, Visit(n)
  PROVE  \E live, dead :
           /\ live = LiveAfter(n, LiveAtEnd(n))
           /\ IsWalk(n, LiveAtEnd(n), live)
           /\ dead = {i \in CodeOf(n) : IsDead(i, live[i])}
           /\ pc = "solve" /\ pc' \in {"solve", "fatal"} /\ at' = n
           /\ LiveIn' = [LiveIn EXCEPT ![n] =
                LiveIn[n] \cup (LiveAbove(First(n), live[First(n)]) \cap Globals)]
           /\ LiveOut' = [LiveOut EXCEPT ![n] = LiveAtEnd(n)]
           /\ Dead' = (Dead \ CodeOf(n)) \cup dead
           /\ LiveBegin' = [LiveBegin EXCEPT ![n] =
                UNION {Begins(i, live[i]) \X {NumberAt(i)} : i \in CodeOf(n)}]
           /\ LiveEnd' = [LiveEnd EXCEPT ![n] =
                UNION {Ends(i, live[i]) \X {NumberAt(i)} : i \in CodeOf(n)}]
           /\ NumNonDeadPhis' = [NumNonDeadPhis EXCEPT ![n] = Cardinality(Phis(n) \ dead)]
           /\ n \in NeedToProcess
           /\ NeedToProcess \ {n} \subseteq NeedToProcess' /\ NeedToProcess' \subseteq Nodes
           /\ f' = f /\ LiveRange' = LiveRange /\ Deleted' = Deleted
<1> DEFINE live == LiveAfter(n, LiveAtEnd(n))
           dead == {i \in CodeOf(n) : IsDead(i, live[i])}
<1>1. IsWalk(n, LiveAtEnd(n), live)
  <2>1. LiveAtEnd(n) \in SUBSET Variables
    BY LiveAtEndIsGlobal
  <2> QED BY <2>1, LiveAfterIsWalk DEF TypesOfAnalysis
<1>2. /\ LiveIn' = [LiveIn EXCEPT ![n] =
           LiveIn[n] \cup (LiveAbove(First(n), live[First(n)]) \cap Globals)]
      /\ LiveOut' = [LiveOut EXCEPT ![n] = LiveAtEnd(n)]
      /\ Dead' = (Dead \ CodeOf(n)) \cup dead
      /\ LiveBegin' = [LiveBegin EXCEPT ![n] =
           UNION {Begins(i, live[i]) \X {NumberAt(i)} : i \in CodeOf(n)}]
      /\ LiveEnd' = [LiveEnd EXCEPT ![n] =
           UNION {Ends(i, live[i]) \X {NumberAt(i)} : i \in CodeOf(n)}]
      /\ NumNonDeadPhis' = [NumNonDeadPhis EXCEPT ![n] = Cardinality(Phis(n) \ dead)]
  BY DEF Visit, First
<1>3. /\ pc = "solve" /\ pc' \in {"solve", "fatal"} /\ at' = n
      /\ NeedToProcess \ {n} \subseteq NeedToProcess'
      /\ f' = f /\ LiveRange' = LiveRange /\ Deleted' = Deleted
  BY DEF Visit
<1>4. n \in NeedToProcess
  BY DEF Visit, IsNext
<1>5. NeedToProcess' \subseteq Nodes
  <2>1. NeedToProcess' \subseteq NeedToProcess \cup InEdges(n)
    BY DEF Visit
  <2> QED BY <2>1 DEF TypesOfAnalysis, InEdges
<1> QED BY <1>1, <1>2, <1>3, <1>4, <1>5

LEMMA NotPhiNumber ==
  ASSUME NEW n, NEW i \in CodeOf(n) \ Phis(n)
  PROVE  NumberAt(i) = Number(i)
BY DEF NumberAt, Phis

LEMMA PhiNumberAt ==
  ASSUME NEW n, NEW i \in Phis(n)
  PROVE  NumberAt(i) = PhiNumber(n)
BY DEF NumberAt, Phis, CodeOf, PhiNumber

(***************************************************************************)
(* A number at which something of n begins or ends is one of n's.          *)
(***************************************************************************)
LEMMA NumberAtFacts ==
  ASSUME IsFunction(f), NEW n \in Nodes, NEW i \in CodeOf(n)
  PROVE  /\ NumberAt(i) \in Number(First(n)) .. Number(i)
         /\ Number(First(n)) = First(n) + 1 /\ Number(i) = i + 1 /\ i \in Nat
         /\ NumberAt(i) \in NumberInitial .. Number(Len(f.code))
<1>1. /\ Len(f.code) \in Nat /\ Code = 1 .. Len(f.code) /\ Phis(n) \subseteq CodeOf(n)
      /\ CodeOf(n) \subseteq Code
  BY CodeIsOrdered
<1>2. /\ First(n) \in Nat \ {0} /\ \A j \in CodeOf(n) : First(n) <= j /\ j \in 1 .. Len(f.code)
  BY <1>1, BlockIsInterval
<1>3. \A j \in Nat : Number(j) = j + 1
  BY DEF Number, NumberInitial
<1>4. Number(First(n)) = First(n) + 1 /\ Number(i) = i + 1 /\ i \in Nat
      /\ Number(Len(f.code)) = Len(f.code) + 1
  <2>1. First(n) \in Nat /\ i \in Nat /\ Len(f.code) \in Nat
    BY <1>1, <1>2
  <2> QED BY <1>3, <2>1
<1>5. CASE i \in Phis(n)
  <2> DEFINE p == FirstOf(Phis(n))
  <2>1. Phis(n) \in SUBSET Nat /\ Phis(n) # {}
    BY <1>1, <1>5
  <2>2. p \in Phis(n) /\ p <= i
    BY <1>5, <2>1, FirstIsFirst
  <2> HIDE DEF p
  <2>3. NumberAt(i) = Number(p)
    BY <1>5, PhiNumberAt DEF PhiNumber, p
  <2>4. p \in Nat /\ First(n) <= p
    BY <1>1, <1>2, <2>2
  <2>5. NumberAt(i) = p + 1
    BY <1>3, <2>3, <2>4
  <2> QED BY <1>1, <1>2, <1>4, <2>2, <2>4, <2>5 DEF NumberInitial
<1>6. CASE i \notin Phis(n)
  <2>1. NumberAt(i) = i + 1
    BY <1>4, <1>6, NotPhiNumber
  <2> QED BY <1>1, <1>2, <1>4, <2>1 DEF NumberInitial
<1> QED BY <1>4, <1>5, <1>6

LEMMA VisitKeepsTypes ==
  ASSUME TypesOfAnalysis, NEW n \in Nodes, Visit(n)
  PROVE  TypesOfAnalysis'
<1>1. PICK live, dead :
        /\ IsWalk(n, LiveAtEnd(n), live)
        /\ dead = {i \in CodeOf(n) : IsDead(i, live[i])}
        /\ pc' \in {"solve", "fatal"} /\ at' = n
        /\ LiveIn' = [LiveIn EXCEPT ![n] =
             LiveIn[n] \cup (LiveAbove(First(n), live[First(n)]) \cap Globals)]
        /\ LiveOut' = [LiveOut EXCEPT ![n] = LiveAtEnd(n)]
        /\ Dead' = (Dead \ CodeOf(n)) \cup dead
        /\ LiveBegin' = [LiveBegin EXCEPT ![n] =
             UNION {Begins(i, live[i]) \X {NumberAt(i)} : i \in CodeOf(n)}]
        /\ LiveEnd' = [LiveEnd EXCEPT ![n] =
             UNION {Ends(i, live[i]) \X {NumberAt(i)} : i \in CodeOf(n)}]
        /\ NumNonDeadPhis' = [NumNonDeadPhis EXCEPT ![n] = Cardinality(Phis(n) \ dead)]
        /\ NeedToProcess' \subseteq Nodes
        /\ f' = f /\ LiveRange' = LiveRange /\ Deleted' = Deleted
  BY VisitFacts
<1>2. /\ IsFunction(f) /\ IsFunction(f)'
      /\ Nodes' = Nodes /\ Code' = Code /\ Globals' = Globals
      /\ Number(Len(f.code))' = Number(Len(f.code))
  <2>1. f' = f
    BY <1>1
  <2>2. Nodes' = Nodes /\ Code' = Code /\ Number(Len(f.code))' = Number(Len(f.code))
    BY <2>1 DEF Nodes, Code, Number
  <2>3. Globals' = Globals
    BY <2>1 DEF Globals, Code, IsArg, Mentions, IsPhi
  <2>4. IsFunction(f) /\ IsFunction(f)'
    BY <2>1 DEF TypesOfAnalysis
  <2> QED BY <2>2, <2>3, <2>4
<1>3. at' \in 0 .. f'.nodes + 1
  BY <1>1, CodeIsOrdered DEF TypesOfAnalysis, Nodes
<1>4. LiveIn' \in [Nodes -> SUBSET Globals]
  BY <1>1 DEF TypesOfAnalysis
<1>5. LiveOut' \in [Nodes -> SUBSET Globals]
  BY <1>1, LiveAtEndIsGlobal DEF TypesOfAnalysis
<1>6. NumNonDeadPhis' \in [Nodes -> 0 .. Len(f.code)]
  <2> DEFINE P == Phis(n) \ dead
             l == Len(f.code)
  <2>1. l \in Nat /\ P \in SUBSET (1 .. l)
    BY <1>2, CodeIsOrdered
  <2>2. IsFiniteSet(1 .. l) /\ Cardinality(1 .. l) = l
    BY <2>1, FS_Interval
  <2> HIDE DEF P, l
  <2>3. Cardinality(P) \in Nat /\ Cardinality(P) <= l
    BY <2>1, <2>2, FS_Subset, FS_CardinalityType
  <2>4. Cardinality(P) \in 0 .. l
    BY <2>1, <2>3
  <2> QED BY <1>1, <2>4 DEF TypesOfAnalysis, P, l
<1>7. Dead' \subseteq Code
  BY <1>1, <1>2, CodeIsOrdered DEF TypesOfAnalysis
<1> DEFINE Pair == Variables \X (NumberInitial .. Number(Len(f.code)))
<1>8. ASSUME NEW i \in CodeOf(n)
      PROVE  /\ Begins(i, live[i]) \subseteq Variables /\ Ends(i, live[i]) \subseteq Variables
             /\ NumberAt(i) \in NumberInitial .. Number(Len(f.code))
  <2>1. live[i] \in SUBSET Variables /\ i \in Code
    BY <1>1, <1>2, CodeIsOrdered DEF IsWalk
  <2> QED BY <1>2, <2>1, StepTypes, NumberAtFacts
<1>9. /\ UNION {Begins(i, live[i]) \X {NumberAt(i)} : i \in CodeOf(n)} \in SUBSET Pair
      /\ UNION {Ends(i, live[i]) \X {NumberAt(i)} : i \in CodeOf(n)} \in SUBSET Pair
  BY <1>8
<1>10. LiveBegin' \in [Nodes -> SUBSET Pair] /\ LiveEnd' \in [Nodes -> SUBSET Pair]
  <2> HIDE DEF Pair
  <2> QED BY <1>1, <1>9 DEF TypesOfAnalysis, Pair
<1> QED BY <1>1, <1>2, <1>3, <1>4, <1>5, <1>6, <1>7, <1>10 DEF TypesOfAnalysis

(***************************************************************************)
(* What the operators that only depend on f are after a step.              *)
(***************************************************************************)
LEMMA FunctionStays ==
  ASSUME f' = f
  PROVE  /\ Nodes' = Nodes /\ Code' = Code
         /\ \A n : /\ CodeOf(n)' = CodeOf(n) /\ Phis(n)' = Phis(n) /\ PhiNumber(n)' = PhiNumber(n)
                   /\ First(n)' = First(n) /\ Last(n)' = Last(n)
         /\ \A i : NumberAt(i)' = NumberAt(i) /\ Number(i)' = Number(i)
         /\ (HasPhis(f)' <=> HasPhis(f))
BY DEF Nodes, Code, CodeOf, Phis, IsPhi, PhiNumber, First, Last, NumberAt, Number, HasPhis

LEMMA VisitKeepsOthers ==
  ASSUME TypesOfAnalysis, NodesAreConsistent, NEW n \in Nodes, Visit(n), NEW m \in Nodes, m # n
  PROVE  /\ BeginsAtKept(m)' /\ EndsAtKept(m)' /\ BeginsAgain(m)' /\ EndsToo(m)'
         /\ m \notin NeedToProcess' => PhisBegin(m)'
<1>1. /\ Dead' \ CodeOf(n) = Dead \ CodeOf(n) /\ f' = f
      /\ LiveIn'[m] = LiveIn[m] /\ LiveOut'[m] = LiveOut[m]
      /\ LiveBegin'[m] = LiveBegin[m] /\ LiveEnd'[m] = LiveEnd[m]
      /\ m \notin NeedToProcess' => m \notin NeedToProcess
  <2>1. PICK in, out : LiveIn' = [LiveIn EXCEPT ![n] = in] /\ LiveOut' = [LiveOut EXCEPT ![n] = out]
    BY DEF Visit
  <2>2. PICK begins, ends :
          LiveBegin' = [LiveBegin EXCEPT ![n] = begins] /\ LiveEnd' = [LiveEnd EXCEPT ![n] = ends]
    BY DEF Visit
  <2>3. DOMAIN LiveIn = Nodes /\ DOMAIN LiveOut = Nodes /\ DOMAIN LiveBegin = Nodes /\ DOMAIN LiveEnd = Nodes
    BY DEF TypesOfAnalysis
  <2>4. Dead' \ CodeOf(n) = Dead \ CodeOf(n)
    BY DEF Visit
  <2>5. NeedToProcess \ {n} \subseteq NeedToProcess' /\ f' = f
    BY DEF Visit
  <2> QED BY <2>1, <2>2, <2>3, <2>4, <2>5
<1>2. CodeOf(m) \cap CodeOf(n) = {} /\ Phis(m) \subseteq CodeOf(m)
  BY DEF CodeOf, Phis
<1>3. KeptOf(m)' = KeptOf(m) /\ (Phis(m) \ Dead)' = Phis(m) \ Dead
  <2>1. CodeOf(m) \ Dead' = CodeOf(m) \ Dead /\ Phis(m) \ Dead' = Phis(m) \ Dead
    BY <1>1, <1>2
  <2> QED BY <1>1, <2>1, FunctionStays DEF KeptOf
<1>4. BeginsAtKept(m)' /\ EndsAtKept(m)' /\ BeginsAgain(m)' /\ EndsToo(m)'
  BY <1>1, <1>3, FunctionStays DEF NodesAreConsistent, BeginsAtKept, EndsAtKept, BeginsAgain, EndsToo
<1>5. ASSUME m \notin NeedToProcess' PROVE PhisBegin(m)'
  BY <1>1, <1>3, <1>5, FunctionStays DEF NodesAreConsistent, PhisBegin
<1> QED BY <1>4, <1>5

(***************************************************************************)
(* The node visited.                                                       *)
(***************************************************************************)
LEMMA VisitedFacts ==
  ASSUME TypesOfAnalysis, NEW n \in Nodes, Visit(n)
  PROVE  \E live :
           /\ live = LiveAfter(n, LiveAtEnd(n))
           /\ IsWalk(n, LiveAtEnd(n), live)
           /\ f' = f /\ LiveOut'[n] = LiveAtEnd(n)
           /\ LiveIn'[n] = LiveIn[n] \cup (LiveAbove(First(n), live[First(n)]) \cap Globals)
           /\ \A e : e \in LiveBegin'[n] <=>
                \E i \in CodeOf(n) : \E v \in Begins(i, live[i]) : e = <<v, NumberAt(i)>>
           /\ \A e : e \in LiveEnd'[n] <=>
                \E i \in CodeOf(n) : \E v \in Ends(i, live[i]) : e = <<v, NumberAt(i)>>
           /\ \A i \in CodeOf(n) : i \in Dead' <=> IsDead(i, live[i])
<1>1. PICK live, dead :
        /\ live = LiveAfter(n, LiveAtEnd(n))
        /\ IsWalk(n, LiveAtEnd(n), live)
        /\ dead = {i \in CodeOf(n) : IsDead(i, live[i])}
        /\ LiveIn' = [LiveIn EXCEPT ![n] =
             LiveIn[n] \cup (LiveAbove(First(n), live[First(n)]) \cap Globals)]
        /\ LiveOut' = [LiveOut EXCEPT ![n] = LiveAtEnd(n)]
        /\ Dead' = (Dead \ CodeOf(n)) \cup dead
        /\ LiveBegin' = [LiveBegin EXCEPT ![n] =
             UNION {Begins(i, live[i]) \X {NumberAt(i)} : i \in CodeOf(n)}]
        /\ LiveEnd' = [LiveEnd EXCEPT ![n] =
             UNION {Ends(i, live[i]) \X {NumberAt(i)} : i \in CodeOf(n)}]
        /\ f' = f
  BY VisitFacts
<1>2. DOMAIN LiveIn = Nodes /\ DOMAIN LiveOut = Nodes /\ DOMAIN LiveBegin = Nodes /\ DOMAIN LiveEnd = Nodes
  BY DEF TypesOfAnalysis
<1>3. /\ LiveOut'[n] = LiveAtEnd(n)
      /\ LiveIn'[n] = LiveIn[n] \cup (LiveAbove(First(n), live[First(n)]) \cap Globals)
      /\ LiveBegin'[n] = UNION {Begins(i, live[i]) \X {NumberAt(i)} : i \in CodeOf(n)}
      /\ LiveEnd'[n] = UNION {Ends(i, live[i]) \X {NumberAt(i)} : i \in CodeOf(n)}
  BY <1>1, <1>2
<1>4. ASSUME NEW e
      PROVE  e \in LiveBegin'[n] <=>
               \E i \in CodeOf(n) : \E v \in Begins(i, live[i]) : e = <<v, NumberAt(i)>>
  BY <1>3
<1>5. ASSUME NEW e
      PROVE  e \in LiveEnd'[n] <=>
               \E i \in CodeOf(n) : \E v \in Ends(i, live[i]) : e = <<v, NumberAt(i)>>
  BY <1>3
<1>6. \A i \in CodeOf(n) : i \in Dead' <=> IsDead(i, live[i])
  BY <1>1
<1> QED BY <1>1, <1>3, <1>4, <1>5, <1>6

LEMMA VisitKeepsThis ==
  ASSUME TypesOfAnalysis, LiveInIsClean, NEW n \in Nodes, Visit(n)
  PROVE  BeginsAtKept(n)' /\ EndsAtKept(n)' /\ BeginsAgain(n)' /\ EndsToo(n)' /\ PhisBegin(n)'
<1>1. PICK live :
        /\ live = LiveAfter(n, LiveAtEnd(n))
        /\ IsWalk(n, LiveAtEnd(n), live)
        /\ f' = f /\ LiveOut'[n] = LiveAtEnd(n)
        /\ LiveIn'[n] = LiveIn[n] \cup (LiveAbove(First(n), live[First(n)]) \cap Globals)
        /\ \A e : e \in LiveBegin'[n] <=>
             \E i \in CodeOf(n) : \E v \in Begins(i, live[i]) : e = <<v, NumberAt(i)>>
        /\ \A e : e \in LiveEnd'[n] <=>
             \E i \in CodeOf(n) : \E v \in Ends(i, live[i]) : e = <<v, NumberAt(i)>>
        /\ \A i \in CodeOf(n) : i \in Dead' <=> IsDead(i, live[i])
  BY VisitedFacts
<1>2. /\ \A m : CodeOf(m)' = CodeOf(m) /\ Phis(m)' = Phis(m) /\ PhiNumber(m)' = PhiNumber(m)
      /\ \A i : NumberAt(i)' = NumberAt(i) /\ Number(i)' = Number(i)
  BY <1>1, FunctionStays
<1>3. IsFunction(f) /\ CodeOf(n) \subseteq Code /\ Phis(n) \subseteq CodeOf(n) /\ Code \subseteq Nat
      /\ \A i \in Phis(n), j \in CodeOf(n) \ Phis(n) : i < j
  BY CodeIsOrdered DEF TypesOfAnalysis
<1>4. BeginsAtKept(n)'
  <2> SUFFICES ASSUME NEW e \in LiveBegin'[n]
               PROVE  \E i \in KeptOf(n)' : e[2] = NumberAt(i)
    BY <1>2 DEF BeginsAtKept
  <2>1. PICK i, v : i \in CodeOf(n) /\ v \in Begins(i, live[i]) /\ e = <<v, NumberAt(i)>>
    BY <1>1
  <2>2. ~IsDead(i, live[i])
    BY <2>1 DEF Begins, IsDead
  <2> QED BY <1>1, <1>2, <2>1, <2>2 DEF KeptOf
<1>5. ASSUME NEW i \in CodeOf(n), NEW v \in Ends(i, live[i])
      PROVE  ~IsDead(i, live[i]) /\ i \notin Phis(n) /\ NumberAt(i) = Number(i)
  <2>1. ~IsDead(i, live[i]) /\ ~IsPhi(i)
    BY <1>5 DEF Ends, UsedBy
  <2>2. i \notin Phis(n)
    BY <2>1 DEF Phis
  <2> QED BY <2>1, <2>2, NotPhiNumber
<1>6. EndsAtKept(n)'
  <2> SUFFICES ASSUME NEW e \in LiveEnd'[n]
               PROVE  \E i \in KeptOf(n)' \ Phis(n) : e[2] = Number(i)
    BY <1>2 DEF EndsAtKept
  <2>1. PICK i, v : i \in CodeOf(n) /\ v \in Ends(i, live[i]) /\ e = <<v, NumberAt(i)>>
    BY <1>1
  <2> QED BY <1>1, <1>2, <1>5, <2>1 DEF KeptOf
<1>7. BeginsAgain(n)'
  <2> SUFFICES ASSUME NEW e \in LiveEnd'[n], e[1] \in LiveOut'[n]
               PROVE  \E b \in LiveBegin'[n] : b[1] = e[1] /\ e[2] < b[2]
    BY DEF BeginsAgain
  <2>1. PICK i, v : i \in CodeOf(n) /\ v \in Ends(i, live[i]) /\ e = <<v, NumberAt(i)>>
    BY <1>1
  <2>2. e[1] = v /\ e[2] = Number(i) /\ v \in LiveAtEnd(n) /\ i \notin Phis(n)
    BY <1>1, <1>5, <2>1
  <2>3. PICK j \in CodeOf(n) : i < j /\ v \in Begins(j, live[j])
    BY <1>1, <1>3, <2>1, <2>2, EndsBeforeBegins
  <2>4. i \in Nat /\ j \in Nat
    BY <1>3, <2>1, <2>3
  <2>5. j \notin Phis(n)
    BY <1>3, <2>1, <2>2, <2>3, <2>4
  <2>6. NumberAt(j) = Number(j) /\ Number(i) < Number(j)
    BY <2>3, <2>4, <2>5, NotPhiNumber DEF Number, NumberInitial
  <2>7. <<v, NumberAt(j)>> \in LiveBegin'[n]
    BY <1>1, <2>3
  <2>8. <<v, NumberAt(j)>>[1] = v /\ <<v, NumberAt(j)>>[2] = NumberAt(j)
    OBVIOUS
  <2> QED BY <2>2, <2>6, <2>7, <2>8
<1>8. EndsToo(n)'
  <2> SUFFICES ASSUME NEW b \in LiveBegin'[n], b[1] \in LiveIn'[n]
               PROVE  \E e \in LiveEnd'[n] : e[1] = b[1]
    BY DEF EndsToo
  <2>1. PICK i, v : i \in CodeOf(n) /\ v \in Begins(i, live[i]) /\ b = <<v, NumberAt(i)>>
    BY <1>1
  <2>2. b[1] = v /\ ~f.code[i].redefined /\ f.code[i].dest = v
    BY <2>1 DEF Begins
  <2>3. v \in LiveAbove(First(n), live[First(n)])
    <3>1. CASE HasPhis(f)
      <4>1. v \notin LiveIn[n]
        BY <2>1, <2>2, <3>1 DEF LiveInIsClean
      <4> QED BY <1>1, <2>2, <4>1
    <3>2. CASE ~HasPhis(f)
      <4>1. LiveIn[n] \subseteq LiveAbove(First(n), live[First(n)])
        BY <1>1, <3>2 DEF LiveInIsClean, LiveAboveBlock
      <4> QED BY <1>1, <2>2, <4>1
    <3> QED BY <3>1, <3>2
  <2>4. PICK j \in CodeOf(n) : v \in Ends(j, live[j])
    BY <1>1, <1>3, <2>1, <2>3, BeginsAfterEnds
  <2>5. <<v, NumberAt(j)>> \in LiveEnd'[n] /\ <<v, NumberAt(j)>>[1] = v
    BY <1>1, <2>4
  <2> QED BY <2>2, <2>5
<1>9. PhisBegin(n)'
  <2> SUFFICES ASSUME NEW i \in Phis(n), i \notin Dead'
               PROVE  <<f.code[i].dest, PhiNumber(n)>> \in LiveBegin'[n]
    BY <1>1, <1>2 DEF PhisBegin
  <2>1. i \in CodeOf(n) /\ i \in DOMAIN f.code /\ f.code[i].from # <<>>
    BY <1>3 DEF Phis, Code, IsPhi
  <2>2. f.code[i].dest # None /\ ~f.code[i].effect /\ ~f.code[i].redefined
    BY <1>3, <2>1 DEF IsFunction
  <2>3. ~IsDead(i, live[i])
    BY <1>1, <2>1
  <2>4. f.code[i].dest \in Begins(i, live[i])
    BY <2>2, <2>3 DEF Begins, IsDead
  <2>5. NumberAt(i) = PhiNumber(n)
    BY PhiNumberAt
  <2> QED BY <1>1, <2>1, <2>4, <2>5
<1> QED BY <1>4, <1>6, <1>7, <1>8, <1>9

LEMMA VisitKeepsNodes ==
  ASSUME TypesOfAnalysis, NodesAreConsistent, LiveInIsClean, NEW n \in Nodes, Visit(n)
  PROVE  NodesAreConsistent'
<1>1. Nodes' = Nodes /\ f' = f
  <2>1. f' = f
    BY VisitedFacts
  <2> QED BY <2>1, FunctionStays
<1>2. \A i \in Dead' : f'.code[i].dest # None
  <2>1. \A i \in CodeOf(n) : i \in Dead' => f.code[i].dest # None
    BY VisitedFacts DEF IsDead
  <2>2. Dead' \subseteq Dead \cup CodeOf(n)
    BY VisitFacts
  <2> QED BY <1>1, <2>1, <2>2 DEF NodesAreConsistent
<1>3. \A m \in Nodes : /\ BeginsAtKept(m)' /\ EndsAtKept(m)' /\ BeginsAgain(m)' /\ EndsToo(m)'
                       /\ m \notin NeedToProcess' => PhisBegin(m)'
  BY VisitKeepsThis, VisitKeepsOthers
<1> QED BY <1>1, <1>2, <1>3 DEF NodesAreConsistent

LEMMA BlockIsMonotonic ==
  ASSUME IsFunction(f), NEW n \in Nodes, NEW out1, NEW out2 \in SUBSET Variables, out1 \subseteq out2
  PROVE  LiveAboveBlock(n, out1) \subseteq LiveAboveBlock(n, out2)
<1>1. IsWalk(n, out1, LiveAfter(n, out1)) /\ IsWalk(n, out2, LiveAfter(n, out2))
  BY LiveAfterIsWalk
<1> QED BY <1>1, WalkIsMonotonic DEF LiveAboveBlock

LEMMA BlockStays ==
  ASSUME f' = f
  PROVE  /\ Globals' = Globals
         /\ \A n : LiveAboveBlock(n, LiveAtEnd(n))' = LiveAboveBlock(n, LiveAtEnd(n)')
         /\ \A n : ~HasPhis(f) => LiveAtEnd(n) = UNION {LiveIn[s] : s \in f.succ[n]}
                                  /\ LiveAtEnd(n)' = UNION {LiveIn'[s] : s \in f.succ[n]}
<1>1. Globals' = Globals
  BY DEF Globals, Code, IsArg, Mentions, IsPhi
<1>2. \A n : LiveAboveBlock(n, LiveAtEnd(n))' = LiveAboveBlock(n, LiveAtEnd(n)')
  BY DEF LiveAboveBlock, LiveAfter, LiveAbove, Begins, UsedBy, IsDead, IsPhi, CodeOf, Code, First
<1>3. ASSUME NEW n, ~HasPhis(f)
      PROVE  /\ LiveAtEnd(n) = UNION {LiveIn[s] : s \in f.succ[n]}
             /\ LiveAtEnd(n)' = UNION {LiveIn'[s] : s \in f.succ[n]}
  <2>1. \A s : Phis(s) = {} /\ Phis(s)' = {}
    BY <1>3 DEF HasPhis, Phis, IsPhi, CodeOf, Code
  <2>2. PhiOperands(n) = {} /\ PhiOperands(n)' = {}
    BY <2>1 DEF PhiOperands
  <2> QED BY <2>2 DEF LiveAtEnd
<1> QED BY <1>1, <1>2, <1>3

LEMMA VisitKeepsLiveIn ==
  ASSUME TypesOfAnalysis, LiveInIsClean, NEW n \in Nodes, Visit(n)
  PROVE  LiveInIsClean'
<1>1. PICK live :
        /\ live = LiveAfter(n, LiveAtEnd(n))
        /\ IsWalk(n, LiveAtEnd(n), live)
        /\ f' = f
        /\ LiveIn'[n] = LiveIn[n] \cup (LiveAbove(First(n), live[First(n)]) \cap Globals)
  BY VisitedFacts
<1>2. \A m \in Nodes : m # n => LiveIn'[m] = LiveIn[m]
  <2>1. PICK in : LiveIn' = [LiveIn EXCEPT ![n] = in]
    BY DEF Visit
  <2> QED BY <2>1 DEF TypesOfAnalysis
<1>3. IsFunction(f) /\ TypesOfAnalysis' /\ f' = f
  BY <1>1, VisitKeepsTypes DEF TypesOfAnalysis
<1>4. ASSUME HasPhis(f), NEW m \in Nodes, NEW i \in CodeOf(m), ~f.code[i].redefined
      PROVE  f.code[i].dest \notin LiveIn'[m]
  <2>1. f.code[i].dest \notin LiveIn[m]
    BY <1>4 DEF LiveInIsClean
  <2>2. ASSUME m = n PROVE f.code[i].dest \notin LiveAbove(First(n), live[First(n)])
    BY <1>1, <1>3, <1>4, <2>2, DefinedIsNotAbove
  <2> QED BY <1>1, <1>2, <2>1, <2>2
<1>5. ASSUME ~HasPhis(f), NEW m \in Nodes
      PROVE  LiveIn'[m] \subseteq LiveAboveBlock(m, LiveAtEnd(m))'
  <2>1. \A s \in Nodes : LiveIn[s] \subseteq LiveIn'[s]
    BY <1>1, <1>2
  <2>2. f.succ[m] \subseteq Nodes
    BY <1>3 DEF IsFunction, Nodes
  <2>3. LiveAtEnd(m) \subseteq LiveAtEnd(m)'
    <3>1. /\ LiveAtEnd(m) = UNION {LiveIn[s] : s \in f.succ[m]}
          /\ LiveAtEnd(m)' = UNION {LiveIn'[s] : s \in f.succ[m]}
      BY <1>3, <1>5, BlockStays
    <3> QED BY <2>1, <2>2, <3>1
  <2>4. LiveAtEnd(m)' \in SUBSET Variables
    <3>1. LiveAtEnd(m)' = UNION {LiveIn'[s] : s \in f.succ[m]}
      BY <1>3, <1>5, BlockStays
    <3>2. \A s \in Nodes : LiveIn'[s] \subseteq Globals
      <4>1. LiveIn' \in [Nodes' -> SUBSET Globals']
        BY <1>3 DEF TypesOfAnalysis
      <4> QED BY <1>3, <4>1, BlockStays, FunctionStays
    <3> QED BY <2>2, <3>1, <3>2 DEF Globals
  <2>5. LiveAboveBlock(m, LiveAtEnd(m)) \subseteq LiveAboveBlock(m, LiveAtEnd(m)')
    <3> DEFINE out == LiveAtEnd(m)'
    <3> HIDE DEF out
    <3>1. LiveAboveBlock(m, LiveAtEnd(m)) \subseteq LiveAboveBlock(m, out)
      BY <1>3, <2>3, <2>4, BlockIsMonotonic DEF out
    <3> QED BY <3>1 DEF out
  <2>6. LiveIn'[m] \subseteq LiveAboveBlock(m, LiveAtEnd(m))
    <3>1. LiveIn[m] \subseteq LiveAboveBlock(m, LiveAtEnd(m))
      BY <1>5 DEF LiveInIsClean
    <3>2. CASE m = n
      BY <1>1, <3>1, <3>2 DEF LiveAboveBlock
    <3>3. CASE m # n
      BY <1>2, <3>1, <3>3
    <3> QED BY <3>2, <3>3
  <2> QED BY <1>3, <2>5, <2>6, BlockStays
<1> QED BY <1>3, <1>4, <1>5, FunctionStays DEF LiveInIsClean

LEMMA VisitKeepsRanges ==
  ASSUME TypesOfAnalysis, RangesGrow, NEW n \in Nodes, Visit(n)
  PROVE  RangesGrow'
<1>1. pc = "solve" /\ pc' \in {"solve", "fatal"} /\ LiveRange' = LiveRange /\ f' = f
  BY DEF Visit
<1>2. RangesAreOrdered'
  BY <1>1 DEF RangesGrow, RangesAreOrdered
<1>3. \A v \in Variables : LiveRange[v] = <<>>
  BY <1>1 DEF RangesGrow
<1> QED BY <1>1, <1>2, <1>3 DEF RangesGrow

-----------------------------------------------------------------------------
(***************************************************************************)
(* Adding segments to a range takes nothing away from it.                  *)
(***************************************************************************)
WellFormed(range) ==
  /\ range \in Seq(Nat \X Nat)
  /\ \A k \in DOMAIN range : range[k][1] <= range[k][2]

LEMMA AddSegmentCovers ==
  ASSUME NEW range, WellFormed(range), NEW s1 \in Nat, NEW s2 \in Nat, s1 <= s2
  PROVE  /\ WellFormed(AddSegment(range, <<s1, s2>>))
         /\ \A q \in Nat : Covers(range, q) \/ (s1 <= q /\ q < s2)
                             => Covers(AddSegment(range, <<s1, s2>>), q)
<1> DEFINE result == AddSegment(range, <<s1, s2>>)
           l == Len(range)
<1>1. /\ l \in Nat /\ DOMAIN range = 1 .. l
      /\ range \in Seq(Nat \X Nat)
      /\ \A k \in DOMAIN range : range[k] \in Nat \X Nat /\ range[k][1] <= range[k][2]
  BY DEF WellFormed
<1>2. \A k \in DOMAIN range : range[k][1] \in Nat /\ range[k][2] \in Nat
  BY <1>1
<1>3. CASE range # <<>> /\ range[l][2] = s1
  <2>1. l \in DOMAIN range
    BY <1>1, <1>3
  <2>2. result = [range EXCEPT ![l] = <<range[l][1], s2>>]
    BY <1>3 DEF AddSegment
  <2>3. DOMAIN result = DOMAIN range /\ result[l] = <<range[l][1], s2>>
        /\ \A k \in DOMAIN range : k # l => result[k] = range[k]
    BY <1>1, <2>1, <2>2
  <2>4. result \in Seq(Nat \X Nat)
    <3>1. <<range[l][1], s2>> \in Nat \X Nat
      BY <1>2, <2>1
    <3>2. l \in 1 .. Len(range)
      BY <1>1, <2>1
    <3> DEFINE S == Nat \X Nat
    <3>3. range \in Seq(S) /\ <<range[l][1], s2>> \in S
      BY <1>1, <3>1
    <3> HIDE DEF S, l, result
    <3>4. result \in Seq(S)
      BY <2>2, <3>2, <3>3, ExceptSeq
    <3> QED BY <3>4 DEF S
  <2>5. range[l][1] <= s1 /\ range[l][1] <= s2
    <3>1. range[l][1] <= range[l][2] /\ range[l][1] \in Nat
      BY <1>1, <1>2, <2>1
    <3> HIDE DEF l
    <3>2. range[l][1] <= s1
      BY <1>3, <3>1
    <3> QED BY <3>1, <3>2
  <2> HIDE DEF result
  <2>6. \A k \in DOMAIN result : result[k][1] <= result[k][2]
    BY <1>1, <2>3, <2>5
  <2>7. ASSUME NEW q \in Nat, NEW k \in DOMAIN range, range[k][1] <= q, q < range[k][2]
        PROVE  Covers(result, q)
    <3>1. CASE k = l
      <4>1. q < s2
        BY <1>3, <2>7, <3>1
      <4> QED BY <2>1, <2>3, <2>7, <3>1, <4>1 DEF Covers
    <3>2. CASE k # l
      BY <2>3, <2>7, <3>2 DEF Covers
    <3> QED BY <3>1, <3>2
  <2>8. ASSUME NEW q \in Nat, s1 <= q, q < s2 PROVE Covers(result, q)
    <3>1. range[l][1] <= q
      BY <1>2, <2>1, <2>5, <2>8
    <3> QED BY <2>1, <2>3, <2>8, <3>1 DEF Covers
  <2>9. \A q \in Nat : Covers(range, q) => Covers(result, q)
    BY <2>7 DEF Covers
  <2> QED BY <2>4, <2>6, <2>8, <2>9 DEF WellFormed, result
<1>4. CASE ~(range # <<>> /\ range[l][2] = s1)
  <2>1. result = Append(range, <<s1, s2>>)
    BY <1>4 DEF AddSegment
  <2>2. /\ result \in Seq(Nat \X Nat) /\ DOMAIN result = 1 .. (l + 1)
        /\ result[l + 1] = <<s1, s2>> /\ \A k \in DOMAIN range : result[k] = range[k]
    <3> DEFINE S == Nat \X Nat
               segment == <<s1, s2>>
    <3>1. segment \in S /\ range \in Seq(S)
      BY <1>1
    <3> HIDE DEF S, segment
    <3>2. /\ Append(range, segment) \in Seq(S) /\ Len(Append(range, segment)) = Len(range) + 1
          /\ Append(range, segment)[Len(range) + 1] = segment
          /\ \A k \in 1 .. Len(range) : Append(range, segment)[k] = range[k]
      BY <3>1, AppendProperties
    <3>3. result = Append(range, segment)
      BY <2>1 DEF segment
    <3> HIDE DEF result
    <3>4. /\ result \in Seq(Nat \X Nat) /\ Len(result) = l + 1
          /\ result[l + 1] = <<s1, s2>> /\ \A k \in 1 .. l : result[k] = range[k]
      BY <3>2, <3>3 DEF S, segment
    <3> HIDE DEF l
    <3> QED BY <1>1, <3>4
  <2> HIDE DEF result
  <2>3. /\ \A k \in DOMAIN result : k \in DOMAIN range \/ k = l + 1
        /\ <<s1, s2>>[1] = s1 /\ <<s1, s2>>[2] = s2
    BY <1>1, <2>2
  <2> HIDE DEF l
  <2>4. \A k \in DOMAIN result : result[k][1] <= result[k][2]
    BY <1>1, <2>2, <2>3
  <2>5. DOMAIN range \subseteq DOMAIN result /\ l + 1 \in DOMAIN result
    BY <1>1, <2>2
  <2>6. \A q \in Nat : Covers(range, q) => Covers(result, q)
    BY <2>2, <2>5 DEF Covers
  <2>7. ASSUME NEW q \in Nat, s1 <= q, q < s2 PROVE Covers(result, q)
    BY <2>2, <2>5, <2>7 DEF Covers
  <2> QED BY <2>2, <2>4, <2>6, <2>7 DEF WellFormed, result
<1> QED BY <1>3, <1>4

(***************************************************************************)
(* What livenessAddIntervals() does in node n to the range of v, if ranges *)
(* begin and end between first and last there.                             *)
(***************************************************************************)
LEMMA NumberOfFacts ==
  ASSUME NEW pairs, NEW v, NEW default
  PROVE  /\ \/ \E e \in pairs : e[1] = v /\ NumberOf(pairs, v, default) = e[2]
            \/ NumberOf(pairs, v, default) = default /\ ~ \E e \in pairs : e[1] = v
         /\ \A e \in pairs : e[1] = v /\ ~HasDuplicates(pairs)
              => NumberOf(pairs, v, default) = e[2]
<1>1. CASE \E e \in pairs : e[1] = v
  <2> DEFINE c == CHOOSE p \in pairs : p[1] = v
  <2>1. c \in pairs /\ c[1] = v
    BY <1>1
  <2>2. NumberOf(pairs, v, default) = c[2]
    BY <1>1 DEF NumberOf
  <2> HIDE DEF c
  <2>3. \A e \in pairs : e[1] = v /\ ~HasDuplicates(pairs) => e = c
    BY <2>1 DEF HasDuplicates
  <2> QED BY <2>1, <2>2, <2>3
<1>2. CASE ~ \E e \in pairs : e[1] = v
  BY <1>2 DEF NumberOf
<1> QED BY <1>1, <1>2

LEMMA ExtendedCovers ==
  ASSUME NEW range, WellFormed(range), NEW n, NEW v, NEW first \in Nat, NEW last \in Nat,
         first <= last,
         \A e \in LiveBegin[n] : e[2] \in Nat /\ e[2] <= last,
         \A e \in LiveEnd[n] : e[2] \in Nat /\ first <= e[2]
  PROVE  LET extended == Extended(range, n, v, first, last) IN
         /\ \A q \in Nat : Covers(range, q) => Covers(extended, q)
         /\ \A q \in Nat :
              /\ <<v, q>> \in LiveBegin[n]
              /\ ~HasDuplicates(LiveBegin[n])
              /\ \A e \in LiveEnd[n] : q < e[2]
              => Covers(extended, q)
<1> DEFINE LB == NumberOf(LiveBegin[n], v, first)
           LE == NumberOf(LiveEnd[n], v, last + 1)
           mentioned == \E p \in LiveBegin[n] \cup LiveEnd[n] : p[1] = v
           through == v \in LiveIn[n] \cap LiveOut[n]
           added == AddSegment(range, <<LB, LE>>)
           one == IF mentioned THEN added ELSE range
           split == AddSegment(range, <<first, LE>>)
           both == AddSegment(split, <<LB, last + 1>>)
           extended == Extended(range, n, v, first, last)
<1>1. extended = IF mentioned /\ LB > LE THEN both
                 ELSE IF through THEN AddSegment(one, <<first, last + 1>>) ELSE one
  BY DEF Extended
<1>2. LB \in Nat /\ LB <= last
  BY NumberOfFacts
<1>3. LE \in Nat /\ first <= LE
  BY NumberOfFacts
<1>4. \A q : <<v, q>> \in LiveBegin[n] /\ ~HasDuplicates(LiveBegin[n]) => mentioned /\ LB = q
  <2> SUFFICES ASSUME NEW q, <<v, q>> \in LiveBegin[n], ~HasDuplicates(LiveBegin[n])
               PROVE  mentioned /\ LB = q
    OBVIOUS
  <2>1. <<v, q>>[1] = v /\ <<v, q>>[2] = q
    OBVIOUS
  <2> QED BY <2>1, NumberOfFacts
<1>5. \A q \in Nat : q <= last /\ (\A e \in LiveEnd[n] : q < e[2]) => q < LE
  BY NumberOfFacts
<1> HIDE DEF LB, LE, mentioned, through, extended
<1>6. CASE mentioned /\ LB > LE
  <2>1. WellFormed(split) /\ \A q \in Nat : Covers(range, q) => Covers(split, q)
    BY <1>3, AddSegmentCovers
  <2>2. last + 1 \in Nat /\ LB <= last + 1
    BY <1>2
  <2> HIDE DEF split
  <2>3. \A q \in Nat : Covers(split, q) \/ (LB <= q /\ q < last + 1) => Covers(both, q)
    BY <1>2, <2>1, <2>2, AddSegmentCovers
  <2>4. extended = both
    BY <1>1, <1>6
  <2> HIDE DEF both
  <2>5. LB <= LB /\ LB < last + 1
    BY <1>2
  <2> QED BY <1>2, <1>4, <2>1, <2>3, <2>4, <2>5 DEF extended
<1>7. CASE ~(mentioned /\ LB > LE)
  <2>1. WellFormed(one) /\ \A q \in Nat : Covers(range, q) => Covers(one, q)
    <3>1. CASE mentioned
      <4>1. LB <= LE
        BY <1>2, <1>3, <1>7, <3>1
      <4>2. WellFormed(added) /\ \A q \in Nat : Covers(range, q) => Covers(added, q)
        BY <1>2, <1>3, <4>1, AddSegmentCovers
      <4> QED BY <3>1, <4>2
    <3>2. CASE ~mentioned
      BY <3>2
    <3> QED BY <3>1, <3>2
  <2>2. ASSUME NEW q \in Nat, <<v, q>> \in LiveBegin[n], ~HasDuplicates(LiveBegin[n]),
               \A e \in LiveEnd[n] : q < e[2]
        PROVE  Covers(one, q)
    <3>1. mentioned /\ LB = q
      BY <1>4, <2>2
    <3>2. q < LE
      BY <1>2, <1>5, <2>2, <3>1
    <3>3. LB <= LE
      BY <1>2, <1>3, <3>1, <3>2
    <3>4. LB <= q
      BY <3>1
    <3>5. Covers(added, q)
      BY <1>2, <1>3, <3>2, <3>3, <3>4, AddSegmentCovers
    <3> QED BY <3>1, <3>5
  <2> HIDE DEF one
  <2>3. \A q \in Nat : Covers(one, q) => Covers(extended, q)
    <3>1. CASE through
      <4>1. extended = AddSegment(one, <<first, last + 1>>)
        BY <1>1, <1>7, <3>1
      <4>2. last + 1 \in Nat /\ first <= last + 1
        OBVIOUS
      <4> QED BY <2>1, <4>1, <4>2, AddSegmentCovers
    <3>2. CASE ~through
      BY <1>1, <1>7, <3>2
    <3> QED BY <3>1, <3>2
  <2> QED BY <2>1, <2>2, <2>3 DEF extended
<1> QED BY <1>6, <1>7

(***************************************************************************)
(* Segments behind the last one keep a range in order.                     *)
(***************************************************************************)
LEMMA AddSegmentIsOrdered ==
  ASSUME NEW range, IsOrdered(range), NEW s1 \in Nat, NEW s2 \in Nat, s1 <= s2,
         \A k \in DOMAIN range : range[k][2] <= s1
  PROVE  /\ IsOrdered(AddSegment(range, <<s1, s2>>))
         /\ \A k \in DOMAIN AddSegment(range, <<s1, s2>>) : AddSegment(range, <<s1, s2>>)[k][2] <= s2
<1> DEFINE result == AddSegment(range, <<s1, s2>>)
           l == Len(range)
           S == Nat \X Nat
<1>1. /\ l \in Nat /\ DOMAIN range = 1 .. l /\ range \in Seq(S)
      /\ \A k \in DOMAIN range : range[k] \in S /\ range[k][1] <= range[k][2]
      /\ \A k, m \in DOMAIN range : k < m => range[k][2] <= range[m][1]
  BY DEF IsOrdered
<1>2. \A k \in DOMAIN range : range[k][1] \in Nat /\ range[k][2] \in Nat
  BY <1>1
<1>3. result \in Seq(S) /\ \A k \in DOMAIN result : result[k][1] <= result[k][2]
  <2>1. WellFormed(range)
    BY <1>1 DEF WellFormed
  <2> HIDE DEF S
  <2>2. WellFormed(result)
    BY <2>1, AddSegmentCovers
  <2> QED BY <2>2 DEF WellFormed, S
<1>4. CASE range # <<>> /\ range[l][2] = s1
  <2>1. l \in DOMAIN range /\ result = [range EXCEPT ![l] = <<range[l][1], s2>>]
    BY <1>1, <1>4 DEF AddSegment
  <2>2. DOMAIN result = DOMAIN range /\ result[l] = <<range[l][1], s2>>
        /\ \A k \in DOMAIN range : k # l => result[k] = range[k]
    BY <1>1, <2>1
  <2>3. result[l][1] = range[l][1] /\ result[l][2] = s2
    BY <2>2
  <2> HIDE DEF result
  <2>4. ASSUME NEW k \in DOMAIN result, NEW m \in DOMAIN result, k < m
        PROVE  result[k][2] <= result[m][1]
    <3>1. k # l
      BY <1>1, <2>2, <2>4
    <3>2. result[k] = range[k] /\ result[m][1] = range[m][1] /\ range[k][2] <= range[m][1]
      BY <1>1, <2>2, <2>3, <2>4, <3>1
    <3> QED BY <3>2
  <2>5. ASSUME NEW k \in DOMAIN result PROVE result[k][2] <= s2
    <3>1. CASE k = l
      BY <2>3, <3>1
    <3>2. CASE k # l
      <4>1. result[k] = range[k] /\ range[k][2] <= s1 /\ range[k][2] \in Nat
        BY <1>2, <2>2, <3>2
      <4> QED BY <4>1
    <3> QED BY <3>1, <3>2
  <2> QED BY <1>3, <2>4, <2>5 DEF IsOrdered, result
<1>5. CASE ~(range # <<>> /\ range[l][2] = s1)
  <2>1. result = Append(range, <<s1, s2>>)
    BY <1>5 DEF AddSegment
  <2>2. /\ Len(result) = l + 1 /\ result[l + 1] = <<s1, s2>> /\ \A k \in 1 .. l : result[k] = range[k]
    <3> DEFINE segment == <<s1, s2>>
    <3>1. segment \in S
      OBVIOUS
    <3> HIDE DEF S, segment
    <3>2. /\ Len(Append(range, segment)) = Len(range) + 1
          /\ Append(range, segment)[Len(range) + 1] = segment
          /\ \A k \in 1 .. Len(range) : Append(range, segment)[k] = range[k]
      BY <1>1, <3>1, AppendProperties
    <3> QED BY <2>1, <3>2 DEF segment
  <2>3. DOMAIN result = 1 .. l + 1
    <3> HIDE DEF S, result, l
    <3>1. DOMAIN result = 1 .. Len(result)
      BY <1>3
    <3> QED BY <2>2, <3>1
  <2>4. result[l + 1][1] = s1 /\ result[l + 1][2] = s2
    BY <2>2
  <2> HIDE DEF result
  <2>5. ASSUME NEW k \in DOMAIN result
        PROVE  k = l + 1 \/ (k \in DOMAIN range /\ result[k] = range[k])
    BY <1>1, <2>2, <2>3
  <2>6. ASSUME NEW k \in DOMAIN result, NEW m \in DOMAIN result, k < m
        PROVE  result[k][2] <= result[m][1]
    <3>1. k \in DOMAIN range /\ result[k] = range[k]
      BY <1>1, <2>3, <2>5, <2>6
    <3>2. CASE m = l + 1
      BY <2>4, <3>1, <3>2
    <3>3. CASE m # l + 1
      BY <1>1, <2>5, <2>6, <3>1, <3>3
    <3> QED BY <3>2, <3>3
  <2>7. ASSUME NEW k \in DOMAIN result PROVE result[k][2] <= s2
    <3>1. CASE k = l + 1
      BY <2>4, <3>1
    <3>2. CASE k # l + 1
      <4>1. result[k] = range[k] /\ range[k][2] <= s1 /\ range[k][2] \in Nat
        BY <1>2, <2>5, <3>2
      <4> QED BY <4>1
    <3> QED BY <3>1, <3>2
  <2> QED BY <1>3, <2>6, <2>7 DEF IsOrdered, result
<1> QED BY <1>4, <1>5

LEMMA ExtendedIsOrdered ==
  ASSUME NEW range, IsOrdered(range), NEW n, NEW v, NEW low \in Nat, NEW first \in Nat, NEW last \in Nat,
         low <= first, first <= last,
         \A k \in DOMAIN range : range[k][2] <= low,
         \A e \in LiveBegin[n] : e[2] \in low .. last,
         \A e \in LiveEnd[n] : e[2] \in first .. last,
         BeginsAgain(n), EndsToo(n),
         ~HasDuplicates(LiveBegin[n]), ~HasDuplicates(LiveEnd[n])
  PROVE  /\ IsOrdered(Extended(range, n, v, first, last))
         /\ \A k \in DOMAIN Extended(range, n, v, first, last) :
              Extended(range, n, v, first, last)[k][2] <= last + 1
<1> DEFINE LB == NumberOf(LiveBegin[n], v, first)
           LE == NumberOf(LiveEnd[n], v, last + 1)
           mentioned == \E p \in LiveBegin[n] \cup LiveEnd[n] : p[1] = v
           through == v \in LiveIn[n] \cap LiveOut[n]
           added == AddSegment(range, <<LB, LE>>)
           one == IF mentioned THEN added ELSE range
           split == AddSegment(range, <<first, LE>>)
           both == AddSegment(split, <<LB, last + 1>>)
           extended == Extended(range, n, v, first, last)
<1>1. extended = IF mentioned /\ LB > LE THEN both
                 ELSE IF through THEN AddSegment(one, <<first, last + 1>>) ELSE one
  BY DEF Extended
<1>2. LB \in low .. last /\ LB \in Nat
  <2>1. LB = first \/ \E e \in LiveBegin[n] : LB = e[2]
    BY NumberOfFacts
  <2> QED BY <2>1
<1>3. LE \in first .. last + 1 /\ LE \in Nat
  <2>1. LE = last + 1 \/ \E e \in LiveEnd[n] : LE = e[2]
    BY NumberOfFacts
  <2> QED BY <2>1
<1>4. mentioned /\ through => LB > LE
  <2> SUFFICES ASSUME mentioned, through PROVE LB > LE
    OBVIOUS
  <2>1. PICK p \in LiveBegin[n] \cup LiveEnd[n] : p[1] = v
    OBVIOUS
  <2>2. \E e \in LiveEnd[n] : e[1] = v
    <3>1. CASE p \in LiveEnd[n]
      BY <2>1, <3>1
    <3>2. CASE p \in LiveBegin[n]
      BY <2>1, <3>2 DEF EndsToo
    <3> QED BY <3>1, <3>2
  <2>3. PICK e \in LiveEnd[n] : e[1] = v
    BY <2>2
  <2>4. PICK b \in LiveBegin[n] : b[1] = v /\ e[2] < b[2]
    BY <2>3 DEF BeginsAgain
  <2>5. LB = b[2]
    BY <2>4, NumberOfFacts
  <2>6. LE = e[2]
    BY <2>3, NumberOfFacts
  <2>7. e[2] \in Int /\ b[2] \in Int
    OBVIOUS
  <2> QED BY <2>4, <2>5, <2>6, <2>7
<1>5. \A k \in DOMAIN range : range[k][2] \in Nat
  BY DEF IsOrdered
<1> HIDE DEF LB, LE, mentioned, through, extended
<1>6. CASE mentioned /\ LB > LE
  <2>1. \A k \in DOMAIN range : range[k][2] <= first
    BY <1>5
  <2>2. first <= LE
    BY <1>3
  <2>3. IsOrdered(split) /\ \A k \in DOMAIN split : split[k][2] <= LE
    BY <1>3, <2>1, <2>2, AddSegmentIsOrdered
  <2> HIDE DEF split
  <2>4. \A k \in DOMAIN split : split[k][2] \in Nat
    BY <2>3 DEF IsOrdered
  <2>5. \A k \in DOMAIN split : split[k][2] <= LB
    BY <1>2, <1>3, <1>6, <2>3, <2>4
  <2>6. LB <= last + 1 /\ last + 1 \in Nat
    BY <1>2
  <2>7. IsOrdered(both) /\ \A k \in DOMAIN both : both[k][2] <= last + 1
    BY <1>2, <2>3, <2>5, <2>6, AddSegmentIsOrdered
  <2> QED BY <1>1, <1>6, <2>7 DEF extended
<1>7. CASE ~(mentioned /\ LB > LE)
  <2>1. CASE mentioned
    <3>1. ~through /\ extended = added
      BY <1>1, <1>4, <1>7, <2>1
    <3>2. LB <= LE /\ \A k \in DOMAIN range : range[k][2] <= LB
      BY <1>2, <1>3, <1>5, <1>7, <2>1
    <3>3. IsOrdered(added) /\ \A k \in DOMAIN added : added[k][2] <= LE
      BY <1>2, <1>3, <3>2, AddSegmentIsOrdered
    <3> HIDE DEF added
    <3>4. \A k \in DOMAIN added : added[k][2] \in Nat
      BY <3>3 DEF IsOrdered
    <3>5. \A k \in DOMAIN added : added[k][2] <= last + 1
      BY <1>3, <3>3, <3>4
    <3> QED BY <3>1, <3>3, <3>5 DEF extended
  <2>2. CASE ~mentioned /\ through
    <3>1. extended = AddSegment(range, <<first, last + 1>>)
      BY <1>1, <1>7, <2>2
    <3>2. first <= last + 1 /\ last + 1 \in Nat /\ \A k \in DOMAIN range : range[k][2] <= first
      BY <1>5
    <3>3. /\ IsOrdered(AddSegment(range, <<first, last + 1>>))
          /\ \A k \in DOMAIN AddSegment(range, <<first, last + 1>>) :
               AddSegment(range, <<first, last + 1>>)[k][2] <= last + 1
      BY <3>2, AddSegmentIsOrdered
    <3> QED BY <3>1, <3>3 DEF extended
  <2>3. CASE ~mentioned /\ ~through
    <3>1. extended = range
      BY <1>1, <1>7, <2>3
    <3>2. \A k \in DOMAIN range : range[k][2] <= last + 1
      BY <1>5
    <3> QED BY <3>1, <3>2 DEF extended
  <2> QED BY <2>1, <2>2, <2>3
<1> QED BY <1>6, <1>7

-----------------------------------------------------------------------------
(***************************************************************************)
(* What is kept of a node lies between its first and its last number, and  *)
(* the nodes after it begin later.                                         *)
(***************************************************************************)
LEMMA KeptFacts ==
  ASSUME TypesOfAnalysis, NodesAreConsistent, NEW n \in Nodes,
         NEW first, first = FirstInstNum(n, KeptOf(n)),
         NEW last, last = Number(LastOf(KeptOf(n)))
  PROVE  /\ first \in Nat /\ last \in Nat /\ first <= last
         /\ n # 1 => Number(First(n)) <= first
         /\ n = 1 => first = 1
         /\ \A e \in LiveBegin[n] : e[2] \in Number(First(n)) .. last
         /\ \A e \in LiveEnd[n] : e[2] \in first .. last
         /\ \A i \in Code : n < f.code[i].node => last + 1 <= Number(i)
         /\ Number(First(n)) \in Nat /\ 1 <= Number(First(n))
         /\ Phis(n) # {} =>
              /\ PhiNumber(n) \in Nat
              /\ \A e \in LiveEnd[n] : PhiNumber(n) < e[2]
<1> DEFINE kept == KeptOf(n)
           firstKept == FirstOf(kept)
           lastKept == LastOf(kept)
           firstPhi == FirstOf(Phis(n))
<1>1. /\ Len(f.code) \in Nat /\ Code = 1 .. Len(f.code)
      /\ CodeOf(n) \subseteq Code /\ Phis(n) \subseteq CodeOf(n)
      /\ \A i \in Phis(n), j \in CodeOf(n) \ Phis(n) : i < j
  BY CodeIsOrdered DEF TypesOfAnalysis
<1>2. PICK t \in CodeOf(n) \ Phis(n) : f.code[t].dest = None
  BY CodeIsOrdered DEF TypesOfAnalysis
<1>3. t \in kept /\ kept \in SUBSET (1 .. Len(f.code)) /\ kept # {}
  BY <1>1, <1>2 DEF KeptOf, NodesAreConsistent
<1>4. firstKept \in kept /\ \A j \in kept : firstKept <= j
  BY <1>1, <1>3, FirstIsFirst
<1>5. lastKept \in kept /\ \A j \in kept : j <= lastKept
  BY <1>1, <1>3, LastIsLast
<1>6. Phis(n) # {} => /\ firstPhi \in Phis(n) /\ firstPhi \in 1 .. Len(f.code)
                      /\ \A j \in Phis(n) : firstPhi <= j
  BY <1>1, FirstIsFirst
<1>7. \A i \in 1 .. Len(f.code) : Number(i) = i + 1 /\ i \in Nat
  BY <1>1 DEF Number, NumberInitial
<1>8. /\ n = 1 => first = 1
      /\ n # 1 => first = firstKept + 1
      /\ last = lastKept + 1
  BY <1>3, <1>4, <1>5, <1>7 DEF FirstInstNum, NumberExtended, NumberInitial
<1>9. Phis(n) # {} => PhiNumber(n) = firstPhi + 1
  BY <1>6, <1>7 DEF PhiNumber
<1>10. /\ First(n) \in Nat /\ First(n) >= 1 /\ Number(First(n)) = First(n) + 1
       /\ \A j \in kept : First(n) <= j /\ j \in CodeOf(n)
  <2>1. /\ First(n) \in Nat \ {0} /\ CodeOf(n) = First(n) .. Last(n) /\ First(n) <= Last(n)
        /\ Last(n) <= Len(f.code) /\ Last(n) \in Nat
    BY BlockIsInterval DEF TypesOfAnalysis
  <2>2. First(n) \in 1 .. Len(f.code)
    BY <1>1, <2>1
  <2> QED BY <1>7, <2>1, <2>2 DEF KeptOf
<1> HIDE DEF kept, firstKept, lastKept, firstPhi
<1>11. /\ firstKept \in Nat /\ lastKept \in Nat /\ firstKept <= lastKept /\ lastKept >= 1 /\ firstKept >= 1
       /\ First(n) <= firstKept
  BY <1>1, <1>3, <1>4, <1>5, <1>10
<1>12. first \in Nat /\ last \in Nat /\ first <= last /\ (n # 1 => Number(First(n)) <= first)
  BY <1>8, <1>10, <1>11
<1>13. ASSUME NEW e \in LiveBegin[n] PROVE e[2] \in Number(First(n)) .. last
  <2>1. PICK i \in kept : e[2] = NumberAt(i)
    BY DEF NodesAreConsistent, BeginsAtKept, kept
  <2>2. i \in CodeOf(n) /\ i <= lastKept
    BY <1>5, <1>10, <2>1
  <2>3. e[2] \in Number(First(n)) .. Number(i) /\ Number(i) = i + 1 /\ i \in Nat
    BY <2>1, <2>2, NumberAtFacts DEF TypesOfAnalysis
  <2> QED BY <1>8, <1>10, <1>11, <2>2, <2>3
<1>14. ASSUME NEW e \in LiveEnd[n]
       PROVE  e[2] \in first .. last /\ (Phis(n) # {} => PhiNumber(n) < e[2])
  <2>1. PICK i \in kept \ Phis(n) : e[2] = Number(i)
    BY DEF NodesAreConsistent, EndsAtKept, kept
  <2>2. i \in 1 .. Len(f.code) /\ i \in CodeOf(n) \ Phis(n)
    BY <1>3, <1>10, <2>1
  <2>3. e[2] = i + 1 /\ firstKept <= i /\ i <= lastKept /\ i \in Nat /\ 1 <= i
    BY <1>1, <1>4, <1>5, <1>7, <2>1, <2>2
  <2>4. Phis(n) # {} => firstPhi < i /\ firstPhi \in Nat
    BY <1>1, <1>6, <2>2
  <2>5. e[2] \in first .. last
    BY <1>8, <1>11, <2>3
  <2> QED BY <1>9, <2>3, <2>4, <2>5
<1>15. ASSUME NEW i \in Code, n < f.code[i].node PROVE last + 1 <= Number(i)
  <2>1. lastKept \in Code /\ f.code[lastKept].node = n
    BY <1>1, <1>5, <1>10 DEF CodeOf
  <2>2. ~(i <= lastKept)
    <3>1. n \in Nat /\ f.code[i].node \in Nat
      BY DEF TypesOfAnalysis, IsFunction, Nodes, Code
    <3>2. i < lastKept => f.code[i].node <= n
      BY <2>1 DEF TypesOfAnalysis, IsFunction, Code
    <3>3. i \in Nat
      BY <1>1
    <3> QED BY <1>11, <1>15, <2>1, <3>1, <3>2, <3>3
  <2>3. i \in Nat /\ Number(i) = i + 1
    BY <1>1, <1>7
  <2> QED BY <1>8, <1>11, <2>2, <2>3
<1>16. Phis(n) # {} => PhiNumber(n) \in Nat
  BY <1>6, <1>9
<1> QED BY <1>8, <1>10, <1>12, <1>13, <1>14, <1>15, <1>16

LEMMA OrderedIsWellFormed == ASSUME NEW range, IsOrdered(range) PROVE WellFormed(range)
BY DEF IsOrdered, WellFormed

(***************************************************************************)
(* A step that keeps what a visit leaves behind.                           *)
(***************************************************************************)
LEMMA OnlyRangesChange ==
  ASSUME UNCHANGED <<f, NeedToProcess, LiveIn, LiveOut, NumNonDeadPhis, Dead, LiveBegin, LiveEnd>>
  PROVE  /\ NodesAreConsistent => NodesAreConsistent'
         /\ LiveInIsClean => LiveInIsClean'
         /\ \A n : KeptOf(n)' = KeptOf(n) /\ (PhisBegin(n)' <=> PhisBegin(n))
<1>1. f' = f
  OBVIOUS
<1>2. /\ Nodes' = Nodes /\ Code' = Code
      /\ \A n : /\ CodeOf(n)' = CodeOf(n) /\ Phis(n)' = Phis(n) /\ PhiNumber(n)' = PhiNumber(n)
                /\ First(n)' = First(n) /\ Last(n)' = Last(n)
      /\ \A i : NumberAt(i)' = NumberAt(i) /\ Number(i)' = Number(i)
      /\ (HasPhis(f)' <=> HasPhis(f))
  BY <1>1, FunctionStays
<1>3. \A n : KeptOf(n)' = KeptOf(n) /\ (PhisBegin(n)' <=> PhisBegin(n))
  BY <1>2 DEF KeptOf, PhisBegin
<1>4. \A n : /\ BeginsAtKept(n)' <=> BeginsAtKept(n)
             /\ EndsAtKept(n)' <=> EndsAtKept(n)
             /\ BeginsAgain(n)' <=> BeginsAgain(n)
             /\ EndsToo(n)' <=> EndsToo(n)
  BY <1>2, <1>3 DEF BeginsAtKept, EndsAtKept, BeginsAgain, EndsToo
<1>5. NodesAreConsistent => NodesAreConsistent'
  BY <1>2, <1>3, <1>4 DEF NodesAreConsistent
<1>6. \A n : LiveAtEnd(n)' = LiveAtEnd(n)
  BY DEF LiveAtEnd, PhiOperands, Phis, CodeOf, Code, IsPhi
<1>7. \A n : LiveAboveBlock(n, LiveAtEnd(n))' = LiveAboveBlock(n, LiveAtEnd(n))
  BY <1>1, <1>6, BlockStays
<1>8. LiveInIsClean => LiveInIsClean'
  BY <1>2, <1>7 DEF LiveInIsClean
<1> QED BY <1>3, <1>5, <1>8

LEMMA FinalPassKeepsTypes ==
  ASSUME TypesOfAnalysis, NEW n \in Nodes, FinalPass(n)
  PROVE  TypesOfAnalysis'
<1>1. /\ at' = n
      /\ UNCHANGED <<f, NeedToProcess, LiveIn, LiveOut, NumNonDeadPhis, Dead, LiveBegin, LiveEnd>>
      /\ pc' \in {"fatal", "done", "final"}
      /\ DOMAIN LiveRange' = Variables
      /\ Deleted' = Deleted \cup (Dead \cap CodeOf(n))
  BY DEF FinalPass
<1>2. /\ Nodes' = Nodes /\ Code' = Code /\ Globals' = Globals
      /\ Number(Len(f.code))' = Number(Len(f.code)) /\ (IsFunction(f)' <=> IsFunction(f))
  <2>1. f' = f
    BY <1>1
  <2> QED BY <2>1, FunctionStays, BlockStays DEF Number
<1>3. at' \in 0 .. f'.nodes + 1
  BY <1>1, CodeIsOrdered DEF TypesOfAnalysis, Nodes
<1> QED BY <1>1, <1>2, <1>3 DEF TypesOfAnalysis

LEMMA FinalPassKeepsRanges ==
  ASSUME TypesOfAnalysis, NodesAreConsistent, RangesGrow, NEW n \in Nodes, FinalPass(n)
  PROVE  RangesGrow'
<1> DEFINE first == FirstInstNum(n, KeptOf(n))
           last == Number(LastOf(KeptOf(n)))
           fatal == HasDuplicates(LiveBegin[n]) \/ HasDuplicates(LiveEnd[n])
           low == IF n = 1 THEN 1 ELSE Number(First(n))
<1>1. /\ pc = "final" /\ n = at + 1 /\ at' = n
      /\ Deleted' = Deleted \cup (Dead \cap CodeOf(n))
      /\ LiveRange' = [v \in Variables |-> IF fatal THEN LiveRange[v]
                                           ELSE Extended(LiveRange[v], n, v, first, last)]
      /\ pc' = IF fatal THEN "fatal" ELSE IF n = f.nodes THEN "done" ELSE "final"
      /\ UNCHANGED <<f, NeedToProcess, LiveIn, LiveOut, NumNonDeadPhis, Dead, LiveBegin, LiveEnd>>
  BY DEF FinalPass, KeptOf
<1>2. /\ NeedToProcess = {} /\ at \in Nat /\ f.nodes \in Nat /\ at < f.nodes /\ n \in Nat
      /\ \A v \in Variables : IsOrdered(LiveRange[v]) /\ EndsBefore(LiveRange[v], n)
      /\ \A m \in 1 .. at : PhisInRange(m) /\ Dead \cap CodeOf(m) \subseteq Deleted
  BY <1>1, CodeIsOrdered DEF RangesGrow, RangesAreOrdered, TypesOfAnalysis
<1>3. /\ first \in Nat /\ last \in Nat /\ first <= last
      /\ low \in Nat /\ low <= first
      /\ \A e \in LiveBegin[n] : e[2] \in low .. last
      /\ \A e \in LiveEnd[n] : e[2] \in first .. last
      /\ \A i \in Code : n < f.code[i].node => last + 1 <= Number(i)
      /\ Phis(n) # {} => \A e \in LiveEnd[n] : PhiNumber(n) < e[2]
  <2>1. /\ first \in Nat /\ last \in Nat /\ first <= last
        /\ n # 1 => Number(First(n)) <= first
        /\ n = 1 => first = 1
        /\ \A e \in LiveBegin[n] : e[2] \in Number(First(n)) .. last
        /\ \A e \in LiveEnd[n] : e[2] \in first .. last
        /\ \A i \in Code : n < f.code[i].node => last + 1 <= Number(i)
        /\ Number(First(n)) \in Nat /\ 1 <= Number(First(n))
        /\ Phis(n) # {} => \A e \in LiveEnd[n] : PhiNumber(n) < e[2]
    BY KeptFacts
  <2> HIDE DEF first, last
  <2>2. low \in Nat /\ low <= Number(First(n)) /\ low <= first
    BY <2>1
  <2> HIDE DEF low
  <2>3. \A e \in LiveBegin[n] : e[2] \in low .. last
    BY <2>1, <2>2
  <2> QED BY <2>1, <2>2, <2>3
<1>4. ASSUME NEW v \in Variables PROVE \A k \in DOMAIN LiveRange[v] : LiveRange[v][k][2] <= low
  <2>1. EndsBefore(LiveRange[v], n)
    BY <1>2
  <2>2. CASE n = 1
    <3>1. LiveRange[v] = <<>>
      BY <2>1, <2>2 DEF EndsBefore
    <3> QED BY <3>1
  <2>3. CASE n # 1
    <3>1. First(n) \in CodeOf(n)
      BY BlockIsInterval DEF TypesOfAnalysis
    <3>2. First(n) \in Code /\ f.code[First(n)].node = n
      BY <3>1 DEF CodeOf
    <3> QED BY <1>2, <2>1, <2>3, <3>2 DEF EndsBefore
  <2> QED BY <2>2, <2>3
<1>5. ASSUME ~fatal, NEW v \in Variables
      PROVE  /\ LiveRange'[v] = Extended(LiveRange[v], n, v, first, last)
             /\ IsOrdered(LiveRange'[v])
             /\ \A k \in DOMAIN LiveRange'[v] : LiveRange'[v][k][2] <= last + 1
  <2>1. LiveRange'[v] = Extended(LiveRange[v], n, v, first, last)
    BY <1>1, <1>5
  <2>2. BeginsAgain(n) /\ EndsToo(n) /\ ~HasDuplicates(LiveBegin[n]) /\ ~HasDuplicates(LiveEnd[n])
    BY <1>5 DEF NodesAreConsistent
  <2>3. IsOrdered(LiveRange[v])
    BY <1>2
  <2> HIDE DEF first, last, low, fatal
  <2>4. /\ IsOrdered(Extended(LiveRange[v], n, v, first, last))
        /\ \A k \in DOMAIN Extended(LiveRange[v], n, v, first, last) :
             Extended(LiveRange[v], n, v, first, last)[k][2] <= last + 1
    BY <1>3, <1>4, <2>2, <2>3, ExtendedIsOrdered
  <2> QED BY <2>1, <2>4
<1>6. RangesAreOrdered'
  <2>1. \A v \in Variables : IsOrdered(LiveRange'[v])
    <3>1. CASE fatal
      BY <1>1, <1>2, <3>1
    <3>2. CASE ~fatal
      BY <1>5, <3>2
    <3> QED BY <3>1, <3>2
  <2> QED BY <2>1 DEF RangesAreOrdered
<1>7. ASSUME ~fatal, NEW v \in Variables PROVE EndsBefore(LiveRange[v], at + 1)'
  <2>1. n + 1 # 1
    <3>1. n # 0
      BY DEF Nodes
    <3> QED BY <1>2, <3>1
  <2>2. ASSUME NEW k \in DOMAIN LiveRange'[v], NEW i \in Code, n + 1 <= f.code[i].node
        PROVE  LiveRange'[v][k][2] <= Number(i)
    <3>1. LiveRange'[v][k][2] <= last + 1 /\ LiveRange'[v][k][2] \in Nat
      BY <1>5, <1>7, <2>2 DEF IsOrdered
    <3>2. f.code[i].node \in Nat /\ n < f.code[i].node
      BY <1>2, <2>2 DEF TypesOfAnalysis, IsFunction, Code
    <3>3. last + 1 <= Number(i) /\ last \in Nat
      BY <1>3, <3>2
    <3>4. Number(i) \in Nat
      BY CodeIsOrdered DEF TypesOfAnalysis, Number, NumberInitial
    <3> HIDE DEF last
    <3> QED BY <3>1, <3>3, <3>4
  <2>3. \A k \in DOMAIN LiveRange'[v] : \A i \in Code :
          n + 1 <= f.code[i].node => LiveRange'[v][k][2] <= Number(i)
    BY <2>2
  <2> QED BY <1>1, <2>1, <2>3, FunctionStays DEF EndsBefore
<1>8. ASSUME ~fatal, NEW m \in 1 .. n PROVE PhisInRange(m)'
  <2>1. m \in Nodes
    BY <1>2 DEF Nodes
  <2>0. f' = f /\ Dead' = Dead /\ Phis(m)' = Phis(m) /\ PhiNumber(m)' = PhiNumber(m)
    <3>1. f' = f /\ Dead' = Dead
      BY <1>1
    <3> QED BY <3>1, FunctionStays
  <2> SUFFICES ASSUME NEW i \in Phis(m), i \notin Dead
               PROVE  Covers(LiveRange'[f.code[i].dest], PhiNumber(m))
    BY <2>0 DEF PhisInRange, Covers
  <2> DEFINE v == f.code[i].dest
             q == PhiNumber(m)
  <2>2. v \in Variables
    BY DEF TypesOfAnalysis, IsFunction, Phis, CodeOf, Code, IsPhi
  <2>3. WellFormed(LiveRange[v])
    BY <1>2, <2>2, OrderedIsWellFormed
  <2>4. q \in Nat
    BY <2>1, KeptFacts
  <2>5. LiveRange'[v] = Extended(LiveRange[v], n, v, first, last)
    BY <1>5, <1>8, <2>2
  <2>6. /\ \A e \in LiveBegin[n] : e[2] \in Nat /\ e[2] <= last
        /\ \A e \in LiveEnd[n] : e[2] \in Nat /\ first <= e[2]
    <3> HIDE DEF first, last, low
    <3> QED BY <1>3
  <2> HIDE DEF first, last, low
  <2>7. Covers(LiveRange[v], q) => Covers(LiveRange'[v], q)
    BY <1>3, <2>3, <2>4, <2>5, <2>6, ExtendedCovers
  <2>8. CASE m = n
    <3>1. <<v, q>> \in LiveBegin[n]
      BY <1>2, <2>8 DEF NodesAreConsistent, PhisBegin
    <3>2. ~HasDuplicates(LiveBegin[n])
      BY <1>8
    <3>3. \A e \in LiveEnd[n] : q < e[2]
      BY <1>3, <2>8
    <3> HIDE DEF v, q
    <3>4. Covers(LiveRange'[v], q)
      BY <1>3, <2>3, <2>4, <2>5, <2>6, <3>1, <3>2, <3>3, ExtendedCovers
    <3> QED BY <3>4 DEF v, q
  <2>9. CASE m # n
    <3>1. m \in 1 .. at
      BY <1>1, <1>2, <2>9
    <3>2. Covers(LiveRange[v], q)
      BY <1>2, <3>1 DEF PhisInRange
    <3> QED BY <2>7, <3>2
  <2> QED BY <2>8, <2>9
<1>9. ASSUME NEW m \in 1 .. n PROVE Dead \cap CodeOf(m) \subseteq Deleted'
  <2>1. m \in 1 .. at \/ m = n
    BY <1>1, <1>2
  <2> QED BY <1>1, <1>2, <2>1
<1>10. pc' \in {"final", "done"} => ~fatal
  BY <1>1
<1>11. pc' = "final" => NeedToProcess' = {} /\ at' < f'.nodes
  <2>1. n \in 1 .. f.nodes
    BY DEF Nodes
  <2> QED BY <1>1, <1>2, <2>1
<1>12. pc' = "done" => at' = f'.nodes
  BY <1>1
<1>13. pc' # "solve"
  BY <1>1
<1> HIDE DEF first, last, fatal, low
<1>14. \A v \in Variables : pc' = "final" => EndsBefore(LiveRange[v], at + 1)'
  BY <1>7, <1>10
<1>15. pc' \in {"final", "done"} =>
        \A m \in 1 .. at' : PhisInRange(m)' /\ (Dead \cap CodeOf(m))' \subseteq Deleted'
  BY <1>1, <1>8, <1>9, <1>10, FunctionStays
<1> QED BY <1>6, <1>11, <1>12, <1>13, <1>14, <1>15 DEF RangesGrow

-----------------------------------------------------------------------------
(***************************************************************************)
(* The invariant holds in every state.                                     *)
(***************************************************************************)
LEMMA InitHolds == ASSUME Init, IsFunction(f) PROVE IInv
<1>1. /\ pc = "solve" /\ at = f.nodes + 1 /\ NeedToProcess = Nodes
      /\ LiveIn = [n \in Nodes |-> {}] /\ LiveOut = [n \in Nodes |-> {}]
      /\ NumNonDeadPhis = [n \in Nodes |-> 0] /\ Dead = {} /\ Deleted = {}
      /\ LiveBegin = [n \in Nodes |-> {}] /\ LiveEnd = [n \in Nodes |-> {}]
      /\ LiveRange = [v \in Variables |-> <<>>]
  BY DEF Init
<1>2. TypesOfAnalysis
  <2>1. f.nodes \in Nat /\ Len(f.code) \in Nat
    BY CodeIsOrdered
  <2>2. at \in 0 .. f.nodes + 1 /\ 0 \in 0 .. Len(f.code)
    BY <1>1, <2>1
  <2> QED BY <1>1, <2>2 DEF TypesOfAnalysis
<1>3. NodesAreConsistent
  BY <1>1 DEF NodesAreConsistent, BeginsAtKept, EndsAtKept, BeginsAgain, EndsToo
<1>4. LiveInIsClean
  BY <1>1 DEF LiveInIsClean
<1>5. RangesGrow
  <2>1. <<>> \in Seq(Nat \X Nat) /\ DOMAIN <<>> = {}
    OBVIOUS
  <2>2. RangesAreOrdered
    BY <1>1, <2>1 DEF RangesAreOrdered, IsOrdered
  <2> QED BY <1>1, <2>2 DEF RangesGrow
<1> QED BY <1>2, <1>3, <1>4, <1>5 DEF IInv

LEMMA ConvergeKeepsIInv == ASSUME IInv, Converge PROVE IInv'
<1>1. /\ NeedToProcess = {} /\ pc = "solve" /\ pc' = "final" /\ at' = 0
      /\ UNCHANGED <<f, NeedToProcess, LiveIn, LiveOut, NumNonDeadPhis, Dead, LiveBegin, LiveEnd,
                     Deleted, LiveRange>>
  BY DEF Converge
<1>2. f' = f /\ f.nodes \in Nat \ {0} /\ Code \subseteq Nat
  BY <1>1, CodeIsOrdered DEF IInv, TypesOfAnalysis, IsFunction
<1>3. TypesOfAnalysis'
  <2>1. /\ Nodes' = Nodes /\ Code' = Code /\ Globals' = Globals
        /\ Number(Len(f.code))' = Number(Len(f.code)) /\ (IsFunction(f)' <=> IsFunction(f))
    BY <1>2, FunctionStays, BlockStays DEF Number
  <2>2. at' \in 0 .. f'.nodes + 1
    BY <1>1, <1>2
  <2> QED BY <1>1, <2>1, <2>2 DEF IInv, TypesOfAnalysis
<1>4. NodesAreConsistent' /\ LiveInIsClean'
  BY <1>1, OnlyRangesChange DEF IInv
<1>5. RangesGrow'
  <2>1. RangesAreOrdered' /\ \A v \in Variables : LiveRange'[v] = <<>>
    BY <1>1 DEF IInv, RangesGrow, RangesAreOrdered
  <2>2. \A v \in Variables : EndsBefore(LiveRange[v], at + 1)'
    BY <2>1 DEF EndsBefore
  <2>3. 1 .. at' = {} /\ at' < f'.nodes
    BY <1>1, <1>2
  <2> QED BY <1>1, <2>1, <2>2, <2>3 DEF RangesGrow
<1> QED BY <1>3, <1>4, <1>5 DEF IInv

LEMMA StepKeepsIInv == ASSUME IInv, Step PROVE IInv' /\ f' = f
<1>1. ASSUME NEW n \in Nodes, Visit(n) PROVE IInv' /\ f' = f
  <2>1. f' = f
    BY <1>1 DEF Visit
  <2> QED BY <1>1, <2>1, VisitKeepsTypes, VisitKeepsNodes, VisitKeepsLiveIn, VisitKeepsRanges DEF IInv
<1>2. ASSUME NEW n \in Nodes, FinalPass(n) PROVE IInv' /\ f' = f
  <2>1. UNCHANGED <<f, NeedToProcess, LiveIn, LiveOut, NumNonDeadPhis, Dead, LiveBegin, LiveEnd>>
    BY <1>2 DEF FinalPass
  <2> QED BY <1>2, <2>1, FinalPassKeepsTypes, FinalPassKeepsRanges, OnlyRangesChange DEF IInv
<1>3. CASE Converge
  BY <1>3, ConvergeKeepsIInv DEF Converge
<1> QED BY <1>1, <1>2, <1>3 DEF Step

LEMMA StutterKeepsIInv == ASSUME IInv, UNCHANGED vars PROVE IInv'
<1>1. UNCHANGED <<f, pc, at, NeedToProcess, LiveIn, LiveOut, NumNonDeadPhis, Dead,
                  LiveBegin, LiveEnd, Deleted, LiveRange>>
  BY DEF vars
<1>2. f' = f
  BY <1>1
<1>3. TypesOfAnalysis'
  <2>1. /\ Nodes' = Nodes /\ Code' = Code /\ Globals' = Globals
        /\ Number(Len(f.code))' = Number(Len(f.code)) /\ (IsFunction(f)' <=> IsFunction(f))
    BY <1>2, FunctionStays, BlockStays DEF Number
  <2> QED BY <1>1, <2>1 DEF IInv, TypesOfAnalysis
<1>4. NodesAreConsistent' /\ LiveInIsClean'
  BY <1>1, OnlyRangesChange DEF IInv
<1>5. RangesGrow'
  <2>1. RangesAreOrdered'
    BY <1>1 DEF IInv, RangesGrow, RangesAreOrdered
  <2>2. \A v, n : EndsBefore(LiveRange[v], n)' <=> EndsBefore(LiveRange[v], n)
    BY <1>1, <1>2, FunctionStays DEF EndsBefore
  <2>3. \A n : (PhisInRange(n)' <=> PhisInRange(n)) /\ CodeOf(n)' = CodeOf(n)
    BY <1>1, <1>2, FunctionStays DEF PhisInRange, Covers
  <2>4. \A v \in Variables : pc = "final" => EndsBefore(LiveRange[v], at + 1)'
    BY <1>1, <2>2 DEF IInv, RangesGrow
  <2> QED BY <1>1, <2>1, <2>3, <2>4 DEF IInv, RangesGrow
<1> QED BY <1>3, <1>4, <1>5 DEF IInv

(***************************************************************************)
(* For every function: the types of the variables of the analysis; LiveIn  *)
(* and LiveOut have only variables of more than one block; and the ranges  *)
(* that CfgNode::livenessAddIntervals() builds have their segments in      *)
(* order, so that no assertion of LiveRange::addSegment() fails.           *)
(***************************************************************************)
THEOREM TypeCorrect == Spec => []TypeOK
<1> DEFINE Inv == IInv /\ f \in Functions
<1>1. Init => Inv
  BY InitHolds, FunctionsAssumption DEF Init
<1>2. Inv /\ [Next]_vars => Inv'
  <2>1. IInv /\ f \in Functions /\ Step => IInv' /\ f' \in Functions
    BY StepKeepsIInv
  <2>2. IInv /\ f \in Functions /\ UNCHANGED vars => IInv' /\ f' \in Functions
    BY StutterKeepsIInv DEF vars
  <2> QED BY <2>1, <2>2 DEF Next, Terminated
<1>3. Inv => TypeOK
  BY DEF IInv, TypesOfAnalysis, RangesGrow, TypeOK
<1> HIDE DEF Inv
<1> QED BY <1>1, <1>2, <1>3, PTL DEF Spec

-----------------------------------------------------------------------------
(***************************************************************************)
(* Where a variable that is live at some point of a block begins and ends: *)
(* walking down, it is live until it ends.                                 *)
(***************************************************************************)
LEMMA LiveUntilEnd ==
  ASSUME IsFunction(f), NEW n \in Nodes, NEW out, NEW live, IsWalk(n, out, live),
         NEW j \in CodeOf(n), NEW v \in LiveAbove(j, live[j])
  PROVE  v \in out \/ \E k \in CodeOf(n) : j <= k /\ v \in Ends(k, live[k])
<1> SUFFICES ASSUME \A k \in CodeOf(n) : j <= k => v \notin Ends(k, live[k]) PROVE v \in out
  OBVIOUS
<1> DEFINE Missing == {k \in CodeOf(n) : j <= k /\ v \notin live[k]}
<1>1. /\ Last(n) \in Nat /\ First(n) \in Nat /\ j \in Nat /\ First(n) <= j /\ j <= Last(n)
      /\ CodeOf(n) = First(n) .. Last(n) /\ Last(n) \in CodeOf(n)
  BY BlockIsInterval
<1>2. \A k \in CodeOf(n) : j <= k /\ v \in LiveAbove(k, live[k]) => v \in live[k]
  BY DEF LiveAbove, Ends
<1>3. Missing = {}
  <2> SUFFICES ASSUME Missing # {} PROVE FALSE
    OBVIOUS
  <2>1. Missing \in SUBSET Nat
    BY <1>1
  <2>2. PICK k \in Missing : \A m \in Missing : k <= m
    <3> HIDE DEF Missing
    <3> QED BY <2>1, SmallestNumber
  <2>3. k \in CodeOf(n) /\ j <= k /\ v \notin live[k] /\ k \in Nat
    BY <2>1, <2>2
  <2>4. k # j
    BY <1>1, <1>2, <2>3
  <2>5. k - 1 \in CodeOf(n) /\ j <= k - 1 /\ k - 1 < k /\ k - 1 < Last(n) /\ (k - 1) + 1 = k
    BY <1>1, <2>3, <2>4
  <2>6. v \in live[k - 1]
    <3>1. k - 1 \notin Missing
      BY <2>2, <2>3, <2>5
    <3> QED BY <2>5, <3>1
  <2>7. live[k - 1] = LiveAbove(k, live[k])
    BY <2>5 DEF IsWalk
  <2> QED BY <1>2, <2>3, <2>6, <2>7
<1>4. v \in live[Last(n)]
  BY <1>1, <1>3
<1> QED BY <1>4 DEF IsWalk

(***************************************************************************)
(* Walking up, it is live until it begins.                                 *)
(***************************************************************************)
LEMMA LiveUntilBegin ==
  ASSUME IsFunction(f), NEW n \in Nodes, NEW out, NEW live, IsWalk(n, out, live),
         NEW j \in CodeOf(n), NEW v \in live[j],
         \A k \in CodeOf(n) : k <= j => v \notin Begins(k, live[k])
  PROVE  v \in LiveAbove(First(n), live[First(n)])
<1> DEFINE S == {k \in CodeOf(n) : v \in live[k]}
<1>1. /\ Last(n) \in Nat /\ First(n) \in Nat /\ j \in First(n) .. Last(n) /\ j \in Nat
      /\ CodeOf(n) = First(n) .. Last(n) /\ First(n) \in CodeOf(n)
  BY BlockIsInterval
<1>2. ASSUME NEW k \in First(n) .. j, k + 1 \in S, k < j PROVE k \in S
  <2>1. k \in CodeOf(n) /\ k < Last(n) /\ k + 1 <= j /\ k + 1 \in CodeOf(n)
    BY <1>1, <1>2
  <2>2. v \in live[k + 1] /\ v \notin Begins(k + 1, live[k + 1])
    BY <1>2, <2>1
  <2>3. v \in live[k]
    BY <2>1, <2>2 DEF IsWalk, LiveAbove
  <2> QED BY <2>1, <2>3
<1>3. First(n) .. j \subseteq S
  <2>1. j \in S
    OBVIOUS
  <2> HIDE DEF S
  <2> QED BY <1>1, <1>2, <2>1, Downward
<1>4. v \in live[First(n)] /\ v \notin Begins(First(n), live[First(n)])
  BY <1>1, <1>3
<1> QED BY <1>4 DEF LiveAbove

(***************************************************************************)
(* A variable that begins where it does not go on from above has ended.    *)
(***************************************************************************)
LEMMA EndsInBetween ==
  ASSUME IsFunction(f), NEW n \in Nodes, NEW out, NEW live, IsWalk(n, out, live),
         NEW j \in CodeOf(n), NEW v \in live[j],
         NEW k \in CodeOf(n), j < k, v \in Begins(k, live[k])
  PROVE  \E m \in CodeOf(n) : j < m /\ m < k /\ v \in Ends(m, live[m])
<1> SUFFICES ASSUME \A m \in CodeOf(n) : j < m /\ m < k => v \notin Ends(m, live[m]) PROVE FALSE
  OBVIOUS
<1> DEFINE S == {m \in CodeOf(n) : v \notin LiveAbove(m, live[m])}
<1>1. /\ Last(n) \in Nat /\ First(n) \in Nat /\ j \in First(n) .. Last(n) /\ j \in Nat
      /\ k \in First(n) .. Last(n) /\ k \in Nat
      /\ CodeOf(n) = First(n) .. Last(n) /\ CodeOf(n) \subseteq Code
  BY BlockIsInterval, CodeIsOrdered
<1>2. k \in S
  <2>1. ~f.code[k].redefined /\ f.code[k].dest = v
    BY DEF Begins
  <2>2. k \in DOMAIN f.code
    BY <1>1 DEF Code
  <2>3. ~(f.code[k].from = <<>> /\ v \in f.code[k].uses)
    <3>1. f.code[k].from = <<>> /\ v \in f.code[k].uses => IF HasPhis(f) THEN k < k ELSE k # k
      BY <2>1, <2>2 DEF IsFunction
    <3> QED BY <1>1, <3>1
  <2>4. v \notin UsedBy(k, live[k])
    BY <2>3 DEF UsedBy, IsPhi
  <2> QED BY <2>4 DEF LiveAbove
<1>3. ASSUME NEW m \in (j + 1) .. k, m + 1 \in S, m < k PROVE m \in S
  <2>1. m \in CodeOf(n) /\ m < Last(n) /\ j < m
    BY <1>1, <1>3
  <2>2. v \notin live[m]
    BY <1>3, <2>1 DEF IsWalk
  <2>3. v \notin UsedBy(m, live[m])
    BY <1>3, <2>1, <2>2 DEF Ends
  <2> QED BY <2>1, <2>2, <2>3 DEF LiveAbove
<1>4. (j + 1) .. k \subseteq S
  <2> HIDE DEF S
  <2>1. j + 1 \in Nat
    BY <1>1
  <2> QED BY <1>1, <1>2, <1>3, <2>1, Downward
<1>5. j + 1 \in S /\ j < Last(n)
  BY <1>1, <1>4
<1>6. v \notin live[j]
  BY <1>5 DEF IsWalk
<1> QED BY <1>6

(***************************************************************************)
(* A visit of n leaves behind the walk of its block from LiveOut[n].       *)
(***************************************************************************)
Walk(n) == LiveAfter(n, LiveOut[n])
Top(n) == LiveAboveBlock(n, LiveOut[n])
Recorded(n) ==
  /\ \A i \in CodeOf(n) : /\ i \in Dead <=> IsDead(i, Walk(n)[i])
                          /\ \A v \in Begins(i, Walk(n)[i]) : <<v, NumberAt(i)>> \in LiveBegin[n]
                          /\ \A v \in Ends(i, Walk(n)[i]) : <<v, NumberAt(i)>> \in LiveEnd[n]
  /\ \A e \in LiveBegin[n] : \E i \in CodeOf(n) :
       e[1] \in Begins(i, Walk(n)[i]) /\ e[2] = NumberAt(i)
  /\ \A e \in LiveEnd[n] : \E i \in CodeOf(n) :
       e[1] \in Ends(i, Walk(n)[i]) /\ e[2] = NumberAt(i)
  /\ pc # "fatal" => Top(n) \subseteq LiveIn[n]

(***************************************************************************)
(* The numbers between first and last that livenessAddIntervals() adds.    *)
(***************************************************************************)
Mentioned(n, v) == \E p \in LiveBegin[n] \cup LiveEnd[n] : p[1] = v

LEMMA ExtendedAt ==
  ASSUME NEW range, WellFormed(range), NEW n, NEW v, NEW first \in Nat, NEW last \in Nat,
         first <= last,
         \A e \in LiveBegin[n] : e[2] \in Nat /\ e[2] <= last,
         \A e \in LiveEnd[n] : e[2] \in Nat /\ first <= e[2],
         NEW q \in first .. last,
         NEW LB, LB = NumberOf(LiveBegin[n], v, first),
         NEW LE, LE = NumberOf(LiveEnd[n], v, last + 1),
         \/ Mentioned(n, v) /\ LB <= q /\ (q < LE \/ LE < LB)
         \/ Mentioned(n, v) /\ q < LE /\ LE < LB
         \/ ~Mentioned(n, v) /\ v \in LiveIn[n] \cap LiveOut[n]
  PROVE  Covers(Extended(range, n, v, first, last), q)
<1> DEFINE through == v \in LiveIn[n] \cap LiveOut[n]
           added == AddSegment(range, <<LB, LE>>)
           one == IF Mentioned(n, v) THEN added ELSE range
           split == AddSegment(range, <<first, LE>>)
           both == AddSegment(split, <<LB, last + 1>>)
           whole == AddSegment(one, <<first, last + 1>>)
           extended == Extended(range, n, v, first, last)
<1>1. extended = IF Mentioned(n, v) /\ LB > LE THEN both
                 ELSE IF through THEN whole ELSE one
  BY DEF Extended, Mentioned
<1>2. LB \in Nat /\ LB <= last
  BY NumberOfFacts
<1>3. LE \in Nat /\ first <= LE
  BY NumberOfFacts
<1>4. q \in Nat /\ first <= q /\ q < last + 1 /\ last + 1 \in Nat /\ first <= last + 1 /\ LB <= last + 1
  BY <1>2
<1> HIDE DEF through, extended
<1>5. CASE Mentioned(n, v) /\ LB > LE
  <2>1. /\ WellFormed(split)
        /\ \A x \in Nat : Covers(range, x) \/ (first <= x /\ x < LE) => Covers(split, x)
    BY <1>3, AddSegmentCovers
  <2> HIDE DEF split
  <2>2. \A x \in Nat : Covers(split, x) \/ (LB <= x /\ x < last + 1) => Covers(both, x)
    BY <1>2, <1>4, <2>1, AddSegmentCovers
  <2>3. q < LE \/ LB <= q
    BY <1>2, <1>3, <1>4, <1>5
  <2>4. Covers(both, q)
    BY <1>4, <2>1, <2>2, <2>3
  <2> QED BY <1>1, <1>5, <2>4 DEF extended
<1>6. CASE Mentioned(n, v) /\ ~(LB > LE)
  <2>1. LB <= q /\ q < LE /\ LB <= LE
    BY <1>2, <1>3, <1>4, <1>6
  <2>2. WellFormed(added) /\ Covers(added, q)
    BY <1>2, <1>3, <1>4, <2>1, AddSegmentCovers
  <2>3. one = added
    BY <1>6
  <2> HIDE DEF one, added
  <2>4. Covers(whole, q)
    BY <1>4, <2>2, <2>3, AddSegmentCovers
  <2> QED BY <1>1, <1>6, <2>2, <2>3, <2>4 DEF extended
<1>7. CASE ~Mentioned(n, v)
  <2>1. one = range /\ through
    BY <1>7 DEF through
  <2> HIDE DEF one
  <2>2. Covers(whole, q)
    BY <1>4, <2>1, AddSegmentCovers
  <2> QED BY <1>1, <1>7, <2>1, <2>2 DEF extended
<1> QED BY <1>5, <1>6, <1>7

(***************************************************************************)
(* What Recorded says of a variable that begins or ends.                   *)
(***************************************************************************)
LEMMA RecordedNumbers ==
  ASSUME TypesOfAnalysis, NEW n \in Nodes, Recorded(n),
         ~HasDuplicates(LiveBegin[n]), ~HasDuplicates(LiveEnd[n]),
         NEW k \in CodeOf(n), NEW v, NEW first, NEW last
  PROVE  /\ k \in Nat /\ Number(k) = k + 1
         /\ v \in Begins(k, Walk(n)[k]) =>
              /\ Mentioned(n, v)
              /\ NumberOf(LiveBegin[n], v, first) = NumberAt(k)
              /\ NumberAt(k) \in Nat /\ NumberAt(k) <= k + 1
              /\ k \notin Phis(n) => NumberAt(k) = k + 1
         /\ v \in Ends(k, Walk(n)[k]) =>
              /\ Mentioned(n, v)
              /\ NumberOf(LiveEnd[n], v, last) = k + 1
<1>1. /\ NumberAt(k) \in Number(First(n)) .. Number(k)
      /\ Number(First(n)) = First(n) + 1 /\ Number(k) = k + 1 /\ k \in Nat
  BY NumberAtFacts DEF TypesOfAnalysis
<1>2. First(n) \in Nat
  BY BlockIsInterval DEF TypesOfAnalysis
<1>3. k \notin Phis(n) => NumberAt(k) = k + 1
  BY <1>1, NotPhiNumber
<1>4. \A x, y : <<x, y>>[1] = x /\ <<x, y>>[2] = y
  OBVIOUS
<1>5. ASSUME v \in Begins(k, Walk(n)[k])
      PROVE  Mentioned(n, v) /\ NumberOf(LiveBegin[n], v, first) = NumberAt(k)
  <2>1. <<v, NumberAt(k)>> \in LiveBegin[n]
    BY <1>5 DEF Recorded
  <2> QED BY <1>4, <2>1, NumberOfFacts DEF Mentioned
<1>6. ASSUME v \in Ends(k, Walk(n)[k])
      PROVE  Mentioned(n, v) /\ NumberOf(LiveEnd[n], v, last) = k + 1
  <2>1. <<v, NumberAt(k)>> \in LiveEnd[n]
    BY <1>6 DEF Recorded
  <2>2. k \notin Phis(n)
    BY <1>6 DEF Ends, UsedBy, Phis
  <2> QED BY <1>3, <1>4, <2>1, <2>2, NumberOfFacts DEF Mentioned
<1>7. NumberAt(k) \in Nat /\ NumberAt(k) <= k + 1
  BY <1>1, <1>2
<1> QED BY <1>1, <1>3, <1>5, <1>6, <1>7

(***************************************************************************)
(* A variable that is live behind instruction j, and behind all phis, has  *)
(* the number of j in its range after the final pass.                      *)
(***************************************************************************)
LEMMA LiveIsCovered ==
  ASSUME TypesOfAnalysis, NodesAreConsistent, pc # "fatal", NEW n \in Nodes, Recorded(n),
         ~HasDuplicates(LiveBegin[n]), ~HasDuplicates(LiveEnd[n]),
         NEW range, WellFormed(range),
         NEW first, first = FirstInstNum(n, KeptOf(n)),
         NEW last, last = Number(LastOf(KeptOf(n))),
         NEW j \in CodeOf(n), \A p \in Phis(n) : p <= j, Number(j) \in first .. last,
         NEW v \in Walk(n)[j]
  PROVE  Covers(Extended(range, n, v, first, last), Number(j))
<1> DEFINE live == Walk(n)
           LB == NumberOf(LiveBegin[n], v, first)
           LE == NumberOf(LiveEnd[n], v, last + 1)
           q == Number(j)
<1>1. IsWalk(n, LiveOut[n], live)
  <2>1. LiveOut[n] \in SUBSET Variables
    BY LiveAtEndIsGlobal DEF TypesOfAnalysis
  <2> QED BY <2>1, LiveAfterIsWalk DEF TypesOfAnalysis, Walk
<1>2. /\ first \in Nat /\ last \in Nat /\ first <= last
      /\ \A e \in LiveBegin[n] : e[2] \in Nat /\ e[2] <= last
      /\ \A e \in LiveEnd[n] : e[2] \in Nat /\ first <= e[2]
  <2>1. /\ first \in Nat /\ last \in Nat /\ first <= last
        /\ \A e \in LiveBegin[n] : e[2] \in Number(First(n)) .. last
        /\ \A e \in LiveEnd[n] : e[2] \in first .. last
        /\ Number(First(n)) \in Nat
    BY KeptFacts
  <2> QED BY <2>1
<1>3. ASSUME NEW k \in CodeOf(n)
      PROVE  /\ k \in Nat /\ Number(k) = k + 1
             /\ v \in Begins(k, live[k]) =>
                  /\ Mentioned(n, v) /\ LB = NumberAt(k)
                  /\ NumberAt(k) \in Nat /\ NumberAt(k) <= k + 1
                  /\ k \notin Phis(n) => NumberAt(k) = k + 1
             /\ v \in Ends(k, live[k]) => Mentioned(n, v) /\ LE = k + 1
  BY RecordedNumbers
<1>4. /\ IsFunction(f) /\ CodeOf(n) = First(n) .. Last(n)
      /\ First(n) \in Nat /\ Last(n) \in Nat
  BY BlockIsInterval DEF TypesOfAnalysis
<1>5. q = j + 1 /\ j \in Nat /\ first <= q /\ q <= last
  BY <1>2, <1>3
<1> HIDE DEF live, LB, LE, q
<1>6. v \in LiveOut[n] \/ \E k \in CodeOf(n) : j < k /\ v \in Ends(k, live[k])
  <2>1. CASE j = Last(n)
    BY <1>1, <2>1 DEF IsWalk, live
  <2>2. CASE j # Last(n)
    <3>1. j < Last(n) /\ j + 1 \in CodeOf(n)
      BY <1>4, <2>2
    <3>2. v \in LiveAbove(j + 1, live[j + 1])
      BY <1>1, <3>1 DEF IsWalk, live
    <3>3. v \in LiveOut[n] \/ \E k \in CodeOf(n) : j + 1 <= k /\ v \in Ends(k, live[k])
      BY <1>1, <1>4, <3>1, <3>2, LiveUntilEnd
    <3>4. \A k \in CodeOf(n) : j + 1 <= k => j < k
      BY <1>3, <1>5
    <3> QED BY <3>3, <3>4
  <2> QED BY <2>1, <2>2
<1>7. (\E e \in LiveEnd[n] : e[1] = v) => \E k \in CodeOf(n) : v \in Ends(k, live[k])
  BY DEF Recorded, live
<1>8. (\E e \in LiveBegin[n] : e[1] = v) => \E k \in CodeOf(n) : v \in Begins(k, live[k])
  BY DEF Recorded, live
<1>9. \/ Mentioned(n, v) /\ LB <= q /\ (q < LE \/ LE < LB)
      \/ Mentioned(n, v) /\ q < LE /\ LE < LB
      \/ ~Mentioned(n, v) /\ v \in LiveIn[n] \cap LiveOut[n]
  <2>1. CASE \E k \in CodeOf(n) : k <= j /\ v \in Begins(k, live[k])
    <3>1. PICK k \in CodeOf(n) : k <= j /\ v \in Begins(k, live[k])
      BY <2>1
    <3>2. Mentioned(n, v) /\ LB \in Nat /\ LB <= q
      BY <1>3, <1>5, <3>1
    <3>3. CASE \E m \in CodeOf(n) : j < m /\ v \in Ends(m, live[m])
      <4>1. PICK m \in CodeOf(n) : j < m /\ v \in Ends(m, live[m])
        BY <3>3
      <4>2. q < LE
        BY <1>3, <1>5, <4>1
      <4> QED BY <3>2, <4>2
    <3>4. CASE (~ \E m \in CodeOf(n) : j < m /\ v \in Ends(m, live[m]))
               /\ \E e \in LiveEnd[n] : e[1] = v
      <4>1. PICK e \in LiveEnd[n] : e[1] = v
        BY <3>4
      <4>2. PICK b \in LiveBegin[n] : b[1] = v /\ e[2] < b[2]
        BY <1>6, <3>4, <4>1 DEF NodesAreConsistent, BeginsAgain
      <4>3. LE = e[2] /\ LB = b[2]
        BY <4>1, <4>2, NumberOfFacts DEF LE, LB
      <4> QED BY <3>2, <4>2, <4>3
    <3>5. CASE ~ \E e \in LiveEnd[n] : e[1] = v
      <4>1. LE = last + 1
        BY <3>5, NumberOfFacts DEF LE
      <4> QED BY <1>2, <1>5, <3>2, <4>1
    <3> QED BY <3>3, <3>4, <3>5
  <2>2. CASE (~ \E k \in CodeOf(n) : k <= j /\ v \in Begins(k, live[k]))
             /\ \E k \in CodeOf(n) : v \in Begins(k, live[k])
    <3>1. PICK k \in CodeOf(n) : v \in Begins(k, live[k])
      BY <2>2
    <3>2. j < k
      BY <1>3, <1>5, <2>2, <3>1
    <3>3. PICK m \in CodeOf(n) : j < m /\ m < k /\ v \in Ends(m, live[m])
      BY <1>1, <1>4, <3>1, <3>2, EndsInBetween DEF live
    <3>4. k \notin Phis(n)
      <4>1. k \in Nat
        BY <1>3
      <4> QED BY <1>5, <3>2, <4>1
    <3>5. LB = k + 1 /\ LE = m + 1 /\ Mentioned(n, v) /\ k \in Nat /\ m \in Nat
      BY <1>3, <3>1, <3>3, <3>4
    <3>6. q < LE /\ LE < LB
      BY <1>5, <3>3, <3>5
    <3> QED BY <3>5, <3>6
  <2>3. CASE ~ \E k \in CodeOf(n) : v \in Begins(k, live[k])
    <3>1. v \in LiveIn[n]
      <4>1. v \in LiveAbove(First(n), live[First(n)])
        BY <1>1, <1>4, <2>3, LiveUntilBegin DEF live
      <4> QED BY <4>1 DEF Recorded, Top, LiveAboveBlock, Walk, live
    <3>2. LB = first /\ ~ \E e \in LiveBegin[n] : e[1] = v
      BY <1>8, <2>3, NumberOfFacts DEF LB
    <3>3. CASE \E m \in CodeOf(n) : j < m /\ v \in Ends(m, live[m])
      <4>1. PICK m \in CodeOf(n) : j < m /\ v \in Ends(m, live[m])
        BY <3>3
      <4>2. q < LE /\ Mentioned(n, v)
        BY <1>3, <1>5, <4>1
      <4> QED BY <1>5, <3>2, <4>2
    <3>4. CASE ~ \E m \in CodeOf(n) : j < m /\ v \in Ends(m, live[m])
      <4>1. v \in LiveOut[n]
        BY <1>6, <3>4
      <4>2. ~ \E e \in LiveEnd[n] : e[1] = v
        BY <3>2, <4>1 DEF NodesAreConsistent, BeginsAgain
      <4>3. ~Mentioned(n, v)
        BY <3>2, <4>2 DEF Mentioned
      <4> QED BY <3>1, <4>1, <4>3
    <3> QED BY <3>3, <3>4
  <2> QED BY <2>1, <2>2, <2>3
<1>10. q \in first .. last
  BY DEF q
<1>11. Covers(Extended(range, n, v, first, last), q)
  BY <1>2, <1>9, <1>10, ExtendedAt DEF LB, LE
<1> QED BY <1>11 DEF q

(***************************************************************************)
(* An argument that is live on entry has the number before the first       *)
(* instruction in its range.                                               *)
(***************************************************************************)
LEMMA ArgIsCovered ==
  ASSUME TypesOfAnalysis, NodesAreConsistent, pc # "fatal", 1 \in Nodes, Recorded(1),
         ~HasDuplicates(LiveBegin[1]), ~HasDuplicates(LiveEnd[1]),
         NEW range, WellFormed(range),
         NEW first, first = FirstInstNum(1, KeptOf(1)),
         NEW last, last = Number(LastOf(KeptOf(1))),
         NEW v \in Top(1), IsArg(v)
  PROVE  Covers(Extended(range, 1, v, first, last), 1)
<1> DEFINE live == Walk(1)
           LB == NumberOf(LiveBegin[1], v, first)
           LE == NumberOf(LiveEnd[1], v, last + 1)
<1>1. IsWalk(1, LiveOut[1], live)
  <2>1. LiveOut[1] \in SUBSET Variables
    BY LiveAtEndIsGlobal DEF TypesOfAnalysis
  <2> QED BY <2>1, LiveAfterIsWalk DEF TypesOfAnalysis, Walk
<1>2. /\ first = 1 /\ last \in Nat /\ first <= last
      /\ \A e \in LiveBegin[1] : e[2] \in Nat /\ e[2] <= last
      /\ \A e \in LiveEnd[1] : e[2] \in Nat /\ first <= e[2]
  <2>1. /\ first = 1 /\ last \in Nat /\ first <= last
        /\ \A e \in LiveBegin[1] : e[2] \in Number(First(1)) .. last
        /\ \A e \in LiveEnd[1] : e[2] \in first .. last
        /\ Number(First(1)) \in Nat
    BY KeptFacts
  <2> QED BY <2>1
<1>3. ~ \E e \in LiveBegin[1] : e[1] = v
  <2>1. \A i \in CodeOf(1) : v \notin Begins(i, live[i])
    BY DEF IsArg, Begins, CodeOf
  <2> QED BY <2>1 DEF Recorded, live
<1>4. LB = first
  BY <1>3, NumberOfFacts
<1>5. \A e \in LiveEnd[1] : e[2] >= 2
  BY DEF TypesOfAnalysis, NumberInitial
<1> HIDE DEF live, LB, LE
<1>6. /\ IsFunction(f) /\ First(1) \in CodeOf(1) /\ First(1) \in Nat
      /\ v \in LiveAbove(First(1), live[First(1)])
  BY BlockIsInterval DEF TypesOfAnalysis, Top, LiveAboveBlock, Walk, live
<1>7. v \in LiveIn[1]
  BY DEF Recorded
<1>8. \/ Mentioned(1, v) /\ LB <= 1 /\ (1 < LE \/ LE < LB)
      \/ ~Mentioned(1, v) /\ v \in LiveIn[1] \cap LiveOut[1]
  <2>1. CASE \E e \in LiveEnd[1] : e[1] = v
    <3>1. PICK e \in LiveEnd[1] : e[1] = v
      BY <2>1
    <3>2. LE = e[2] /\ Mentioned(1, v)
      BY <3>1, NumberOfFacts DEF LE, Mentioned
    <3>3. 1 < LE
      BY <1>2, <1>5, <3>1, <3>2
    <3> QED BY <1>2, <1>4, <3>2, <3>3
  <2>2. CASE ~ \E e \in LiveEnd[1] : e[1] = v
    <3>1. \A k \in CodeOf(1) : v \notin Ends(k, live[k])
      <4>1. \A x, y : <<x, y>>[1] = x
        OBVIOUS
      <4> QED BY <2>2, <4>1 DEF Recorded, live
    <3>2. v \in LiveOut[1]
      BY <1>1, <1>6, <3>1, LiveUntilEnd
    <3> QED BY <1>3, <1>7, <2>2, <3>2 DEF Mentioned
  <2> QED BY <2>1, <2>2
<1>9. 1 \in first .. last
  BY <1>2
<1> QED BY <1>2, <1>8, <1>9, ExtendedAt DEF LB, LE

-----------------------------------------------------------------------------
(***************************************************************************)
(* The invariant: nodes that need no visit have the record of their last   *)
(* one, and the ranges of the nodes passed cover what is live there.       *)
(***************************************************************************)
CoveredIn(n) ==
  \A j \in CodeOf(n) :
    /\ \A p \in Phis(n) : p <= j
    /\ Number(j) \in FirstInstNum(n, KeptOf(n)) .. Number(LastOf(KeptOf(n)))
    => \A v \in Walk(n)[j] : Covers(LiveRange[v], Number(j))
ArgsCovered == \A v \in Top(1) : IsArg(v) => Covers(LiveRange[v], 1)
AnalysisIsRecorded ==
  /\ \A n \in Nodes \ NeedToProcess : Recorded(n)
  /\ pc = "solve" => Deleted = {}
  /\ pc \in {"final", "done"} =>
       /\ NeedToProcess = {}
       /\ Deleted \subseteq Dead
       /\ \A n \in 1 .. at : CoveredIn(n)
       /\ at # 0 => ArgsCovered

LEMMA RecordStays ==
  ASSUME f' = f
  PROVE  /\ \A i, live : /\ IsDead(i, live)' <=> IsDead(i, live)
                         /\ Begins(i, live)' = Begins(i, live)
                         /\ Ends(i, live)' = Ends(i, live)
         /\ \A n : Walk(n)' = LiveAfter(n, LiveOut'[n])
         /\ \A n : Top(n)' = LiveAboveBlock(n, LiveOut'[n])
         /\ \A v : IsArg(v)' <=> IsArg(v)
<1>1. \A i, live : /\ IsDead(i, live)' <=> IsDead(i, live)
                   /\ Begins(i, live)' = Begins(i, live)
                   /\ Ends(i, live)' = Ends(i, live)
  BY DEF IsDead, Begins, Ends, UsedBy, IsPhi
<1>2. \A n : Walk(n)' = LiveAfter(n, LiveOut'[n])
  BY DEF Walk, LiveAfter, LiveAbove, Begins, UsedBy, IsDead, IsPhi, CodeOf, Code
<1>3. \A n : Top(n)' = LiveAboveBlock(n, LiveOut'[n])
  BY DEF Top, LiveAboveBlock, LiveAfter, LiveAbove, Begins, UsedBy, IsDead, IsPhi, CodeOf, Code, First
<1>4. \A v : IsArg(v)' <=> IsArg(v)
  BY DEF IsArg, Code
<1> QED BY <1>1, <1>2, <1>3, <1>4

LEMMA OtherRecordStays ==
  ASSUME f' = f, NEW n, Recorded(n), pc' # "fatal" => pc # "fatal",
         LiveOut'[n] = LiveOut[n], LiveIn'[n] = LiveIn[n],
         LiveBegin'[n] = LiveBegin[n], LiveEnd'[n] = LiveEnd[n],
         \A i \in CodeOf(n) : i \in Dead' <=> i \in Dead
  PROVE  Recorded(n)'
<1>1. Walk(n)' = Walk(n) /\ Top(n)' = Top(n)
  BY RecordStays DEF Walk, Top
<1>2. CodeOf(n)' = CodeOf(n) /\ \A i : NumberAt(i)' = NumberAt(i)
  BY FunctionStays
<1>3. \A i : /\ IsDead(i, Walk(n)[i])' <=> IsDead(i, Walk(n)[i])
             /\ Begins(i, Walk(n)[i])' = Begins(i, Walk(n)[i])
             /\ Ends(i, Walk(n)[i])' = Ends(i, Walk(n)[i])
  BY <1>1, RecordStays
<1>4. \A i \in CodeOf(n)' :
        /\ (i \in Dead)' <=> IsDead(i, Walk(n)[i])'
        /\ \A v \in Begins(i, Walk(n)[i])' : <<v, NumberAt(i)'>> \in LiveBegin'[n]
        /\ \A v \in Ends(i, Walk(n)[i])' : <<v, NumberAt(i)'>> \in LiveEnd'[n]
  BY <1>2, <1>3 DEF Recorded
<1>5. /\ \A e \in LiveBegin'[n] : \E i \in CodeOf(n)' :
           e[1] \in Begins(i, Walk(n)[i])' /\ e[2] = NumberAt(i)'
      /\ \A e \in LiveEnd'[n] : \E i \in CodeOf(n)' :
           e[1] \in Ends(i, Walk(n)[i])' /\ e[2] = NumberAt(i)'
  BY <1>2, <1>3 DEF Recorded
<1>6. pc' # "fatal" => Top(n)' \subseteq LiveIn'[n]
  BY <1>1 DEF Recorded
<1> QED BY <1>4, <1>5, <1>6 DEF Recorded

LEMMA VisitRecords ==
  ASSUME TypesOfAnalysis, AnalysisIsRecorded, NEW n \in Nodes, Visit(n)
  PROVE  AnalysisIsRecorded'
<1>1. PICK live :
        /\ live = LiveAfter(n, LiveAtEnd(n))
        /\ IsWalk(n, LiveAtEnd(n), live)
        /\ f' = f /\ LiveOut'[n] = LiveAtEnd(n)
        /\ LiveIn'[n] = LiveIn[n] \cup (LiveAbove(First(n), live[First(n)]) \cap Globals)
        /\ \A e : e \in LiveBegin'[n] <=>
             \E i \in CodeOf(n) : \E v \in Begins(i, live[i]) : e = <<v, NumberAt(i)>>
        /\ \A e : e \in LiveEnd'[n] <=>
             \E i \in CodeOf(n) : \E v \in Ends(i, live[i]) : e = <<v, NumberAt(i)>>
        /\ \A i \in CodeOf(n) : i \in Dead' <=> IsDead(i, live[i])
  BY VisitedFacts
<1>2. /\ pc = "solve" /\ pc' \in {"solve", "fatal"}
      /\ pc' # "fatal" => LiveAbove(First(n), live[First(n)]) \subseteq Globals
      /\ Deleted' = Deleted
  BY <1>1 DEF Visit, First
<1>3. Nodes' = Nodes /\ \A m : CodeOf(m)' = CodeOf(m)
  BY <1>1, FunctionStays
<1>4. Recorded(n)'
  <2>1. Walk(n)' = live /\ Top(n)' = LiveAbove(First(n), live[First(n)])
    BY <1>1, RecordStays DEF LiveAboveBlock
  <2>2. \A i : /\ IsDead(i, Walk(n)[i])' <=> IsDead(i, live[i])
               /\ Begins(i, Walk(n)[i])' = Begins(i, live[i])
               /\ Ends(i, Walk(n)[i])' = Ends(i, live[i])
               /\ NumberAt(i)' = NumberAt(i)
    BY <1>1, <2>1, RecordStays, FunctionStays
  <2>3. \A x, y : <<x, y>>[1] = x /\ <<x, y>>[2] = y
    OBVIOUS
  <2>4. \A i \in CodeOf(n)' :
          /\ (i \in Dead)' <=> IsDead(i, Walk(n)[i])'
          /\ \A v \in Begins(i, Walk(n)[i])' : <<v, NumberAt(i)'>> \in LiveBegin'[n]
          /\ \A v \in Ends(i, Walk(n)[i])' : <<v, NumberAt(i)'>> \in LiveEnd'[n]
    BY <1>1, <1>3, <2>2
  <2>5. \A e \in LiveBegin'[n] : \E i \in CodeOf(n)' :
          e[1] \in Begins(i, Walk(n)[i])' /\ e[2] = NumberAt(i)'
    BY <1>1, <1>3, <2>2, <2>3
  <2>6. \A e \in LiveEnd'[n] : \E i \in CodeOf(n)' :
          e[1] \in Ends(i, Walk(n)[i])' /\ e[2] = NumberAt(i)'
    BY <1>1, <1>3, <2>2, <2>3
  <2>7. pc' # "fatal" => Top(n)' \subseteq LiveIn'[n]
    BY <1>1, <1>2, <2>1
  <2> QED BY <2>4, <2>5, <2>6, <2>7 DEF Recorded
<1>5. ASSUME NEW m \in Nodes, m \notin NeedToProcess', m # n PROVE Recorded(m)'
  <2>1. PICK in, out : LiveIn' = [LiveIn EXCEPT ![n] = in] /\ LiveOut' = [LiveOut EXCEPT ![n] = out]
    BY DEF Visit
  <2>2. PICK begins, ends :
          LiveBegin' = [LiveBegin EXCEPT ![n] = begins] /\ LiveEnd' = [LiveEnd EXCEPT ![n] = ends]
    BY DEF Visit
  <2>3. DOMAIN LiveIn = Nodes /\ DOMAIN LiveOut = Nodes /\ DOMAIN LiveBegin = Nodes /\ DOMAIN LiveEnd = Nodes
    BY DEF TypesOfAnalysis
  <2>4. NeedToProcess \ {n} \subseteq NeedToProcess' /\ Dead' \ CodeOf(n) = Dead \ CodeOf(n)
    BY DEF Visit
  <2>5. CodeOf(m) \cap CodeOf(n) = {}
    BY <1>5 DEF CodeOf
  <2>6. Recorded(m)
    BY <1>5, <2>4 DEF AnalysisIsRecorded
  <2>7. \A i \in CodeOf(m) : i \in Dead' <=> i \in Dead
    BY <2>4, <2>5
  <2>8. /\ LiveIn'[m] = LiveIn[m] /\ LiveOut'[m] = LiveOut[m]
        /\ LiveBegin'[m] = LiveBegin[m] /\ LiveEnd'[m] = LiveEnd[m]
    BY <1>5, <2>1, <2>2, <2>3
  <2>9. pc # "fatal"
    BY <1>2
  <2> QED BY <1>1, <2>6, <2>7, <2>8, <2>9, OtherRecordStays
<1>6. \A m \in Nodes' \ NeedToProcess' : Recorded(m)'
  BY <1>3, <1>4, <1>5
<1> QED BY <1>2, <1>6 DEF AnalysisIsRecorded

LEMMA OthersStay ==
  ASSUME UNCHANGED <<f, NeedToProcess, LiveIn, LiveOut, NumNonDeadPhis, Dead, LiveBegin, LiveEnd>>,
         pc' # "fatal" => pc # "fatal"
  PROVE  /\ Nodes' = Nodes
         /\ \A n : Recorded(n) => Recorded(n)'
         /\ \A n : /\ Walk(n)' = Walk(n) /\ Top(n)' = Top(n) /\ KeptOf(n)' = KeptOf(n)
                   /\ CodeOf(n)' = CodeOf(n) /\ Phis(n)' = Phis(n)
                   /\ FirstInstNum(n, KeptOf(n))' = FirstInstNum(n, KeptOf(n))
                   /\ Number(LastOf(KeptOf(n)))' = Number(LastOf(KeptOf(n)))
         /\ \A i : Number(i)' = Number(i)
         /\ \A v : IsArg(v)' <=> IsArg(v)
<1>1. f' = f
  OBVIOUS
<1>2. \A n : Recorded(n) => Recorded(n)'
  BY <1>1, OtherRecordStays
<1>3. \A n : Walk(n)' = Walk(n) /\ Top(n)' = Top(n) /\ \A v : IsArg(v)' <=> IsArg(v)
  BY <1>1, RecordStays DEF Walk, Top
<1>4. \A n : KeptOf(n)' = KeptOf(n)
  BY OnlyRangesChange
<1>5. \A n : /\ FirstInstNum(n, KeptOf(n))' = FirstInstNum(n, KeptOf(n))
             /\ Number(LastOf(KeptOf(n)))' = Number(LastOf(KeptOf(n)))
  <2> SUFFICES ASSUME NEW n
               PROVE  /\ FirstInstNum(n, KeptOf(n))' = FirstInstNum(n, KeptOf(n))
                      /\ Number(LastOf(KeptOf(n)))' = Number(LastOf(KeptOf(n)))
    OBVIOUS
  <2>1. KeptOf(n)' = KeptOf(n)
    BY <1>4
  <2> QED BY <2>1 DEF FirstInstNum, Number
<1> QED BY <1>1, <1>2, <1>3, <1>4, <1>5, FunctionStays

LEMMA WalkIsTyped ==
  ASSUME TypesOfAnalysis, NEW n \in Nodes
  PROVE  /\ IsWalk(n, LiveOut[n], Walk(n))
         /\ \A j \in CodeOf(n) : Walk(n)[j] \subseteq Variables
         /\ pc # "fatal" /\ Recorded(n) => Top(n) \subseteq Variables
<1>1. LiveOut[n] \in SUBSET Variables /\ LiveIn[n] \subseteq Variables
  BY LiveAtEndIsGlobal DEF TypesOfAnalysis
<1>2. IsWalk(n, LiveOut[n], Walk(n))
  BY <1>1, LiveAfterIsWalk DEF TypesOfAnalysis, Walk
<1> QED BY <1>1, <1>2 DEF IsWalk, Recorded

LEMMA FinalPassRecords ==
  ASSUME TypesOfAnalysis, NodesAreConsistent, RangesGrow, AnalysisIsRecorded,
         NEW n \in Nodes, FinalPass(n)
  PROVE  AnalysisIsRecorded'
<1> DEFINE first == FirstInstNum(n, KeptOf(n))
           last == Number(LastOf(KeptOf(n)))
           fatal == HasDuplicates(LiveBegin[n]) \/ HasDuplicates(LiveEnd[n])
<1>1. /\ pc = "final" /\ n = at + 1 /\ at' = n
      /\ Deleted' = Deleted \cup (Dead \cap CodeOf(n))
      /\ LiveRange' = [v \in Variables |-> IF fatal THEN LiveRange[v]
                                           ELSE Extended(LiveRange[v], n, v, first, last)]
      /\ pc' = IF fatal THEN "fatal" ELSE IF n = f.nodes THEN "done" ELSE "final"
      /\ UNCHANGED <<f, NeedToProcess, LiveIn, LiveOut, NumNonDeadPhis, Dead, LiveBegin, LiveEnd>>
  BY DEF FinalPass, KeptOf
<1>2. /\ NeedToProcess = {} /\ at \in Nat /\ n \in Nat /\ n # 0 /\ Deleted \subseteq Dead
      /\ \A m \in 1 .. at : m \in Nodes
      /\ \A v \in Variables : WellFormed(LiveRange[v])
      /\ \A m \in Nodes : Recorded(m)
      /\ \A m \in 1 .. at : CoveredIn(m)
      /\ at # 0 => ArgsCovered
  <2>1. at \in Nat /\ f.nodes \in Nat /\ n \in Nat /\ n # 0
    BY <1>1, CodeIsOrdered DEF TypesOfAnalysis, Nodes
  <2>2. \A m \in 1 .. at : m \in Nodes
    BY <1>1, <2>1 DEF RangesGrow, Nodes
  <2>3. \A v \in Variables : WellFormed(LiveRange[v])
    BY OrderedIsWellFormed DEF RangesGrow, RangesAreOrdered
  <2> QED BY <1>1, <2>1, <2>2, <2>3 DEF AnalysisIsRecorded
<1>3. /\ Nodes' = Nodes
      /\ \A m : Recorded(m) => Recorded(m)'
      /\ \A m : /\ Walk(m)' = Walk(m) /\ Top(m)' = Top(m)
                /\ CodeOf(m)' = CodeOf(m) /\ Phis(m)' = Phis(m)
                /\ FirstInstNum(m, KeptOf(m))' = FirstInstNum(m, KeptOf(m))
                /\ Number(LastOf(KeptOf(m)))' = Number(LastOf(KeptOf(m)))
      /\ \A i : Number(i)' = Number(i)
      /\ \A v : IsArg(v)' <=> IsArg(v)
  BY <1>1, OthersStay
<1>4. /\ first \in Nat /\ last \in Nat /\ first <= last
      /\ \A e \in LiveBegin[n] : e[2] \in Nat /\ e[2] <= last
      /\ \A e \in LiveEnd[n] : e[2] \in Nat /\ first <= e[2]
  <2>1. /\ first \in Nat /\ last \in Nat /\ first <= last
        /\ \A e \in LiveBegin[n] : e[2] \in Number(First(n)) .. last
        /\ \A e \in LiveEnd[n] : e[2] \in first .. last
        /\ Number(First(n)) \in Nat
    BY KeptFacts
  <2> HIDE DEF first, last
  <2> QED BY <2>1
<1>5. ASSUME ~fatal, NEW v \in Variables
      PROVE  /\ LiveRange'[v] = Extended(LiveRange[v], n, v, first, last)
             /\ \A q \in Nat : Covers(LiveRange[v], q) => Covers(LiveRange'[v], q)
  <2>1. LiveRange'[v] = Extended(LiveRange[v], n, v, first, last)
    BY <1>1, <1>5
  <2> HIDE DEF first, last, fatal
  <2>2. \A q \in Nat : Covers(LiveRange[v], q) => Covers(Extended(LiveRange[v], n, v, first, last), q)
    BY <1>2, <1>4, ExtendedCovers
  <2> QED BY <2>1, <2>2
<1>6. ASSUME ~fatal, NEW m \in 1 .. n PROVE CoveredIn(m)'
  <2>1. m \in Nodes
    BY <1>1, <1>2
  <2> SUFFICES ASSUME NEW j \in CodeOf(m), \A p \in Phis(m) : p <= j,
                      Number(j) \in FirstInstNum(m, KeptOf(m)) .. Number(LastOf(KeptOf(m))),
                      NEW v \in Walk(m)[j]
               PROVE  Covers(LiveRange'[v], Number(j))
    <3>1. \A range, q : Covers(range, q)' <=> Covers(range, q)
      BY DEF Covers
    <3> QED BY <1>3, <3>1 DEF CoveredIn, Covers
  <2>2. v \in Variables
    BY <2>1, WalkIsTyped
  <2>3. Number(j) \in Nat
    BY <2>1, NumberAtFacts DEF TypesOfAnalysis
  <2>4. CASE m = n
    <3>1. Recorded(n) /\ WellFormed(LiveRange[v]) /\ pc # "fatal"
      BY <1>1, <1>2, <2>2
    <3>2. ~HasDuplicates(LiveBegin[n]) /\ ~HasDuplicates(LiveEnd[n])
      BY <1>6
    <3>3. Number(j) \in first .. last
      BY <2>4
    <3> HIDE DEF fatal
    <3>4. Covers(Extended(LiveRange[v], n, v, first, last), Number(j))
      BY <2>4, <3>1, <3>2, <3>3, LiveIsCovered
    <3> HIDE DEF first, last
    <3> QED BY <1>5, <1>6, <2>2, <3>4
  <2>5. CASE m # n
    <3>1. m \in 1 .. at
      BY <1>1, <1>2, <2>5
    <3>2. Covers(LiveRange[v], Number(j))
      BY <1>2, <3>1 DEF CoveredIn
    <3> HIDE DEF first, last, fatal
    <3> QED BY <1>5, <1>6, <2>2, <2>3, <3>2
  <2> QED BY <2>4, <2>5
<1>7. ASSUME ~fatal PROVE ArgsCovered'
  <2>1. 1 \in Nodes
    BY DEF TypesOfAnalysis, IsFunction, Nodes
  <2> SUFFICES ASSUME NEW v \in Top(1), IsArg(v) PROVE Covers(LiveRange'[v], 1)
    BY <1>3 DEF ArgsCovered, Covers
  <2>2. Recorded(1) /\ pc # "fatal"
    BY <1>1, <1>2, <2>1
  <2>3. v \in Variables
    BY <2>1, <2>2, WalkIsTyped
  <2>4. CASE n = 1
    <3>1. ~HasDuplicates(LiveBegin[1]) /\ ~HasDuplicates(LiveEnd[1])
      BY <1>7, <2>4
    <3>2. WellFormed(LiveRange[v])
      BY <1>2, <2>3
    <3>3. first = FirstInstNum(1, KeptOf(1)) /\ last = Number(LastOf(KeptOf(1)))
      BY <2>4
    <3> HIDE DEF first, last, fatal
    <3>4. Covers(Extended(LiveRange[v], n, v, first, last), 1)
      BY <2>1, <2>2, <2>4, <3>1, <3>2, <3>3, ArgIsCovered
    <3> QED BY <1>5, <1>7, <2>3, <3>4
  <2>5. CASE n # 1
    <3>1. Covers(LiveRange[v], 1)
      BY <1>1, <1>2, <2>5 DEF ArgsCovered
    <3> HIDE DEF first, last, fatal
    <3> QED BY <1>5, <1>7, <2>3, <3>1
  <2> QED BY <2>4, <2>5
<1>8. pc' \in {"final", "done"} => ~fatal
  BY <1>1
<1>9. pc' # "solve" /\ Deleted' \subseteq Dead' /\ NeedToProcess' = {}
      /\ \A m \in Nodes' \ NeedToProcess' : Recorded(m)'
  BY <1>1, <1>2, <1>3
<1> HIDE DEF first, last, fatal
<1> QED BY <1>1, <1>6, <1>7, <1>8, <1>9 DEF AnalysisIsRecorded

LEMMA RecordsInit == ASSUME Init, IsFunction(f) PROVE AnalysisIsRecorded
BY DEF Init, AnalysisIsRecorded

LEMMA StepKeepsRecords ==
  ASSUME IInv, AnalysisIsRecorded, Step \/ UNCHANGED vars PROVE AnalysisIsRecorded'
<1>1. ASSUME NEW n \in Nodes, Visit(n) PROVE AnalysisIsRecorded'
  BY <1>1, VisitRecords DEF IInv
<1>2. ASSUME NEW n \in Nodes, FinalPass(n) PROVE AnalysisIsRecorded'
  BY <1>2, FinalPassRecords DEF IInv
<1>3. CASE Converge
  <2>1. /\ NeedToProcess = {} /\ pc = "solve" /\ pc' = "final" /\ at' = 0
        /\ UNCHANGED <<f, NeedToProcess, LiveIn, LiveOut, NumNonDeadPhis, Dead, LiveBegin, LiveEnd,
                       Deleted, LiveRange>>
    BY <1>3 DEF Converge
  <2>2. Nodes' = Nodes /\ \A n : Recorded(n) => Recorded(n)'
    BY <2>1, OthersStay
  <2>3. 1 .. at' = {}
    BY <2>1
  <2> QED BY <2>1, <2>2, <2>3 DEF AnalysisIsRecorded
<1>4. CASE UNCHANGED vars
  <2>1. UNCHANGED <<f, pc, at, NeedToProcess, LiveIn, LiveOut, NumNonDeadPhis, Dead,
                    LiveBegin, LiveEnd, Deleted, LiveRange>>
    BY <1>4 DEF vars
  <2>2. /\ Nodes' = Nodes
        /\ \A n : Recorded(n) => Recorded(n)'
        /\ \A n : /\ Walk(n)' = Walk(n) /\ Top(n)' = Top(n)
                  /\ CodeOf(n)' = CodeOf(n) /\ Phis(n)' = Phis(n)
                  /\ FirstInstNum(n, KeptOf(n))' = FirstInstNum(n, KeptOf(n))
                  /\ Number(LastOf(KeptOf(n)))' = Number(LastOf(KeptOf(n)))
        /\ \A i : Number(i)' = Number(i)
        /\ \A v : IsArg(v)' <=> IsArg(v)
    BY <2>1, OthersStay
  <2>3. \A n : CoveredIn(n) => CoveredIn(n)'
    BY <2>1, <2>2 DEF CoveredIn, Covers
  <2>4. ArgsCovered => ArgsCovered'
    BY <2>1, <2>2 DEF ArgsCovered, Covers
  <2> QED BY <2>1, <2>2, <2>3, <2>4 DEF AnalysisIsRecorded
<1> QED BY <1>1, <1>2, <1>3, <1>4 DEF Step

-----------------------------------------------------------------------------
(***************************************************************************)
(* When what is deleted is what the last visits found dead, the walk of a  *)
(* block has every variable that really is live in the code left.          *)
(***************************************************************************)
LEMMA BlockLiveness ==
  ASSUME TypesOfAnalysis, Deleted = Dead, NEW n \in Nodes, Recorded(n),
         NEW j \in CodeOf(n), NEW out, out \subseteq LiveOut[n],
         NEW v \in LiveBefore({k \in CodeOf(n) : j <= k}, out)
  PROVE  v \in LiveAbove(j, Walk(n)[j])
<1> DEFINE live == Walk(n)
           S == {k \in CodeOf(n) : j <= k}
           T == {k \in CodeOf(n) : v \in LiveAbove(k, live[k])}
<1>1. IsWalk(n, LiveOut[n], live)
  BY WalkIsTyped
<1>2. /\ Last(n) \in Nat /\ First(n) \in Nat /\ j \in First(n) .. Last(n) /\ j \in Nat
      /\ CodeOf(n) = First(n) .. Last(n) /\ CodeOf(n) \subseteq Code /\ Last(n) \in CodeOf(n)
  BY BlockIsInterval, CodeIsOrdered DEF TypesOfAnalysis
<1>3. \A k \in CodeOf(n) : k \in Deleted <=> IsDead(k, live[k])
  BY DEF Recorded
<1>4. ASSUME NEW k \in CodeOf(n), v \in live[k],
             k \notin Deleted /\ ~f.code[k].redefined => f.code[k].dest # v
      PROVE  k \in T
  <2>1. v \notin Begins(k, live[k])
    BY <1>3, <1>4 DEF Begins, IsDead
  <2> QED BY <1>4, <2>1 DEF LiveAbove
<1>5. ASSUME NEW i \in CodeOf(n), j <= i, i \in T,
             \A k \in CodeOf(n) : j <= k /\ k < i /\ k \notin Deleted /\ ~f.code[k].redefined
                                    => f.code[k].dest # v
      PROVE  j \in T
  <2>1. i \in Nat /\ i <= Last(n) /\ First(n) <= j
    BY <1>2
  <2>2. ASSUME NEW k \in j .. i, k + 1 \in T, k < i PROVE k \in T
    <3>1. k \in CodeOf(n) /\ k < Last(n) /\ j <= k
      BY <1>2, <2>1, <2>2
    <3>2. v \in live[k]
      BY <1>1, <2>2, <3>1 DEF IsWalk
    <3> HIDE DEF T
    <3> QED BY <1>4, <1>5, <2>2, <3>1, <3>2
  <2>3. j .. i \subseteq T
    <3> HIDE DEF T
    <3> QED BY <1>2, <1>5, <2>1, <2>2, Downward
  <2> QED BY <1>2, <1>5, <2>1, <2>3
<1>6. CASE v \in out \ DefinedIn(S)
  <2>1. \A k \in CodeOf(n) : j <= k /\ k \notin Deleted /\ ~f.code[k].redefined => f.code[k].dest # v
    BY <1>6 DEF DefinedIn, KeptIn
  <2>2. v \in live[Last(n)]
    BY <1>1, <1>6 DEF IsWalk
  <2>3. j <= Last(n)
    BY <1>2
  <2>4. Last(n) \in T
    <3> HIDE DEF T
    <3> QED BY <1>2, <1>4, <2>1, <2>2, <2>3
  <2> HIDE DEF T
  <2>5. j \in T
    BY <1>2, <1>5, <2>1, <2>3, <2>4
  <2> QED BY <2>5 DEF T
<1>7. CASE v \in UsedFirstIn(S)
  <2>1. PICK i \in KeptIn(S) : ~IsPhi(i) /\ v \in f.code[i].uses \ DefinedIn({k \in S : k < i})
    BY <1>7 DEF UsedFirstIn
  <2>2. i \in CodeOf(n) /\ j <= i /\ i \notin Deleted
    BY <2>1 DEF KeptIn
  <2>3. \A k \in CodeOf(n) : j <= k /\ k < i /\ k \notin Deleted /\ ~f.code[k].redefined
                               => f.code[k].dest # v
    BY <2>1 DEF DefinedIn, KeptIn
  <2>4. i \in T
    <3>1. v \in UsedBy(i, live[i])
      BY <1>3, <2>1, <2>2 DEF UsedBy
    <3> QED BY <2>2, <3>1 DEF LiveAbove
  <2> HIDE DEF T
  <2>5. j \in T
    BY <1>5, <2>2, <2>3, <2>4
  <2> QED BY <2>5 DEF T
<1> QED BY <1>6, <1>7 DEF LiveBefore

LEMMA LiveBehind ==
  ASSUME TypesOfAnalysis, Deleted = Dead, NEW n \in Nodes, Recorded(n),
         NEW j \in CodeOf(n), NEW out, out \subseteq LiveOut[n],
         NEW v \in LiveBefore({k \in CodeOf(n) : j < k}, out)
  PROVE  v \in Walk(n)[j]
<1>1. IsWalk(n, LiveOut[n], Walk(n))
  BY WalkIsTyped
<1>2. /\ Last(n) \in Nat /\ First(n) \in Nat /\ j \in Nat /\ j <= Last(n)
      /\ CodeOf(n) = First(n) .. Last(n) /\ First(n) <= j
  BY BlockIsInterval DEF TypesOfAnalysis
<1>3. CASE j = Last(n)
  <2>1. {k \in CodeOf(n) : j < k} = {}
    BY <1>2, <1>3
  <2>2. v \in out
    BY <2>1 DEF LiveBefore, UsedFirstIn, KeptIn
  <2> QED BY <1>1, <1>3, <2>2 DEF IsWalk
<1>4. CASE j # Last(n)
  <2>1. j + 1 \in CodeOf(n) /\ j < Last(n)
    BY <1>2, <1>4
  <2>2. {k \in CodeOf(n) : j < k} = {k \in CodeOf(n) : j + 1 <= k}
    <3>1. \A k \in CodeOf(n) : j < k <=> j + 1 <= k
      BY <1>2
    <3> QED BY <3>1
  <2>3. v \in LiveAbove(j + 1, Walk(n)[j + 1])
    BY <2>1, <2>2, BlockLiveness
  <2> QED BY <1>1, <2>1, <2>3 DEF IsWalk
<1> QED BY <1>3, <1>4

LEMMA WholeBlock ==
  ASSUME TypesOfAnalysis, Deleted = Dead, NEW n \in Nodes, Recorded(n),
         NEW out, out \subseteq LiveOut[n]
  PROVE  LiveBefore(CodeOf(n), out) \subseteq Top(n)
<1>1. /\ First(n) \in CodeOf(n) /\ First(n) \in Nat /\ Last(n) \in Nat
      /\ CodeOf(n) = First(n) .. Last(n)
  BY BlockIsInterval DEF TypesOfAnalysis
<1>2. {k \in CodeOf(n) : First(n) <= k} = CodeOf(n)
  BY <1>1
<1>3. \A v \in LiveBefore(CodeOf(n), out) : v \in LiveAbove(First(n), Walk(n)[First(n)])
  BY <1>1, <1>2, BlockLiveness
<1> QED BY <1>3 DEF Top, LiveAboveBlock, Walk

(***************************************************************************)
(* A definition by recursion over the natural numbers has a value: the     *)
(* initial parts of it exist and agree.                                    *)
(***************************************************************************)
IsPart(g, m, b, F) == g[0] = b /\ \A k \in 1 .. m : g[k] = F[g[k - 1]]

LEMMA PartsAgree ==
  ASSUME NEW b, NEW F, NEW m \in Nat, NEW g, IsPart(g, m, b, F), NEW h, IsPart(h, m, b, F)
  PROVE  \A k \in 0 .. m : g[k] = h[k]
<1> DEFINE Different == {k \in 0 .. m : g[k] # h[k]}
<1> SUFFICES ASSUME Different # {} PROVE FALSE
  OBVIOUS
<1>1. Different \in SUBSET Nat
  OBVIOUS
<1>2. PICK k \in Different : \A d \in Different : k <= d
  <2> HIDE DEF Different
  <2> QED BY <1>1, SmallestNumber
<1>3. k \in Nat /\ k <= m /\ g[k] # h[k]
  BY <1>2
<1>4. k # 0
  BY <1>3 DEF IsPart
<1>5. k \in 1 .. m /\ k - 1 \in 0 .. m /\ k - 1 < k
  BY <1>3, <1>4
<1>6. g[k - 1] = h[k - 1]
  <2>1. k - 1 \notin Different
    BY <1>2, <1>3, <1>5
  <2> QED BY <1>5, <2>1
<1> QED BY <1>3, <1>5, <1>6 DEF IsPart

LEMMA PartExists ==
  ASSUME NEW b, NEW F
  PROVE  \A m \in Nat : \E g : IsPart(g, m, b, F)
<1> DEFINE Missing == {m \in Nat : ~ \E g : IsPart(g, m, b, F)}
<1> SUFFICES ASSUME Missing # {} PROVE FALSE
  OBVIOUS
<1>1. PICK m \in Missing : \A k \in Missing : m <= k
  <2>1. Missing \in SUBSET Nat
    OBVIOUS
  <2> HIDE DEF Missing
  <2> QED BY <2>1, SmallestNumber
<1>2. m \in Nat /\ ~ \E g : IsPart(g, m, b, F)
  BY <1>1
<1>3. CASE m = 0
  <2> DEFINE g == [k \in {0} |-> b]
  <2>1. g[0] = b /\ 1 .. m = {}
    BY <1>3
  <2>2. IsPart(g, m, b, F)
    BY <2>1 DEF IsPart
  <2> QED BY <1>2, <2>2
<1>4. CASE m # 0
  <2>1. m - 1 \in Nat /\ m - 1 \notin Missing
    BY <1>1, <1>2, <1>4
  <2>2. PICK h : IsPart(h, m - 1, b, F)
    BY <2>1
  <2> DEFINE next == F[h[m - 1]]
             g == [k \in 0 .. m |-> IF k = m THEN next ELSE h[k]]
  <2> HIDE DEF next
  <2>3. g[0] = b
    BY <1>2, <1>4, <2>2 DEF IsPart
  <2>4. ASSUME NEW k \in 1 .. m PROVE g[k] = F[g[k - 1]]
    <3>1. k - 1 \in 0 .. m /\ k - 1 # m /\ k \in 0 .. m
      BY <1>2
    <3>2. g[k - 1] = h[k - 1]
      BY <3>1
    <3>3. CASE k = m
      BY <3>1, <3>2, <3>3 DEF next
    <3>4. CASE k # m
      <4>1. k \in 1 .. m - 1
        BY <1>2, <3>4
      <4>2. h[k] = F[h[k - 1]]
        BY <2>2, <4>1 DEF IsPart
      <4>3. g[k] = h[k]
        BY <3>1, <3>4
      <4> QED BY <3>2, <4>2, <4>3
    <3> QED BY <3>3, <3>4
  <2> HIDE DEF g
  <2>5. IsPart(g, m, b, F)
    BY <2>3, <2>4 DEF IsPart
  <2> QED BY <1>2, <2>5
<1> QED BY <1>3, <1>4

LEMMA IterationExists ==
  ASSUME NEW T, NEW b \in T, NEW F \in [T -> T]
  PROVE  \E g \in [Nat -> T] : \A k \in Nat : g[k] = IF k = 0 THEN b ELSE F[g[k - 1]]
<1> DEFINE part(k) == CHOOSE g : IsPart(g, k, b, F)
           whole == [k \in Nat |-> part(k)[k]]
<1>1. \A k \in Nat : IsPart(part(k), k, b, F)
  BY PartExists
<1> HIDE DEF part
<1>2. ASSUME NEW k \in Nat PROVE whole[k] = IF k = 0 THEN b ELSE F[whole[k - 1]]
  <2>1. CASE k = 0
    <3>1. part(0)[0] = b
      BY <1>1 DEF IsPart
    <3> QED BY <2>1, <3>1
  <2>2. CASE k # 0
    <3>1. k - 1 \in Nat /\ k \in 1 .. k /\ k - 1 \in 0 .. (k - 1)
      BY <2>2
    <3>2. part(k)[k] = F[part(k)[k - 1]]
      BY <1>1, <3>1 DEF IsPart
    <3>3. IsPart(part(k), k - 1, b, F)
      <4>1. \A x \in 1 .. (k - 1) : x \in 1 .. k
        OBVIOUS
      <4> QED BY <1>1, <4>1 DEF IsPart
    <3>4. part(k)[k - 1] = part(k - 1)[k - 1]
      BY <1>1, <3>1, <3>3, PartsAgree
    <3>5. whole[k] = part(k)[k] /\ whole[k - 1] = part(k - 1)[k - 1]
      BY <3>1
    <3> QED BY <2>2, <3>2, <3>4, <3>5
  <2> QED BY <2>1, <2>2
<1> HIDE DEF whole
<1> DEFINE Bad == {k \in Nat : whole[k] \notin T}
<1>3. Bad = {}
  <2> SUFFICES ASSUME Bad # {} PROVE FALSE
    OBVIOUS
  <2>1. PICK k \in Bad : \A d \in Bad : k <= d
    <3>1. Bad \in SUBSET Nat
      OBVIOUS
    <3> HIDE DEF Bad
    <3> QED BY <3>1, SmallestNumber
  <2>2. k \in Nat /\ whole[k] \notin T
    BY <2>1
  <2>3. k # 0
    BY <1>2, <2>2
  <2>4. k - 1 \in Nat /\ k - 1 \notin Bad
    BY <2>1, <2>2, <2>3
  <2> QED BY <1>2, <2>2, <2>3, <2>4
<1>4. whole \in [Nat -> T]
  <2>1. DOMAIN whole = Nat /\ whole = [k \in Nat |-> whole[k]]
    BY DEF whole
  <2> QED BY <1>3, <2>1
<1> QED BY <1>2, <1>4

(***************************************************************************)
(* The equations of the recursive definitions.                             *)
(***************************************************************************)
LiveStep(in) == UNION {{n} \X LiveBefore(CodeOf(n), OutOf(in, n)) : n \in Nodes}

LEMMA LiveStepTypes ==
  ASSUME IsFunction(f), NEW in
  PROVE  LiveStep(in) \subseteq Nodes \X Variables
<1>1. ASSUME NEW n \in Nodes PROVE OutOf(in, n) \subseteq Variables
  <2>1. ASSUME NEW s \in f.succ[n], NEW i \in Phis(s) PROVE f.code[i].from[n] \in Variables \cup {None}
    <3>1. i \in DOMAIN f.code /\ f.code[i].from # <<>> /\ f.code[i].node \in f.succ[n]
      BY DEF Phis, CodeOf, Code, IsPhi
    <3> QED BY <3>1 DEF IsFunction, Nodes
  <2>2. OperandsFrom(n) \subseteq Variables
    BY <2>1 DEF OperandsFrom, KeptIn
  <2> QED BY <2>2 DEF OutOf, LiveInOf
<1>2. ASSUME NEW n \in Nodes PROVE UsedFirstIn(CodeOf(n)) \subseteq Variables
  <2>1. \A i \in CodeOf(n) : f.code[i].uses \subseteq Variables
    BY DEF CodeOf, Code, IsFunction
  <2> QED BY <2>1 DEF UsedFirstIn, KeptIn
<1> QED BY <1>1, <1>2 DEF LiveStep, LiveBefore

LEMMA LiveWithinEquation ==
  ASSUME IsFunction(f)
  PROVE  \A k \in Nat : LiveWithin[k] = IF k = 0 THEN {} ELSE LiveStep(LiveWithin[k - 1])
<1> DEFINE T == SUBSET (Nodes \X Variables)
           F == [in \in T |-> LiveStep(in)]
<1>1. {} \in T /\ F \in [T -> T]
  BY LiveStepTypes
<1>2. PICK g \in [Nat -> T] : \A k \in Nat : g[k] = IF k = 0 THEN {} ELSE F[g[k - 1]]
  <2> HIDE DEF T, F
  <2> QED BY <1>1, IterationExists
<1>3. ASSUME NEW k \in Nat PROVE g[k] = IF k = 0 THEN {} ELSE LiveStep(g[k - 1])
  <2>1. k # 0 => g[k - 1] \in T
    BY <1>2
  <2> QED BY <1>2, <2>1
<1>4. g = [k \in Nat |-> IF k = 0 THEN {} ELSE LiveStep(g[k - 1])]
  <2>1. g = [k \in Nat |-> g[k]]
    BY <1>2
  <2> QED BY <1>3, <2>1
<1>5. \E h : h = [k \in Nat |-> IF k = 0 THEN {} ELSE LiveStep(h[k - 1])]
  BY <1>4
<1>6. LiveWithin = [k \in Nat |-> IF k = 0 THEN {} ELSE LiveStep(LiveWithin[k - 1])]
  BY <1>5 DEF LiveWithin, LiveStep
<1> QED BY <1>6

NeededAnyway == {i \in Code : f.code[i].effect \/ f.code[i].dest = None}
NeededStep(S) == S \cup {j \in Code : \E i \in S : f.code[j].dest \in f.code[i].uses}

LEMMA NeededWithinEquation ==
  /\ NeededWithin[0] = NeededAnyway
  /\ \A k \in Nat \ {0} : NeededWithin[k] = NeededStep(NeededWithin[k - 1])
  /\ \A k \in Nat : NeededAnyway \subseteq NeededWithin[k] /\ NeededWithin[k] \subseteq Code
<1> DEFINE T == SUBSET Code
           F == [S \in T |-> NeededStep(S)]
<1>1. NeededAnyway \in T /\ F \in [T -> T]
  BY DEF NeededAnyway, NeededStep
<1>2. PICK g \in [Nat -> T] : \A k \in Nat : g[k] = IF k = 0 THEN NeededAnyway ELSE F[g[k - 1]]
  <2> HIDE DEF T, F
  <2> QED BY <1>1, IterationExists
<1>3. ASSUME NEW k \in Nat PROVE g[k] = IF k = 0 THEN NeededAnyway ELSE NeededStep(g[k - 1])
  <2>1. k # 0 => g[k - 1] \in T
    BY <1>2
  <2> QED BY <1>2, <2>1
<1>4. g = [k \in Nat |-> IF k = 0 THEN NeededAnyway ELSE NeededStep(g[k - 1])]
  <2>1. g = [k \in Nat |-> g[k]]
    BY <1>2
  <2> QED BY <1>3, <2>1
<1>5. \E h : h = [k \in Nat |-> IF k = 0 THEN NeededAnyway ELSE NeededStep(h[k - 1])]
  BY <1>4
<1>6. NeededWithin = [k \in Nat |-> IF k = 0 THEN NeededAnyway ELSE NeededStep(NeededWithin[k - 1])]
  BY <1>5 DEF NeededWithin, NeededAnyway, NeededStep
<1> DEFINE Bad == {k \in Nat : ~(NeededAnyway \subseteq NeededWithin[k] /\ NeededWithin[k] \subseteq Code)}
<1>7. Bad = {}
  <2> SUFFICES ASSUME Bad # {} PROVE FALSE
    OBVIOUS
  <2>1. PICK k \in Bad : \A d \in Bad : k <= d
    <3>1. Bad \in SUBSET Nat
      OBVIOUS
    <3> HIDE DEF Bad
    <3> QED BY <3>1, SmallestNumber
  <2>2. k \in Nat /\ ~(NeededAnyway \subseteq NeededWithin[k] /\ NeededWithin[k] \subseteq Code)
    BY <2>1
  <2>3. k # 0
    BY <1>6, <2>2 DEF NeededAnyway
  <2>4. k - 1 \in Nat /\ k - 1 \notin Bad
    BY <2>1, <2>2, <2>3
  <2> QED BY <1>6, <2>2, <2>3, <2>4 DEF NeededStep
<1> QED BY <1>6, <1>7

-----------------------------------------------------------------------------
(***************************************************************************)
(* LiveOut has all that the last visits would find live at the end of each *)
(* node now: what had to be visited again was.                             *)
(***************************************************************************)
Settled == \A n \in Nodes : LiveAtEnd(n) \subseteq LiveOut[n]

LEMMA OutIsLiveOut ==
  ASSUME Settled, Deleted = Dead, NEW in, \A s \in Nodes : LiveInOf(in, s) \subseteq LiveIn[s],
         TypesOfAnalysis, NEW n \in Nodes
  PROVE  OutOf(in, n) \subseteq LiveOut[n]
<1>1. f.succ[n] \subseteq Nodes
  BY DEF TypesOfAnalysis, IsFunction, Nodes
<1>2. OperandsFrom(n) = PhiOperands(n)
  BY DEF OperandsFrom, PhiOperands, KeptIn
<1>3. (UNION {LiveInOf(in, s) : s \in f.succ[n]}) \subseteq UNION {LiveIn[s] : s \in f.succ[n]}
  BY <1>1
<1>4. OutOf(in, n) \subseteq LiveAtEnd(n)
  BY <1>2, <1>3 DEF OutOf, LiveAtEnd
<1> QED BY <1>4 DEF Settled

LEMMA LiveIsOnTop ==
  ASSUME TypesOfAnalysis, Settled, Deleted = Dead, pc # "fatal", \A n \in Nodes : Recorded(n)
  PROVE  \A k \in Nat : \A n \in Nodes : LiveInOf(LiveWithin[k], n) \subseteq Top(n)
<1> DEFINE Bad == {k \in Nat : ~ \A n \in Nodes : LiveInOf(LiveWithin[k], n) \subseteq Top(n)}
<1> SUFFICES ASSUME Bad # {} PROVE FALSE
  OBVIOUS
<1>1. PICK k \in Bad : \A b \in Bad : k <= b
  <2>1. Bad \in SUBSET Nat
    OBVIOUS
  <2> HIDE DEF Bad
  <2> QED BY <2>1, SmallestNumber
<1>2. k \in Nat /\ ~ \A n \in Nodes : LiveInOf(LiveWithin[k], n) \subseteq Top(n)
  BY <1>1
<1>3. k # 0
  <2>1. k = 0 => LiveWithin[k] = {}
    BY <1>2, LiveWithinEquation DEF TypesOfAnalysis
  <2> QED BY <1>2, <2>1 DEF LiveInOf
<1>4. k - 1 \in Nat /\ k - 1 \notin Bad
  BY <1>1, <1>2, <1>3
<1> DEFINE in == LiveWithin[k - 1]
<1>5. LiveWithin[k] = LiveStep(in)
  BY <1>2, <1>3, LiveWithinEquation DEF TypesOfAnalysis
<1>6. \A s \in Nodes : LiveInOf(in, s) \subseteq LiveIn[s]
  BY <1>4 DEF Recorded
<1> HIDE DEF in
<1>7. ASSUME NEW n \in Nodes PROVE LiveInOf(LiveWithin[k], n) \subseteq Top(n)
  <2>1. LiveInOf(LiveWithin[k], n) \subseteq LiveBefore(CodeOf(n), OutOf(in, n))
    BY <1>5 DEF LiveInOf, LiveStep
  <2>2. OutOf(in, n) \subseteq LiveOut[n]
    BY <1>6, OutIsLiveOut
  <2>3. LiveBefore(CodeOf(n), OutOf(in, n)) \subseteq Top(n)
    BY <2>2, WholeBlock
  <2> QED BY <2>1, <2>3
<1> QED BY <1>2, <1>7

(***************************************************************************)
(* After the final pass.                                                   *)
(***************************************************************************)
LEMMA AtTheEnd ==
  ASSUME IInv, AnalysisIsRecorded, pc = "done", Settled
  PROVE  /\ Deleted = Dead
         /\ \A n \in Nodes : Recorded(n) /\ CoveredIn(n)
         /\ ArgsCovered
         /\ \A s \in Nodes : LiveInOf(ReallyLiveIn, s) \subseteq Top(s) \cap LiveIn[s]
         /\ \A n \in Nodes : OutOf(ReallyLiveIn, n) \subseteq LiveOut[n]
<1>1. /\ TypesOfAnalysis /\ at = f.nodes /\ f.nodes \in Nat /\ f.nodes # 0 /\ NeedToProcess = {}
      /\ Deleted \subseteq Dead /\ Dead \subseteq Code
      /\ \A n \in 1 .. at : CoveredIn(n) /\ Dead \cap CodeOf(n) \subseteq Deleted
  BY DEF IInv, AnalysisIsRecorded, RangesGrow, TypesOfAnalysis, IsFunction
<1>2. Deleted = Dead
  <2>1. ASSUME NEW i \in Dead PROVE i \in Deleted
    <3>1. f.code[i].node \in 1 .. f.nodes /\ i \in CodeOf(f.code[i].node)
      BY <1>1 DEF TypesOfAnalysis, IsFunction, CodeOf, Code
    <3> QED BY <1>1, <3>1
  <2> QED BY <1>1, <2>1
<1>3. \A n \in Nodes : Recorded(n) /\ CoveredIn(n)
  BY <1>1 DEF AnalysisIsRecorded, Nodes
<1>4. ArgsCovered
  BY <1>1 DEF AnalysisIsRecorded
<1>5. \A s \in Nodes : LiveInOf(ReallyLiveIn, s) \subseteq Top(s) \cap LiveIn[s]
  <2>1. \A s \in Nodes : LiveInOf(ReallyLiveIn, s) \subseteq Top(s)
    BY <1>1, <1>2, <1>3, LiveIsOnTop DEF ReallyLiveIn
  <2> QED BY <1>3, <2>1 DEF Recorded
<1>6. \A n \in Nodes : OutOf(ReallyLiveIn, n) \subseteq LiveOut[n]
  BY <1>1, <1>2, <1>5, OutIsLiveOut
<1> QED BY <1>2, <1>3, <1>4, <1>5, <1>6

(***************************************************************************)
(* The instruction behind which what is defined by i is in its register:   *)
(* all phis of a node are written together.                                *)
(***************************************************************************)
Behind(i) == IF IsPhi(i) THEN LastOf(Phis(f.code[i].node)) ELSE i

LEMMA BehindFacts ==
  ASSUME TypesOfAnalysis, NodesAreConsistent, NEW i \in Code, i \notin Dead,
         NEW n, n = f.code[i].node
  PROVE  /\ n \in Nodes
         /\ Behind(i) \in CodeOf(n)
         /\ \A p \in Phis(n) : p <= Behind(i)
         /\ Number(Behind(i)) \in FirstInstNum(n, KeptOf(n)) .. Number(LastOf(KeptOf(n)))
         /\ \A in : ReallyLiveAfter(i, in) =
              LiveBefore({k \in CodeOf(n) : Behind(i) < k}, OutOf(in, n))
<1> DEFINE j == Behind(i)
           kept == KeptOf(n)
<1>1. /\ n \in Nodes /\ i \in CodeOf(n) /\ i \in kept
      /\ (IsPhi(i) <=> i \in Phis(n))
  BY DEF TypesOfAnalysis, IsFunction, Nodes, Code, CodeOf, KeptOf, Phis
<1>2. /\ Len(f.code) \in Nat /\ Code = 1 .. Len(f.code)
      /\ CodeOf(n) \subseteq Code /\ Phis(n) \subseteq CodeOf(n)
      /\ \A p \in Phis(n), k \in CodeOf(n) \ Phis(n) : p < k
  BY CodeIsOrdered DEF TypesOfAnalysis
<1>3. PICK t \in CodeOf(n) \ Phis(n) : f.code[t].dest = None
  BY <1>1, CodeIsOrdered DEF TypesOfAnalysis
<1>4. t \in kept /\ kept \in SUBSET (1 .. Len(f.code)) /\ kept # {} /\ kept \in SUBSET Nat
  BY <1>2, <1>3 DEF KeptOf, NodesAreConsistent
<1>5. FirstOf(kept) \in kept /\ FirstOf(kept) <= i
  BY <1>1, <1>4, FirstIsFirst
<1>6. LastOf(kept) \in kept /\ i <= LastOf(kept) /\ t <= LastOf(kept)
  <2> HIDE DEF kept
  <2> QED BY <1>1, <1>2, <1>4, LastIsLast
<1>7. /\ j \in CodeOf(n) /\ i <= j /\ j <= LastOf(kept)
      /\ \A p \in Phis(n) : p <= j
      /\ {k \in CodeOf(n) : j < k} = IF IsPhi(i) THEN Insts(n) ELSE {k \in Insts(n) : k > i}
  <2>1. CASE IsPhi(i)
    <3>1. Phis(n) \in SUBSET (1 .. Len(f.code)) /\ Phis(n) # {} /\ i \in Phis(n)
      BY <1>1, <1>2, <2>1
    <3>2. j = LastOf(Phis(n))
      BY <2>1 DEF Behind
    <3> HIDE DEF j, kept
    <3>3. j \in Phis(n) /\ \A p \in Phis(n) : p <= j
      BY <1>2, <3>1, <3>2, LastIsLast
    <3>4. j < t /\ j \in Nat /\ t \in Nat /\ LastOf(kept) \in Nat
      <4>1. j < t
        BY <1>2, <1>3, <3>3
      <4>2. j \in 1 .. Len(f.code) /\ t \in 1 .. Len(f.code)
        BY <1>2, <1>3, <3>3
      <4>3. LastOf(kept) \in Nat
        BY <1>4, <1>6
      <4> QED BY <1>2, <4>1, <4>2, <4>3
    <3>5. j <= LastOf(kept)
      BY <1>6, <3>4
    <3>6. \A k \in CodeOf(n) : j < k <=> k \notin Phis(n)
      <4>1. \A k \in CodeOf(n) : k \in Nat
        BY <1>2
      <4>2. \A k \in Phis(n) : ~(j < k)
        BY <1>2, <3>3, <3>4, <4>1
      <4> QED BY <1>2, <3>3, <4>2
    <3>7. {k \in CodeOf(n) : j < k} = Insts(n)
      BY <3>6 DEF Insts
    <3> QED BY <1>2, <2>1, <3>1, <3>3, <3>5, <3>7
  <2>2. CASE ~IsPhi(i)
    <3>1. j = i /\ i \notin Phis(n)
      BY <1>1, <2>2 DEF Behind
    <3> HIDE DEF j, kept
    <3>2. \A p \in Phis(n) : p < i
      BY <1>1, <1>2, <3>1
    <3>3. \A k \in CodeOf(n) : k \in Nat
      BY <1>2
    <3>4. i \in Nat /\ \A p \in Phis(n) : p <= i /\ ~(i < p)
      BY <1>1, <1>2, <3>2, <3>3
    <3>5. {k \in CodeOf(n) : i < k} = {k \in Insts(n) : k > i}
      <4>1. \A k \in CodeOf(n) : i < k <=> k \notin Phis(n) /\ k > i
        BY <3>3, <3>4
      <4> QED BY <4>1 DEF Insts
    <3> QED BY <1>1, <1>6, <2>2, <3>1, <3>4, <3>5
  <2> QED BY <2>1, <2>2
<1>8. Number(j) \in FirstInstNum(n, kept) .. Number(LastOf(kept))
  <2>1. \A k \in Nat : Number(k) = k + 1
    BY DEF Number, NumberInitial
  <2>2. i \in Nat /\ j \in Nat /\ FirstOf(kept) \in Nat /\ LastOf(kept) \in Nat
    BY <1>1, <1>2, <1>4, <1>5, <1>6, <1>7
  <2> HIDE DEF j, kept
  <2>3. Number(j) = j + 1 /\ Number(LastOf(kept)) = LastOf(kept) + 1
        /\ Number(FirstOf(kept)) = FirstOf(kept) + 1
    BY <2>1, <2>2
  <2>4. FirstInstNum(n, kept) = 1 \/ FirstInstNum(n, kept) = FirstOf(kept) + 1
    BY <2>3 DEF FirstInstNum, NumberExtended, NumberInitial
  <2> QED BY <1>5, <1>7, <2>2, <2>3, <2>4
<1> HIDE DEF j, kept
<1>9. \A in : ReallyLiveAfter(i, in) = LiveBefore({k \in CodeOf(n) : j < k}, OutOf(in, n))
  BY <1>7 DEF ReallyLiveAfter
<1> QED BY <1>1, <1>7, <1>8, <1>9 DEF j, kept

(***************************************************************************)
(* What is live behind a definition is covered there.                      *)
(***************************************************************************)
LEMMA ReallyLiveIsCovered ==
  ASSUME IInv, AnalysisIsRecorded, pc = "done", Settled, NEW i \in KeptIn(Code),
         NEW v \in ReallyLiveAfter(i, ReallyLiveIn)
  PROVE  v \in Variables /\ Covers(LiveRange[v], Number(Behind(i)))
<1> DEFINE n == f.code[i].node
<1>1. /\ TypesOfAnalysis /\ NodesAreConsistent /\ Deleted = Dead
      /\ \A m \in Nodes : Recorded(m) /\ CoveredIn(m) /\ OutOf(ReallyLiveIn, m) \subseteq LiveOut[m]
  BY AtTheEnd DEF IInv
<1>2. i \in Code /\ i \notin Dead
  BY <1>1 DEF KeptIn
<1> HIDE DEF n
<1>3. /\ n \in Nodes /\ Behind(i) \in CodeOf(n) /\ \A p \in Phis(n) : p <= Behind(i)
      /\ Number(Behind(i)) \in FirstInstNum(n, KeptOf(n)) .. Number(LastOf(KeptOf(n)))
      /\ v \in LiveBefore({k \in CodeOf(n) : Behind(i) < k}, OutOf(ReallyLiveIn, n))
  BY <1>1, <1>2, BehindFacts DEF n
<1>4. v \in Walk(n)[Behind(i)]
  BY <1>1, <1>3, LiveBehind
<1>5. v \in Variables
  BY <1>1, <1>3, <1>4, WalkIsTyped
<1> QED BY <1>1, <1>3, <1>4, <1>5 DEF CoveredIn

LEMMA CoveredOverlap ==
  ASSUME NEW r1, NEW r2, IsOrdered(r1), IsOrdered(r2), NEW q \in Nat, Covers(r1, q), Covers(r2, q)
  PROVE  Overlaps(r1, r2)
<1>1. PICK j \in DOMAIN r1 : r1[j][1] <= q /\ q < r1[j][2]
  BY DEF Covers
<1>2. PICK k \in DOMAIN r2 : r2[k][1] <= q /\ q < r2[k][2]
  BY DEF Covers
<1>3. r1[j][1] \in Nat /\ r1[j][2] \in Nat /\ r2[k][1] \in Nat /\ r2[k][2] \in Nat
  BY DEF IsOrdered
<1>4. r2[k][1] < r1[j][2] /\ r1[j][1] < r2[k][2]
  BY <1>1, <1>2, <1>3
<1> QED BY <1>4 DEF Overlaps

LEMMA SettledIsSeen ==
  ASSUME IInv, AnalysisIsRecorded, Settled
  PROVE  InterferenceIsSeen
<1> SUFFICES ASSUME pc = "done",
                    NEW pair \in (UNION {Interfere(i, ReallyLiveIn) : i \in KeptIn(Code)})
                                   \cup InterferingArgs(ReallyLiveIn),
                    NEW v \in pair, NEW w \in pair
             PROVE  Overlaps(LiveRange[v], LiveRange[w])
  BY DEF InterferenceIsSeen
<1>1. \A x \in Variables : IsOrdered(LiveRange[x])
  BY DEF IInv, RangesGrow, RangesAreOrdered
<1>2. ASSUME NEW i \in KeptIn(Code), pair \in Interfere(i, ReallyLiveIn)
      PROVE  Overlaps(LiveRange[v], LiveRange[w])
  <2> DEFINE live == ReallyLiveAfter(i, ReallyLiveIn)
  <2>1. v \in live /\ w \in live
    BY <1>2 DEF Interfere
  <2>2. /\ v \in Variables /\ Covers(LiveRange[v], Number(Behind(i)))
        /\ w \in Variables /\ Covers(LiveRange[w], Number(Behind(i)))
    BY <2>1, ReallyLiveIsCovered
  <2>3. Number(Behind(i)) \in Nat
    <3>1. i \in Code /\ i \notin Dead /\ TypesOfAnalysis /\ NodesAreConsistent
      BY AtTheEnd DEF KeptIn, IInv
    <3>2. Behind(i) \in CodeOf(f.code[i].node) /\ f.code[i].node \in Nodes
      BY <3>1, BehindFacts
    <3> QED BY <3>1, <3>2, NumberAtFacts DEF TypesOfAnalysis
  <2> QED BY <1>1, <2>2, <2>3, CoveredOverlap
<1>3. ASSUME pair \in InterferingArgs(ReallyLiveIn)
      PROVE  Overlaps(LiveRange[v], LiveRange[w])
  <2>1. /\ v \in LiveInOf(ReallyLiveIn, 1) /\ IsArg(v)
        /\ w \in LiveInOf(ReallyLiveIn, 1) /\ IsArg(w)
    BY <1>3 DEF InterferingArgs
  <2>2. v \in Variables /\ w \in Variables
    BY <2>1 DEF LiveInOf
  <2>3. 1 \in Nodes
    BY DEF IInv, TypesOfAnalysis, IsFunction, Nodes
  <2>4. Covers(LiveRange[v], 1) /\ Covers(LiveRange[w], 1)
    BY <2>1, <2>3, AtTheEnd DEF ArgsCovered
  <2> QED BY <1>1, <2>2, <2>4, CoveredOverlap
<1> QED BY <1>2, <1>3

(***************************************************************************)
(* Without phis all sets only grow, and a node of which LiveIn grows marks *)
(* its predecessors; without loops each node is visited once, after its    *)
(* successors.  In both cases nodes that need no visit are settled.        *)
(***************************************************************************)
IsSimple == HasNoLoop \/ ~HasPhis(f)
SettledSoFar ==
  IsSimple =>
    /\ pc = "solve" /\ HasNoLoop => NeedToProcess = 1 .. (at - 1)
    /\ \A n \in Nodes \ NeedToProcess : LiveAtEnd(n) \subseteq LiveOut[n]

LEMMA VisitSettles ==
  ASSUME TypesOfAnalysis, SettledSoFar, NEW n \in Nodes, Visit(n)
  PROVE  SettledSoFar'
<1>1. /\ pc = "solve" /\ at' = n /\ f' = f
      /\ NeedToProcess \ {n} \subseteq NeedToProcess'
      /\ NeedToProcess' \subseteq (NeedToProcess \ {n}) \cup InEdges(n)
      /\ n \in NeedToProcess
      /\ LiveOut' = [LiveOut EXCEPT ![n] = LiveAtEnd(n)]
      /\ Dead' \ CodeOf(n) = Dead \ CodeOf(n)
  BY DEF Visit, IsNext
<1>2. PICK in : /\ LiveIn' = [LiveIn EXCEPT ![n] = in]
                /\ in # LiveIn[n] => InEdges(n) \subseteq NeedToProcess'
  BY DEF Visit, ChangedIn
<1>3. /\ DOMAIN LiveIn = Nodes /\ DOMAIN LiveOut = Nodes
      /\ NeedToProcess \subseteq Nodes /\ at \in Nat /\ f.nodes \in Nat
      /\ \A m \in Nodes : f.succ[m] \subseteq Nodes
      /\ \A m \in Nodes : m \in Nat /\ 1 <= m
  <2>1. f.nodes \in Nat /\ at \in 0 .. f.nodes + 1
    BY DEF TypesOfAnalysis, IsFunction
  <2>2. at \in Nat /\ \A m \in Nodes : m \in Nat /\ 1 <= m
    BY <2>1 DEF Nodes
  <2>3. \A m \in Nodes : f.succ[m] \subseteq Nodes
    BY DEF TypesOfAnalysis, IsFunction, Nodes
  <2> QED BY <2>1, <2>2, <2>3 DEF TypesOfAnalysis
<1>4. /\ Nodes' = Nodes /\ (HasNoLoop' <=> HasNoLoop) /\ (HasPhis(f)' <=> HasPhis(f))
      /\ \A m : Phis(m)' = Phis(m)
  <2>1. Nodes' = Nodes /\ (HasPhis(f)' <=> HasPhis(f)) /\ \A m : Phis(m)' = Phis(m)
    BY <1>1, FunctionStays
  <2> QED BY <1>1, <2>1 DEF HasNoLoop
<1>5. ASSUME HasNoLoop PROVE n = at - 1 /\ NeedToProcess' = 1 .. (n - 1)
  <2>1. NeedToProcess = 1 .. (at - 1)
    BY <1>1, <1>5 DEF SettledSoFar, IsSimple
  <2>2. \A m \in 1 .. (at - 1) : m <= n
    <3>1. {m \in NeedToProcess : m < at} = NeedToProcess
      BY <1>3, <2>1
    <3> QED BY <1>1, <2>1, <3>1 DEF Visit, IsNext
  <2>3. n \in 1 .. (at - 1)
    BY <1>1, <2>1
  <2>4. n = at - 1
    BY <1>3, <2>2, <2>3
  <2>5. \A m \in InEdges(n) : m \in 1 .. (n - 1)
    <3>1. \A m \in InEdges(n) : m \in Nodes /\ m < n
      BY <1>5 DEF InEdges, HasNoLoop
    <3>2. \A m \in InEdges(n) : m \in Nat /\ 1 <= m /\ m < n /\ n \in Nat
      BY <1>3, <3>1
    <3> QED BY <3>2
  <2>6. (1 .. (at - 1)) \ {n} = 1 .. (n - 1)
    BY <1>3, <2>4
  <2> QED BY <1>1, <2>1, <2>4, <2>5, <2>6
<1>6. ASSUME IsSimple, NEW m \in Nodes, m \notin NeedToProcess' PROVE LiveAtEnd(m)' \subseteq LiveAtEnd(m)
  <2>1. ASSUME NEW s \in f.succ[m] PROVE LiveIn'[s] = LiveIn[s]
    <3>1. CASE s = n
      <4>1. m \in InEdges(n)
        BY <3>1 DEF InEdges
      <4> QED BY <1>2, <1>3, <1>6, <3>1, <4>1
    <3>2. CASE s # n
      BY <1>2, <1>3, <3>2
    <3> QED BY <3>1, <3>2
  <2>2. (UNION {LiveIn[s] : s \in f.succ[m]})' = UNION {LiveIn[s] : s \in f.succ[m]}
    <3>1. {LiveIn'[s] : s \in f.succ[m]} = {LiveIn[s] : s \in f.succ[m]}
      BY <2>1
    <3> QED BY <1>1, <3>1
  <2>3. PhiOperands(m)' = PhiOperands(m)
    <3>1. CASE ~HasPhis(f)
      <4>1. \A s : Phis(s) = {}
        BY <3>1 DEF HasPhis, Phis, IsPhi, CodeOf, Code
      <4>2. PhiOperands(m) = {} /\ PhiOperands(m)' = {}
        BY <1>4, <4>1 DEF PhiOperands
      <4> QED BY <4>2
    <3>2. CASE HasNoLoop
      <4>1. \A s \in f.succ[m] : s # n
        <5>1. ~(m < n)
          BY <1>3, <1>5, <1>6, <3>2
        <5> QED BY <5>1, <3>2 DEF HasNoLoop
      <4>2. ASSUME NEW i \in UNION {Phis(s) : s \in f.succ[m]} PROVE i \in Dead' <=> i \in Dead
        <5>1. i \notin CodeOf(n)
          BY <4>1 DEF Phis, CodeOf
        <5> QED BY <1>1, <5>1
      <4>3. (UNION {Phis(s) : s \in f.succ[m]}) \ Dead' = (UNION {Phis(s) : s \in f.succ[m]}) \ Dead
        BY <4>2
      <4>4. PhiOperands(m)' = {f.code[i].from[m] : i \in (UNION {Phis(s) : s \in f.succ[m]}) \ Dead'} \ {None}
        BY <1>1, <1>4 DEF PhiOperands
      <4> QED BY <4>3, <4>4 DEF PhiOperands
    <3> QED BY <1>6, <3>1, <3>2 DEF IsSimple
  <2> QED BY <2>2, <2>3 DEF LiveAtEnd
<1>7. ASSUME IsSimple, NEW m \in Nodes, m \notin NeedToProcess' PROVE LiveAtEnd(m)' \subseteq LiveOut'[m]
  <2>1. CASE m = n
    <3>1. LiveOut'[m] = LiveAtEnd(m)
      BY <1>1, <1>3, <2>1
    <3> QED BY <1>6, <1>7, <3>1
  <2>2. CASE m # n
    <3>1. LiveOut'[m] = LiveOut[m] /\ m \notin NeedToProcess
      BY <1>1, <1>3, <1>7, <2>2
    <3>2. LiveAtEnd(m) \subseteq LiveOut[m]
      BY <1>7, <3>1 DEF SettledSoFar
    <3> QED BY <1>6, <1>7, <3>1, <3>2
  <2> QED BY <2>1, <2>2
<1>8. IsSimple' <=> IsSimple
  BY <1>4 DEF IsSimple
<1> QED BY <1>1, <1>4, <1>5, <1>7, <1>8 DEF SettledSoFar

LEMMA StepSettles ==
  ASSUME TypesOfAnalysis, SettledSoFar, Step \/ UNCHANGED vars
  PROVE  SettledSoFar'
<1>1. ASSUME NEW n \in Nodes, Visit(n) PROVE SettledSoFar'
  BY <1>1, VisitSettles
<1>2. ASSUME UNCHANGED <<f, NeedToProcess, LiveIn, LiveOut, Dead>>,
             pc' # "solve" \/ UNCHANGED <<pc, at>>
      PROVE  SettledSoFar'
  <2>1. Nodes' = Nodes /\ (HasNoLoop' <=> HasNoLoop) /\ (HasPhis(f)' <=> HasPhis(f))
    BY <1>2, FunctionStays DEF HasNoLoop
  <2>2. \A n : LiveAtEnd(n)' = LiveAtEnd(n)
    BY <1>2 DEF LiveAtEnd, PhiOperands, Phis, CodeOf, Code, IsPhi
  <2> QED BY <1>2, <2>1, <2>2 DEF SettledSoFar, IsSimple
<1>3. ASSUME NEW n \in Nodes, FinalPass(n) PROVE SettledSoFar'
  <2>1. UNCHANGED <<f, NeedToProcess, LiveIn, LiveOut, Dead>> /\ pc' # "solve"
    BY <1>3 DEF FinalPass
  <2> QED BY <1>2, <2>1
<1>4. CASE Converge
  <2>1. UNCHANGED <<f, NeedToProcess, LiveIn, LiveOut, Dead>> /\ pc' # "solve"
    BY <1>4 DEF Converge
  <2> QED BY <1>2, <2>1
<1>5. CASE UNCHANGED vars
  BY <1>2, <1>5 DEF vars
<1> QED BY <1>1, <1>3, <1>4, <1>5 DEF Step

LEMMA SettledInit == ASSUME Init, IsFunction(f) PROVE SettledSoFar
<1>1. NeedToProcess = 1 .. f.nodes /\ at = f.nodes + 1 /\ f.nodes \in Nat
  BY CodeIsOrdered DEF Init, Nodes
<1>2. at - 1 = f.nodes
  BY <1>1
<1> QED BY <1>1, <1>2 DEF SettledSoFar, Nodes

LEMMA SimpleIsSettled ==
  ASSUME AnalysisIsRecorded, SettledSoFar, pc = "done", IsSimple
  PROVE  Settled
BY DEF AnalysisIsRecorded, SettledSoFar, Settled

(***************************************************************************)
(* An instruction deleted has no effect, and nothing that is left reads    *)
(* what it defined.  (Of two phis with one dest the first is dead.)        *)
(***************************************************************************)
NothingDeletedIsLive ==
  pc = "done" =>
    \A i \in Deleted :
      /\ ~f.code[i].effect
      /\ f.code[i].dest \in ReallyLiveAfter(i, ReallyLiveIn)
         => \E j \in Phis(f.code[i].node) : i < j /\ f.code[j].dest = f.code[i].dest

LEMMA SettledIsDead ==
  ASSUME IInv, AnalysisIsRecorded, Settled
  PROVE  NothingDeletedIsLive
<1> SUFFICES ASSUME pc = "done", NEW i \in Deleted
             PROVE  /\ ~f.code[i].effect
                    /\ f.code[i].dest \in ReallyLiveAfter(i, ReallyLiveIn)
                       => \E j \in Phis(f.code[i].node) : i < j /\ f.code[j].dest = f.code[i].dest
  BY DEF NothingDeletedIsLive
<1> DEFINE n == f.code[i].node
           v == f.code[i].dest
           live == Walk(n)
<1>1. /\ TypesOfAnalysis /\ NodesAreConsistent /\ Deleted = Dead
      /\ \A m \in Nodes : Recorded(m) /\ OutOf(ReallyLiveIn, m) \subseteq LiveOut[m]
  BY AtTheEnd DEF IInv
<1>2. i \in Code /\ n \in Nodes /\ i \in CodeOf(n) /\ (IsPhi(i) <=> i \in Phis(n))
  BY <1>1 DEF TypesOfAnalysis, IsFunction, Nodes, Code, CodeOf, Phis
<1>3. IsDead(i, live[i])
  BY <1>1, <1>2 DEF Recorded
<1>4. ~f.code[i].effect /\ v \notin live[i]
  BY <1>3 DEF IsDead
<1>5. /\ Len(f.code) \in Nat /\ CodeOf(n) \subseteq 1 .. Len(f.code) /\ Phis(n) \subseteq CodeOf(n)
      /\ \A p \in Phis(n), k \in CodeOf(n) \ Phis(n) : p < k
  BY <1>1, CodeIsOrdered DEF TypesOfAnalysis
<1> HIDE DEF n, v, live
<1>6. ASSUME v \in ReallyLiveAfter(i, ReallyLiveIn), ~IsPhi(i) PROVE FALSE
  <2>1. {k \in Insts(n) : k > i} = {k \in CodeOf(n) : i < k}
    <3>1. \A p \in Phis(n) : ~(i < p)
      <4>1. \A p \in Phis(n) : p < i /\ p \in Nat /\ i \in Nat
        BY <1>2, <1>5, <1>6
      <4> QED BY <4>1
    <3>2. \A k \in CodeOf(n) : i < k <=> k \notin Phis(n) /\ k > i
      BY <1>2, <1>5, <3>1
    <3> QED BY <3>2 DEF Insts
  <2>2. v \in LiveBefore({k \in CodeOf(n) : i < k}, OutOf(ReallyLiveIn, n))
    BY <1>6, <2>1 DEF ReallyLiveAfter, n
  <2>3. v \in live[i]
    BY <1>1, <1>2, <2>2, LiveBehind DEF live
  <2> QED BY <1>4, <2>3
<1>7. ASSUME v \in ReallyLiveAfter(i, ReallyLiveIn), IsPhi(i),
             \A j \in Phis(n) : i < j => f.code[j].dest # v
      PROVE  FALSE
  <2> DEFINE p == LastOf(Phis(n))
  <2>1. Phis(n) \in SUBSET (1 .. Len(f.code)) /\ i \in Phis(n)
    BY <1>2, <1>5, <1>7
  <2>2. p \in Phis(n) /\ \A k \in Phis(n) : k <= p
    BY <1>5, <2>1, LastIsLast
  <2> HIDE DEF p
  <2>3. p \in Nat /\ i \in Nat /\ i <= p /\ p \in CodeOf(n)
    BY <1>5, <2>1, <2>2
  <2>4. {k \in CodeOf(n) : p < k} = Insts(n)
    <3>1. \A k \in CodeOf(n) : k \in Nat
      BY <1>5
    <3>2. \A k \in Phis(n) : ~(p < k)
      BY <1>5, <2>2, <2>3, <3>1
    <3>3. \A k \in CodeOf(n) : p < k <=> k \notin Phis(n)
      BY <1>5, <2>2, <3>2
    <3> QED BY <3>3 DEF Insts
  <2>5. v \in LiveBefore({k \in CodeOf(n) : p < k}, OutOf(ReallyLiveIn, n))
    BY <1>7, <2>4 DEF ReallyLiveAfter, n
  <2>6. v \in live[p]
    BY <1>1, <1>2, <2>3, <2>5, LiveBehind DEF live
  <2> DEFINE S == {k \in CodeOf(n) : v \in live[k]}
  <2>7. /\ CodeOf(n) = First(n) .. Last(n) /\ First(n) \in Nat /\ Last(n) \in Nat
        /\ IsWalk(n, LiveOut[n], live)
    BY <1>1, <1>2, BlockIsInterval, WalkIsTyped DEF TypesOfAnalysis, live
  <2>8. ASSUME NEW k \in i .. p, k + 1 \in S, k < p PROVE k \in S
    <3>1. k \in CodeOf(n) /\ k + 1 \in CodeOf(n) /\ k < Last(n) /\ i < k + 1 /\ ~(p < k + 1)
      BY <1>2, <2>3, <2>7, <2>8
    <3>2. k + 1 \in Phis(n)
      <4>1. k + 1 \notin Insts(n)
        BY <2>4, <3>1
      <4> QED BY <3>1, <4>1 DEF Insts
    <3>3. v \notin Begins(k + 1, live[k + 1])
      BY <1>7, <3>1, <3>2 DEF Begins
    <3>4. v \in live[k]
      BY <2>7, <2>8, <3>1, <3>3 DEF IsWalk, LiveAbove
    <3> QED BY <3>1, <3>4
  <2>9. p \in S
    BY <2>3, <2>6
  <2> HIDE DEF S
  <2>10. i .. p \subseteq S
    BY <2>3, <2>8, <2>9, Downward
  <2>11. i \in S
    BY <2>3, <2>10
  <2> QED BY <1>4, <2>11 DEF S
<1> QED BY <1>4, <1>6, <1>7 DEF n, v

-----------------------------------------------------------------------------
(***************************************************************************)
(* The whole invariant.                                                    *)
(***************************************************************************)
SeenInv == IInv /\ AnalysisIsRecorded /\ SettledSoFar /\ f \in Functions

LEMMA SeenInvHolds == Spec => []SeenInv
<1>1. Init => SeenInv
  BY InitHolds, RecordsInit, SettledInit, FunctionsAssumption DEF Init, SeenInv
<1>2. SeenInv /\ [Next]_vars => SeenInv'
  <2>1. SeenInv /\ Step => SeenInv'
    BY StepKeepsIInv, StepKeepsRecords, StepSettles DEF SeenInv, IInv
  <2>2. SeenInv /\ UNCHANGED vars => SeenInv'
    BY StutterKeepsIInv, StepKeepsRecords, StepSettles DEF SeenInv, IInv, vars
  <2> QED BY <2>1, <2>2 DEF Next, Terminated
<1> QED BY <1>1, <1>2, PTL DEF Spec

(***************************************************************************)
(* Two variables that are live together have ranges that overlap: in every *)
(* function without loops, in every function without phis, and wherever    *)
(* the last visits of the nodes are settled.  (With phis and loops they    *)
(* need not be: CfgNode::liveness() only compares the number of phis that  *)
(* are not dead, and the order of the nodes decides.)                      *)
(***************************************************************************)
THEOREM InterferenceIsSeenCorrect ==
  Spec => [](Settled \/ HasNoLoop \/ ~HasPhis(f) => InterferenceIsSeen)
<1>1. SeenInv => (Settled \/ HasNoLoop \/ ~HasPhis(f) => InterferenceIsSeen)
  <2> SUFFICES ASSUME SeenInv, Settled \/ HasNoLoop \/ ~HasPhis(f), pc = "done"
               PROVE  InterferenceIsSeen
    BY DEF InterferenceIsSeen
  <2>1. Settled
    BY SimpleIsSettled DEF SeenInv, IsSimple
  <2> QED BY <2>1, SettledIsSeen DEF SeenInv
<1> QED BY <1>1, SeenInvHolds, PTL

(***************************************************************************)
(* Under the same condition, dead code elimination is sound: what Inst     *)
(* ::liveness() finds dead and the final pass deletes has no effect, and   *)
(* nothing that is left can read what it defined.                          *)
(***************************************************************************)
THEOREM NothingDeletedIsLiveCorrect ==
  Spec => [](Settled \/ HasNoLoop \/ ~HasPhis(f) => NothingDeletedIsLive)
<1>1. SeenInv => (Settled \/ HasNoLoop \/ ~HasPhis(f) => NothingDeletedIsLive)
  <2> SUFFICES ASSUME SeenInv, Settled \/ HasNoLoop \/ ~HasPhis(f), pc = "done"
               PROVE  NothingDeletedIsLive
    BY DEF NothingDeletedIsLive
  <2>1. Settled
    BY SimpleIsSettled DEF SeenInv, IsSimple
  <2> QED BY <2>1, SettledIsDead DEF SeenInv
<1> QED BY <1>1, SeenInvHolds, PTL

-----------------------------------------------------------------------------
(***************************************************************************)
(* Where control may go from instruction k, and what reads the value that  *)
(* v has behind k: the next instruction, or a phi on an edge.              *)
(***************************************************************************)
Follows(k, m) ==
  \/ m = k + 1 /\ f.code[m].node = f.code[k].node
  \/ /\ f.code[m].node \in f.succ[f.code[k].node]
     /\ k = Last(f.code[k].node) /\ m = First(f.code[m].node)
ReadBehind(k, v, i) ==
  IF IsPhi(i)
  THEN /\ f.code[i].node \in f.succ[f.code[k].node]
       /\ k = Last(f.code[k].node) /\ f.code[i].from[f.code[k].node] = v
  ELSE Follows(k, i) /\ v \in f.code[i].uses

(***************************************************************************)
(* The definition j reaches the use i: every set that has j, and what      *)
(* control can go to from a member of the set without another definition   *)
(* of the variable, has an instruction behind which i reads it.  In SSA    *)
(* form a definition dominates its uses, so it reaches all of them.        *)
(***************************************************************************)
IsPassed(j, S) ==
  /\ j \in S
  /\ \A k \in S, m \in Code :
       Follows(k, m) /\ (f.code[m].dest = f.code[j].dest => f.code[m].redefined) => m \in S
Reaches(j, i) ==
  \A S \in SUBSET Code : IsPassed(j, S) => \E k \in S : ReadBehind(k, f.code[j].dest, i)
DefinitionsReach ==
  \A i, j \in Code : i # j /\ f.code[j].dest \in f.code[i].uses => Reaches(j, i)

LEMMA CodeHasNode ==
  ASSUME IsFunction(f), NEW i \in Code
  PROVE  /\ f.code[i].node \in Nodes /\ i \in CodeOf(f.code[i].node)
         /\ f.succ[f.code[i].node] \subseteq Nodes
         /\ f.code[i].uses \subseteq Variables
         /\ IsPhi(i) <=> i \in Phis(f.code[i].node)
BY DEF IsFunction, Nodes, CodeOf, Code, Phis

Visited ==
  /\ TypesOfAnalysis
  /\ Settled
  /\ pc # "fatal"
  /\ \A n \in Nodes : Recorded(n)

LEMMA LiveGoesBack ==
  ASSUME Visited, NEW k \in Code, NEW m \in Code, Follows(k, m),
         NEW v \in LiveAbove(m, Walk(f.code[m].node)[m])
  PROVE  v \in Walk(f.code[k].node)[k]
<1> DEFINE n == f.code[k].node
           s == f.code[m].node
<1>1. /\ n \in Nodes /\ s \in Nodes /\ k \in CodeOf(n) /\ m \in CodeOf(s) /\ f.succ[n] \subseteq Nodes
  BY CodeHasNode DEF Visited, TypesOfAnalysis
<1>2. IsWalk(n, LiveOut[n], Walk(n))
  BY <1>1, WalkIsTyped DEF Visited
<1>3. CASE m = k + 1 /\ s = n
  <2>1. k < Last(n)
    <3>1. /\ CodeOf(n) = First(n) .. Last(n) /\ First(n) \in Nat /\ Last(n) \in Nat
      BY <1>1, BlockIsInterval DEF Visited, TypesOfAnalysis
    <3>2. k \in First(n) .. Last(n) /\ k + 1 \in First(n) .. Last(n)
      BY <1>1, <1>3, <3>1
    <3> QED BY <3>1, <3>2
  <2>2. Walk(n)[k] = LiveAbove(k + 1, Walk(n)[k + 1])
    BY <1>1, <1>2, <2>1 DEF IsWalk
  <2> QED BY <1>3, <2>2
<1>4. CASE s \in f.succ[n] /\ k = Last(n) /\ m = First(s)
  <2>1. v \in Top(s)
    BY <1>4 DEF Top, LiveAboveBlock, Walk
  <2>2. v \in LiveIn[s]
    BY <1>1, <2>1 DEF Visited, Recorded
  <2>3. v \in LiveAtEnd(n)
    BY <1>4, <2>2 DEF LiveAtEnd
  <2>4. v \in LiveOut[n]
    BY <1>1, <2>3 DEF Visited, Settled
  <2> QED BY <1>2, <1>4, <2>4 DEF IsWalk
<1> QED BY <1>3, <1>4 DEF Follows

LEMMA ReadIsLive ==
  ASSUME Visited, NEW k \in Code, NEW i \in Code, i \notin Dead, NEW v \in Variables, ReadBehind(k, v, i)
  PROVE  v \in Walk(f.code[k].node)[k]
<1> DEFINE n == f.code[k].node
           s == f.code[i].node
<1>1. /\ n \in Nodes /\ s \in Nodes /\ k \in CodeOf(n) /\ i \in CodeOf(s) /\ (IsPhi(i) <=> i \in Phis(s))
  BY CodeHasNode DEF Visited, TypesOfAnalysis
<1>2. CASE IsPhi(i)
  <2>1. s \in f.succ[n] /\ k = Last(n) /\ f.code[i].from[n] = v
    BY <1>2 DEF ReadBehind
  <2>2. v # None
    BY VariablesAssumption
  <2>3. v \in PhiOperands(n)
    BY <1>1, <1>2, <2>1, <2>2 DEF PhiOperands
  <2>4. v \in LiveOut[n]
    BY <1>1, <2>3 DEF LiveAtEnd, Visited, Settled
  <2>5. IsWalk(n, LiveOut[n], Walk(n))
    BY <1>1, WalkIsTyped DEF Visited
  <2> QED BY <2>1, <2>4, <2>5 DEF IsWalk
<1>3. CASE ~IsPhi(i)
  <2>1. Follows(k, i) /\ v \in f.code[i].uses
    BY <1>3 DEF ReadBehind
  <2>2. ~IsDead(i, Walk(s)[i])
    BY <1>1 DEF Visited, Recorded
  <2>3. v \in LiveAbove(i, Walk(s)[i])
    BY <1>3, <2>1, <2>2 DEF LiveAbove, UsedBy
  <2> QED BY <2>1, <2>3, LiveGoesBack
<1> QED BY <1>2, <1>3

(***************************************************************************)
(* What reaches a use that is not dead is not dead.                        *)
(***************************************************************************)
LEMMA ReachingIsNotDead ==
  ASSUME Visited, NEW i \in Code, i \notin Dead, NEW j \in Code,
         f.code[j].dest \in f.code[i].uses, Reaches(j, i)
  PROVE  j \notin Dead
<1> SUFFICES ASSUME j \in Dead PROVE FALSE
  OBVIOUS
<1> DEFINE v == f.code[j].dest
           S == {k \in Code : v \notin Walk(f.code[k].node)[k]}
<1>1. v \in Variables
  BY CodeHasNode DEF Visited, TypesOfAnalysis
<1>2. j \in S
  <2>1. f.code[j].node \in Nodes /\ j \in CodeOf(f.code[j].node)
    BY CodeHasNode DEF Visited, TypesOfAnalysis
  <2>2. IsDead(j, Walk(f.code[j].node)[j])
    BY <2>1 DEF Visited, Recorded
  <2> QED BY <2>2 DEF IsDead
<1>3. ASSUME NEW k \in S, NEW m \in Code, Follows(k, m), f.code[m].dest = v => f.code[m].redefined
      PROVE  m \in S
  <2> SUFFICES ASSUME v \in Walk(f.code[m].node)[m] PROVE FALSE
    OBVIOUS
  <2>1. v \in LiveAbove(m, Walk(f.code[m].node)[m])
    BY <1>3 DEF LiveAbove, Begins
  <2>2. v \in Walk(f.code[k].node)[k]
    BY <1>3, <2>1, LiveGoesBack
  <2> QED BY <2>2
<1>4. IsPassed(j, S)
  <2> HIDE DEF S
  <2> QED BY <1>2, <1>3 DEF IsPassed
<1>5. PICK k \in S : ReadBehind(k, v, i)
  BY <1>4 DEF Reaches
<1>6. v \in Walk(f.code[k].node)[k]
  BY <1>1, <1>5, ReadIsLive
<1> QED BY <1>5, <1>6

LEMMA NeededIsNotDead ==
  ASSUME Visited, DefinitionsReach
  PROVE  \A k \in Nat : NeededWithin[k] \cap Dead = {}
<1> DEFINE Bad == {k \in Nat : NeededWithin[k] \cap Dead # {}}
<1> SUFFICES ASSUME Bad # {} PROVE FALSE
  OBVIOUS
<1>1. PICK k \in Bad : \A b \in Bad : k <= b
  <2>1. Bad \in SUBSET Nat
    OBVIOUS
  <2> HIDE DEF Bad
  <2> QED BY <2>1, SmallestNumber
<1>2. k \in Nat /\ NeededWithin[k] \cap Dead # {}
  BY <1>1
<1>3. PICK j \in Dead : j \in NeededWithin[k]
  BY <1>2
<1>4. j \in Code /\ j \in CodeOf(f.code[j].node) /\ f.code[j].node \in Nodes
  BY CodeHasNode DEF Visited, TypesOfAnalysis
<1>5. CASE k = 0
  <2>1. f.code[j].effect \/ f.code[j].dest = None
    BY <1>3, <1>5, NeededWithinEquation DEF NeededAnyway
  <2>2. IsDead(j, Walk(f.code[j].node)[j])
    BY <1>4 DEF Visited, Recorded
  <2> QED BY <2>1, <2>2 DEF IsDead
<1>6. CASE k # 0
  <2>1. k \in Nat \ {0} /\ k - 1 \in Nat /\ k - 1 \notin Bad
    BY <1>1, <1>2, <1>6
  <2>2. NeededWithin[k] = NeededStep(NeededWithin[k - 1])
    BY <2>1, NeededWithinEquation
  <2>3. NeededWithin[k - 1] \cap Dead = {}
    BY <2>1
  <2>4. PICK i \in NeededWithin[k - 1] : f.code[j].dest \in f.code[i].uses
    BY <1>3, <2>2, <2>3 DEF NeededStep
  <2>5. i \in Code
    BY <2>1, <2>4, NeededWithinEquation
  <2>6. i # j /\ i \notin Dead
    BY <2>3, <2>4
  <2>7. Reaches(j, i)
    BY <1>4, <2>4, <2>5, <2>6 DEF DefinitionsReach
  <2> QED BY <1>4, <2>4, <2>5, <2>6, <2>7, ReachingIsNotDead
<1> QED BY <1>5, <1>6

-----------------------------------------------------------------------------
(***************************************************************************)
(* In the state before each node of the final pass.                        *)
(***************************************************************************)
LEMMA FinalIsVisited ==
  ASSUME SeenInv, pc \in {"final", "done"}, Settled \/ IsSimple
  PROVE  Visited /\ Deleted \subseteq Dead
<1>1. /\ TypesOfAnalysis /\ NeedToProcess = {} /\ Deleted \subseteq Dead
      /\ \A n \in Nodes : Recorded(n)
  BY DEF SeenInv, IInv, AnalysisIsRecorded
<1>2. Settled
  BY <1>1 DEF SeenInv, SettledSoFar, Settled
<1> QED BY <1>1, <1>2 DEF Visited

DeletesNothingNeeded ==
  DefinitionsReach /\ (Settled \/ IsSimple) => NothingNeededIsDeleted

LEMMA StepDeletesNothingNeeded ==
  ASSUME SeenInv, DeletesNothingNeeded, Step \/ UNCHANGED vars
  PROVE  DeletesNothingNeeded'
<1>1. ASSUME Deleted' = {} PROVE DeletesNothingNeeded'
  BY <1>1 DEF DeletesNothingNeeded, NothingNeededIsDeleted
<1>2. ASSUME UNCHANGED <<f, LiveIn, LiveOut, Dead>>
      PROVE  /\ DefinitionsReach' <=> DefinitionsReach
             /\ Settled' <=> Settled
             /\ IsSimple' <=> IsSimple
             /\ Needed' = Needed
  <2>1. f' = f
    BY <1>2
  <2>2. /\ Nodes' = Nodes /\ Code' = Code /\ (HasPhis(f)' <=> HasPhis(f))
        /\ \A n : First(n)' = First(n) /\ Last(n)' = Last(n) /\ CodeOf(n)' = CodeOf(n)
    BY <2>1, FunctionStays
  <2>3. \A i : IsPhi(i)' <=> IsPhi(i)
    BY <2>1 DEF IsPhi
  <2>4. /\ \A k, m : Follows(k, m)' <=> Follows(k, m)
        /\ \A k, v, i : ReadBehind(k, v, i)' <=> ReadBehind(k, v, i)
    BY <2>1, <2>2, <2>3 DEF Follows, ReadBehind
  <2>5. \A j, S : IsPassed(j, S)' <=> IsPassed(j, S)
    BY <2>1, <2>2, <2>4 DEF IsPassed
  <2>6. \A j, i : Reaches(j, i)' <=> Reaches(j, i)
    BY <2>1, <2>2, <2>4, <2>5 DEF Reaches
  <2>7. DefinitionsReach' <=> DefinitionsReach
    BY <2>1, <2>2, <2>6 DEF DefinitionsReach
  <2>8. \A n : LiveAtEnd(n)' = LiveAtEnd(n)
    BY <1>2 DEF LiveAtEnd, PhiOperands, Phis, CodeOf, Code, IsPhi
  <2>9. Settled' <=> Settled
    BY <1>2, <2>2, <2>8 DEF Settled
  <2>10. IsSimple' <=> IsSimple
    BY <2>1, <2>2 DEF IsSimple, HasNoLoop
  <2>11. Needed' = Needed
    BY <2>1 DEF Needed, NeededWithin, Code
  <2> QED BY <2>7, <2>9, <2>10, <2>11
<1>3. ASSUME NEW n \in Nodes, Visit(n) PROVE DeletesNothingNeeded'
  <2>1. Deleted' = {}
    BY <1>3 DEF Visit, SeenInv, AnalysisIsRecorded
  <2> QED BY <1>1, <2>1
<1>4. CASE Converge
  <2>1. Deleted' = {}
    BY <1>4 DEF Converge, SeenInv, AnalysisIsRecorded
  <2> QED BY <1>1, <2>1
<1>5. ASSUME NEW n \in Nodes, FinalPass(n) PROVE DeletesNothingNeeded'
  <2>1. /\ pc = "final" /\ UNCHANGED <<f, LiveIn, LiveOut, Dead>>
        /\ Deleted' = Deleted \cup (Dead \cap CodeOf(n))
    BY <1>5 DEF FinalPass
  <2>2. ASSUME DefinitionsReach, Settled \/ IsSimple PROVE Deleted' \cap Needed = {}
    <3>1. Visited /\ Deleted \subseteq Dead
      BY <2>1, <2>2, FinalIsVisited
    <3>2. Needed \cap Dead = {}
      <4>1. Len(f.code) \in Nat
        BY CodeIsOrdered DEF SeenInv, IInv, TypesOfAnalysis
      <4> QED BY <2>2, <3>1, <4>1, NeededIsNotDead DEF Needed
    <3> QED BY <2>1, <3>1, <3>2
  <2>3. /\ DefinitionsReach' <=> DefinitionsReach
        /\ Settled' <=> Settled
        /\ IsSimple' <=> IsSimple
        /\ Needed' = Needed
    BY <1>2, <2>1
  <2> QED BY <2>2, <2>3 DEF DeletesNothingNeeded, NothingNeededIsDeleted
<1>6. CASE UNCHANGED vars
  <2>1. UNCHANGED <<f, LiveIn, LiveOut, Dead>> /\ Deleted' = Deleted
    BY <1>6 DEF vars
  <2>2. /\ DefinitionsReach' <=> DefinitionsReach
        /\ Settled' <=> Settled
        /\ IsSimple' <=> IsSimple
        /\ Needed' = Needed
    BY <1>2, <2>1
  <2> QED BY <2>1, <2>2 DEF DeletesNothingNeeded, NothingNeededIsDeleted
<1> QED BY <1>3, <1>4, <1>5, <1>6 DEF Step

(***************************************************************************)
(* Dead code elimination deletes nothing that the function needs.          *)
(***************************************************************************)
THEOREM NothingNeededIsDeletedCorrect ==
  Spec => [](DefinitionsReach /\ (Settled \/ HasNoLoop \/ ~HasPhis(f)) => NothingNeededIsDeleted)
<1>1. Init => DeletesNothingNeeded
  BY DEF Init, DeletesNothingNeeded, NothingNeededIsDeleted
<1>2. SeenInv /\ DeletesNothingNeeded /\ [Next]_vars => DeletesNothingNeeded'
  BY StepDeletesNothingNeeded DEF Next, Terminated
<1>3. DeletesNothingNeeded =>
        (DefinitionsReach /\ (Settled \/ HasNoLoop \/ ~HasPhis(f)) => NothingNeededIsDeleted)
  BY DEF DeletesNothingNeeded, IsSimple
<1> QED BY <1>1, <1>2, <1>3, SeenInvHolds, PTL DEF Spec

-----------------------------------------------------------------------------
(***************************************************************************)
(* Without loops a node is visited once, when its successors have been.    *)
(***************************************************************************)
ExactSoFar ==
  HasNoLoop =>
    /\ pc = "solve" => \A n \in NeedToProcess : LiveIn[n] = {}
    /\ \A n \in Nodes \ NeedToProcess :
         /\ LiveOut[n] = LiveAtEnd(n)
         /\ pc # "fatal" => LiveIn[n] = Top(n)

LEMMA VisitIsExact ==
  ASSUME TypesOfAnalysis, SettledSoFar, ExactSoFar, NEW n \in Nodes, Visit(n)
  PROVE  ExactSoFar'
<1>1. PICK live :
        /\ live = LiveAfter(n, LiveAtEnd(n))
        /\ f' = f /\ LiveOut'[n] = LiveAtEnd(n)
        /\ LiveIn'[n] = LiveIn[n] \cup (LiveAbove(First(n), live[First(n)]) \cap Globals)
  BY VisitedFacts
<1>2. /\ pc = "solve" /\ pc' \in {"solve", "fatal"} /\ at' = n
      /\ pc' # "fatal" => LiveAbove(First(n), live[First(n)]) \subseteq Globals
      /\ n \in NeedToProcess
      /\ Dead' \ CodeOf(n) = Dead \ CodeOf(n)
  BY <1>1 DEF Visit, First, IsNext
<1>3. \A m \in Nodes \ {n} : LiveIn'[m] = LiveIn[m] /\ LiveOut'[m] = LiveOut[m]
  <2>1. PICK in, out : LiveIn' = [LiveIn EXCEPT ![n] = in] /\ LiveOut' = [LiveOut EXCEPT ![n] = out]
    BY DEF Visit
  <2>2. DOMAIN LiveIn = Nodes /\ DOMAIN LiveOut = Nodes
    BY DEF TypesOfAnalysis
  <2> QED BY <2>1, <2>2
<1>4. Nodes' = Nodes /\ (HasNoLoop' <=> HasNoLoop) /\ \A m : Phis(m)' = Phis(m)
  BY <1>1, FunctionStays DEF HasNoLoop
<1> SUFFICES ASSUME HasNoLoop PROVE ExactSoFar'
  BY <1>4 DEF ExactSoFar
<1>5. /\ \A m \in NeedToProcess : LiveIn[m] = {}
      /\ \A m \in Nodes \ NeedToProcess : LiveOut[m] = LiveAtEnd(m) /\ LiveIn[m] = Top(m)
  BY <1>2 DEF ExactSoFar
<1>6. /\ NeedToProcess = 1 .. n /\ n \in Nat
      /\ pc' = "solve" => NeedToProcess' = 1 .. (n - 1)
      /\ \A m \in Nodes \ NeedToProcess' : m \in Nat /\ n <= m
      /\ NeedToProcess' \subseteq NeedToProcess /\ n \notin NeedToProcess'
      /\ NeedToProcess \ {n} \subseteq NeedToProcess'
  <2>1. NeedToProcess = 1 .. (at - 1) /\ at \in Nat /\ n \in Nat /\ 1 <= n
    <3>1. f.nodes \in Nat /\ at \in 0 .. f.nodes + 1
      BY CodeIsOrdered DEF TypesOfAnalysis
    <3>2. at \in Nat /\ n \in Nat /\ 1 <= n
      BY <3>1 DEF Nodes
    <3> QED BY <1>2, <3>2 DEF SettledSoFar, IsSimple
  <2>2. \A m \in 1 .. (at - 1) : m <= n
    <3>1. {m \in NeedToProcess : m < at} = NeedToProcess
      BY <2>1
    <3> QED BY <2>1, <3>1 DEF Visit, IsNext
  <2>3. n = at - 1
    BY <1>2, <2>1, <2>2
  <2>4. NeedToProcess \ {n} \subseteq NeedToProcess'
        /\ NeedToProcess' \subseteq (NeedToProcess \ {n}) \cup InEdges(n)
    BY DEF Visit
  <2>5. \A m \in InEdges(n) : m \in 1 .. (n - 1)
    <3>1. \A m \in InEdges(n) : m \in Nodes /\ m < n
      BY DEF InEdges, HasNoLoop
    <3>2. \A m \in InEdges(n) : m \in Nat /\ 1 <= m /\ m < n
      BY <3>1 DEF Nodes
    <3> QED BY <2>1, <3>2
  <2>6. NeedToProcess' = 1 .. (n - 1) /\ NeedToProcess = 1 .. n
    <3>1. (1 .. n) \ {n} = 1 .. (n - 1)
      BY <2>1
    <3> QED BY <2>1, <2>3, <2>4, <2>5, <3>1
  <2>7. \A m \in Nodes \ NeedToProcess' : m \in Nat /\ n <= m
    <3>1. \A m \in Nodes : m \in Nat /\ 1 <= m
      BY DEF Nodes
    <3> QED BY <2>1, <2>6, <3>1
  <2> QED BY <2>1, <2>6, <2>7
<1>7. ASSUME NEW m \in Nodes, m \notin NeedToProcess' PROVE LiveAtEnd(m)' = LiveAtEnd(m)
  <2>1. \A s \in f.succ[m] : s # n /\ s \in Nodes
    <3>1. \A s \in f.succ[m] : s \in Nodes /\ m < s /\ s \in Nat
      <4>1. f.succ[m] \subseteq Nodes
        BY DEF TypesOfAnalysis, IsFunction, Nodes
      <4>2. \A s \in Nodes : s \in Nat
        BY DEF Nodes
      <4> QED BY <4>1, <4>2 DEF HasNoLoop
    <3> QED BY <1>6, <1>7, <3>1
  <2>2. (UNION {LiveIn[s] : s \in f.succ[m]})' = UNION {LiveIn[s] : s \in f.succ[m]}
    <3>1. {LiveIn'[s] : s \in f.succ[m]} = {LiveIn[s] : s \in f.succ[m]}
      BY <1>3, <2>1
    <3> QED BY <1>1, <3>1
  <2>3. ASSUME NEW i \in UNION {Phis(s) : s \in f.succ[m]} PROVE i \in Dead' <=> i \in Dead
    <3>1. i \notin CodeOf(n)
      BY <2>1 DEF Phis, CodeOf
    <3> QED BY <1>2, <3>1
  <2>4. (UNION {Phis(s) : s \in f.succ[m]}) \ Dead' = (UNION {Phis(s) : s \in f.succ[m]}) \ Dead
    BY <2>3
  <2>5. PhiOperands(m)' = {f.code[i].from[m] : i \in (UNION {Phis(s) : s \in f.succ[m]}) \ Dead'} \ {None}
    BY <1>1, <1>4 DEF PhiOperands
  <2>6. PhiOperands(m)' = PhiOperands(m)
    BY <2>4, <2>5 DEF PhiOperands
  <2> QED BY <2>2, <2>6 DEF LiveAtEnd
<1>8. ASSUME NEW m \in Nodes, m \notin NeedToProcess'
      PROVE  LiveOut'[m] = LiveAtEnd(m)' /\ (pc' # "fatal" => LiveIn'[m] = Top(m)')
  <2>1. CASE m = n
    <3>1. Top(n)' = LiveAbove(First(n), live[First(n)])
      BY <1>1, RecordStays DEF LiveAboveBlock
    <3>2. LiveIn[n] = {}
      BY <1>2, <1>5
    <3> QED BY <1>1, <1>2, <1>7, <1>8, <2>1, <3>1, <3>2
  <2>2. CASE m # n
    <3>1. m \notin NeedToProcess
      BY <1>6, <1>8, <2>2
    <3>2. LiveOut'[m] = LiveOut[m] /\ LiveIn'[m] = LiveIn[m]
      BY <1>3, <2>2
    <3>3. Top(m)' = Top(m)
      BY <1>1, <3>2, RecordStays DEF Top
    <3> QED BY <1>5, <1>7, <1>8, <3>1, <3>2, <3>3
  <2> QED BY <2>1, <2>2
<1>9. \A m \in NeedToProcess' : LiveIn'[m] = {}
  <2>1. NeedToProcess \subseteq Nodes
    BY DEF TypesOfAnalysis
  <2> QED BY <1>3, <1>5, <1>6, <2>1
<1> QED BY <1>4, <1>8, <1>9 DEF ExactSoFar

LEMMA StepIsExact ==
  ASSUME IInv, SettledSoFar, ExactSoFar, Step \/ UNCHANGED vars
  PROVE  ExactSoFar'
<1>1. ASSUME NEW n \in Nodes, Visit(n) PROVE ExactSoFar'
  BY <1>1, VisitIsExact DEF IInv
<1>2. ASSUME UNCHANGED <<f, NeedToProcess, LiveIn, LiveOut, Dead>>,
             (pc' \in {"final", "done"} /\ pc # "fatal") \/ pc' = pc \/ pc' = "fatal"
      PROVE  ExactSoFar'
  <2>1. f' = f
    BY <1>2
  <2>2. Nodes' = Nodes /\ (HasNoLoop' <=> HasNoLoop)
    BY <2>1, FunctionStays DEF HasNoLoop
  <2>3. \A n : LiveAtEnd(n)' = LiveAtEnd(n)
    BY <1>2 DEF LiveAtEnd, PhiOperands, Phis, CodeOf, Code, IsPhi
  <2>4. \A n : Top(n)' = Top(n)
    BY <1>2, <2>1, RecordStays DEF Top
  <2>5. pc' = "solve" => pc = "solve"
    BY <1>2
  <2>6. pc' # "fatal" => pc # "fatal"
    BY <1>2
  <2> QED BY <1>2, <2>2, <2>3, <2>4, <2>5, <2>6 DEF ExactSoFar
<1>3. ASSUME NEW n \in Nodes, FinalPass(n) PROVE ExactSoFar'
  <2>1. /\ UNCHANGED <<f, NeedToProcess, LiveIn, LiveOut, Dead>>
        /\ pc = "final" /\ pc' \in {"fatal", "done", "final"}
    BY <1>3 DEF FinalPass
  <2> QED BY <1>2, <2>1
<1>4. CASE Converge
  <2>1. UNCHANGED <<f, NeedToProcess, LiveIn, LiveOut, Dead>> /\ pc = "solve" /\ pc' = "final"
    BY <1>4 DEF Converge
  <2> QED BY <1>2, <2>1
<1>5. CASE UNCHANGED vars
  <2>1. UNCHANGED <<f, NeedToProcess, LiveIn, LiveOut, Dead>> /\ pc' = pc
    BY <1>5 DEF vars
  <2> QED BY <1>2, <2>1
<1> QED BY <1>1, <1>3, <1>4, <1>5 DEF Step

(***************************************************************************)
(* What is live in a walk without junk from other visits is read by a      *)
(* later instruction that is kept.                                         *)
(***************************************************************************)
ExactAtEnd ==
  /\ Visited
  /\ HasNoLoop
  /\ \A n \in Nodes : LiveOut[n] = LiveAtEnd(n) /\ LiveIn[n] = Top(n)

LEMMA LaterNodesFollow ==
  ASSUME IsFunction(f), NEW i \in Code, NEW k \in Code, f.code[i].node < f.code[k].node
  PROVE  i < k
<1>1. i \in Nat /\ k \in Nat /\ f.code[i].node \in Nat /\ f.code[k].node \in Nat
  <2>1. f.code[i].node \in Nodes /\ f.code[k].node \in Nodes /\ \A n \in Nodes : n \in Nat
    BY CodeHasNode DEF Nodes
  <2> QED BY <2>1, CodeIsOrdered
<1>2. ~(k < i)
  <2> SUFFICES ASSUME k < i PROVE FALSE
    OBVIOUS
  <2>1. f.code[k].node <= f.code[i].node
    BY DEF IsFunction, Code
  <2> QED BY <1>1, <2>1
<1>3. i # k
  BY <1>1
<1> QED BY <1>1, <1>2, <1>3

LEMMA LiveIsRead ==
  ASSUME ExactAtEnd, NEW m \in Code, NEW v \in Walk(f.code[m].node)[m]
  PROVE  \E k \in Code \ Dead : m < k /\ v \in f.code[k].uses
<1> DEFINE IsRead(i) == \E k \in Code \ Dead : i < k /\ v \in f.code[k].uses
           Unread == {d \in Nat : \E i \in Code : d = Len(f.code) - i
                                    /\ v \in Walk(f.code[i].node)[i] /\ ~IsRead(i)}
<1> SUFFICES ASSUME ~IsRead(m) PROVE FALSE
  OBVIOUS
<1>1. IsFunction(f) /\ Len(f.code) \in Nat /\ Code = 1 .. Len(f.code)
  BY CodeIsOrdered DEF ExactAtEnd, Visited, TypesOfAnalysis
<1>2. Len(f.code) - m \in Unread
  BY <1>1
<1>3. PICK d \in Unread : \A e \in Unread : d <= e
  <2>1. Unread \in SUBSET Nat
    OBVIOUS
  <2> HIDE DEF Unread
  <2> QED BY <1>2, <2>1, SmallestNumber
<1>4. PICK i \in Code : d = Len(f.code) - i /\ v \in Walk(f.code[i].node)[i] /\ ~IsRead(i)
  BY <1>3
<1>5. ASSUME NEW k \in Code, i < k PROVE v \notin Walk(f.code[k].node)[k]
  <2> SUFFICES ASSUME v \in Walk(f.code[k].node)[k] PROVE FALSE
    OBVIOUS
  <2>1. ~IsRead(k)
    <3> SUFFICES ASSUME NEW x \in Code \ Dead, k < x, v \in f.code[x].uses PROVE FALSE
      OBVIOUS
    <3>1. i < x
      <4>1. x \in Nat /\ k \in Nat /\ i \in Nat
        BY <1>1
      <4> QED BY <1>5, <4>1
    <3> QED BY <1>4, <3>1
  <2>2. Len(f.code) - k \in Unread
    <3> HIDE DEF IsRead
    <3>1. Len(f.code) - k \in Nat
      BY <1>1
    <3> QED BY <2>1, <3>1, Zenon
  <2>3. d <= Len(f.code) - k
    BY <1>3, <2>2
  <2> QED BY <1>1, <1>4, <1>5, <2>3
<1>6. ASSUME NEW k \in Code, i < k PROVE v \notin LiveAbove(k, Walk(f.code[k].node)[k])
  <2> SUFFICES ASSUME v \in UsedBy(k, Walk(f.code[k].node)[k]) PROVE FALSE
    BY <1>5, <1>6 DEF LiveAbove
  <2>1. f.code[k].node \in Nodes /\ k \in CodeOf(f.code[k].node)
    BY <1>1, CodeHasNode
  <2>2. k \notin Dead /\ v \in f.code[k].uses
    BY <2>1 DEF UsedBy, ExactAtEnd, Visited, Recorded
  <2> QED BY <1>4, <1>6, <2>2
<1> DEFINE n == f.code[i].node
<1>7. /\ n \in Nodes /\ i \in CodeOf(n) /\ f.succ[n] \subseteq Nodes
      /\ IsWalk(n, LiveOut[n], Walk(n))
  BY <1>1, CodeHasNode, WalkIsTyped DEF ExactAtEnd, Visited
<1>8. /\ CodeOf(n) = First(n) .. Last(n) /\ First(n) \in Nat /\ Last(n) \in Nat
  BY <1>1, <1>7, BlockIsInterval
<1>9. CASE i < Last(n)
  <2>1. i + 1 \in CodeOf(n) /\ v \in LiveAbove(i + 1, Walk(n)[i + 1])
    BY <1>4, <1>7, <1>9 DEF IsWalk
  <2>2. i + 1 \in Code /\ f.code[i + 1].node = n /\ i < i + 1
    BY <1>1, <2>1 DEF CodeOf
  <2> QED BY <1>6, <2>1, <2>2
<1>10. CASE ~(i < Last(n))
  <2>1. i = Last(n)
    BY <1>7, <1>8, <1>10
  <2>2. v \in LiveAtEnd(n)
    BY <1>4, <1>7, <2>1 DEF IsWalk, ExactAtEnd
  <2>3. ASSUME NEW s \in f.succ[n], v \in LiveIn[s] PROVE FALSE
    <3>1. s \in Nodes /\ n < s
      BY <1>7 DEF HasNoLoop, ExactAtEnd
    <3>2. First(s) \in CodeOf(s)
      BY <1>1, <3>1, BlockIsInterval
    <3>3. First(s) \in Code /\ f.code[First(s)].node = s
      BY <3>2 DEF CodeOf
    <3>4. i < First(s)
      BY <1>1, <3>1, <3>3, LaterNodesFollow
    <3>5. v \in LiveAbove(First(s), Walk(s)[First(s)])
      BY <2>3, <3>1 DEF ExactAtEnd, Top, LiveAboveBlock, Walk
    <3> QED BY <1>6, <3>3, <3>4, <3>5
  <2>4. CASE v \in PhiOperands(n)
    <3>1. PICK s \in f.succ[n] : \E k \in Phis(s) \ Dead : f.code[k].from[n] = v /\ v # None
      BY <2>4 DEF PhiOperands
    <3>2. PICK k \in Phis(s) \ Dead : f.code[k].from[n] = v /\ v # None
      BY <3>1
    <3>3. k \in Code /\ f.code[k].node = s /\ f.code[k].from # <<>>
      BY <3>2 DEF Phis, CodeOf, IsPhi
    <3>4. v \in f.code[k].uses
      BY <1>1, <1>7, <3>2, <3>3 DEF IsFunction, Code, Nodes
    <3>5. n < s
      BY <1>7 DEF HasNoLoop, ExactAtEnd
    <3>6. i < k
      BY <1>1, <3>3, <3>5, LaterNodesFollow
    <3> QED BY <1>4, <3>2, <3>3, <3>4, <3>6
  <2> QED BY <2>2, <2>3, <2>4 DEF LiveAtEnd
<1> QED BY <1>9, <1>10

LEMMA KeptIsNeeded ==
  ASSUME ExactAtEnd
  PROVE  \A d \in Nat : \A i \in Code \ Dead : Len(f.code) - d <= i => i \in NeededWithin[d]
<1> DEFINE Bad == {d \in Nat : \E i \in Code \ Dead : Len(f.code) - d <= i /\ i \notin NeededWithin[d]}
<1> SUFFICES ASSUME Bad # {} PROVE FALSE
  OBVIOUS
<1>1. PICK d \in Bad : \A e \in Bad : d <= e
  <2>1. Bad \in SUBSET Nat
    OBVIOUS
  <2> HIDE DEF Bad
  <2> QED BY <2>1, SmallestNumber
<1>2. d \in Nat
  BY <1>1
<1>3. PICK i \in Code \ Dead : Len(f.code) - d <= i /\ i \notin NeededWithin[d]
  BY <1>1
<1>4. IsFunction(f) /\ Len(f.code) \in Nat /\ Code = 1 .. Len(f.code)
  BY CodeIsOrdered DEF ExactAtEnd, Visited, TypesOfAnalysis
<1>5. f.code[i].effect \/ f.code[i].dest = None \/ \E k \in Code \ Dead : i < k /\ f.code[i].dest \in f.code[k].uses
  <2>1. f.code[i].node \in Nodes /\ i \in CodeOf(f.code[i].node)
    BY <1>4, CodeHasNode
  <2>2. ~IsDead(i, Walk(f.code[i].node)[i])
    BY <2>1 DEF ExactAtEnd, Visited, Recorded
  <2> QED BY <2>2, LiveIsRead DEF IsDead
<1>6. CASE d = 0
  <2>1. ~ \E k \in Code \ Dead : i < k
    BY <1>3, <1>4, <1>6
  <2> QED BY <1>3, <1>5, <1>6, <2>1, NeededWithinEquation DEF NeededAnyway
<1>7. CASE d # 0
  <2>1. d \in Nat \ {0} /\ d - 1 \in Nat /\ d - 1 \notin Bad
    BY <1>1, <1>2, <1>7
  <2>2. \A k \in Code \ Dead : Len(f.code) - (d - 1) <= k => k \in NeededWithin[d - 1]
    BY <2>1
  <2>3. NeededWithin[d] = NeededStep(NeededWithin[d - 1])
    BY <2>1, NeededWithinEquation
  <2>4. ASSUME NEW k \in Code \ Dead, i < k, f.code[i].dest \in f.code[k].uses PROVE FALSE
    <3>1. Len(f.code) - (d - 1) <= k
      <4>1. i \in Nat /\ k \in Nat
        BY <1>4
      <4> QED BY <1>2, <1>3, <1>4, <2>4, <4>1
    <3>2. i \in NeededWithin[d]
      BY <2>2, <2>3, <2>4, <3>1 DEF NeededStep
    <3> QED BY <1>3, <3>2
  <2>5. f.code[i].effect \/ f.code[i].dest = None
    BY <1>5, <2>4
  <2>6. i \in NeededWithin[d - 1] => i \in NeededWithin[d]
    BY <2>3 DEF NeededStep
  <2>7. i \in NeededWithin[d - 1]
    BY <2>1, <2>5, NeededWithinEquation DEF NeededAnyway
  <2> QED BY <1>3, <2>6, <2>7
<1> QED BY <1>6, <1>7

-----------------------------------------------------------------------------
(***************************************************************************)
(* Conversely, what a walk has is live in the code left.                   *)
(***************************************************************************)
LEMMA WalkIsLive ==
  ASSUME TypesOfAnalysis, Deleted = Dead, NEW n \in Nodes, Recorded(n),
         NEW out, LiveOut[n] \subseteq out, NEW v
  PROVE  \A j \in CodeOf(n) :
           v \in LiveAbove(j, Walk(n)[j]) => v \in LiveBefore({k \in CodeOf(n) : j <= k}, out)
<1> DEFINE live == Walk(n)
           After(j) == {k \in CodeOf(n) : j <= k}
           S == {j \in CodeOf(n) : v \in LiveAbove(j, live[j]) => v \in LiveBefore(After(j), out)}
<1>1. IsWalk(n, LiveOut[n], live)
  BY WalkIsTyped
<1>2. /\ Last(n) \in Nat /\ First(n) \in Nat /\ CodeOf(n) = First(n) .. Last(n) /\ Last(n) \in CodeOf(n)
  BY BlockIsInterval DEF TypesOfAnalysis
<1>3. \A k \in CodeOf(n) : k \in Deleted <=> IsDead(k, live[k])
  BY DEF Recorded
<1>4. ASSUME NEW j \in CodeOf(n), v \in UsedBy(j, live[j]) PROVE v \in LiveBefore(After(j), out)
  <2>1. ~IsPhi(j) /\ j \notin Deleted /\ v \in f.code[j].uses
    BY <1>3, <1>4 DEF UsedBy
  <2>2. j \in After(j) /\ {k \in After(j) : k < j} = {}
    BY <1>2
  <2>3. DefinedIn({k \in After(j) : k < j}) = {}
    BY <2>2 DEF DefinedIn, KeptIn
  <2> HIDE DEF After
  <2>4. v \in UsedFirstIn(After(j))
    BY <2>1, <2>2, <2>3 DEF UsedFirstIn, KeptIn
  <2> QED BY <2>4 DEF LiveBefore
<1>5. ASSUME NEW j \in CodeOf(n), v \in live[j], v \notin Begins(j, live[j])
      PROVE  j \notin Deleted /\ ~f.code[j].redefined => f.code[j].dest # v
  BY <1>5 DEF Begins
<1>6. Last(n) \in S
  <2> SUFFICES ASSUME v \in live[Last(n)], v \notin Begins(Last(n), live[Last(n)])
               PROVE  v \in LiveBefore(After(Last(n)), out)
    BY <1>2, <1>4 DEF LiveAbove
  <2>1. v \in out
    BY <1>1 DEF IsWalk
  <2>2. After(Last(n)) = {Last(n)}
    BY <1>2
  <2>3. v \notin DefinedIn(After(Last(n)))
    BY <1>2, <1>5, <2>2 DEF DefinedIn, KeptIn
  <2> HIDE DEF After
  <2> QED BY <2>1, <2>3 DEF LiveBefore
<1>7. ASSUME NEW j \in First(n) .. Last(n), j + 1 \in S, j < Last(n) PROVE j \in S
  <2>1. j \in CodeOf(n) /\ j + 1 \in CodeOf(n)
    BY <1>2, <1>7
  <2> SUFFICES ASSUME v \in live[j], v \notin Begins(j, live[j])
               PROVE  v \in LiveBefore(After(j), out)
    BY <1>4, <2>1 DEF LiveAbove
  <2>2. v \in LiveAbove(j + 1, live[j + 1])
    BY <1>1, <1>7, <2>1 DEF IsWalk
  <2>3. v \in LiveBefore(After(j + 1), out)
    <3> HIDE DEF After
    <3> QED BY <1>7, <2>2
  <2>4. After(j) = After(j + 1) \cup {j} /\ j \notin After(j + 1)
        /\ \A i \in After(j + 1) : {k \in After(j) : k < i} = {k \in After(j + 1) : k < i} \cup {j}
    <3>1. \A k \in CodeOf(n) : j <= k <=> (j + 1 <= k \/ k = j)
      BY <1>2, <2>1
    <3>2. \A i \in After(j + 1) : j < i
      BY <1>2, <2>1
    <3>3. ~(j + 1 <= j)
      BY <1>2, <2>1
    <3>4. After(j) = After(j + 1) \cup {j} /\ j \notin After(j + 1)
      BY <2>1, <3>1, <3>3
    <3> HIDE DEF After
    <3> QED BY <3>2, <3>4
  <2>5. j \notin Deleted /\ ~f.code[j].redefined => f.code[j].dest # v
    BY <1>5, <2>1
  <2> HIDE DEF After
  <2>6. \A R : v \in DefinedIn(R \cup {j}) => v \in DefinedIn(R)
    BY <2>5 DEF DefinedIn, KeptIn
  <2>7. CASE v \in out \ DefinedIn(After(j + 1))
    BY <2>4, <2>6, <2>7 DEF LiveBefore
  <2>8. CASE v \in UsedFirstIn(After(j + 1))
    <3>1. PICK i \in KeptIn(After(j + 1)) :
            ~IsPhi(i) /\ v \in f.code[i].uses \ DefinedIn({k \in After(j + 1) : k < i})
      BY <2>8 DEF UsedFirstIn
    <3>2. i \in KeptIn(After(j)) /\ {k \in After(j) : k < i} = {k \in After(j + 1) : k < i} \cup {j}
      BY <2>4, <3>1 DEF KeptIn
    <3>3. v \in f.code[i].uses \ DefinedIn({k \in After(j) : k < i})
      BY <2>6, <3>1, <3>2
    <3>4. v \in UsedFirstIn(After(j))
      BY <3>1, <3>2, <3>3 DEF UsedFirstIn
    <3> QED BY <3>4 DEF LiveBefore
  <2> QED BY <2>3, <2>7, <2>8 DEF LiveBefore
<1> HIDE DEF S
<1>8. First(n) .. Last(n) \subseteq S
  BY <1>2, <1>6, <1>7, Downward
<1> QED BY <1>2, <1>8 DEF S

LEMMA TopIsLive ==
  ASSUME ExactAtEnd, Deleted = Dead
  PROVE  \A k \in Nat : \A s \in Nodes :
           f.nodes + 1 - k <= s => Top(s) \subseteq LiveInOf(LiveWithin[k], s)
<1> DEFINE Bad == {k \in Nat : ~ \A s \in Nodes :
                     f.nodes + 1 - k <= s => Top(s) \subseteq LiveInOf(LiveWithin[k], s)}
<1> SUFFICES ASSUME Bad # {} PROVE FALSE
  OBVIOUS
<1>1. PICK k \in Bad : \A b \in Bad : k <= b
  <2>1. Bad \in SUBSET Nat
    OBVIOUS
  <2> HIDE DEF Bad
  <2> QED BY <2>1, SmallestNumber
<1>2. k \in Nat
  BY <1>1
<1>3. PICK s \in Nodes : f.nodes + 1 - k <= s /\ ~(Top(s) \subseteq LiveInOf(LiveWithin[k], s))
  BY <1>1
<1>4. /\ IsFunction(f) /\ TypesOfAnalysis /\ f.nodes \in Nat /\ s \in Nat /\ s <= f.nodes
      /\ f.succ[s] \subseteq Nodes /\ \A m \in Nodes : m \in Nat
  <2>1. IsFunction(f) /\ TypesOfAnalysis /\ f.nodes \in Nat
    BY CodeIsOrdered DEF ExactAtEnd, Visited, TypesOfAnalysis
  <2>2. s \in Nat /\ s <= f.nodes /\ \A m \in Nodes : m \in Nat
    BY <2>1 DEF Nodes
  <2>3. f.succ[s] \subseteq Nodes
    BY <2>1 DEF IsFunction, Nodes
  <2> QED BY <2>1, <2>2, <2>3
<1>5. k # 0
  BY <1>3, <1>4
<1>6. k - 1 \in Nat /\ k - 1 \notin Bad
  BY <1>1, <1>2, <1>5
<1>7. \A m \in Nodes : f.nodes + 1 - (k - 1) <= m => Top(m) \subseteq LiveInOf(LiveWithin[k - 1], m)
  BY <1>6
<1> DEFINE in == LiveWithin[k - 1]
<1>8. LiveWithin[k] = LiveStep(in)
  BY <1>2, <1>4, <1>5, LiveWithinEquation
<1>9. \A m \in f.succ[s] : LiveIn[m] \subseteq LiveInOf(in, m)
  <2>1. \A m \in f.succ[s] : m \in Nodes /\ s < m
    BY <1>4 DEF ExactAtEnd, HasNoLoop
  <2>2. \A m \in f.succ[s] : f.nodes + 1 - (k - 1) <= m
    <3> SUFFICES ASSUME NEW m \in f.succ[s] PROVE f.nodes + 1 - (k - 1) <= m
      OBVIOUS
    <3>1. m \in Nat /\ s < m
      BY <1>4, <2>1
    <3> QED BY <1>2, <1>3, <1>4, <3>1
  <2>3. \A m \in f.succ[s] : LiveIn[m] = Top(m)
    BY <2>1 DEF ExactAtEnd
  <2> QED BY <1>7, <2>1, <2>2, <2>3
<1> HIDE DEF in, Bad
<1>10. LiveOut[s] \subseteq OutOf(in, s)
  <2>1. OperandsFrom(s) = PhiOperands(s)
    BY DEF OperandsFrom, PhiOperands, KeptIn
  <2>2. LiveOut[s] = LiveAtEnd(s)
    BY DEF ExactAtEnd
  <2> QED BY <1>9, <2>1, <2>2 DEF OutOf, LiveAtEnd
<1>11. Top(s) \subseteq LiveBefore(CodeOf(s), OutOf(in, s))
  <2>1. First(s) \in CodeOf(s) /\ {j \in CodeOf(s) : First(s) <= j} = CodeOf(s)
    <3>1. First(s) \in CodeOf(s) /\ First(s) \in Nat /\ Last(s) \in Nat /\ CodeOf(s) = First(s) .. Last(s)
      BY <1>4, BlockIsInterval
    <3> QED BY <3>1
  <2>2. Recorded(s)
    BY DEF ExactAtEnd, Visited
  <2>3. ASSUME NEW v \in Top(s) PROVE v \in LiveBefore(CodeOf(s), OutOf(in, s))
    <3>1. v \in LiveAbove(First(s), Walk(s)[First(s)])
      BY DEF Top, LiveAboveBlock, Walk
    <3> QED BY <1>4, <1>10, <2>1, <2>2, <3>1, WalkIsLive
  <2> QED BY <2>3
<1>12. Top(s) \subseteq Variables
  BY <1>4, WalkIsTyped DEF ExactAtEnd, Visited
<1>13. Top(s) \subseteq LiveInOf(LiveWithin[k], s)
  BY <1>8, <1>11, <1>12 DEF LiveInOf, LiveStep
<1> QED BY <1>3, <1>13

LEMMA LiveOutIsLive ==
  ASSUME ExactAtEnd, Deleted = Dead, NEW n \in Nodes
  PROVE  LiveOut[n] \subseteq OutOf(ReallyLiveIn, n)
<1>1. f.nodes \in Nat /\ f.succ[n] \subseteq Nodes
  BY CodeIsOrdered DEF ExactAtEnd, Visited, TypesOfAnalysis, IsFunction, Nodes
<1>2. \A s \in Nodes : f.nodes + 1 - f.nodes <= s
  BY <1>1 DEF Nodes
<1>3. \A s \in f.succ[n] : LiveIn[s] \subseteq LiveInOf(ReallyLiveIn, s)
  BY <1>1, <1>2, TopIsLive DEF ReallyLiveIn, ExactAtEnd
<1>4. OperandsFrom(n) = PhiOperands(n)
  BY DEF OperandsFrom, PhiOperands, KeptIn
<1>5. LiveOut[n] = LiveAtEnd(n)
  BY DEF ExactAtEnd
<1> QED BY <1>3, <1>4, <1>5 DEF OutOf, LiveAtEnd

(***************************************************************************)
(* Without loops the analysis is exact.                                    *)
(***************************************************************************)
ExactInv == SeenInv /\ DeletesNothingNeeded /\ ExactSoFar

LEMMA ExactInvHolds == Spec => []ExactInv
<1>1. Init => ExactSoFar
  BY DEF Init, ExactSoFar
<1>2. Init => DeletesNothingNeeded
  BY DEF Init, DeletesNothingNeeded, NothingNeededIsDeleted
<1>3. SeenInv /\ DeletesNothingNeeded /\ [Next]_vars => DeletesNothingNeeded'
  BY StepDeletesNothingNeeded DEF Next, Terminated
<1>4. SeenInv /\ ExactSoFar /\ [Next]_vars => ExactSoFar'
  BY StepIsExact DEF Next, Terminated, SeenInv
<1> QED BY <1>1, <1>2, <1>3, <1>4, SeenInvHolds, PTL DEF Spec, ExactInv

LEMMA ExactInvIsExact ==
  ASSUME ExactInv, DefinitionsReach
  PROVE  ExactWithoutLoops
<1> SUFFICES ASSUME pc = "done", HasNoLoop
             PROVE  /\ Deleted = Code \ Needed
                    /\ \A n \in Nodes : LiveOut[n] = OutOf(ReallyLiveIn, n)
  BY DEF ExactWithoutLoops
<1>1. IsSimple
  BY DEF IsSimple
<1>2. Visited /\ NeedToProcess = {}
  BY <1>1, FinalIsVisited DEF ExactInv, SeenInv, AnalysisIsRecorded
<1>3. ExactAtEnd
  BY <1>2 DEF ExactInv, ExactSoFar, ExactAtEnd
<1>4. Deleted = Dead /\ \A n \in Nodes : OutOf(ReallyLiveIn, n) \subseteq LiveOut[n]
  BY <1>2, AtTheEnd DEF ExactInv, SeenInv, Visited
<1>5. Deleted \cap Needed = {}
  BY <1>1 DEF ExactInv, DeletesNothingNeeded, NothingNeededIsDeleted
<1>6. Code \ Dead \subseteq Needed
  <2>1. Len(f.code) \in Nat /\ \A i \in Code : Len(f.code) - Len(f.code) <= i
    BY <1>2, CodeIsOrdered DEF Visited, TypesOfAnalysis
  <2> QED BY <1>3, <2>1, KeptIsNeeded DEF Needed
<1>7. Deleted \subseteq Code
  BY <1>2 DEF Visited, TypesOfAnalysis
<1>8. \A n \in Nodes : LiveOut[n] = OutOf(ReallyLiveIn, n)
  BY <1>3, <1>4, LiveOutIsLive
<1> QED BY <1>4, <1>5, <1>6, <1>7, <1>8

THEOREM ExactWithoutLoopsCorrect == Spec => [](DefinitionsReach => ExactWithoutLoops)
<1>1. ExactInv => (DefinitionsReach => ExactWithoutLoops)
  BY ExactInvIsExact
<1> QED BY <1>1, ExactInvHolds, PTL

-----------------------------------------------------------------------------
(***************************************************************************)
(* Between two segments of a range there is a gap, as AddSegment merges    *)
(* those that touch.                                                       *)
(***************************************************************************)
HasGaps(range) == \A k, m \in DOMAIN range : k < m => range[k][2] < range[m][1]

LEMMA AddSegmentHasGaps ==
  ASSUME NEW range, IsOrdered(range), HasGaps(range), NEW s1 \in Nat, NEW s2 \in Nat, s1 <= s2,
         \A k \in DOMAIN range : range[k][2] <= s1
  PROVE  HasGaps(AddSegment(range, <<s1, s2>>))
<1> DEFINE result == AddSegment(range, <<s1, s2>>)
           l == Len(range)
           S == Nat \X Nat
<1>1. /\ l \in Nat /\ DOMAIN range = 1 .. l /\ range \in Seq(S)
      /\ \A k \in DOMAIN range : range[k] \in S /\ range[k][1] <= range[k][2]
      /\ \A k, m \in DOMAIN range : k < m => range[k][2] < range[m][1]
  BY DEF IsOrdered, HasGaps
<1>2. \A k \in DOMAIN range : range[k][1] \in Nat /\ range[k][2] \in Nat
  BY <1>1
<1>3. CASE range # <<>> /\ range[l][2] = s1
  <2>1. l \in DOMAIN range /\ result = [range EXCEPT ![l] = <<range[l][1], s2>>]
    BY <1>1, <1>3 DEF AddSegment
  <2>2. DOMAIN result = DOMAIN range /\ result[l] = <<range[l][1], s2>>
        /\ \A k \in DOMAIN range : k # l => result[k] = range[k]
    BY <1>1, <2>1
  <2>3. result[l][1] = range[l][1]
    BY <2>2
  <2> HIDE DEF result
  <2>4. ASSUME NEW k \in DOMAIN result, NEW m \in DOMAIN result, k < m
        PROVE  result[k][2] < result[m][1]
    <3>1. k # l
      BY <1>1, <2>2, <2>4
    <3>2. result[k] = range[k] /\ result[m][1] = range[m][1] /\ range[k][2] < range[m][1]
      BY <1>1, <2>2, <2>3, <2>4, <3>1
    <3> QED BY <3>2
  <2> QED BY <2>4 DEF HasGaps, result
<1>4. CASE ~(range # <<>> /\ range[l][2] = s1)
  <2>1. result = Append(range, <<s1, s2>>)
    BY <1>4 DEF AddSegment
  <2>2. /\ Len(result) = l + 1 /\ result[l + 1] = <<s1, s2>> /\ \A k \in 1 .. l : result[k] = range[k]
        /\ DOMAIN result = 1 .. l + 1
    <3> DEFINE segment == <<s1, s2>>
    <3>1. segment \in S
      OBVIOUS
    <3> HIDE DEF S, segment
    <3>2. /\ Append(range, segment) \in Seq(S)
          /\ Len(Append(range, segment)) = Len(range) + 1
          /\ Append(range, segment)[Len(range) + 1] = segment
          /\ \A k \in 1 .. Len(range) : Append(range, segment)[k] = range[k]
      BY <1>1, <3>1, AppendProperties
    <3>3. DOMAIN Append(range, segment) = 1 .. Len(range) + 1
      BY <3>2
    <3> QED BY <2>1, <3>2, <3>3 DEF segment
  <2>3. result[l + 1][1] = s1
    BY <2>2
  <2> HIDE DEF result
  <2>4. \A k \in DOMAIN range : range[k][2] < s1
    <3> SUFFICES ASSUME NEW k \in DOMAIN range PROVE range[k][2] < s1
      OBVIOUS
    <3>1. range # <<>> /\ l \in DOMAIN range /\ range[l][2] # s1
      BY <1>1, <1>4
    <3>2. range[l][2] < s1
      BY <1>2, <3>1
    <3>3. k = l \/ range[k][2] < range[l][1]
      <4>1. k = l \/ k < l
        BY ONLY l \in Nat, DOMAIN range = 1 .. l, k \in DOMAIN range
      <4>2. \A j, m \in DOMAIN range : j < m => range[j][2] < range[m][1]
        BY <1>1
      <4> HIDE DEF l
      <4> QED BY <3>1, <4>1, <4>2
    <3>4. range[l][1] <= range[l][2]
      BY <1>1, <3>1
    <3>5. /\ range[k][2] \in Nat /\ range[l][1] \in Nat /\ range[l][2] \in Nat
      BY <1>2, <3>1
    <3>6. CASE k = l
      BY <3>2, <3>6
    <3>7. CASE range[k][2] < range[l][1]
      BY <3>2, <3>4, <3>5, <3>7
    <3> QED BY <3>3, <3>6, <3>7
  <2>5. ASSUME NEW k \in DOMAIN result, NEW m \in DOMAIN result, k < m
        PROVE  result[k][2] < result[m][1]
    <3>1. k \in DOMAIN range /\ result[k] = range[k]
      BY <1>1, <2>2, <2>5
    <3>2. CASE m = l + 1
      BY <2>3, <2>4, <3>1, <3>2
    <3>3. CASE m # l + 1
      <4>1. m \in DOMAIN range /\ result[m] = range[m]
        BY <1>1, <2>2, <3>3
      <4> QED BY <1>1, <2>5, <3>1, <4>1
    <3> QED BY <3>2, <3>3
  <2> QED BY <2>5 DEF HasGaps, result
<1> QED BY <1>3, <1>4

LEMMA ExtendedHasGaps ==
  ASSUME NEW range, IsOrdered(range), HasGaps(range),
         NEW n, NEW v, NEW low \in Nat, NEW first \in Nat, NEW last \in Nat,
         low <= first, first <= last,
         \A k \in DOMAIN range : range[k][2] <= low,
         \A e \in LiveBegin[n] : e[2] \in low .. last,
         \A e \in LiveEnd[n] : e[2] \in first .. last,
         BeginsAgain(n), EndsToo(n),
         ~HasDuplicates(LiveBegin[n]), ~HasDuplicates(LiveEnd[n])
  PROVE  HasGaps(Extended(range, n, v, first, last))
<1> DEFINE LB == NumberOf(LiveBegin[n], v, first)
           LE == NumberOf(LiveEnd[n], v, last + 1)
           mentioned == \E p \in LiveBegin[n] \cup LiveEnd[n] : p[1] = v
           through == v \in LiveIn[n] \cap LiveOut[n]
           added == AddSegment(range, <<LB, LE>>)
           one == IF mentioned THEN added ELSE range
           split == AddSegment(range, <<first, LE>>)
           both == AddSegment(split, <<LB, last + 1>>)
           extended == Extended(range, n, v, first, last)
<1>1. extended = IF mentioned /\ LB > LE THEN both
                 ELSE IF through THEN AddSegment(one, <<first, last + 1>>) ELSE one
  BY DEF Extended
<1>2. LB \in low .. last /\ LB \in Nat
  <2>1. LB = first \/ \E e \in LiveBegin[n] : LB = e[2]
    BY NumberOfFacts
  <2> QED BY <2>1
<1>3. LE \in first .. last + 1 /\ LE \in Nat
  <2>1. LE = last + 1 \/ \E e \in LiveEnd[n] : LE = e[2]
    BY NumberOfFacts
  <2> QED BY <2>1
<1>4. mentioned /\ through => LB > LE
  <2> SUFFICES ASSUME mentioned, through PROVE LB > LE
    OBVIOUS
  <2>1. PICK p \in LiveBegin[n] \cup LiveEnd[n] : p[1] = v
    OBVIOUS
  <2>2. \E e \in LiveEnd[n] : e[1] = v
    <3>1. CASE p \in LiveEnd[n]
      BY <2>1, <3>1
    <3>2. CASE p \in LiveBegin[n]
      BY <2>1, <3>2 DEF EndsToo
    <3> QED BY <3>1, <3>2
  <2>3. PICK e \in LiveEnd[n] : e[1] = v
    BY <2>2
  <2>4. PICK b \in LiveBegin[n] : b[1] = v /\ e[2] < b[2]
    BY <2>3 DEF BeginsAgain
  <2>5. LB = b[2]
    BY <2>4, NumberOfFacts
  <2>6. LE = e[2]
    BY <2>3, NumberOfFacts
  <2>7. e[2] \in Int /\ b[2] \in Int
    OBVIOUS
  <2> QED BY <2>4, <2>5, <2>6, <2>7
<1>5. \A k \in DOMAIN range : range[k][2] \in Nat
  BY DEF IsOrdered
<1> HIDE DEF LB, LE, mentioned, through, extended
<1>6. CASE mentioned /\ LB > LE
  <2>1. \A k \in DOMAIN range : range[k][2] <= first
    BY <1>5
  <2>2. first <= LE
    BY <1>3
  <2>3. IsOrdered(split) /\ \A k \in DOMAIN split : split[k][2] <= LE
    BY <1>3, <2>1, <2>2, AddSegmentIsOrdered
  <2>4. HasGaps(split)
    BY <1>3, <2>1, <2>2, AddSegmentHasGaps
  <2> HIDE DEF split
  <2>5. \A k \in DOMAIN split : split[k][2] \in Nat
    BY <2>3 DEF IsOrdered
  <2>6. \A k \in DOMAIN split : split[k][2] <= LB
    BY <1>2, <1>3, <1>6, <2>3, <2>5
  <2>7. LB <= last + 1 /\ last + 1 \in Nat
    BY <1>2
  <2>8. HasGaps(both)
    BY <1>2, <2>3, <2>4, <2>6, <2>7, AddSegmentHasGaps
  <2> QED BY <1>1, <1>6, <2>8 DEF extended
<1>7. CASE ~(mentioned /\ LB > LE)
  <2>1. CASE mentioned
    <3>1. extended = added
      BY <1>1, <1>4, <1>7, <2>1
    <3>2. LB <= LE /\ \A k \in DOMAIN range : range[k][2] <= LB
      BY <1>2, <1>3, <1>5, <1>7, <2>1
    <3>3. HasGaps(added)
      BY <1>2, <1>3, <3>2, AddSegmentHasGaps
    <3> QED BY <3>1, <3>3 DEF extended
  <2>2. CASE ~mentioned /\ through
    <3>1. extended = AddSegment(range, <<first, last + 1>>)
      BY <1>1, <1>7, <2>2
    <3>2. first <= last + 1 /\ last + 1 \in Nat /\ \A k \in DOMAIN range : range[k][2] <= first
      BY <1>5
    <3>3. HasGaps(AddSegment(range, <<first, last + 1>>))
      BY <3>2, AddSegmentHasGaps
    <3> QED BY <3>1, <3>3 DEF extended
  <2>3. CASE ~mentioned /\ ~through
    BY <1>1, <1>7, <2>3 DEF extended
  <2> QED BY <2>1, <2>2, <2>3
<1> QED BY <1>6, <1>7

(***************************************************************************)
(* Who is live behind two instructions with subsequent numbers is so in    *)
(* one segment.                                                            *)
(***************************************************************************)
LEMMA CoveredInOneSegment ==
  ASSUME NEW range, IsOrdered(range), HasGaps(range), NEW q \in Nat,
         Covers(range, q), Covers(range, q + 1)
  PROVE  \E k \in DOMAIN range : range[k][1] < q + 1 /\ q + 1 < range[k][2]
<1>1. PICK k \in DOMAIN range : range[k][1] <= q /\ q < range[k][2]
  BY DEF Covers
<1>2. PICK m \in DOMAIN range : range[m][1] <= q + 1 /\ q + 1 < range[m][2]
  BY DEF Covers
<1>3. /\ k \in Nat /\ m \in Nat
      /\ range[k][1] \in Nat /\ range[k][2] \in Nat /\ range[m][1] \in Nat /\ range[m][2] \in Nat
  BY DEF IsOrdered
<1>4. ~(k < m)
  BY <1>1, <1>2, <1>3 DEF HasGaps
<1>5. ~(m < k)
  BY <1>1, <1>2, <1>3 DEF HasGaps
<1>6. k = m
  BY <1>3, <1>4, <1>5
<1>7. range[k][1] < q + 1 /\ q + 1 < range[k][2]
  BY <1>1, <1>2, <1>3, <1>6
<1> QED BY <1>7

(***************************************************************************)
(* With phis, what is live above a block is not defined in it: its range   *)
(* has the numbers of the phis, too, up to its last use.                   *)
(***************************************************************************)
LEMMA TopIsCovered ==
  ASSUME TypesOfAnalysis, NodesAreConsistent, pc # "fatal", HasPhis(f), NEW n \in Nodes, Recorded(n),
         ~HasDuplicates(LiveBegin[n]), ~HasDuplicates(LiveEnd[n]),
         NEW range, WellFormed(range),
         NEW first, first = FirstInstNum(n, KeptOf(n)),
         NEW last, last = Number(LastOf(KeptOf(n))),
         NEW j \in CodeOf(n), Number(j) \in first .. last,
         NEW v \in Top(n), v \in Walk(n)[j]
  PROVE  Covers(Extended(range, n, v, first, last), Number(j))
<1> DEFINE live == Walk(n)
           LB == NumberOf(LiveBegin[n], v, first)
           LE == NumberOf(LiveEnd[n], v, last + 1)
           q == Number(j)
<1>1. IsWalk(n, LiveOut[n], live)
  BY WalkIsTyped
<1>2. /\ first \in Nat /\ last \in Nat /\ first <= last
      /\ \A e \in LiveBegin[n] : e[2] \in Nat /\ e[2] <= last
      /\ \A e \in LiveEnd[n] : e[2] \in Nat /\ first <= e[2]
  <2>1. /\ first \in Nat /\ last \in Nat /\ first <= last
        /\ \A e \in LiveBegin[n] : e[2] \in Number(First(n)) .. last
        /\ \A e \in LiveEnd[n] : e[2] \in first .. last
        /\ Number(First(n)) \in Nat
    BY KeptFacts
  <2> QED BY <2>1
<1>3. ASSUME NEW k \in CodeOf(n)
      PROVE  /\ k \in Nat /\ Number(k) = k + 1
             /\ v \in Ends(k, live[k]) => Mentioned(n, v) /\ LE = k + 1
  BY RecordedNumbers
<1>4. /\ IsFunction(f) /\ CodeOf(n) = First(n) .. Last(n)
      /\ First(n) \in Nat /\ Last(n) \in Nat
  BY BlockIsInterval DEF TypesOfAnalysis
<1>5. q = j + 1 /\ j \in Nat /\ first <= q /\ q <= last
  BY <1>2, <1>3
<1> HIDE DEF live, LB, LE, q
<1>6. v \in LiveOut[n] \/ \E k \in CodeOf(n) : j < k /\ v \in Ends(k, live[k])
  <2>1. CASE j = Last(n)
    BY <1>1, <2>1 DEF IsWalk, live
  <2>2. CASE j # Last(n)
    <3>1. j < Last(n) /\ j + 1 \in CodeOf(n)
      BY <1>4, <2>2
    <3>2. v \in LiveAbove(j + 1, live[j + 1])
      BY <1>1, <3>1 DEF IsWalk, live
    <3>3. v \in LiveOut[n] \/ \E k \in CodeOf(n) : j + 1 <= k /\ v \in Ends(k, live[k])
      BY <1>1, <1>4, <3>1, <3>2, LiveUntilEnd
    <3>4. \A k \in CodeOf(n) : j + 1 <= k => j < k
      BY <1>3, <1>5
    <3> QED BY <3>3, <3>4
  <2> QED BY <2>1, <2>2
<1>7. v \in LiveAbove(First(n), live[First(n)]) /\ v \in LiveIn[n]
  BY DEF Recorded, Top, LiveAboveBlock, Walk, live
<1>8. \A k \in CodeOf(n) : v \notin Begins(k, live[k])
  <2> SUFFICES ASSUME NEW k \in CodeOf(n), v \in Begins(k, live[k]) PROVE FALSE
    OBVIOUS
  <2>1. ~f.code[k].redefined /\ v = f.code[k].dest
    BY DEF Begins
  <2>2. f.code[k].dest \notin LiveAbove(First(n), live[First(n)])
    BY <1>1, <1>4, <2>1, DefinedIsNotAbove
  <2> QED BY <1>7, <2>1, <2>2
<1>9. LB = first /\ ~ \E e \in LiveBegin[n] : e[1] = v
  <2>1. ~ \E e \in LiveBegin[n] : e[1] = v
    BY <1>8 DEF Recorded, live
  <2> QED BY <2>1, NumberOfFacts DEF LB
<1>10. \/ Mentioned(n, v) /\ LB <= q /\ (q < LE \/ LE < LB)
       \/ ~Mentioned(n, v) /\ v \in LiveIn[n] \cap LiveOut[n]
  <2>1. CASE \E m \in CodeOf(n) : j < m /\ v \in Ends(m, live[m])
    <3>1. PICK m \in CodeOf(n) : j < m /\ v \in Ends(m, live[m])
      BY <2>1
    <3>2. q < LE /\ Mentioned(n, v)
      BY <1>3, <1>5, <3>1
    <3> QED BY <1>5, <1>9, <3>2
  <2>2. CASE ~ \E m \in CodeOf(n) : j < m /\ v \in Ends(m, live[m])
    <3>1. v \in LiveOut[n]
      BY <1>6, <2>2
    <3>2. ~ \E e \in LiveEnd[n] : e[1] = v
      BY <1>9, <3>1 DEF NodesAreConsistent, BeginsAgain
    <3>3. ~Mentioned(n, v)
      BY <1>9, <3>2 DEF Mentioned
    <3> QED BY <1>7, <3>1, <3>3
  <2> QED BY <2>1, <2>2
<1>11. q \in first .. last
  BY DEF q
<1>12. Covers(Extended(range, n, v, first, last), q)
  BY <1>2, <1>10, <1>11, ExtendedAt DEF LB, LE
<1> QED BY <1>12 DEF q

(***************************************************************************)
(* The invariant: gaps, and the ranges of what is live above a node.       *)
(***************************************************************************)
TopCoveredIn(n) ==
  HasPhis(f) =>
    \A j \in CodeOf(n) :
      Number(j) \in FirstInstNum(n, KeptOf(n)) .. Number(LastOf(KeptOf(n)))
      => \A v \in Top(n) \cap Walk(n)[j] : Covers(LiveRange[v], Number(j))
RangesAreFull ==
  /\ \A v \in Variables : HasGaps(LiveRange[v])
  /\ pc \in {"final", "done"} => \A n \in 1 .. at : TopCoveredIn(n)

LEMMA FullInit == ASSUME Init PROVE RangesAreFull
BY DEF Init, RangesAreFull, HasGaps

LEMMA FinalPassKeepsFull ==
  ASSUME TypesOfAnalysis, NodesAreConsistent, RangesGrow, AnalysisIsRecorded, RangesAreFull,
         NEW n \in Nodes, FinalPass(n)
  PROVE  RangesAreFull'
<1> DEFINE first == FirstInstNum(n, KeptOf(n))
           last == Number(LastOf(KeptOf(n)))
           fatal == HasDuplicates(LiveBegin[n]) \/ HasDuplicates(LiveEnd[n])
           low == IF n = 1 THEN 1 ELSE Number(First(n))
<1>1. /\ pc = "final" /\ n = at + 1 /\ at' = n
      /\ LiveRange' = [v \in Variables |-> IF fatal THEN LiveRange[v]
                                           ELSE Extended(LiveRange[v], n, v, first, last)]
      /\ pc' = IF fatal THEN "fatal" ELSE IF n = f.nodes THEN "done" ELSE "final"
      /\ UNCHANGED <<f, NeedToProcess, LiveIn, LiveOut, NumNonDeadPhis, Dead, LiveBegin, LiveEnd>>
  BY DEF FinalPass, KeptOf
<1>2. /\ at \in Nat /\ n \in Nat
      /\ \A v \in Variables : IsOrdered(LiveRange[v]) /\ HasGaps(LiveRange[v]) /\ EndsBefore(LiveRange[v], n)
      /\ \A m \in Nodes : Recorded(m)
      /\ \A m \in 1 .. at : m \in Nodes /\ TopCoveredIn(m)
  <2>1. at \in Nat /\ f.nodes \in Nat /\ n \in Nat
    BY <1>1, CodeIsOrdered DEF TypesOfAnalysis, Nodes
  <2>2. \A m \in 1 .. at : m \in Nodes
    BY <1>1, <2>1 DEF RangesGrow, Nodes
  <2> QED BY <1>1, <2>1, <2>2 DEF RangesGrow, RangesAreOrdered, AnalysisIsRecorded, RangesAreFull
<1>3. /\ first \in Nat /\ last \in Nat /\ first <= last
      /\ low \in Nat /\ low <= first
      /\ \A e \in LiveBegin[n] : e[2] \in low .. last
      /\ \A e \in LiveEnd[n] : e[2] \in first .. last
  <2>1. /\ first \in Nat /\ last \in Nat /\ first <= last
        /\ n # 1 => Number(First(n)) <= first
        /\ n = 1 => first = 1
        /\ \A e \in LiveBegin[n] : e[2] \in Number(First(n)) .. last
        /\ \A e \in LiveEnd[n] : e[2] \in first .. last
        /\ Number(First(n)) \in Nat /\ 1 <= Number(First(n))
    BY KeptFacts
  <2> HIDE DEF first, last
  <2>2. low \in Nat /\ low <= Number(First(n)) /\ low <= first
    BY <2>1
  <2> HIDE DEF low
  <2>3. \A e \in LiveBegin[n] : e[2] \in low .. last
    BY <2>1, <2>2
  <2> QED BY <2>1, <2>2, <2>3
<1>4. ASSUME NEW v \in Variables PROVE \A k \in DOMAIN LiveRange[v] : LiveRange[v][k][2] <= low
  <2>1. EndsBefore(LiveRange[v], n)
    BY <1>2
  <2>2. CASE n = 1
    <3>1. LiveRange[v] = <<>>
      BY <2>1, <2>2 DEF EndsBefore
    <3> QED BY <3>1
  <2>3. CASE n # 1
    <3>1. First(n) \in CodeOf(n)
      BY BlockIsInterval DEF TypesOfAnalysis
    <3>2. First(n) \in Code /\ f.code[First(n)].node = n
      BY <3>1 DEF CodeOf
    <3> QED BY <1>2, <2>1, <2>3, <3>2 DEF EndsBefore
  <2> QED BY <2>2, <2>3
<1>5. ASSUME ~fatal, NEW v \in Variables
      PROVE  /\ LiveRange'[v] = Extended(LiveRange[v], n, v, first, last)
             /\ HasGaps(LiveRange'[v])
             /\ \A q \in Nat : Covers(LiveRange[v], q) => Covers(LiveRange'[v], q)
  <2>1. LiveRange'[v] = Extended(LiveRange[v], n, v, first, last)
    BY <1>1, <1>5
  <2>2. BeginsAgain(n) /\ EndsToo(n) /\ ~HasDuplicates(LiveBegin[n]) /\ ~HasDuplicates(LiveEnd[n])
    BY <1>5 DEF NodesAreConsistent
  <2>3. IsOrdered(LiveRange[v]) /\ HasGaps(LiveRange[v]) /\ WellFormed(LiveRange[v])
    BY <1>2, OrderedIsWellFormed
  <2> HIDE DEF first, last, low, fatal
  <2>4. HasGaps(Extended(LiveRange[v], n, v, first, last))
    BY <1>3, <1>4, <2>2, <2>3, ExtendedHasGaps
  <2>5. /\ \A e \in LiveBegin[n] : e[2] \in Nat /\ e[2] <= last
        /\ \A e \in LiveEnd[n] : e[2] \in Nat /\ first <= e[2]
    BY <1>3
  <2>6. \A q \in Nat : Covers(LiveRange[v], q) => Covers(Extended(LiveRange[v], n, v, first, last), q)
    BY <1>3, <2>3, <2>5, ExtendedCovers
  <2> QED BY <2>1, <2>4, <2>6
<1>6. \A v \in Variables : HasGaps(LiveRange'[v])
  <2>1. CASE fatal
    BY <1>1, <1>2, <2>1
  <2>2. CASE ~fatal
    BY <1>5, <2>2
  <2> QED BY <2>1, <2>2
<1>7. ASSUME ~fatal, NEW m \in 1 .. n PROVE TopCoveredIn(m)'
  <2>1. m \in Nodes
    BY <1>1, <1>2
  <2>2. /\ \A k : /\ Walk(k)' = Walk(k) /\ Top(k)' = Top(k) /\ CodeOf(k)' = CodeOf(k)
                  /\ FirstInstNum(k, KeptOf(k))' = FirstInstNum(k, KeptOf(k))
                  /\ Number(LastOf(KeptOf(k)))' = Number(LastOf(KeptOf(k)))
        /\ \A i : Number(i)' = Number(i)
    BY <1>1, OthersStay
  <2>3. HasPhis(f') <=> HasPhis(f)
    BY <1>1
  <2> SUFFICES ASSUME HasPhis(f), NEW j \in CodeOf(m),
                      Number(j) \in FirstInstNum(m, KeptOf(m)) .. Number(LastOf(KeptOf(m))),
                      NEW v \in Top(m), v \in Walk(m)[j]
               PROVE  Covers(LiveRange'[v], Number(j))
    BY <2>2, <2>3 DEF TopCoveredIn, Covers
  <2>4. v \in Variables
    BY <2>1, WalkIsTyped
  <2>5. Number(j) \in Nat
    BY <2>1, NumberAtFacts DEF TypesOfAnalysis
  <2>6. CASE m = n
    <3>1. Recorded(n) /\ WellFormed(LiveRange[v]) /\ pc # "fatal"
      BY <1>1, <1>2, <2>4, OrderedIsWellFormed
    <3>2. ~HasDuplicates(LiveBegin[n]) /\ ~HasDuplicates(LiveEnd[n])
      BY <1>7
    <3>3. Number(j) \in first .. last
      BY <2>6
    <3> HIDE DEF fatal
    <3>4. Covers(Extended(LiveRange[v], n, v, first, last), Number(j))
      BY <2>6, <3>1, <3>2, <3>3, TopIsCovered
    <3> HIDE DEF first, last
    <3> QED BY <1>5, <1>7, <2>4, <3>4
  <2>7. CASE m # n
    <3>1. m \in 1 .. at
      BY <1>1, <1>2, <2>7
    <3>2. Covers(LiveRange[v], Number(j))
      BY <1>2, <3>1 DEF TopCoveredIn
    <3> HIDE DEF first, last, fatal
    <3> QED BY <1>5, <1>7, <2>4, <2>5, <3>2
  <2> QED BY <2>6, <2>7
<1>8. pc' \in {"final", "done"} => ~fatal
  BY <1>1
<1> HIDE DEF first, last, fatal, low
<1> QED BY <1>1, <1>6, <1>7, <1>8 DEF RangesAreFull

LEMMA StepKeepsFull ==
  ASSUME IInv, AnalysisIsRecorded, RangesAreFull, Step \/ UNCHANGED vars PROVE RangesAreFull'
<1>1. ASSUME NEW n \in Nodes, Visit(n) PROVE RangesAreFull'
  BY <1>1 DEF Visit, RangesAreFull, HasGaps
<1>2. ASSUME NEW n \in Nodes, FinalPass(n) PROVE RangesAreFull'
  BY <1>2, FinalPassKeepsFull DEF IInv
<1>3. CASE Converge
  <2>1. at' = 0 /\ LiveRange' = LiveRange
    BY <1>3 DEF Converge
  <2>2. 1 .. at' = {}
    BY <2>1
  <2> QED BY <2>1, <2>2 DEF RangesAreFull, HasGaps
<1>4. CASE UNCHANGED vars
  <2>1. UNCHANGED <<f, pc, at, NeedToProcess, LiveIn, LiveOut, NumNonDeadPhis, Dead,
                    LiveBegin, LiveEnd, Deleted, LiveRange>>
    BY <1>4 DEF vars
  <2>2. /\ \A k : /\ Walk(k)' = Walk(k) /\ Top(k)' = Top(k) /\ CodeOf(k)' = CodeOf(k)
                  /\ FirstInstNum(k, KeptOf(k))' = FirstInstNum(k, KeptOf(k))
                  /\ Number(LastOf(KeptOf(k)))' = Number(LastOf(KeptOf(k)))
        /\ \A i : Number(i)' = Number(i)
    BY <2>1, OthersStay
  <2>3. \A k : TopCoveredIn(k) => TopCoveredIn(k)'
    BY <2>1, <2>2 DEF TopCoveredIn, Covers
  <2> QED BY <2>1, <2>3 DEF RangesAreFull, HasGaps
<1> QED BY <1>1, <1>2, <1>3, <1>4 DEF Step

-----------------------------------------------------------------------------
(***************************************************************************)
(* What the analysis says at its end to those that run the code: of the    *)
(* variables live above and behind each instruction that is not a phi, and *)
(* of those live behind the phis of a node.                                *)
(***************************************************************************)
Finished ==
  /\ IInv
  /\ pc = "done"
  /\ Settled
  /\ Deleted = Dead
  /\ \A n \in Nodes : Recorded(n) /\ CoveredIn(n) /\ TopCoveredIn(n)
  /\ \A v \in Variables : HasGaps(LiveRange[v])
  /\ ArgsCovered

LEMMA FinishedHolds ==
  ASSUME IInv, AnalysisIsRecorded, RangesAreFull, pc = "done", Settled
  PROVE  Finished
<1>1. \A n \in Nodes : TopCoveredIn(n)
  BY DEF RangesAreFull, IInv, RangesGrow, Nodes
<1> QED BY <1>1, AtTheEnd DEF Finished, RangesAreFull

LEMMA InstFacts ==
  ASSUME Finished, NEW n \in Nodes, NEW i \in Insts(n),
         NEW W, W = Walk(n)[i], NEW A, A = LiveAbove(i, W)
  PROVE  /\ i \in Nat \ {0} /\ i \in Code /\ f.code[i].node = n /\ f.code[i].uses \subseteq Variables
         /\ W \subseteq Variables /\ A \subseteq Variables
         /\ i \in Deleted => A = W
         /\ i \notin Deleted => f.code[i].uses \subseteq A /\ W \ {f.code[i].dest} \subseteq A
         /\ i \notin Deleted /\ f.code[i].dest # None /\ f.code[i].dest \notin W => f.code[i].effect
         /\ i \notin Deleted => \A v \in W : Covers(LiveRange[v], i + 1)
         /\ i # Last(n) => i + 1 \in Insts(n) /\ W = LiveAbove(i + 1, Walk(n)[i + 1])
         /\ i = Last(n) => W = LiveOut[n]
<1>1. TypesOfAnalysis /\ IsFunction(f) /\ NodesAreConsistent /\ Recorded(n) /\ CoveredIn(n) /\ Deleted = Dead
  BY DEF Finished, IInv, TypesOfAnalysis
<1>2. /\ i \in Code /\ i \in CodeOf(n) /\ f.code[i].node = n /\ ~IsPhi(i) /\ i \in Nat \ {0}
      /\ i \notin Phis(n)
  BY <1>1, CodeIsOrdered DEF Insts, Phis, CodeOf
<1>3. /\ IsWalk(n, LiveOut[n], Walk(n)) /\ W \subseteq Variables
      /\ f.code[i].uses \subseteq Variables
  BY <1>1, <1>2, WalkIsTyped, CodeHasNode
<1>4. A \subseteq Variables
  BY <1>1, <1>2, <1>3, StepTypes
<1>5. i \in Dead <=> IsDead(i, W)
  BY <1>1, <1>2 DEF Recorded
<1>6. i \in Deleted => A = W
  BY <1>1, <1>5 DEF LiveAbove, Begins, UsedBy, IsDead
<1>7. i \notin Deleted => f.code[i].uses \subseteq A /\ W \ {f.code[i].dest} \subseteq A
  BY <1>1, <1>2, <1>5 DEF LiveAbove, Begins, UsedBy
<1>8. i \notin Deleted /\ f.code[i].dest # None /\ f.code[i].dest \notin W => f.code[i].effect
  BY <1>1, <1>5 DEF IsDead
<1>9. ASSUME i \notin Deleted PROVE \A v \in W : Covers(LiveRange[v], i + 1)
  <2>1. Behind(i) = i
    BY <1>2 DEF Behind
  <2>2. /\ \A p \in Phis(n) : p <= i
        /\ Number(i) \in FirstInstNum(n, KeptOf(n)) .. Number(LastOf(KeptOf(n)))
    BY <1>1, <1>2, <1>9, <2>1, BehindFacts
  <2>3. Number(i) = i + 1
    BY <1>2 DEF Number, NumberInitial
  <2> QED BY <1>1, <1>2, <2>2, <2>3 DEF CoveredIn
<1>10. ASSUME i # Last(n) PROVE i + 1 \in Insts(n) /\ W = LiveAbove(i + 1, Walk(n)[i + 1])
  <2>1. /\ CodeOf(n) = First(n) .. Last(n) /\ First(n) \in Nat \ {0} /\ Last(n) \in Nat
    BY <1>1, BlockIsInterval
  <2>2. i < Last(n)
    BY <1>2, <1>10, <2>1
  <2>3. i + 1 \in CodeOf(n) /\ W = LiveAbove(i + 1, Walk(n)[i + 1])
    BY <1>2, <1>3, <2>2 DEF IsWalk
  <2>4. i + 1 \notin Phis(n)
    <3>1. \A p \in Phis(n), j \in CodeOf(n) \ Phis(n) : p < j
      BY <1>1, CodeIsOrdered
    <3>2. ASSUME i + 1 \in Phis(n) PROVE FALSE
      <4>1. i + 1 < i
        BY <1>2, <3>1, <3>2
      <4> QED BY <1>2, <4>1
    <3> QED BY <3>2
  <2> QED BY <2>3, <2>4 DEF Insts
<1>11. i = Last(n) => W = LiveOut[n]
  BY <1>3 DEF IsWalk
<1> QED BY <1>2, <1>3, <1>4, <1>6, <1>7, <1>8, <1>9, <1>10, <1>11

(***************************************************************************)
(* The phis of a node use nothing there, so walking down behind them there *)
(* only is more.                                                           *)
(***************************************************************************)
LEMMA PhisAddUp ==
  ASSUME Finished, NEW n \in Nodes, NEW p \in Phis(n), NEW b \in Phis(n), p <= b, NEW v \in Walk(n)[p]
  PROVE  v \in Walk(n)[b]
<1>1. TypesOfAnalysis /\ IsFunction(f)
  BY DEF Finished, IInv, TypesOfAnalysis
<1>2. /\ CodeOf(n) = First(n) .. Last(n) /\ First(n) \in Nat \ {0} /\ Last(n) \in Nat
      /\ Phis(n) \subseteq CodeOf(n)
  BY <1>1, BlockIsInterval, CodeIsOrdered
<1>3. p \in Nat /\ b \in Nat /\ p \in First(n) .. Last(n) /\ b \in First(n) .. Last(n)
  BY <1>2
<1>4. IsWalk(n, LiveOut[n], Walk(n))
  BY <1>1, WalkIsTyped
<1> DEFINE S == {k \in CodeOf(n) : v \notin Walk(n)[k]}
<1>5. ASSUME NEW k \in p .. b, k + 1 \in S, k < b PROVE k \in S
  <2>1. k \in CodeOf(n) /\ k + 1 \in CodeOf(n) /\ k < Last(n) /\ k \in Nat
    BY <1>2, <1>3, <1>5
  <2>2. Walk(n)[k] = LiveAbove(k + 1, Walk(n)[k + 1])
    BY <1>4, <2>1 DEF IsWalk
  <2>3. IsPhi(k + 1)
    <3>1. \A j \in CodeOf(n) \ Phis(n) : b < j
      BY <1>1, CodeIsOrdered
    <3>2. k + 1 <= b
      BY <1>3, <1>5, <2>1
    <3>3. ASSUME k + 1 \notin Phis(n) PROVE FALSE
      <4>1. b < k + 1
        BY <2>1, <3>1, <3>3
      <4> QED BY <1>3, <2>1, <3>2, <4>1
    <3> QED BY <3>3 DEF Phis
  <2>4. Walk(n)[k] \subseteq Walk(n)[k + 1]
    BY <2>2, <2>3 DEF LiveAbove, UsedBy
  <2> QED BY <1>5, <2>1, <2>4
<1>6. ASSUME b \in S PROVE FALSE
  <2> HIDE DEF S
  <2>1. p .. b \subseteq S
    BY <1>3, <1>5, <1>6, Downward
  <2>2. p \in S
    BY <1>3, <2>1
  <2> QED BY <2>2 DEF S
<1>7. b \in CodeOf(n)
  BY <1>2
<1> QED BY <1>6, <1>7

(***************************************************************************)
(* The end of the phis of a node: what is live there is what was live      *)
(* above the node, and the dests of the phis kept.                         *)
(***************************************************************************)
LEMMA FirstInstFacts ==
  ASSUME Finished, NEW s \in Nodes, NEW j, j = FirstOf(Insts(s)), NEW A, A = LiveAbove(j, Walk(s)[j])
  PROVE  /\ j \in Insts(s) /\ A \subseteq Variables
         /\ Phis(s) = {} => j = First(s) /\ A = Top(s)
         /\ Phis(s) # {} =>
              /\ LastOf(Phis(s)) \in Phis(s)
              /\ \A p \in Phis(s) : p <= LastOf(Phis(s))
              /\ A = Walk(s)[LastOf(Phis(s))]
<1>1. TypesOfAnalysis /\ IsFunction(f)
  BY DEF Finished, IInv, TypesOfAnalysis
<1>2. /\ CodeOf(s) = First(s) .. Last(s) /\ First(s) \in Nat \ {0} /\ Last(s) \in Nat
      /\ Phis(s) \subseteq CodeOf(s) /\ CodeOf(s) \subseteq Code
      /\ Code \subseteq Nat \ {0} /\ Code = 1 .. Len(f.code) /\ Len(f.code) \in Nat
      /\ Insts(s) # {}
      /\ \A p \in Phis(s), i \in Insts(s) : p < i
  BY <1>1, BlockIsInterval, CodeIsOrdered DEF Insts
<1>3. Insts(s) \in SUBSET Nat /\ Insts(s) \subseteq CodeOf(s)
  BY <1>2 DEF Insts
<1>4. j \in Insts(s) /\ \A i \in Insts(s) : j <= i
  BY <1>2, <1>3, FirstIsFirst
<1>5. A \subseteq Variables
  BY <1>1, <1>2, <1>3, <1>4, WalkIsTyped, StepTypes
<1>6. ASSUME Phis(s) = {} PROVE j = First(s) /\ A = Top(s)
  <2>1. Insts(s) = CodeOf(s)
    BY <1>6 DEF Insts
  <2>2. j = First(s)
    BY <2>1 DEF First
  <2> QED BY <2>2 DEF Top, LiveAboveBlock, Walk
<1>7. ASSUME Phis(s) # {}
      PROVE  /\ LastOf(Phis(s)) \in Phis(s)
             /\ \A p \in Phis(s) : p <= LastOf(Phis(s))
             /\ A = Walk(s)[LastOf(Phis(s))]
  <2> DEFINE b == LastOf(Phis(s))
  <2>1. Phis(s) \in SUBSET (1 .. Len(f.code))
    BY <1>2
  <2>2. b \in Phis(s) /\ \A p \in Phis(s) : p <= b
    BY <1>2, <1>7, <2>1, LastIsLast
  <2> HIDE DEF b
  <2>3. b \in Nat /\ j \in Nat /\ b \in First(s) .. Last(s) /\ j \in First(s) .. Last(s) /\ b < j
    BY <1>2, <1>3, <1>4, <2>2
  <2>4. b + 1 \in CodeOf(s) /\ b < Last(s)
    BY <1>2, <2>3
  <2>5. b + 1 \notin Phis(s)
    <3>1. ~(b + 1 <= b)
      BY <2>3
    <3> QED BY <2>2, <3>1
  <2>6. j <= b + 1
    BY <1>4, <2>4, <2>5 DEF Insts
  <2>7. j = b + 1
    BY <2>3, <2>6
  <2>8. IsWalk(s, LiveOut[s], Walk(s))
    BY <1>1, WalkIsTyped
  <2>9. b \in CodeOf(s)
    BY <1>2, <2>2
  <2>10. Walk(s)[b] = LiveAbove(b + 1, Walk(s)[b + 1])
    BY <2>4, <2>8, <2>9 DEF IsWalk
  <2> QED BY <2>2, <2>7, <2>10 DEF b
<1> QED BY <1>4, <1>5, <1>6, <1>7

LEMMA TopIsAbovePhis ==
  ASSUME Finished, NEW s \in Nodes, NEW p \in Phis(s)
  PROVE  Top(s) \subseteq Walk(s)[p]
<1>1. TypesOfAnalysis /\ IsFunction(f)
  BY DEF Finished, IInv, TypesOfAnalysis
<1>2. /\ CodeOf(s) = First(s) .. Last(s) /\ First(s) \in Nat \ {0} /\ Last(s) \in Nat
      /\ Phis(s) \subseteq CodeOf(s)
      /\ \A i \in CodeOf(s) \ Phis(s) : p < i
  BY <1>1, BlockIsInterval, CodeIsOrdered
<1>3. p \in First(s) .. Last(s) /\ First(s) \in CodeOf(s) /\ First(s) <= p
  BY <1>2
<1>4. First(s) \in Phis(s)
  <2>1. ~(p < First(s))
    BY <1>2, <1>3
  <2> QED BY <1>2, <1>3, <2>1
<1>5. Top(s) \subseteq Walk(s)[First(s)]
  BY <1>4 DEF Top, LiveAboveBlock, Walk, LiveAbove, UsedBy, Phis
<1> QED BY <1>3, <1>4, <1>5, PhisAddUp

(***************************************************************************)
(* An edge: what is live above the successor, and what its phis read, is   *)
(* live at the end of the node.                                            *)
(***************************************************************************)
LEMMA EdgeFacts ==
  ASSUME Finished, NEW n \in Nodes, NEW s \in f.succ[n]
  PROVE  /\ s \in Nodes
         /\ Top(s) \subseteq LiveOut[n]
         /\ \A p \in Phis(s) \ Deleted : f.code[p].from[n] # None => f.code[p].from[n] \in LiveOut[n]
<1>1. TypesOfAnalysis /\ IsFunction(f) /\ pc = "done" /\ Deleted = Dead /\ Settled
  BY DEF Finished, IInv, TypesOfAnalysis
<1>2. s \in Nodes
  BY <1>1 DEF IsFunction, Nodes
<1>3. Top(s) \subseteq LiveIn[s]
  <2>1. Recorded(s) /\ pc # "fatal"
    BY <1>1, <1>2 DEF Finished
  <2> QED BY <2>1 DEF Recorded
<1>4. LiveIn[s] \subseteq LiveAtEnd(n)
  BY DEF LiveAtEnd
<1>5. \A p \in Phis(s) \ Deleted : f.code[p].from[n] # None => f.code[p].from[n] \in LiveAtEnd(n)
  BY <1>1 DEF LiveAtEnd, PhiOperands
<1> QED BY <1>1, <1>2, <1>3, <1>4, <1>5 DEF Settled

(***************************************************************************)
(* The phis kept of a node.                                                *)
(***************************************************************************)
LEMMA PhiFacts ==
  ASSUME Finished, NEW s \in Nodes, NEW A, A = LiveAbove(FirstOf(Insts(s)), Walk(s)[FirstOf(Insts(s))])
  PROVE  /\ \A v \in A : v \in Top(s) \/ \E p \in Phis(s) \ Deleted : v = f.code[p].dest
         /\ \A p \in Phis(s) \ Deleted :
              /\ p \in Code /\ Number(Behind(p)) \in Nat
              /\ f.code[p].dest \in A /\ f.code[p].dest \in Variables /\ f.code[p].dest \notin Top(s)
              /\ \A v \in A : Covers(LiveRange[v], Number(Behind(p)))
              /\ \A v \in Top(s) : Covers(LiveRange[v], Number(p))
              /\ Top(s) \subseteq A
<1> DEFINE b == LastOf(Phis(s))
<1>1. /\ TypesOfAnalysis /\ IsFunction(f) /\ NodesAreConsistent /\ Deleted = Dead
      /\ Recorded(s) /\ CoveredIn(s) /\ TopCoveredIn(s)
  BY DEF Finished, IInv, TypesOfAnalysis
<1>2. /\ Phis(s) = {} => A = Top(s)
      /\ Phis(s) # {} => b \in Phis(s) /\ (\A p \in Phis(s) : p <= b) /\ A = Walk(s)[b]
  BY FirstInstFacts
<1>3. /\ CodeOf(s) = First(s) .. Last(s) /\ First(s) \in Nat \ {0} /\ Last(s) \in Nat
      /\ Phis(s) \subseteq CodeOf(s) /\ CodeOf(s) \subseteq Code
      /\ Code \subseteq Nat \ {0} /\ Code = 1 .. Len(f.code) /\ Len(f.code) \in Nat
      /\ \A p \in Phis(s), i \in CodeOf(s) \ Phis(s) : p < i
  BY <1>1, BlockIsInterval, CodeIsOrdered
<1>4. IsWalk(s, LiveOut[s], Walk(s))
  BY <1>1, WalkIsTyped
<1> HIDE DEF b
<1>5. ASSUME NEW v \in A, v \notin Top(s) PROVE \E p \in Phis(s) \ Deleted : v = f.code[p].dest
  <2>1. b \in Phis(s) /\ b \in CodeOf(s) /\ v \in Walk(s)[b]
    BY <1>2, <1>3, <1>5
  <2>2. PICK k \in CodeOf(s) : k <= b /\ v \in Begins(k, Walk(s)[k])
    BY <1>1, <1>4, <1>5, <2>1, LiveUntilBegin DEF Top, LiveAboveBlock, Walk
  <2>3. k \in Phis(s)
    <3>1. k \in Nat /\ b \in Nat /\ ~(b < k)
      BY <1>3, <2>1, <2>2
    <3> QED BY <1>3, <2>1, <2>2, <3>1
  <2>4. v = f.code[k].dest /\ v \in Walk(s)[k]
    BY <2>2 DEF Begins
  <2>5. k \notin Dead
    BY <1>1, <2>2, <2>4 DEF Recorded, IsDead
  <2> QED BY <1>1, <2>3, <2>4, <2>5
<1>6. ASSUME NEW p \in Phis(s), p \notin Deleted
      PROVE  /\ p \in Code /\ Number(Behind(p)) \in Nat
             /\ f.code[p].dest \in A /\ f.code[p].dest \in Variables /\ f.code[p].dest \notin Top(s)
             /\ \A v \in A : Covers(LiveRange[v], Number(Behind(p)))
             /\ \A v \in Top(s) : Covers(LiveRange[v], Number(p))
             /\ Top(s) \subseteq A
  <2>1. /\ p \in Code /\ p \in CodeOf(s) /\ p \notin Dead /\ p \in KeptOf(s) /\ p \in Nat
        /\ b \in Phis(s) /\ p <= b /\ A = Walk(s)[b] /\ f.code[p].node = s
    BY <1>1, <1>2, <1>3, <1>6 DEF KeptOf, CodeOf
  <2>2. IsPhi(p) /\ HasPhis(f) /\ Behind(p) = b
    BY <1>6, <2>1 DEF Phis, IsPhi, HasPhis, Behind, b, Code
  <2>3. f.code[p].dest \in Variables /\ ~f.code[p].effect /\ ~f.code[p].redefined /\ f.code[p].dest # None
    BY <1>1, <2>1, <2>2 DEF IsFunction, IsPhi, Code
  <2>4. f.code[p].dest \in Walk(s)[p]
    BY <1>1, <2>1, <2>3 DEF Recorded, IsDead
  <2>5. f.code[p].dest \in A
    BY <1>6, <2>1, <2>4, PhisAddUp
  <2>6. f.code[p].dest \notin Top(s)
    BY <1>1, <1>4, <2>1, <2>2, <2>3, DefinedIsNotAbove DEF Top, LiveAboveBlock, Walk
  <2>7. Top(s) \subseteq A
    BY <2>1, TopIsAbovePhis
  <2>8. /\ \A q \in Phis(s) : q <= b
        /\ Number(b) \in FirstInstNum(s, KeptOf(s)) .. Number(LastOf(KeptOf(s)))
    BY <1>1, <2>1, <2>2, BehindFacts
  <2>9. \A v \in A : Covers(LiveRange[v], Number(b))
    <3>1. b \in CodeOf(s)
      BY <1>3, <2>1
    <3> QED BY <1>1, <2>1, <2>8, <3>1 DEF CoveredIn
  <2>10. b \in Nat /\ Number(b) \in Nat
    BY <1>3, <2>1 DEF Number, NumberInitial
  <2>11. Number(p) \in FirstInstNum(s, KeptOf(s)) .. Number(LastOf(KeptOf(s)))
    <3>1. KeptOf(s) \in SUBSET Nat /\ KeptOf(s) \in SUBSET (1 .. Len(f.code)) /\ KeptOf(s) # {}
      BY <1>3, <2>1 DEF KeptOf
    <3>2. FirstOf(KeptOf(s)) \in KeptOf(s) /\ FirstOf(KeptOf(s)) <= p
      BY <2>1, <3>1, FirstIsFirst
    <3>3. LastOf(KeptOf(s)) \in KeptOf(s) /\ p <= LastOf(KeptOf(s))
      BY <1>3, <2>1, <3>1, LastIsLast
    <3>4. FirstOf(KeptOf(s)) \in Nat /\ LastOf(KeptOf(s)) \in Nat
      BY <3>1, <3>2, <3>3
    <3>5. Number(FirstOf(KeptOf(s))) = FirstOf(KeptOf(s)) + 1 /\ Number(p) = p + 1
          /\ Number(LastOf(KeptOf(s))) = LastOf(KeptOf(s)) + 1
      BY <2>1, <3>4 DEF Number, NumberInitial
    <3>6. FirstInstNum(s, KeptOf(s)) \in {1, FirstOf(KeptOf(s)) + 1}
      BY <3>5 DEF FirstInstNum, NumberExtended, NumberInitial
    <3> QED BY <2>1, <3>2, <3>3, <3>4, <3>5, <3>6
  <2>12. \A v \in Top(s) : Covers(LiveRange[v], Number(p))
    <3>1. Top(s) \subseteq Walk(s)[p]
      BY TopIsAbovePhis
    <3> QED BY <1>1, <2>1, <2>2, <2>11, <3>1 DEF TopCoveredIn
  <2> QED BY <2>1, <2>2, <2>3, <2>5, <2>6, <2>7, <2>9, <2>10, <2>12
<1> QED BY <1>5, <1>6

(***************************************************************************)
(* The entry, where only arguments are live.                               *)
(***************************************************************************)
LEMMA EntryFacts ==
  ASSUME Finished, Phis(1) = {}, \A v \in LiveIn[1] : IsArg(v),
         NEW A, A = LiveAbove(FirstOf(Insts(1)), Walk(1)[FirstOf(Insts(1))])
  PROVE  /\ 1 \in Nodes /\ FirstOf(Insts(1)) \in Insts(1)
         /\ A \subseteq Variables
         /\ \A v \in A : IsArg(v) /\ Covers(LiveRange[v], 1)
<1>1. TypesOfAnalysis /\ IsFunction(f) /\ pc = "done" /\ ArgsCovered
  BY DEF Finished, IInv, TypesOfAnalysis
<1>2. 1 \in Nodes
  BY <1>1 DEF IsFunction, Nodes
<1>3. A = Top(1) /\ FirstOf(Insts(1)) \in Insts(1) /\ A \subseteq Variables
  BY <1>2, FirstInstFacts
<1>4. Top(1) \subseteq LiveIn[1]
  <2>1. Recorded(1) /\ pc # "fatal"
    BY <1>1, <1>2 DEF Finished
  <2> QED BY <2>1 DEF Recorded
<1> QED BY <1>1, <1>2, <1>3, <1>4 DEF ArgsCovered
=============================================================================
