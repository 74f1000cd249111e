------------------------------ MODULE LoopProofs ------------------------------
(***************************************************************************)
(* Theorems about LoopAnalyzer and LoopInvariantCodeMotion: the types, with*)
(* the assertions of the search, the SSA form after the code motion, and   *)
(* the loop nest depth.                                                    *)
(***************************************************************************)
EXTENDS LoopInvariantCodeMotion, FiniteSetTheorems, TLAPS

(***************************************************************************)
(* The inductive invariant.  Types: what TypeOK says of each variable.     *)
(***************************************************************************)
Loop == [Header : Nodes, PreHeader : Nodes, Body : SUBSET Nodes]
TypesOfAnalysis ==
  /\ f \in Functions
  /\ pc \in {"round", "visit", "info", "done"}
  /\ Index \in [Nodes -> Nat]
  /\ LowLink \in [Nodes -> Nat]
  /\ Succ \in [Nodes -> Nat \ {0}]
  /\ Deleted \subseteq Nodes
  /\ NextIndex \in Nat \ {0}
  /\ WorkStack \in Seq(Nodes)
  /\ LoopStack \in Seq(Nodes)
  /\ NestDepth \in [Nodes -> Nat]
  /\ Loops \subseteq SUBSET Nodes
  /\ LoopInfo \in Seq(Loop)

(***************************************************************************)
(* The nodes of LoopStack are visited, in the order of their indices.      *)
(***************************************************************************)
Sorted(index, stack) ==
  /\ \A k \in DOMAIN stack : index[stack[k]] # UndefinedIndex
  /\ \A k, m \in DOMAIN stack : k < m => index[stack[k]] < index[stack[m]]

(***************************************************************************)
(* LowLink is the index of a node of LoopStack, and less than a node's own *)
(* index if the node is not in the course of a visit.  The entry has no    *)
(* edges into it, so it is the LowLink of no other node.                   *)
(***************************************************************************)
Linked(index, low, work, stack) ==
  \A k \in DOMAIN stack :
    /\ low[stack[k]] <= index[stack[k]]
    /\ stack[k] \notin ToSet(work) => low[stack[k]] < index[stack[k]]
    /\ \E j \in DOMAIN stack : index[stack[j]] = low[stack[k]] /\ (stack[k] # 1 => stack[j] # 1)

(***************************************************************************)
(* WorkStack is a path of nodes in the course of a visit; only the last    *)
(* may be new.                                                             *)
(***************************************************************************)
IsPath(index, succ, deleted, work, stack) ==
  /\ \A k, m \in DOMAIN work : k < m =>
       /\ index[work[k]] # UndefinedIndex
       /\ index[work[m]] # UndefinedIndex => index[work[k]] < index[work[m]]
  /\ \A k \in DOMAIN work :
       /\ work[k] \notin deleted
       /\ index[work[k]] # UndefinedIndex =>
            work[k] \in ToSet(stack) /\ succ[work[k]] \in DOMAIN Edges(work[k])
  /\ \A k \in DOMAIN work : k + 1 \in DOMAIN work => work[k + 1] = Edges(work[k])[succ[work[k]]]

(***************************************************************************)
(* The node that the last node of WorkStack has recursed into is on        *)
(* LoopStack, or has a larger LowLink.                                     *)
(***************************************************************************)
ChildIsDone(index, low, succ, work, stack) ==
  work # <<>> /\ index[Last(work)] # UndefinedIndex =>
    LET child == Edges(Last(work))[succ[Last(work)]]
    IN child \in ToSet(stack) \/ index[Last(work)] < low[child]

Searching ==
  /\ pc # "visit" => WorkStack = <<>> /\ LoopStack = <<>>
  /\ \A n \in Nodes : Index[n] < NextIndex
  /\ \A k \in DOMAIN LoopStack : LoopStack[k] \notin Deleted
  /\ Sorted(Index, LoopStack)
  /\ Linked(Index, LowLink, WorkStack, LoopStack)
  /\ IsPath(Index, Succ, Deleted, WorkStack, LoopStack)
  /\ ChildIsDone(Index, LowLink, Succ, WorkStack, LoopStack)

(***************************************************************************)
(* The first round begins with the entry, which stays first on both stacks *)
(* until it is deleted, and in no loop.                                    *)
(***************************************************************************)
EntryFirst ==
  pc = "visit" =>
    \/ 1 \in Deleted
    \/ WorkStack # <<>> /\ LoopStack # <<>> /\ WorkStack[1] = 1 /\ LoopStack[1] = 1
    \/ LoopStack = <<>> /\ Index[1] = UndefinedIndex /\ WorkStack \in {<<>>, <<1>>}
EntryInNoLoop == \A body \in Loops : body # {} /\ 1 \notin body

DepthIsBounded == \A n \in Nodes : NestDepth[n] <= Cardinality(Deleted)

AnalysisInv ==
  /\ TypesOfAnalysis
  /\ Searching
  /\ EntryFirst
  /\ EntryInNoLoop
  /\ DepthIsBounded

-----------------------------------------------------------------------------
(***************************************************************************)
(* Numbers and sequences.                                                  *)
(***************************************************************************)

(***************************************************************************)
(* A nonempty set of natural numbers has a smallest element: the finite    *)
(* sets 0 .. (n - 1) have a minimal one under inclusion.                   *)
(***************************************************************************)
LEMMA SmallestNumber == ASSUME NEW S \in SUBSET Nat, S # {}
                        PROVE  \E m \in S : \A k \in S : m <= k
<1> DEFINE below == {0 .. (n - 1) : n \in S}
           R == StrictSubsetOrdering(Nat)
<1>1. IsWellFoundedOn(R, FiniteSubsetsOf(Nat))
  BY FS_StrictSubsetOrderingWellFounded
<1>2. below \subseteq FiniteSubsetsOf(Nat)
  <2>1. \A n \in Nat : IsFiniteSet(0 .. (n - 1)) /\ 0 .. (n - 1) \subseteq Nat
    BY FS_Interval
  <2> QED BY <2>1 DEF FiniteSubsetsOf
<1>3. below # {}
  OBVIOUS
<1>4. \E x \in below : \A y \in below : ~ (<<y, x>> \in R)
  <2> HIDE DEF below, R
  <2> QED BY <1>1, <1>2, <1>3, WFMin
<1>5. PICK m \in S : \A y \in below : ~ (<<y, 0 .. (m - 1)>> \in R)
  BY <1>4
<1>6. ASSUME NEW k \in S, k < m PROVE FALSE
  <2>1. 0 .. (k - 1) \in below
    OBVIOUS
  <2>2. /\ 0 .. (k - 1) \subseteq 0 .. (m - 1)
        /\ 0 .. (k - 1) # 0 .. (m - 1)
    <3>1. k \in 0 .. (m - 1) /\ k \notin 0 .. (k - 1)
      BY <1>6
    <3> QED BY <3>1
  <2>3. <<0 .. (k - 1), 0 .. (m - 1)>> \in R
    BY <2>2 DEF StrictSubsetOrdering
  <2> QED BY <1>5, <2>1, <2>3
<1> QED BY <1>6

LEMMA MinFacts == ASSUME NEW S \in SUBSET Nat, S # {}
                  PROVE  Min(S) \in S /\ \A k \in S : Min(S) <= k
BY SmallestNumber DEF Min

(***************************************************************************)
(* A finite nonempty set of numbers has a largest element: one with the    *)
(* fewest elements from it upwards.                                        *)
(***************************************************************************)
LEMMA MaxFacts == ASSUME NEW S \in SUBSET Nat, S # {}, IsFiniteSet(S)
                  PROVE  Max(S) \in S /\ \A k \in S : k <= Max(S)
<1> DEFINE UpFrom(k) == {m \in S : k <= m}
           above == {UpFrom(k) : k \in S}
           R == StrictSubsetOrdering(S)
<1>1. IsWellFoundedOn(R, FiniteSubsetsOf(S))
  BY FS_StrictSubsetOrderingWellFounded
<1>2. above \subseteq FiniteSubsetsOf(S) /\ above # {}
  <2>1. \A k \in S : UpFrom(k) \subseteq S /\ IsFiniteSet(UpFrom(k))
    BY FS_Subset
  <2> QED BY <2>1 DEF FiniteSubsetsOf
<1>3. \E x \in above : \A y \in above : ~ (<<y, x>> \in R)
  <2> HIDE DEF above, R
  <2> QED BY <1>1, <1>2, WFMin
<1>4. PICK b \in S : \A y \in above : ~ (<<y, UpFrom(b)>> \in R)
  BY <1>3
<1>5. ASSUME NEW k \in S, b < k PROVE FALSE
  <2>1. /\ UpFrom(k) \in above
        /\ UpFrom(k) \in SUBSET S /\ UpFrom(b) \in SUBSET S
        /\ UpFrom(k) \subseteq UpFrom(b)
    <3>1. UpFrom(k) \in above
      OBVIOUS
    <3>2. \A m \in S : k <= m => b <= m
      BY <1>5
    <3> QED BY <3>1, <3>2
  <2>2. b \in UpFrom(b)
    OBVIOUS
  <2>3. b \notin UpFrom(k)
    BY <1>5
  <2>4. <<UpFrom(k), UpFrom(b)>> \in R
    <3> HIDE DEF UpFrom
    <3> QED BY <2>1, <2>2, <2>3 DEF StrictSubsetOrdering
  <2> QED BY <1>4, <2>1, <2>4
<1>6. \A k \in S : k <= b
  BY <1>5
<1> QED BY <1>6 DEF Max

LEMMA GraphOfF == ASSUME TypesOfAnalysis PROVE IsGraph(f)
BY GraphAssumption DEF TypesOfAnalysis

LEMMA EdgeFacts ==
  ASSUME TypesOfAnalysis, NEW n \in Nodes
  PROVE  /\ Nodes \subseteq Nat /\ 1 \in Nodes
         /\ Edges(n) \in Seq(Nodes) /\ Len(Edges(n)) \in Nat /\ DOMAIN Edges(n) = 1 .. Len(Edges(n))
         /\ \A k \in DOMAIN Edges(n) : Edges(n)[k] \in Nodes /\ Edges(n)[k] # 1
<1>1. IsGraph(f)
  BY GraphOfF
<1>2. f.nodes \in Nat \ {0} /\ Edges(n) \in Seq(2 .. f.nodes)
  BY <1>1 DEF IsGraph, Edges, Nodes
<1>3. \A k \in 1 .. Len(Edges(n)) : Edges(n)[k] \in 2 .. f.nodes
  BY <1>2
<1> QED BY <1>2, <1>3 DEF Nodes

LEMMA NodesAreFinite ==
  ASSUME TypesOfAnalysis
  PROVE  \A S \in SUBSET Nodes :
           IsFiniteSet(S) /\ Cardinality(S) \in Nat /\ Cardinality(S) <= f.nodes
<1>1. f.nodes \in Nat \ {0}
  BY GraphOfF DEF IsGraph
<1>2. IsFiniteSet(Nodes) /\ Cardinality(Nodes) = f.nodes
  <2>1. IsFiniteSet(1 .. f.nodes) /\ Cardinality(1 .. f.nodes) = f.nodes - 1 + 1
    <3> DEFINE n == f.nodes
    <3>1. n \in Int /\ ~(1 > n)
      BY <1>1
    <3> HIDE DEF n
    <3>2. IsFiniteSet(1 .. n) /\ Cardinality(1 .. n) = n - 1 + 1
      BY <3>1, FS_Interval
    <3> QED BY <3>2 DEF n
  <2> QED BY <1>1, <2>1 DEF Nodes
<1>3. ASSUME NEW S \in SUBSET Nodes
      PROVE  IsFiniteSet(S) /\ Cardinality(S) \in Nat /\ Cardinality(S) <= f.nodes
  <2>1. IsFiniteSet(S) /\ Cardinality(S) <= f.nodes
    BY <1>2, FS_Subset
  <2> QED BY <2>1, FS_CardinalityType
<1> QED BY <1>3

(***************************************************************************)
(* The first place of an element of a sequence.                            *)
(***************************************************************************)
LEMMA FirstPlace ==
  ASSUME NEW S, NEW s \in Seq(S), NEW k \in DOMAIN s
  PROVE  /\ SelectInSeq(s, LAMBDA m : m = s[k]) \in DOMAIN s
         /\ s[SelectInSeq(s, LAMBDA m : m = s[k])] = s[k]
<1> DEFINE I == {i \in 1 .. Len(s) : s[i] = s[k]}
<1>1. I \in SUBSET Nat /\ I # {} /\ \A i \in I : i \in DOMAIN s /\ s[i] = s[k]
  OBVIOUS
<1>2. Min(I) \in I
  <2> HIDE DEF I
  <2> QED BY <1>1, MinFacts
<1>3. SelectInSeq(s, LAMBDA m : m = s[k]) = Min(I)
  BY <1>1 DEF SelectInSeq
<1> HIDE DEF I
<1> QED BY <1>1, <1>2, <1>3

-----------------------------------------------------------------------------
(***************************************************************************)
(* What processNode() finds.                                               *)
(***************************************************************************)
Node == Last(WorkStack)
IsNew == Index[Node] = UndefinedIndex
From == IF IsNew THEN 1 ELSE Succ[Node] + 1
To == FirstUnvisited(Node, From)
NewIndex == IF IsNew THEN NextIndex ELSE Index[Node]
NewLinks == Links(Node, From, To) \cup
              IF IsNew THEN {NewIndex} ELSE {LowLink[Node], LowLink[Edges(Node)[Succ[Node]]]}
NewLow == Min(NewLinks)
NewStack == IF IsNew THEN Append(LoopStack, Node) ELSE LoopStack

LEMMA ProcessNodeParts ==
  ASSUME ProcessNode
  PROVE  /\ pc = "visit" /\ WorkStack # <<>>
         /\ Index' = [Index EXCEPT ![Node] = NewIndex]
         /\ LowLink' = [LowLink EXCEPT ![Node] = NewLow]
         /\ Succ' = [Succ EXCEPT ![Node] = To]
         /\ NextIndex' = IF IsNew THEN NextIndex + 1 ELSE NextIndex
         /\ \/ Recurse(Node, To, NewStack)
            \/ To > Len(Edges(Node)) /\ NewLow # NewIndex /\ ReturnLinked(Node, NewStack)
            \/ To > Len(Edges(Node)) /\ NewLow = NewIndex /\ FoundLoop(Node, NewStack)
         /\ UNCHANGED <<f, pc, LoopInfo>>
BY DEF ProcessNode, Node, IsNew, From, To, NewIndex, NewLinks, NewLow, NewStack

(***************************************************************************)
(* The node is not deleted, and is on LoopStack unless it is new.          *)
(***************************************************************************)
LEMMA NodeFacts ==
  ASSUME AnalysisInv, WorkStack # <<>>
  PROVE  /\ Len(WorkStack) \in DOMAIN WorkStack /\ Len(WorkStack) \in Nat
         /\ DOMAIN WorkStack = 1 .. Len(WorkStack)
         /\ Node = WorkStack[Len(WorkStack)]
         /\ Node \in Nodes
         /\ Node \notin Deleted
         /\ ~IsNew => /\ \E k \in DOMAIN LoopStack : LoopStack[k] = Node
                      /\ Succ[Node] \in DOMAIN Edges(Node)
         /\ IsNew => \A k \in DOMAIN LoopStack : LoopStack[k] # Node
         /\ NewIndex \in Nat \ {0}
<1>1. WorkStack \in Seq(Nodes) /\ NextIndex \in Nat \ {0} /\ Index \in [Nodes -> Nat]
  BY DEF AnalysisInv, TypesOfAnalysis
<1>2. /\ Len(WorkStack) \in DOMAIN WorkStack /\ Len(WorkStack) \in Nat
      /\ DOMAIN WorkStack = 1 .. Len(WorkStack)
      /\ WorkStack[Len(WorkStack)] \in Nodes
  BY <1>1
<1>3. Node = WorkStack[Len(WorkStack)]
  BY DEF Node, Last
<1>4. IsPath(Index, Succ, Deleted, WorkStack, LoopStack) /\ Sorted(Index, LoopStack)
  BY DEF AnalysisInv, Searching
<1>5. Node \notin Deleted /\ (~IsNew => Node \in ToSet(LoopStack) /\ Succ[Node] \in DOMAIN Edges(Node))
  BY <1>2, <1>3, <1>4 DEF IsPath, IsNew
<1>6. IsNew => \A k \in DOMAIN LoopStack : LoopStack[k] # Node
  BY <1>4 DEF Sorted, IsNew
<1>7. NewIndex \in Nat \ {0}
  BY <1>1, <1>2, <1>3 DEF NewIndex, IsNew, UndefinedIndex
<1> QED BY <1>2, <1>3, <1>5, <1>6, <1>7 DEF ToSet

(***************************************************************************)
(* The edges looked at are those up to the first node not visited.         *)
(***************************************************************************)
LEMMA ToFacts ==
  ASSUME AnalysisInv, WorkStack # <<>>
  PROVE  /\ From \in Nat \ {0} /\ To \in Nat \ {0} /\ To <= Len(Edges(Node)) + 1
         /\ To <= Len(Edges(Node)) =>
              /\ To \in DOMAIN Edges(Node)
              /\ Edges(Node)[To] \in Nodes
              /\ Edges(Node)[To] # Node
              /\ Edges(Node)[To] \notin Deleted
              /\ Index[Edges(Node)[To]] = UndefinedIndex
<1>1. Node \in Nodes /\ (~IsNew => Succ[Node] \in Nat \ {0})
  BY NodeFacts DEF AnalysisInv, TypesOfAnalysis
<1>2. /\ Len(Edges(Node)) \in Nat /\ DOMAIN Edges(Node) = 1 .. Len(Edges(Node))
      /\ \A k \in DOMAIN Edges(Node) : Edges(Node)[k] \in Nodes
  BY <1>1, EdgeFacts DEF AnalysisInv
<1>3. From \in Nat \ {0}
  BY <1>1 DEF From
<1> DEFINE S == {k \in From .. Len(Edges(Node)) : Edges(Node)[k] \in Unvisited \ {Node}}
                  \cup {Len(Edges(Node)) + 1}
<1>4. S \in SUBSET Nat /\ S # {}
  BY <1>2, <1>3
<1>5. \A k \in S : k \in Nat \ {0} /\ (k <= Len(Edges(Node)) =>
                     k \in DOMAIN Edges(Node) /\ Edges(Node)[k] \in Unvisited \ {Node})
  BY <1>2, <1>3
<1>6. To = Min(S)
  BY DEF To, FirstUnvisited
<1> HIDE DEF S
<1>7. To \in S /\ \A k \in S : To <= k
  BY <1>4, <1>6, MinFacts
<1>8. Len(Edges(Node)) + 1 \in S
  BY DEF S
<1> QED BY <1>2, <1>3, <1>5, <1>7, <1>8 DEF Unvisited

(***************************************************************************)
(* LoopStack with the node on it is sorted by the new indices.             *)
(***************************************************************************)
LEMMA StackFacts ==
  ASSUME AnalysisInv, ProcessNode
  PROVE  /\ NewStack \in Seq(Nodes) /\ Len(NewStack) \in Nat /\ DOMAIN NewStack = 1 .. Len(NewStack)
         /\ Sorted(Index', NewStack)
         /\ \A k \in DOMAIN LoopStack : k \in DOMAIN NewStack /\ NewStack[k] = LoopStack[k]
         /\ \E k \in DOMAIN NewStack : NewStack[k] = Node
         /\ \A k \in DOMAIN NewStack : NewStack[k] = Node \/ k \in DOMAIN LoopStack
         /\ Index' \in [Nodes -> Nat]
         /\ Index'[Node] = NewIndex
         /\ \A n \in Nodes \ {Node} : Index'[n] = Index[n]
<1>1. /\ WorkStack # <<>>
      /\ Index' = [Index EXCEPT ![Node] = NewIndex]
  BY ProcessNodeParts
<1>2. /\ LoopStack \in Seq(Nodes) /\ Index \in [Nodes -> Nat] /\ Node \in Nodes /\ NewIndex \in Nat \ {0}
      /\ \A n \in Nodes : Index[n] < NextIndex
      /\ Sorted(Index, LoopStack)
      /\ NextIndex \in Nat
  BY <1>1, NodeFacts DEF AnalysisInv, TypesOfAnalysis, Searching
<1>3. /\ Index' \in [Nodes -> Nat]
      /\ Index'[Node] = NewIndex
      /\ \A n \in Nodes \ {Node} : Index'[n] = Index[n]
  BY <1>1, <1>2
<1>4. CASE ~IsNew
  <2>1. NewStack = LoopStack /\ \A n \in Nodes : Index'[n] = Index[n]
    BY <1>3, <1>4 DEF NewStack, NewIndex
  <2>2. \E k \in DOMAIN LoopStack : LoopStack[k] = Node
    BY <1>1, <1>4, NodeFacts
  <2>3. \A k \in DOMAIN LoopStack : LoopStack[k] \in Nodes
    BY <1>2
  <2>4. Sorted(Index', NewStack)
    BY <1>2, <2>1, <2>3 DEF Sorted
  <2> QED BY <1>2, <1>3, <2>1, <2>2, <2>4
<1>5. CASE IsNew
  <2>1. NewStack = Append(LoopStack, Node) /\ NewIndex = NextIndex
    BY <1>5 DEF NewStack, NewIndex
  <2>2. /\ NewStack \in Seq(Nodes) /\ Len(NewStack) = Len(LoopStack) + 1
        /\ DOMAIN NewStack = 1 .. Len(NewStack) /\ DOMAIN LoopStack = 1 .. Len(LoopStack)
        /\ Len(LoopStack) \in Nat
        /\ NewStack[Len(NewStack)] = Node
        /\ \A k \in DOMAIN LoopStack : k \in DOMAIN NewStack /\ NewStack[k] = LoopStack[k]
    BY <1>2, <2>1
  <2>3. \A k \in DOMAIN LoopStack : LoopStack[k] # Node /\ LoopStack[k] \in Nodes
    BY <1>1, <1>2, <1>5, NodeFacts
  <2>4. \A k \in DOMAIN LoopStack : Index'[NewStack[k]] = Index[LoopStack[k]] /\ Index[LoopStack[k]] < NewIndex
    BY <1>2, <1>3, <2>1, <2>2, <2>3
  <2>5. \A k \in DOMAIN NewStack : k = Len(NewStack) \/ k \in DOMAIN LoopStack
    BY <2>2
  <2>6. Index'[NewStack[Len(NewStack)]] = NewIndex
    BY <1>3, <2>2
  <2>7. \A k \in DOMAIN NewStack : Index'[NewStack[k]] # UndefinedIndex
    BY <1>2, <2>4, <2>5, <2>6 DEF Sorted, UndefinedIndex
  <2>8. ASSUME NEW k \in DOMAIN NewStack, NEW m \in DOMAIN NewStack, k < m
        PROVE  Index'[NewStack[k]] < Index'[NewStack[m]]
    <3>1. k \in DOMAIN LoopStack
      BY <2>2, <2>8
    <3>2. CASE m = Len(NewStack)
      BY <2>4, <2>6, <3>1, <3>2
    <3>3. CASE m \in DOMAIN LoopStack
      BY <1>2, <2>4, <2>8, <3>1, <3>3 DEF Sorted
    <3> QED BY <2>5, <3>2, <3>3
  <2>9. Sorted(Index', NewStack)
    BY <2>7, <2>8 DEF Sorted
  <2> QED BY <1>3, <2>2, <2>5, <2>9
<1> QED BY <1>4, <1>5

(***************************************************************************)
(* The new LowLink is the index of a node of the stack.                    *)
(***************************************************************************)
LEMMA LowFacts ==
  ASSUME AnalysisInv, ProcessNode
  PROVE  /\ NewLow \in Nat /\ NewLow <= NewIndex
         /\ \E j \in DOMAIN NewStack : Index'[NewStack[j]] = NewLow /\ (Node # 1 => NewStack[j] # 1)
<1>1. WorkStack # <<>>
  BY ProcessNodeParts
<1>2. /\ Node \in Nodes /\ NewIndex \in Nat
      /\ Index \in [Nodes -> Nat] /\ LowLink \in [Nodes -> Nat] /\ LoopStack \in Seq(Nodes)
      /\ ~IsNew => Succ[Node] \in DOMAIN Edges(Node)
  BY <1>1, NodeFacts DEF AnalysisInv, TypesOfAnalysis
<1>3. /\ Len(Edges(Node)) \in Nat /\ DOMAIN Edges(Node) = 1 .. Len(Edges(Node))
      /\ \A k \in DOMAIN Edges(Node) : Edges(Node)[k] \in Nodes /\ Edges(Node)[k] # 1
  BY <1>2, EdgeFacts DEF AnalysisInv
<1>4. From \in Nat \ {0} /\ To \in Nat \ {0} /\ To <= Len(Edges(Node)) + 1
  BY <1>1, ToFacts
<1>5. /\ \A k \in DOMAIN LoopStack :
           LoopStack[k] \in Nodes /\ k \in DOMAIN NewStack /\ NewStack[k] = LoopStack[k]
      /\ \A n \in Nodes \ {Node} : Index'[n] = Index[n]
      /\ Index'[Node] = NewIndex
      /\ \E k \in DOMAIN NewStack : NewStack[k] = Node
  BY <1>2, StackFacts
<1>6. ASSUME NEW x \in Links(Node, From, To)
      PROVE  x \in Nat /\ \E j \in DOMAIN NewStack : Index'[NewStack[j]] = x /\ NewStack[j] # 1
  <2>1. PICK k \in From .. (To - 1) :
          Edges(Node)[k] \in ToSet(LoopStack) \ {Node} /\ x = Index[Edges(Node)[k]]
    BY DEF Links
  <2>2. k \in DOMAIN Edges(Node)
    BY <1>3, <1>4
  <2>3. PICK j \in DOMAIN LoopStack : Edges(Node)[k] = LoopStack[j] /\ LoopStack[j] # Node
    BY <2>1 DEF ToSet
  <2>4. Index'[NewStack[j]] = x /\ NewStack[j] # 1
    BY <1>3, <1>5, <2>1, <2>2, <2>3
  <2> QED BY <1>2, <1>5, <2>1, <2>3, <2>4
<1>7. ASSUME IsNew
      PROVE  /\ NewLow \in Nat /\ NewLow <= NewIndex
             /\ NewLow \in Links(Node, From, To) \/ NewLow = NewIndex
  <2>1. NewLinks = Links(Node, From, To) \cup {NewIndex}
    BY <1>7 DEF NewLinks
  <2>2. NewLinks \in SUBSET Nat /\ NewLinks # {}
    BY <1>2, <1>6, <2>1
  <2>3. NewLow \in NewLinks /\ \A x \in NewLinks : NewLow <= x
    BY <2>2, MinFacts DEF NewLow
  <2> QED BY <2>1, <2>2, <2>3
<1>8. ASSUME ~IsNew, NEW child, child = Edges(Node)[Succ[Node]]
      PROVE  /\ NewLow \in Nat /\ NewLow <= NewIndex /\ NewLow <= LowLink[Node] /\ NewIndex = Index[Node]
             /\ NewLow \in Links(Node, From, To) \/ NewLow = LowLink[Node] \/ NewLow = LowLink[child]
             /\ LowLink[Node] <= Index[Node]
             /\ \E j \in DOMAIN LoopStack : Index[LoopStack[j]] = LowLink[Node] /\ (Node # 1 => LoopStack[j] # 1)
  <2>1. NewLinks = Links(Node, From, To) \cup {LowLink[Node], LowLink[child]}
    BY <1>8 DEF NewLinks
  <2>2. child \in Nodes
    BY <1>2, <1>3, <1>8
  <2>3. NewLinks \in SUBSET Nat /\ NewLinks # {}
    BY <1>2, <1>6, <2>1, <2>2
  <2>4. NewLow \in NewLinks /\ \A x \in NewLinks : NewLow <= x
    BY <2>3, MinFacts DEF NewLow
  <2>5. PICK k \in DOMAIN LoopStack : LoopStack[k] = Node
    BY <1>1, <1>8, NodeFacts
  <2>6. /\ LowLink[Node] <= Index[Node]
        /\ \E j \in DOMAIN LoopStack : Index[LoopStack[j]] = LowLink[Node] /\ (Node # 1 => LoopStack[j] # 1)
    BY <2>5 DEF AnalysisInv, Searching, Linked
  <2>7. NewIndex = Index[Node]
    BY <1>8 DEF NewIndex
  <2>8. NewLow <= LowLink[Node] /\ NewLow \in Nat
    BY <2>1, <2>3, <2>4
  <2>9. NewLow <= Index[Node]
    BY <1>2, <2>6, <2>8
  <2> QED BY <2>1, <2>4, <2>6, <2>7, <2>8, <2>9
<1>9. CASE IsNew
  BY <1>5, <1>6, <1>7, <1>9
<1>10. CASE ~IsNew
  <2> DEFINE child == Edges(Node)[Succ[Node]]
  <2>1. child \in Nodes /\ child # 1
    BY <1>2, <1>3, <1>10
  <2>2. \A n \in Nodes : Index'[n] = Index[n]
    BY <1>5, <1>10 DEF NewIndex
  <2>3. child \in ToSet(LoopStack) \/ Index[Node] < LowLink[child]
    BY <1>1, <1>10 DEF AnalysisInv, Searching, ChildIsDone, Node, IsNew
  <2> HIDE DEF child
  <2>4. /\ NewLow \in Nat /\ NewLow <= NewIndex /\ NewLow <= LowLink[Node] /\ NewIndex = Index[Node]
        /\ NewLow \in Links(Node, From, To) \/ NewLow = LowLink[Node] \/ NewLow = LowLink[child]
        /\ LowLink[Node] <= Index[Node]
        /\ \E j \in DOMAIN LoopStack : Index[LoopStack[j]] = LowLink[Node] /\ (Node # 1 => LoopStack[j] # 1)
    BY <1>8, <1>10 DEF child
  <2>5. CASE NewLow = LowLink[child] /\ child \in ToSet(LoopStack)
    <3>1. PICK k \in DOMAIN LoopStack : LoopStack[k] = child
      BY <2>5 DEF ToSet
    <3>2. \E j \in DOMAIN LoopStack : Index[LoopStack[j]] = LowLink[child] /\ LoopStack[j] # 1
      BY <2>1, <3>1 DEF AnalysisInv, Searching, Linked
    <3> QED BY <1>5, <2>2, <2>4, <2>5, <3>2
  <2>6. ~(NewLow = LowLink[child] /\ Index[Node] < LowLink[child])
    <3>1. Index[Node] \in Nat /\ LowLink[Node] \in Nat /\ LowLink[child] \in Nat
      BY <1>2, <2>1
    <3> QED BY <2>4, <3>1
  <2>7. CASE NewLow = LowLink[Node]
    BY <1>5, <2>2, <2>4, <2>7
  <2>8. CASE NewLow \in Links(Node, From, To)
    BY <1>6, <2>4, <2>8
  <2> QED BY <2>3, <2>4, <2>5, <2>6, <2>7, <2>8
<1> QED BY <1>9, <1>10

(***************************************************************************)
(* Before the node leaves WorkStack, what LoopStack has is linked.         *)
(***************************************************************************)
LEMMA LinkFacts ==
  ASSUME AnalysisInv, ProcessNode
  PROVE  /\ Linked(Index', LowLink', WorkStack, NewStack)
         /\ LowLink' \in [Nodes -> Nat]
         /\ LowLink'[Node] = NewLow
         /\ \A n \in Nodes \ {Node} : LowLink'[n] = LowLink[n]
<1>1. WorkStack # <<>> /\ LowLink' = [LowLink EXCEPT ![Node] = NewLow]
  BY ProcessNodeParts
<1>2. Node \in Nodes /\ LowLink \in [Nodes -> Nat]
  BY <1>1, NodeFacts DEF AnalysisInv, TypesOfAnalysis
<1>3. NewLow \in Nat /\ NewLow <= NewIndex
      /\ \E j \in DOMAIN NewStack : Index'[NewStack[j]] = NewLow /\ (Node # 1 => NewStack[j] # 1)
  BY LowFacts
<1>4. /\ LowLink' \in [Nodes -> Nat]
      /\ LowLink'[Node] = NewLow
      /\ \A n \in Nodes \ {Node} : LowLink'[n] = LowLink[n]
  BY <1>1, <1>2, <1>3
<1>5. /\ \A k \in DOMAIN LoopStack : k \in DOMAIN NewStack /\ NewStack[k] = LoopStack[k]
      /\ \A k \in DOMAIN NewStack : NewStack[k] = Node \/ k \in DOMAIN LoopStack
      /\ Index'[Node] = NewIndex
      /\ \A n \in Nodes \ {Node} : Index'[n] = Index[n]
      /\ \A k \in DOMAIN NewStack : NewStack[k] \in Nodes
  BY StackFacts
<1>6. ASSUME NEW k \in DOMAIN NewStack
      PROVE  /\ LowLink'[NewStack[k]] <= Index'[NewStack[k]]
             /\ NewStack[k] \notin ToSet(WorkStack) => LowLink'[NewStack[k]] < Index'[NewStack[k]]
             /\ \E j \in DOMAIN NewStack :
                  Index'[NewStack[j]] = LowLink'[NewStack[k]] /\ (NewStack[k] # 1 => NewStack[j] # 1)
  <2>1. Node \in ToSet(WorkStack)
    BY <1>1, NodeFacts DEF ToSet
  <2>2. CASE NewStack[k] = Node
    BY <1>3, <1>4, <1>5, <2>1, <2>2
  <2>3. CASE NewStack[k] # Node
    <3>1. k \in DOMAIN LoopStack /\ NewStack[k] = LoopStack[k] /\ LoopStack[k] \in Nodes \ {Node}
      BY <1>5, <2>3
    <3>2. /\ LowLink[LoopStack[k]] <= Index[LoopStack[k]]
          /\ LoopStack[k] \notin ToSet(WorkStack) => LowLink[LoopStack[k]] < Index[LoopStack[k]]
      BY <3>1 DEF AnalysisInv, Searching, Linked
    <3>3. PICK j \in DOMAIN LoopStack :
            Index[LoopStack[j]] = LowLink[LoopStack[k]] /\ (LoopStack[k] # 1 => LoopStack[j] # 1)
      BY <3>1 DEF AnalysisInv, Searching, Linked
    <3>4. Index'[LoopStack[j]] = Index[LoopStack[j]]
      <4>1. CASE IsNew
        <5>1. LoopStack[j] # Node
          BY <1>1, <4>1, NodeFacts
        <5> QED BY <1>5, <5>1
      <4>2. CASE ~IsNew
        BY <1>5, <4>2 DEF NewIndex
      <4> QED BY <4>1, <4>2
    <3> QED BY <1>4, <1>5, <3>1, <3>2, <3>3, <3>4
  <2> QED BY <2>2, <2>3
<1> QED BY <1>4, <1>6 DEF Linked

(***************************************************************************)
(* WorkStack is a path by the new indices; the edge taken last from its    *)
(* last node is To.                                                        *)
(***************************************************************************)
LEMMA PathFacts ==
  ASSUME AnalysisInv, ProcessNode
  PROVE  /\ Succ' \in [Nodes -> Nat \ {0}] /\ Succ'[Node] = To
         /\ \A n \in Nodes : Index'[n] < NextIndex'
         /\ NextIndex' \in Nat \ {0}
         /\ \A k \in DOMAIN WorkStack :
              /\ WorkStack[k] \in Nodes \ Deleted
              /\ WorkStack[k] \in ToSet(NewStack)
              /\ Index'[WorkStack[k]] # UndefinedIndex
              /\ k < Len(WorkStack) =>
                   /\ Index'[WorkStack[k]] < NewIndex
                   /\ Succ'[WorkStack[k]] \in DOMAIN Edges(WorkStack[k])
                   /\ WorkStack[k + 1] = Edges(WorkStack[k])[Succ'[WorkStack[k]]]
         /\ \A k, m \in DOMAIN WorkStack : k < m => Index'[WorkStack[k]] < Index'[WorkStack[m]]
<1>1. /\ WorkStack # <<>>
      /\ Succ' = [Succ EXCEPT ![Node] = To]
      /\ NextIndex' = IF IsNew THEN NextIndex + 1 ELSE NextIndex
  BY ProcessNodeParts
<1>2. /\ Len(WorkStack) \in DOMAIN WorkStack /\ Len(WorkStack) \in Nat
      /\ DOMAIN WorkStack = 1 .. Len(WorkStack)
      /\ Node = WorkStack[Len(WorkStack)]
      /\ Node \in Nodes /\ Node \notin Deleted
      /\ NewIndex \in Nat \ {0}
  BY <1>1, NodeFacts
<1>3. /\ WorkStack \in Seq(Nodes) /\ NextIndex \in Nat \ {0} /\ Index \in [Nodes -> Nat]
      /\ Succ \in [Nodes -> Nat \ {0}]
      /\ \A n \in Nodes : Index[n] < NextIndex
      /\ IsPath(Index, Succ, Deleted, WorkStack, LoopStack)
  BY DEF AnalysisInv, TypesOfAnalysis, Searching
<1>4. To \in Nat \ {0}
  BY <1>1, ToFacts
<1>5. /\ Succ' \in [Nodes -> Nat \ {0}] /\ Succ'[Node] = To
      /\ \A n \in Nodes \ {Node} : Succ'[n] = Succ[n]
  BY <1>1, <1>2, <1>3, <1>4
<1>6. /\ Index' \in [Nodes -> Nat] /\ Index'[Node] = NewIndex
      /\ \A n \in Nodes \ {Node} : Index'[n] = Index[n]
      /\ \A k \in DOMAIN LoopStack : k \in DOMAIN NewStack /\ NewStack[k] = LoopStack[k]
      /\ \E k \in DOMAIN NewStack : NewStack[k] = Node
  BY StackFacts
<1>7. NextIndex' \in Nat \ {0} /\ \A n \in Nodes : Index'[n] < NextIndex'
  <2>1. CASE IsNew
    <3>1. NextIndex' = NextIndex + 1 /\ NewIndex = NextIndex
      BY <1>1, <2>1 DEF NewIndex
    <3>2. ASSUME NEW n \in Nodes PROVE Index'[n] < NextIndex'
      <4>1. CASE n = Node
        BY <1>3, <1>6, <3>1, <4>1
      <4>2. CASE n # Node
        BY <1>3, <1>6, <3>1, <4>2
      <4> QED BY <4>1, <4>2
    <3> QED BY <1>3, <3>1, <3>2
  <2>2. CASE ~IsNew
    <3>1. NextIndex' = NextIndex /\ NewIndex = Index[Node]
      BY <1>1, <2>2 DEF NewIndex
    <3> QED BY <1>2, <1>3, <1>6, <3>1
  <2> QED BY <2>1, <2>2
<1>8. ASSUME NEW k \in DOMAIN WorkStack, k < Len(WorkStack)
      PROVE  /\ WorkStack[k] # Node
             /\ WorkStack[k] \in Nodes
             /\ Index[WorkStack[k]] # UndefinedIndex
             /\ Index[WorkStack[k]] < NewIndex
  <2>1. WorkStack[k] \in Nodes
    BY <1>3
  <2>2. /\ Index[WorkStack[k]] # UndefinedIndex
        /\ Index[Node] # UndefinedIndex => Index[WorkStack[k]] < Index[Node]
    BY <1>2, <1>3, <1>8 DEF IsPath
  <2>3. Index[WorkStack[k]] < NewIndex
    BY <1>2, <1>3, <2>1, <2>2 DEF NewIndex, IsNew
  <2>4. WorkStack[k] # Node
    <3>1. Index[Node] \in Nat
      BY <1>2, <1>3
    <3> QED BY <2>2, <3>1
  <2> QED BY <2>1, <2>2, <2>3, <2>4
<1>9. ASSUME NEW k \in DOMAIN WorkStack
      PROVE  /\ WorkStack[k] \in Nodes \ Deleted
             /\ WorkStack[k] \in ToSet(NewStack)
             /\ Index'[WorkStack[k]] # UndefinedIndex
             /\ k < Len(WorkStack) =>
                  /\ Index'[WorkStack[k]] < NewIndex
                  /\ Succ'[WorkStack[k]] \in DOMAIN Edges(WorkStack[k])
                  /\ WorkStack[k + 1] = Edges(WorkStack[k])[Succ'[WorkStack[k]]]
  <2>1. CASE k = Len(WorkStack)
    <3>1. Node \in ToSet(NewStack)
      BY <1>6 DEF ToSet
    <3> QED BY <1>2, <1>6, <2>1, <3>1 DEF UndefinedIndex
  <2>2. CASE k # Len(WorkStack)
    <3>1. k < Len(WorkStack) /\ k + 1 \in DOMAIN WorkStack
      BY <1>2, <2>2
    <3>2. /\ WorkStack[k] \in Nodes \ {Node}
          /\ Index[WorkStack[k]] # UndefinedIndex
          /\ Index[WorkStack[k]] < NewIndex
      BY <1>8, <3>1
    <3>3. /\ WorkStack[k] \notin Deleted
          /\ WorkStack[k] \in ToSet(LoopStack)
          /\ Succ[WorkStack[k]] \in DOMAIN Edges(WorkStack[k])
          /\ WorkStack[k + 1] = Edges(WorkStack[k])[Succ[WorkStack[k]]]
      BY <1>3, <3>1, <3>2 DEF IsPath
    <3>4. WorkStack[k] \in ToSet(NewStack)
      BY <1>6, <3>3 DEF ToSet
    <3> QED BY <1>5, <1>6, <3>2, <3>3, <3>4
  <2> QED BY <2>1, <2>2
<1>10. ASSUME NEW k \in DOMAIN WorkStack, NEW m \in DOMAIN WorkStack, k < m
       PROVE  Index'[WorkStack[k]] < Index'[WorkStack[m]]
  <2>1. k < Len(WorkStack)
    BY <1>2, <1>10
  <2>2. CASE m = Len(WorkStack)
    BY <1>2, <1>6, <1>9, <2>1, <2>2
  <2>3. CASE m < Len(WorkStack)
    <3>1. Index[WorkStack[k]] < Index[WorkStack[m]]
      BY <1>3, <1>8, <1>10, <2>1, <2>3 DEF IsPath
    <3> QED BY <1>6, <1>8, <2>1, <2>3, <3>1
  <2> QED BY <1>2, <2>2, <2>3
<1> QED BY <1>5, <1>7, <1>9, <1>10

(***************************************************************************)
(* The entry is first on both stacks, unless it is deleted; and it is      *)
(* never linked to another.                                                *)
(***************************************************************************)
LEMMA EntryFacts ==
  ASSUME AnalysisInv, ProcessNode
  PROVE  /\ 1 \in Deleted \/ (WorkStack[1] = 1 /\ 1 \in DOMAIN NewStack /\ NewStack[1] = 1)
         /\ 1 \in Deleted => \A k \in DOMAIN NewStack : NewStack[k] # 1
         /\ Node = 1 => NewLow = NewIndex /\ Len(WorkStack) = 1
<1>1. WorkStack # <<>> /\ pc = "visit"
  BY ProcessNodeParts
<1>2. /\ WorkStack \in Seq(Nodes) /\ LoopStack \in Seq(Nodes)
      /\ \A k \in DOMAIN LoopStack : LoopStack[k] \notin Deleted
      /\ EntryFirst
  BY DEF AnalysisInv, TypesOfAnalysis, Searching
<1>3. /\ Len(WorkStack) \in DOMAIN WorkStack /\ Len(WorkStack) \in Nat
      /\ DOMAIN WorkStack = 1 .. Len(WorkStack)
      /\ Node = WorkStack[Len(WorkStack)]
      /\ Node \in Nodes /\ Node \notin Deleted
  BY <1>1, NodeFacts
<1>4. /\ NewStack \in Seq(Nodes) /\ DOMAIN NewStack = 1 .. Len(NewStack) /\ Len(NewStack) \in Nat
      /\ Sorted(Index', NewStack)
      /\ \A k \in DOMAIN LoopStack : k \in DOMAIN NewStack /\ NewStack[k] = LoopStack[k]
      /\ \A k \in DOMAIN NewStack : NewStack[k] = Node \/ k \in DOMAIN LoopStack
      /\ Index' \in [Nodes -> Nat]
      /\ Index'[Node] = NewIndex
  BY StackFacts
<1>5. 1 \in Deleted \/ (WorkStack[1] = 1 /\ 1 \in DOMAIN NewStack /\ NewStack[1] = 1)
  <2>1. CASE 1 \in Deleted
    BY <2>1
  <2>2. CASE LoopStack # <<>> /\ WorkStack[1] = 1 /\ LoopStack[1] = 1
    <3>1. 1 \in DOMAIN LoopStack
      BY <1>2, <2>2
    <3> QED BY <1>4, <2>2, <3>1
  <2>3. CASE LoopStack = <<>> /\ Index[1] = UndefinedIndex /\ WorkStack = <<1>>
    <3>1. Node = 1 /\ IsNew
      BY <1>3, <2>3 DEF IsNew
    <3>2. NewStack = <<1>>
      BY <2>3, <3>1 DEF NewStack
    <3> QED BY <2>3, <3>2
  <2> QED BY <1>1, <1>2, <2>1, <2>2, <2>3 DEF EntryFirst
<1>6. ASSUME 1 \in Deleted, NEW k \in DOMAIN NewStack PROVE NewStack[k] # 1
  BY <1>2, <1>3, <1>4, <1>6
<1>7. ASSUME Node = 1 PROVE NewLow = NewIndex /\ Len(WorkStack) = 1
  <2>1. WorkStack[1] = 1 /\ 1 \in DOMAIN NewStack /\ NewStack[1] = 1
    BY <1>3, <1>5, <1>7
  <2>2. Len(WorkStack) = 1
    <3>1. SUFFICES ASSUME 1 < Len(WorkStack) PROVE FALSE
      BY <1>3
    <3>2. 1 \in DOMAIN WorkStack /\ Index'[WorkStack[1]] < Index'[WorkStack[Len(WorkStack)]]
      BY <1>3, <3>1, PathFacts
    <3>3. Index'[1] \in Nat
      BY <1>3, <1>4, <1>7
    <3> QED BY <1>3, <1>7, <2>1, <3>2, <3>3
  <2>3. PICK j \in DOMAIN NewStack : Index'[NewStack[j]] = NewLow
    BY LowFacts
  <2>4. NewLow \in Nat /\ NewLow <= NewIndex /\ NewIndex \in Nat
    BY <1>1, LowFacts, NodeFacts
  <2>5. j = 1 \/ Index'[NewStack[1]] < Index'[NewStack[j]]
    BY <1>4, <2>1 DEF Sorted
  <2> QED BY <1>4, <1>7, <2>1, <2>2, <2>3, <2>4, <2>5
<1> QED BY <1>5, <1>6, <1>7

(***************************************************************************)
(* The component of the node is LoopStack from the node upwards.           *)
(***************************************************************************)
LEMMA ComponentFacts ==
  ASSUME AnalysisInv, ProcessNode
  PROVE  \E p \in DOMAIN NewStack :
           /\ NewStack[p] = Node
           /\ \A k \in DOMAIN NewStack : NewStack[k] = Node => k = p
           /\ Component(Node, NewStack) = {NewStack[k] : k \in p .. Len(NewStack)}
           /\ Cardinality(Component(Node, NewStack)) = Len(NewStack) - p + 1
<1>1. /\ NewStack \in Seq(Nodes) /\ DOMAIN NewStack = 1 .. Len(NewStack) /\ Len(NewStack) \in Nat
      /\ Sorted(Index', NewStack)
      /\ \E k \in DOMAIN NewStack : NewStack[k] = Node
      /\ Index' \in [Nodes -> Nat]
      /\ \A k \in DOMAIN NewStack : NewStack[k] \in Nodes
  BY StackFacts
<1>2. PICK p \in DOMAIN NewStack : NewStack[p] = Node
  BY <1>1
<1>3. ASSUME NEW k \in DOMAIN NewStack, NEW m \in DOMAIN NewStack, k # m
      PROVE  NewStack[k] # NewStack[m]
  <2>1. Index'[NewStack[k]] \in Nat /\ Index'[NewStack[m]] \in Nat
    BY <1>1
  <2>2. k < m \/ m < k
    BY <1>1, <1>3
  <2> QED BY <1>1, <2>1, <2>2 DEF Sorted
<1>4. \A k \in DOMAIN NewStack : NewStack[k] = Node => k = p
  BY <1>2, <1>3
<1>5. Component(Node, NewStack) = {NewStack[k] : k \in p .. Len(NewStack)}
  <2> DEFINE i == SelectInSeq(NewStack, LAMBDA m : m = NewStack[p])
  <2>1. i \in DOMAIN NewStack /\ NewStack[i] = NewStack[p]
    BY <1>1, FirstPlace
  <2>2. i = p
    <3> HIDE DEF i
    <3> QED BY <1>2, <1>4, <2>1
  <2>3. Component(Node, NewStack) = {NewStack[k] : k \in i .. Len(NewStack)}
    BY <1>2 DEF Component
  <2> HIDE DEF i
  <2> QED BY <2>2, <2>3
<1>6. Cardinality(Component(Node, NewStack)) = Len(NewStack) - p + 1
  <2> DEFINE I == p .. Len(NewStack)
             T == {NewStack[k] : k \in I}
             g == [k \in I |-> NewStack[k]]
  <2>1. p \in 1 .. Len(NewStack) /\ I \subseteq DOMAIN NewStack
    BY <1>1, <1>2
  <2>2. IsFiniteSet(I) /\ Cardinality(I) = Len(NewStack) - p + 1
    BY <1>1, <2>1, FS_Interval
  <2>3. g \in [I -> T]
    OBVIOUS
  <2>4. \A k, m \in I : g[k] = g[m] => k = m
    BY <1>3, <2>1
  <2>5. \A t \in T : \E k \in I : g[k] = t
    OBVIOUS
  <2> HIDE DEF g, I, T
  <2>6. g \in Bijection(I, T)
    BY <2>3, <2>4, <2>5 DEF Bijection, Injection, Surjection, IsInjective
  <2>7. Cardinality(T) = Cardinality(I)
    BY <2>2, <2>6, FS_Bijection DEF ExistsBijection
  <2> QED BY <1>5, <2>2, <2>7 DEF T, I
<1> QED BY <1>2, <1>4, <1>5, <1>6

(***************************************************************************)
(* Searching', part by part.                                               *)
(***************************************************************************)
LEMMA SearchingPrimed ==
  ASSUME f' = f,
         pc' # "visit" => WorkStack' = <<>> /\ LoopStack' = <<>>,
         \A n \in Nodes : Index'[n] < NextIndex',
         \A k \in DOMAIN LoopStack' : LoopStack'[k] \notin Deleted',
         Sorted(Index', LoopStack'),
         Linked(Index', LowLink', WorkStack', LoopStack'),
         IsPath(Index', Succ', Deleted', WorkStack', LoopStack'),
         ChildIsDone(Index', LowLink', Succ', WorkStack', LoopStack')
  PROVE  Searching'
<1>1. Nodes' = Nodes /\ \A n : Edges(n)' = Edges(n)
  BY DEF Nodes, Edges
<1>2. Sorted(Index, LoopStack)'
  BY DEF Sorted
<1>3. Linked(Index, LowLink, WorkStack, LoopStack)'
  BY DEF Linked
<1>4. IsPath(Index, Succ, Deleted, WorkStack, LoopStack)'
  BY DEF IsPath, Edges
<1>5. ChildIsDone(Index, LowLink, Succ, WorkStack, LoopStack)'
  BY DEF ChildIsDone, Edges
<1> QED BY <1>1, <1>2, <1>3, <1>4, <1>5 DEF Searching

(***************************************************************************)
(* The stacks after each of the three ways of processNode().               *)
(***************************************************************************)
LEMMA RecurseKeeps ==
  ASSUME AnalysisInv, ProcessNode, Recurse(Node, To, NewStack)
  PROVE  /\ WorkStack' \in Seq(Nodes) /\ WorkStack' # <<>>
         /\ 1 \in DOMAIN WorkStack' /\ WorkStack'[1] = WorkStack[1]
         /\ \A k \in DOMAIN LoopStack' : LoopStack'[k] \notin Deleted'
         /\ Linked(Index', LowLink', WorkStack', LoopStack')
         /\ IsPath(Index', Succ', Deleted', WorkStack', LoopStack')
         /\ ChildIsDone(Index', LowLink', Succ', WorkStack', LoopStack')
<1> DEFINE m == Edges(Node)[To]
<1>1. /\ WorkStack # <<>> /\ To <= Len(Edges(Node)) /\ WorkStack' = Append(WorkStack, m)
      /\ LoopStack' = NewStack /\ Deleted' = Deleted
  BY ProcessNodeParts DEF Recurse
<1>2. /\ To \in DOMAIN Edges(Node) /\ m \in Nodes /\ m # Node /\ m \notin Deleted
      /\ Index[m] = UndefinedIndex
  BY <1>1, ToFacts
<1>3. /\ Len(WorkStack) \in DOMAIN WorkStack /\ Len(WorkStack) \in Nat
      /\ DOMAIN WorkStack = 1 .. Len(WorkStack)
      /\ Node = WorkStack[Len(WorkStack)]
      /\ Node \in Nodes /\ Node \notin Deleted
      /\ WorkStack \in Seq(Nodes)
      /\ \A k \in DOMAIN LoopStack : LoopStack[k] \notin Deleted
  BY <1>1, NodeFacts DEF AnalysisInv, TypesOfAnalysis, Searching
<1>4. Index'[m] = UndefinedIndex
  BY <1>2, StackFacts
<1> HIDE DEF m
<1>5. /\ WorkStack' \in Seq(Nodes) /\ WorkStack' # <<>>
      /\ DOMAIN WorkStack' = 1 .. Len(WorkStack) + 1
      /\ Len(WorkStack') = Len(WorkStack) + 1
      /\ WorkStack'[Len(WorkStack) + 1] = m
      /\ \A k \in DOMAIN WorkStack : WorkStack'[k] = WorkStack[k]
  BY <1>1, <1>2, <1>3
<1>6. 1 \in DOMAIN WorkStack' /\ WorkStack'[1] = WorkStack[1]
  BY <1>3, <1>5
<1>7. \A k \in DOMAIN LoopStack' : LoopStack'[k] \notin Deleted'
  BY <1>1, <1>3, StackFacts
<1>8. Linked(Index', LowLink', WorkStack', LoopStack')
  <2>1. ToSet(WorkStack) \subseteq ToSet(WorkStack')
    BY <1>3, <1>5 DEF ToSet
  <2>2. Linked(Index', LowLink', WorkStack, NewStack)
    BY LinkFacts
  <2> QED BY <1>1, <2>1, <2>2 DEF Linked
<1>9. Last(WorkStack') = m
  BY <1>3, <1>5 DEF Last
<1>10. ChildIsDone(Index', LowLink', Succ', WorkStack', LoopStack')
  BY <1>4, <1>9 DEF ChildIsDone
<1>11. /\ Succ'[Node] = To
       /\ \A k \in DOMAIN WorkStack :
            /\ WorkStack[k] \in Nodes \ Deleted
            /\ WorkStack[k] \in ToSet(NewStack)
            /\ Index'[WorkStack[k]] # UndefinedIndex
            /\ k < Len(WorkStack) =>
                 /\ Succ'[WorkStack[k]] \in DOMAIN Edges(WorkStack[k])
                 /\ WorkStack[k + 1] = Edges(WorkStack[k])[Succ'[WorkStack[k]]]
       /\ \A k, i \in DOMAIN WorkStack : k < i => Index'[WorkStack[k]] < Index'[WorkStack[i]]
  BY PathFacts
<1>12. \A k \in DOMAIN WorkStack' : k \in DOMAIN WorkStack \/ k = Len(WorkStack) + 1
  BY <1>3, <1>5
<1>13. ASSUME NEW k \in DOMAIN WorkStack', NEW i \in DOMAIN WorkStack', k < i
       PROVE  /\ Index'[WorkStack'[k]] # UndefinedIndex
              /\ Index'[WorkStack'[i]] # UndefinedIndex => Index'[WorkStack'[k]] < Index'[WorkStack'[i]]
  <2>1. k \in DOMAIN WorkStack
    BY <1>3, <1>5, <1>13
  <2>2. CASE i = Len(WorkStack) + 1
    BY <1>4, <1>5, <1>11, <2>1, <2>2
  <2>3. CASE i \in DOMAIN WorkStack
    BY <1>5, <1>11, <1>13, <2>1, <2>3
  <2> QED BY <1>12, <2>2, <2>3
<1>14. ASSUME NEW k \in DOMAIN WorkStack'
       PROVE  /\ WorkStack'[k] \notin Deleted'
              /\ Index'[WorkStack'[k]] # UndefinedIndex =>
                   /\ WorkStack'[k] \in ToSet(LoopStack')
                   /\ Succ'[WorkStack'[k]] \in DOMAIN Edges(WorkStack'[k])
              /\ k + 1 \in DOMAIN WorkStack' => WorkStack'[k + 1] = Edges(WorkStack'[k])[Succ'[WorkStack'[k]]]
  <2>1. CASE k = Len(WorkStack) + 1
    <3>1. k + 1 \notin DOMAIN WorkStack'
      BY <1>3, <1>5, <2>1
    <3> QED BY <1>1, <1>2, <1>4, <1>5, <2>1, <3>1
  <2>2. CASE k = Len(WorkStack)
    BY <1>1, <1>2, <1>3, <1>5, <1>11, <2>2 DEF m
  <2>3. CASE k \in DOMAIN WorkStack /\ k < Len(WorkStack)
    <3>1. k + 1 \in DOMAIN WorkStack
      BY <1>3, <2>3
    <3> QED BY <1>1, <1>5, <1>11, <2>3, <3>1
  <2> QED BY <1>3, <1>12, <2>1, <2>2, <2>3
<1>15. IsPath(Index', Succ', Deleted', WorkStack', LoopStack')
  BY <1>13, <1>14 DEF IsPath
<1> QED BY <1>5, <1>6, <1>7, <1>8, <1>10, <1>15

(***************************************************************************)
(* WorkStack without the node.                                             *)
(***************************************************************************)
LEMMA FrontFacts ==
  ASSUME AnalysisInv, ProcessNode, WorkStack' = Front(WorkStack),
         Deleted' \subseteq Deleted \cup {Node},
         \A k \in DOMAIN WorkStack : k < Len(WorkStack) => WorkStack[k] \in ToSet(LoopStack')
  PROVE  /\ WorkStack' \in Seq(Nodes)
         /\ WorkStack' # <<>> => 1 \in DOMAIN WorkStack' /\ WorkStack'[1] = WorkStack[1]
         /\ ToSet(WorkStack) \subseteq ToSet(WorkStack') \cup {Node}
         /\ WorkStack' = <<>> => WorkStack[1] = Node
         /\ IsPath(Index', Succ', Deleted', WorkStack', LoopStack')
         /\ WorkStack' # <<>> =>
              /\ Edges(Last(WorkStack'))[Succ'[Last(WorkStack')]] = Node
              /\ Index'[Last(WorkStack')] < NewIndex
<1>1. /\ Len(WorkStack) \in DOMAIN WorkStack /\ Len(WorkStack) \in Nat
      /\ DOMAIN WorkStack = 1 .. Len(WorkStack)
      /\ Node = WorkStack[Len(WorkStack)]
      /\ WorkStack \in Seq(Nodes)
  BY ProcessNodeParts, NodeFacts DEF AnalysisInv, TypesOfAnalysis
<1>2. /\ WorkStack' \in Seq(Nodes)
      /\ Len(WorkStack') = Len(WorkStack) - 1
      /\ DOMAIN WorkStack' = 1 .. (Len(WorkStack) - 1)
      /\ \A k \in DOMAIN WorkStack' : k \in DOMAIN WorkStack /\ k < Len(WorkStack) /\ WorkStack'[k] = WorkStack[k]
  BY <1>1 DEF Front
<1>3. /\ \A k \in DOMAIN WorkStack :
           /\ WorkStack[k] \in Nodes \ Deleted
           /\ Index'[WorkStack[k]] # UndefinedIndex
           /\ k < Len(WorkStack) =>
                /\ Index'[WorkStack[k]] < NewIndex
                /\ Succ'[WorkStack[k]] \in DOMAIN Edges(WorkStack[k])
                /\ WorkStack[k + 1] = Edges(WorkStack[k])[Succ'[WorkStack[k]]]
      /\ \A k, i \in DOMAIN WorkStack : k < i => Index'[WorkStack[k]] < Index'[WorkStack[i]]
  BY PathFacts
<1>4. WorkStack' # <<>> => Len(WorkStack') \in DOMAIN WorkStack' /\ 1 \in DOMAIN WorkStack'
  BY <1>1, <1>2
<1>5. ToSet(WorkStack) \subseteq ToSet(WorkStack') \cup {Node}
  <2>1. ASSUME NEW k \in DOMAIN WorkStack PROVE WorkStack[k] \in ToSet(WorkStack') \cup {Node}
    <3>1. k = Len(WorkStack) \/ k \in DOMAIN WorkStack'
      BY <1>1, <1>2
    <3> QED BY <1>1, <1>2, <3>1 DEF ToSet
  <2> QED BY <2>1 DEF ToSet
<1>6. WorkStack' = <<>> => WorkStack[1] = Node
  BY <1>1, <1>2
<1>7. \A k \in DOMAIN WorkStack' : WorkStack'[k] \notin Deleted'
  <2>1. ASSUME NEW k \in DOMAIN WorkStack' PROVE WorkStack'[k] # Node
    <3>1. Index'[WorkStack[k]] < Index'[Node] /\ Index'[Node] \in Nat
      BY <1>1, <1>2, <1>3, StackFacts
    <3> QED BY <1>2, <3>1
  <2> QED BY <1>2, <1>3, <2>1
<1>8. IsPath(Index', Succ', Deleted', WorkStack', LoopStack')
  <2>1. \A k \in DOMAIN WorkStack' : k + 1 \in DOMAIN WorkStack' => k + 1 \in DOMAIN WorkStack
    BY <1>2
  <2>2. \A k, i \in DOMAIN WorkStack' : k < i =>
          /\ Index'[WorkStack'[k]] # UndefinedIndex
          /\ Index'[WorkStack'[i]] # UndefinedIndex => Index'[WorkStack'[k]] < Index'[WorkStack'[i]]
    BY <1>2, <1>3
  <2>3. \A k \in DOMAIN WorkStack' :
          /\ WorkStack'[k] \in ToSet(LoopStack')
          /\ Succ'[WorkStack'[k]] \in DOMAIN Edges(WorkStack'[k])
          /\ k + 1 \in DOMAIN WorkStack' => WorkStack'[k + 1] = Edges(WorkStack'[k])[Succ'[WorkStack'[k]]]
    BY <1>2, <1>3, <2>1
  <2> QED BY <1>7, <2>2, <2>3 DEF IsPath
<1>9. ASSUME WorkStack' # <<>>
      PROVE  /\ Edges(Last(WorkStack'))[Succ'[Last(WorkStack')]] = Node
             /\ Index'[Last(WorkStack')] < NewIndex
  <2>1. Last(WorkStack') = WorkStack[Len(WorkStack) - 1]
    BY <1>2, <1>4, <1>9 DEF Last
  <2>2. Len(WorkStack) - 1 \in DOMAIN WorkStack /\ (Len(WorkStack) - 1) + 1 = Len(WorkStack)
    BY <1>1, <1>2, <1>4, <1>9
  <2> QED BY <1>1, <1>3, <2>1, <2>2
<1> QED BY <1>2, <1>4, <1>5, <1>6, <1>8, <1>9

(***************************************************************************)
(* A linked node stays on LoopStack: its caller's child is done.           *)
(***************************************************************************)
LEMMA ReturnLinkedKeeps ==
  ASSUME AnalysisInv, ProcessNode, NewLow # NewIndex, ReturnLinked(Node, NewStack)
  PROVE  /\ WorkStack' \in Seq(Nodes)
         /\ WorkStack' # <<>> => 1 \in DOMAIN WorkStack' /\ WorkStack'[1] = WorkStack[1]
         /\ WorkStack' = <<>> => WorkStack[1] = Node
         /\ \A k \in DOMAIN LoopStack' : LoopStack'[k] \notin Deleted'
         /\ Linked(Index', LowLink', WorkStack', LoopStack')
         /\ IsPath(Index', Succ', Deleted', WorkStack', LoopStack')
         /\ ChildIsDone(Index', LowLink', Succ', WorkStack', LoopStack')
<1>1. WorkStack' = Front(WorkStack) /\ LoopStack' = NewStack /\ Deleted' = Deleted /\ WorkStack # <<>>
  BY ProcessNodeParts DEF ReturnLinked
<1>2. \A k \in DOMAIN WorkStack : WorkStack[k] \in ToSet(LoopStack')
  BY <1>1, PathFacts
<1>3. /\ WorkStack' \in Seq(Nodes)
      /\ WorkStack' # <<>> => 1 \in DOMAIN WorkStack' /\ WorkStack'[1] = WorkStack[1]
      /\ WorkStack' = <<>> => WorkStack[1] = Node
      /\ ToSet(WorkStack) \subseteq ToSet(WorkStack') \cup {Node}
      /\ IsPath(Index', Succ', Deleted', WorkStack', LoopStack')
      /\ WorkStack' # <<>> => Edges(Last(WorkStack'))[Succ'[Last(WorkStack')]] = Node
  BY <1>1, <1>2, FrontFacts
<1>4. \A k \in DOMAIN LoopStack' : LoopStack'[k] \notin Deleted'
  BY <1>1, StackFacts, NodeFacts DEF AnalysisInv, Searching
<1>5. ChildIsDone(Index', LowLink', Succ', WorkStack', LoopStack')
  <2>1. Node \in ToSet(LoopStack')
    BY <1>1, StackFacts DEF ToSet
  <2> QED BY <1>3, <2>1 DEF ChildIsDone
<1>6. NewLow < NewIndex
  BY <1>1, LowFacts, NodeFacts
<1>7. Linked(Index', LowLink', WorkStack', LoopStack')
  <2>1. Linked(Index', LowLink', WorkStack, NewStack)
    BY LinkFacts
  <2>2. ASSUME NEW k \in DOMAIN NewStack, NewStack[k] \notin ToSet(WorkStack')
        PROVE  LowLink'[NewStack[k]] < Index'[NewStack[k]]
    <3>1. CASE NewStack[k] = Node
      BY <1>6, <3>1, LinkFacts, StackFacts
    <3>2. CASE NewStack[k] # Node
      BY <1>3, <2>1, <2>2, <3>2 DEF Linked
    <3> QED BY <3>1, <3>2
  <2> QED BY <1>1, <2>1, <2>2 DEF Linked
<1> QED BY <1>3, <1>4, <1>5, <1>7

(***************************************************************************)
(* A component was found: what is left of LoopStack is below the node.     *)
(***************************************************************************)
LEMMA FoundLoopKeeps ==
  ASSUME AnalysisInv, ProcessNode, NewLow = NewIndex, FoundLoop(Node, NewStack)
  PROVE  /\ WorkStack' \in Seq(Nodes) /\ LoopStack' \in Seq(Nodes)
         /\ WorkStack' # <<>> => 1 \in DOMAIN WorkStack' /\ WorkStack'[1] = WorkStack[1]
         /\ WorkStack' = <<>> => WorkStack[1] = Node
         /\ NewStack[1] # Node => \A k \in DOMAIN NewStack : k = 1 => k \in DOMAIN LoopStack'
         /\ \A k \in DOMAIN LoopStack' : k \in DOMAIN NewStack /\ LoopStack'[k] = NewStack[k]
         /\ \A k \in DOMAIN LoopStack' : LoopStack'[k] \notin Deleted'
         /\ Sorted(Index', LoopStack')
         /\ Linked(Index', LowLink', WorkStack', LoopStack')
         /\ IsPath(Index', Succ', Deleted', WorkStack', LoopStack')
         /\ ChildIsDone(Index', LowLink', Succ', WorkStack', LoopStack')
<1>1. /\ WorkStack # <<>>
      /\ WorkStack' = Front(WorkStack)
      /\ LoopStack' = SubSeq(NewStack, 1, Len(NewStack) - Cardinality(Component(Node, NewStack)))
      /\ Deleted' = Deleted \cup {Node}
  BY ProcessNodeParts DEF FoundLoop
<1>2. /\ NewStack \in Seq(Nodes) /\ DOMAIN NewStack = 1 .. Len(NewStack) /\ Len(NewStack) \in Nat
      /\ Sorted(Index', NewStack)
      /\ Index' \in [Nodes -> Nat]
      /\ Index'[Node] = NewIndex
      /\ \A k \in DOMAIN NewStack : NewStack[k] \in Nodes
      /\ \A k \in DOMAIN LoopStack : k \in DOMAIN NewStack /\ NewStack[k] = LoopStack[k]
      /\ \A k \in DOMAIN NewStack : NewStack[k] = Node \/ k \in DOMAIN LoopStack
  BY StackFacts
<1>3. PICK p \in DOMAIN NewStack :
        /\ NewStack[p] = Node
        /\ \A k \in DOMAIN NewStack : NewStack[k] = Node => k = p
        /\ Cardinality(Component(Node, NewStack)) = Len(NewStack) - p + 1
  BY ComponentFacts
<1>4. LoopStack' = SubSeq(NewStack, 1, p - 1)
  <2>1. Len(NewStack) - (Len(NewStack) - p + 1) = p - 1
    BY <1>2, <1>3
  <2> QED BY <1>1, <1>3, <2>1
<1>5. /\ LoopStack' \in Seq(Nodes)
      /\ DOMAIN LoopStack' = 1 .. (p - 1)
      /\ \A k \in DOMAIN LoopStack' : k \in DOMAIN NewStack /\ LoopStack'[k] = NewStack[k] /\ k < p
  BY <1>2, <1>3, <1>4
<1>6. /\ \A k \in DOMAIN NewStack : Index'[NewStack[k]] \in Nat
      /\ \A k \in DOMAIN NewStack : Index'[NewStack[k]] < NewIndex => k \in DOMAIN LoopStack'
  <2>1. \A k \in DOMAIN NewStack : Index'[NewStack[k]] \in Nat
    BY <1>2
  <2>2. ASSUME NEW k \in DOMAIN NewStack, Index'[NewStack[k]] < NewIndex PROVE k \in DOMAIN LoopStack'
    <3>1. Index'[NewStack[p]] = NewIndex /\ Index'[NewStack[p]] \in Nat
      BY <1>2, <1>3, <2>1
    <3>2. ~(p < k) /\ p # k
      BY <1>2, <1>3, <2>1, <2>2, <3>1 DEF Sorted
    <3> QED BY <1>2, <1>3, <1>5, <3>2
  <2> QED BY <2>1, <2>2
<1>7. \A k \in DOMAIN WorkStack : k < Len(WorkStack) => WorkStack[k] \in ToSet(LoopStack')
  <2>1. ASSUME NEW k \in DOMAIN WorkStack, k < Len(WorkStack) PROVE WorkStack[k] \in ToSet(LoopStack')
    <3>1. WorkStack[k] \in ToSet(NewStack) /\ Index'[WorkStack[k]] < NewIndex
      BY <2>1, PathFacts
    <3>2. PICK j \in DOMAIN NewStack : NewStack[j] = WorkStack[k]
      BY <3>1 DEF ToSet
    <3>3. j \in DOMAIN LoopStack' /\ LoopStack'[j] = WorkStack[k]
      BY <1>5, <1>6, <3>1, <3>2
    <3> QED BY <3>3 DEF ToSet
  <2> QED BY <2>1
<1>8. /\ WorkStack' \in Seq(Nodes)
      /\ WorkStack' # <<>> => 1 \in DOMAIN WorkStack' /\ WorkStack'[1] = WorkStack[1]
      /\ WorkStack' = <<>> => WorkStack[1] = Node
      /\ ToSet(WorkStack) \subseteq ToSet(WorkStack') \cup {Node}
      /\ IsPath(Index', Succ', Deleted', WorkStack', LoopStack')
      /\ WorkStack' # <<>> =>
           /\ Edges(Last(WorkStack'))[Succ'[Last(WorkStack')]] = Node
           /\ Index'[Last(WorkStack')] < NewIndex
  BY <1>1, <1>7, FrontFacts
<1>9. NewStack[1] # Node => \A k \in DOMAIN NewStack : k = 1 => k \in DOMAIN LoopStack'
  BY <1>2, <1>3, <1>5
<1>10. \A k \in DOMAIN LoopStack' : LoopStack'[k] \notin Deleted'
  <2>1. ASSUME NEW k \in DOMAIN LoopStack' PROVE LoopStack'[k] \notin Deleted'
    <3>1. LoopStack'[k] # Node /\ k \in DOMAIN LoopStack /\ LoopStack'[k] = LoopStack[k]
      BY <1>2, <1>3, <1>5
    <3>2. LoopStack[k] \notin Deleted
      BY <3>1 DEF AnalysisInv, Searching
    <3> QED BY <1>1, <3>1, <3>2
  <2> QED BY <2>1
<1>11. Sorted(Index', LoopStack')
  BY <1>2, <1>5 DEF Sorted
<1>12. Linked(Index', LowLink', WorkStack', LoopStack')
  <2>1. ASSUME NEW k \in DOMAIN LoopStack'
        PROVE  /\ LowLink'[LoopStack'[k]] <= Index'[LoopStack'[k]]
               /\ LoopStack'[k] \notin ToSet(WorkStack') => LowLink'[LoopStack'[k]] < Index'[LoopStack'[k]]
               /\ \E j \in DOMAIN LoopStack' :
                    Index'[LoopStack'[j]] = LowLink'[LoopStack'[k]] /\ (LoopStack'[k] # 1 => LoopStack'[j] # 1)
    <3>1. k \in DOMAIN NewStack /\ LoopStack'[k] = NewStack[k] /\ k < p /\ NewStack[k] # Node
      BY <1>3, <1>5
    <3>2. /\ LowLink'[NewStack[k]] <= Index'[NewStack[k]]
          /\ NewStack[k] \notin ToSet(WorkStack) => LowLink'[NewStack[k]] < Index'[NewStack[k]]
      BY <3>1, LinkFacts DEF Linked
    <3>3. PICK j \in DOMAIN NewStack :
            Index'[NewStack[j]] = LowLink'[NewStack[k]] /\ (NewStack[k] # 1 => NewStack[j] # 1)
      BY <3>1, LinkFacts DEF Linked
    <3>4. Index'[NewStack[j]] < NewIndex
      <4>1. Index'[NewStack[k]] < NewIndex
        BY <1>2, <1>3, <3>1 DEF Sorted
      <4>2. Index'[NewStack[j]] \in Nat /\ Index'[NewStack[k]] \in Nat /\ NewIndex \in Nat
        BY <1>1, <1>6, <3>1, NodeFacts
      <4> QED BY <3>2, <3>3, <4>1, <4>2
    <3>5. j \in DOMAIN LoopStack' /\ LoopStack'[j] = NewStack[j]
      BY <1>5, <1>6, <3>4
    <3> QED BY <1>8, <3>1, <3>2, <3>3, <3>5
  <2> QED BY <2>1 DEF Linked
<1>13. ChildIsDone(Index', LowLink', Succ', WorkStack', LoopStack')
  BY <1>8, LinkFacts DEF ChildIsDone
<1> QED BY <1>5, <1>8, <1>9, <1>10, <1>11, <1>12, <1>13

(***************************************************************************)
(* The body of a component: some nodes, without the entry if they are      *)
(* several.  Of the entry's own component, a second node on LoopStack      *)
(* would be linked to one between the two.                                 *)
(***************************************************************************)
LEMMA BodyFacts ==
  ASSUME AnalysisInv, ProcessNode
  PROVE  /\ Component(Node, NewStack) \subseteq Nodes
         /\ Node \in Component(Node, NewStack)
         /\ Component(Node, NewStack) # {Node} => 1 \notin Component(Node, NewStack)
<1>1. /\ NewStack \in Seq(Nodes) /\ DOMAIN NewStack = 1 .. Len(NewStack) /\ Len(NewStack) \in Nat
      /\ Sorted(Index', NewStack)
      /\ Index' \in [Nodes -> Nat]
      /\ \A k \in DOMAIN NewStack : NewStack[k] \in Nodes
  BY StackFacts
<1>2. PICK p \in DOMAIN NewStack :
        /\ NewStack[p] = Node
        /\ \A k \in DOMAIN NewStack : NewStack[k] = Node => k = p
        /\ Component(Node, NewStack) = {NewStack[k] : k \in p .. Len(NewStack)}
  BY ComponentFacts
<1>3. \A k \in p .. Len(NewStack) : k \in DOMAIN NewStack
  BY <1>1, <1>2
<1>4. Component(Node, NewStack) \subseteq Nodes /\ Node \in Component(Node, NewStack)
  BY <1>1, <1>2, <1>3
<1>5. ASSUME 1 \in Component(Node, NewStack) PROVE Component(Node, NewStack) = {Node}
  <2>1. PICK i \in p .. Len(NewStack) : NewStack[i] = 1
    BY <1>2, <1>5
  <2>2. 1 \notin Deleted /\ WorkStack[1] = 1 /\ 1 \in DOMAIN NewStack /\ NewStack[1] = 1
    BY <1>3, <2>1, EntryFacts
  <2>3. i = 1
    <3>1. i \in DOMAIN NewStack /\ Index'[NewStack[i]] \in Nat
      BY <1>1, <1>3, <2>1
    <3>2. ~(1 < i)
      BY <1>1, <2>1, <2>2, <3>1 DEF Sorted
    <3> QED BY <1>1, <3>1, <3>2
  <2>4. p = 1 /\ Node = 1
    BY <1>1, <1>2, <2>1, <2>2, <2>3
  <2>5. Len(WorkStack) = 1
    BY <2>4, EntryFacts
  <2>6. ToSet(WorkStack) \subseteq {1}
    BY <2>2, <2>5, ProcessNodeParts, NodeFacts DEF ToSet
  <2>7. ASSUME 2 \in DOMAIN NewStack PROVE FALSE
    <3>1. NewStack[2] # 1
      BY <1>2, <2>4, <2>7
    <3>2. LowLink'[NewStack[2]] < Index'[NewStack[2]]
      BY <2>6, <2>7, <3>1, LinkFacts DEF Linked
    <3>3. PICK j \in DOMAIN NewStack : Index'[NewStack[j]] = LowLink'[NewStack[2]] /\ NewStack[j] # 1
      BY <2>7, <3>1, LinkFacts DEF Linked
    <3>4. j = 2 \/ 2 < j
      BY <1>1, <2>2, <3>3
    <3>5. Index'[NewStack[j]] \in Nat /\ Index'[NewStack[2]] \in Nat
      BY <1>1, <2>7
    <3>6. Index'[NewStack[2]] <= Index'[NewStack[j]]
      BY <1>1, <2>7, <3>4, <3>5 DEF Sorted
    <3> QED BY <3>2, <3>3, <3>5, <3>6
  <2>8. p .. Len(NewStack) = {1}
    BY <1>1, <2>2, <2>4, <2>7
  <2> QED BY <1>2, <2>2, <2>4, <2>8
<1> QED BY <1>4, <1>5

LEMMA ProcessNodeKeepsTypes ==
  ASSUME AnalysisInv, ProcessNode
  PROVE  TypesOfAnalysis'
<1>1. /\ f' = f /\ pc' = pc /\ LoopInfo' = LoopInfo
      /\ \/ Recurse(Node, To, NewStack)
         \/ NewLow # NewIndex /\ ReturnLinked(Node, NewStack)
         \/ NewLow = NewIndex /\ FoundLoop(Node, NewStack)
  BY ProcessNodeParts
<1>2. /\ Index' \in [Nodes -> Nat] /\ LowLink' \in [Nodes -> Nat] /\ Succ' \in [Nodes -> Nat \ {0}]
      /\ NextIndex' \in Nat \ {0} /\ NewStack \in Seq(Nodes)
  BY StackFacts, LinkFacts, PathFacts
<1>3. TypesOfAnalysis /\ Node \in Nodes
  BY ProcessNodeParts, NodeFacts DEF AnalysisInv
<1>4. /\ WorkStack' \in Seq(Nodes)
      /\ LoopStack' \in Seq(Nodes)
      /\ Deleted' \subseteq Nodes
      /\ NestDepth' \in [Nodes -> Nat]
      /\ Loops' \subseteq SUBSET Nodes
  <2>1. CASE Recurse(Node, To, NewStack)
    BY <1>2, <1>3, <2>1, RecurseKeeps DEF Recurse, TypesOfAnalysis
  <2>2. CASE NewLow # NewIndex /\ ReturnLinked(Node, NewStack)
    BY <1>2, <1>3, <2>2, ReturnLinkedKeeps DEF ReturnLinked, TypesOfAnalysis
  <2>3. CASE NewLow = NewIndex /\ FoundLoop(Node, NewStack)
    <3> DEFINE body == Component(Node, NewStack)
    <3>1. body \subseteq Nodes
      BY BodyFacts
    <3>2. /\ Deleted' = Deleted \cup {Node}
          /\ NestDepth' = [m \in Nodes |-> IF m \in Nested(Node, body) THEN NestDepth[m] + 1 ELSE NestDepth[m]]
          /\ Loops' = IF body = {Node} THEN Loops ELSE Loops \cup {body}
      BY <2>3 DEF FoundLoop
    <3>3. WorkStack' \in Seq(Nodes) /\ LoopStack' \in Seq(Nodes)
      BY <2>3, FoundLoopKeeps
    <3> HIDE DEF body
    <3>4. NestDepth' \in [Nodes -> Nat]
      BY <1>3, <3>2 DEF TypesOfAnalysis
    <3> QED BY <1>3, <3>1, <3>2, <3>3, <3>4 DEF TypesOfAnalysis
  <2> QED BY <1>1, <2>1, <2>2, <2>3
<1> QED BY <1>1, <1>2, <1>3, <1>4 DEF TypesOfAnalysis, Nodes, Loop

LEMMA ProcessNodeKeeps ==
  ASSUME AnalysisInv, ProcessNode
  PROVE  AnalysisInv'
<1>1. /\ f' = f /\ pc' = "visit" /\ pc = "visit" /\ WorkStack # <<>>
      /\ \/ Recurse(Node, To, NewStack)
         \/ NewLow # NewIndex /\ ReturnLinked(Node, NewStack)
         \/ NewLow = NewIndex /\ FoundLoop(Node, NewStack)
  BY ProcessNodeParts
<1>2. Nodes' = Nodes
  BY <1>1 DEF Nodes
<1>3. Sorted(Index', NewStack) /\ \A n \in Nodes : Index'[n] < NextIndex'
  BY StackFacts, PathFacts
<1>4. /\ TypesOfAnalysis /\ EntryInNoLoop /\ DepthIsBounded
      /\ Node \in Nodes /\ Node \notin Deleted
  BY <1>1, NodeFacts DEF AnalysisInv
<1>5. Searching'
  <2>1. CASE Recurse(Node, To, NewStack)
    <3>1. LoopStack' = NewStack
      BY <2>1 DEF Recurse
    <3> QED BY <1>1, <1>3, <2>1, <3>1, RecurseKeeps, SearchingPrimed
  <2>2. CASE NewLow # NewIndex /\ ReturnLinked(Node, NewStack)
    <3>1. LoopStack' = NewStack
      BY <2>2 DEF ReturnLinked
    <3> QED BY <1>1, <1>3, <2>2, <3>1, ReturnLinkedKeeps, SearchingPrimed
  <2>3. CASE NewLow = NewIndex /\ FoundLoop(Node, NewStack)
    BY <1>1, <1>3, <2>3, FoundLoopKeeps, SearchingPrimed
  <2> QED BY <1>1, <2>1, <2>2, <2>3
<1>6. 1 \in Deleted' \/ (/\ WorkStack' # <<>> /\ LoopStack' # <<>>
                         /\ WorkStack'[1] = 1 /\ LoopStack'[1] = 1)
  <2>1. /\ 1 \in Deleted \/ (WorkStack[1] = 1 /\ 1 \in DOMAIN NewStack /\ NewStack[1] = 1)
        /\ Node = 1 => NewLow = NewIndex
    BY EntryFacts
  <2>2. CASE Recurse(Node, To, NewStack)
    BY <2>1, <2>2, RecurseKeeps DEF Recurse
  <2>3. CASE NewLow # NewIndex /\ ReturnLinked(Node, NewStack)
    BY <2>1, <2>3, ReturnLinkedKeeps DEF ReturnLinked
  <2>4. CASE NewLow = NewIndex /\ FoundLoop(Node, NewStack)
    <3>1. Deleted' = Deleted \cup {Node}
      BY <2>4 DEF FoundLoop
    <3> QED BY <2>1, <2>4, <3>1, FoundLoopKeeps
  <2> QED BY <1>1, <2>2, <2>3, <2>4
<1>7. EntryFirst'
  BY <1>6 DEF EntryFirst
<1>8. EntryInNoLoop'
  <2>1. CASE Loops' = Loops
    BY <1>4, <2>1 DEF EntryInNoLoop
  <2>2. CASE FoundLoop(Node, NewStack)
    BY <1>4, <2>2, BodyFacts DEF FoundLoop, EntryInNoLoop
  <2> QED BY <1>1, <2>1, <2>2 DEF Recurse, ReturnLinked
<1>9. DepthIsBounded'
  <2>1. CASE NestDepth' = NestDepth /\ Deleted' = Deleted
    BY <1>2, <1>4, <2>1 DEF DepthIsBounded
  <2>2. CASE FoundLoop(Node, NewStack)
    <3>1. IsFiniteSet(Deleted) /\ Cardinality(Deleted) \in Nat
      <4>1. Deleted \subseteq Nodes
        BY <1>4 DEF TypesOfAnalysis
      <4> QED BY <1>4, <4>1, NodesAreFinite
    <3>2. Cardinality(Deleted \cup {Node}) = Cardinality(Deleted) + 1
      BY <1>4, <3>1, FS_AddElement
    <3>3. \A n \in Nodes : NestDepth'[n] = NestDepth[n] + 1 \/ NestDepth'[n] = NestDepth[n]
      BY <2>2 DEF FoundLoop
    <3>4. \A n \in Nodes : NestDepth[n] \in Nat /\ NestDepth[n] <= Cardinality(Deleted)
      BY <1>4 DEF TypesOfAnalysis, DepthIsBounded
    <3>5. \A n \in Nodes : NestDepth'[n] <= Cardinality(Deleted) + 1
      BY <3>1, <3>3, <3>4
    <3> QED BY <1>2, <2>2, <3>2, <3>5 DEF FoundLoop, DepthIsBounded
  <2> QED BY <1>1, <2>1, <2>2 DEF Recurse, ReturnLinked
<1> QED BY <1>5, <1>7, <1>8, <1>9, ProcessNodeKeepsTypes DEF AnalysisInv

-----------------------------------------------------------------------------
(***************************************************************************)
(* The other actions.                                                      *)
(***************************************************************************)
LEMMA InitEstablishes == ASSUME Init PROVE AnalysisInv
<1>1. /\ f \in Functions /\ pc = "round" /\ Deleted = {} /\ NextIndex = 1
      /\ Index = [n \in Nodes |-> 0] /\ LowLink = [n \in Nodes |-> 0] /\ Succ = [n \in Nodes |-> 1]
      /\ WorkStack = <<>> /\ LoopStack = <<>>
      /\ NestDepth = [n \in Nodes |-> 0] /\ Loops = {} /\ LoopInfo = <<>>
  BY DEF Init, UndefinedIndex, FirstDefinedIndex
<1>2. TypesOfAnalysis
  BY <1>1 DEF TypesOfAnalysis
<1>3. Searching
  BY <1>1 DEF Searching, Sorted, Linked, IsPath, ChildIsDone
<1>4. DepthIsBounded
  <2>1. Cardinality(Deleted) \in Nat
    BY <1>1, FS_EmptySet
  <2> QED BY <1>1, <2>1 DEF DepthIsBounded
<1> QED BY <1>1, <1>2, <1>3, <1>4 DEF AnalysisInv, EntryFirst, EntryInNoLoop

(***************************************************************************)
(* The parts that are about the loops found.                               *)
(***************************************************************************)
LEMMA LoopsPrimed ==
  ASSUME AnalysisInv, f' = f, Deleted' = Deleted, NestDepth' = NestDepth, Loops' \subseteq Loops
  PROVE  EntryInNoLoop' /\ DepthIsBounded'
BY DEF AnalysisInv, EntryInNoLoop, DepthIsBounded, Nodes

LEMMA StartRoundKeeps == ASSUME AnalysisInv, StartRound PROVE AnalysisInv'
<1>1. /\ pc = "round" /\ pc' = "visit" /\ f' = f
      /\ Index' = [n \in Nodes |-> IF n \in Deleted THEN Index[n] ELSE UndefinedIndex]
      /\ LowLink' = [n \in Nodes |-> IF n \in Deleted THEN LowLink[n] ELSE UndefinedIndex]
      /\ Succ' = [n \in Nodes |-> IF n \in Deleted THEN Succ[n] ELSE 1]
      /\ UNCHANGED <<Deleted, NextIndex, WorkStack, LoopStack, NestDepth, Loops, LoopInfo>>
  BY DEF StartRound, Reset
<1>2. TypesOfAnalysis /\ Searching /\ WorkStack = <<>> /\ LoopStack = <<>>
  BY <1>1 DEF AnalysisInv, Searching
<1>3. Nodes' = Nodes /\ Loop' = Loop /\ 1 \in Nodes
  BY <1>1, <1>2, GraphOfF DEF Nodes, Loop, IsGraph
<1>4. TypesOfAnalysis'
  BY <1>1, <1>2, <1>3 DEF TypesOfAnalysis, UndefinedIndex
<1>5. Searching'
  <2>1. \A n \in Nodes : Index'[n] < NextIndex'
    BY <1>1, <1>2 DEF TypesOfAnalysis, Searching, UndefinedIndex
  <2>2. WorkStack' = <<>> /\ LoopStack' = <<>>
    BY <1>1, <1>2
  <2> QED BY <1>1, <2>1, <2>2, SearchingPrimed DEF Sorted, Linked, IsPath, ChildIsDone
<1>6. EntryFirst'
  BY <1>1, <1>2, <1>3 DEF EntryFirst
<1> QED BY <1>1, <1>4, <1>5, <1>6, LoopsPrimed DEF AnalysisInv

(***************************************************************************)
(* When WorkStack is empty, LoopStack is: its first node would be linked   *)
(* to one before it.                                                       *)
(***************************************************************************)
LEMMA StacksAreEmpty == ASSUME AnalysisInv, WorkStack = <<>> PROVE LoopStack = <<>>
<1>1. /\ LoopStack \in Seq(Nodes) /\ Index \in [Nodes -> Nat]
      /\ Sorted(Index, LoopStack)
      /\ Linked(Index, LowLink, WorkStack, LoopStack)
  BY DEF AnalysisInv, TypesOfAnalysis, Searching
<1>2. SUFFICES ASSUME 1 \in DOMAIN LoopStack PROVE FALSE
  BY <1>1
<1>3. LowLink[LoopStack[1]] < Index[LoopStack[1]]
  BY <1>1, <1>2 DEF Linked, ToSet
<1>4. PICK j \in DOMAIN LoopStack : Index[LoopStack[j]] = LowLink[LoopStack[1]]
  BY <1>1, <1>2 DEF Linked
<1>5. j = 1 \/ 1 < j
  BY <1>1
<1>6. Index[LoopStack[1]] \in Nat /\ Index[LoopStack[j]] \in Nat
  BY <1>1, <1>2
<1> QED BY <1>1, <1>2, <1>3, <1>4, <1>5, <1>6 DEF Sorted

LEMMA VisitRootKeeps == ASSUME AnalysisInv, VisitRoot PROVE AnalysisInv'
<1>1. /\ pc = "visit" /\ f' = f /\ WorkStack = <<>>
      /\ UNCHANGED <<Index, LowLink, Succ, Deleted, NextIndex, LoopStack, NestDepth, Loops, LoopInfo>>
  BY DEF VisitRoot
<1>2. TypesOfAnalysis /\ Searching /\ EntryFirst /\ LoopStack = <<>>
  BY <1>1, StacksAreEmpty DEF AnalysisInv
<1>3. Nodes' = Nodes /\ Loop' = Loop /\ Nodes \subseteq Nat \ {0} /\ 1 \in Nodes
  BY <1>1, <1>2, GraphOfF DEF Nodes, Loop, IsGraph
<1>4. \A n \in Nodes : Index'[n] < NextIndex'
  BY <1>1, <1>2 DEF Searching
<1>5. CASE Unvisited = {}
  <2>1. pc' = "round" /\ WorkStack' = <<>> /\ LoopStack' = <<>>
    BY <1>1, <1>2, <1>5 DEF VisitRoot
  <2>2. TypesOfAnalysis'
    BY <1>1, <1>2, <1>3, <2>1 DEF TypesOfAnalysis
  <2>3. Searching'
    BY <1>1, <1>4, <2>1, SearchingPrimed DEF Sorted, Linked, IsPath, ChildIsDone
  <2>4. EntryFirst'
    BY <2>1 DEF EntryFirst
  <2> QED BY <1>1, <2>2, <2>3, <2>4, LoopsPrimed DEF AnalysisInv
<1>6. CASE Unvisited # {}
  <2> DEFINE m == Min(Unvisited)
  <2>1. pc' = pc /\ WorkStack' = <<m>> /\ LoopStack' = <<>>
    BY <1>1, <1>2, <1>6 DEF VisitRoot
  <2>2. m \in Unvisited /\ \A n \in Unvisited : m <= n
    <3>1. Unvisited \in SUBSET Nat
      BY <1>3 DEF Unvisited
    <3> QED BY <1>6, <3>1, MinFacts
  <2> HIDE DEF m
  <2>3. m \in Nodes /\ m \notin Deleted /\ Index[m] = UndefinedIndex
    BY <2>2 DEF Unvisited
  <2>4. TypesOfAnalysis'
    BY <1>1, <1>2, <1>3, <2>1, <2>3 DEF TypesOfAnalysis
  <2>5. /\ DOMAIN WorkStack' = {1} /\ WorkStack'[1] = m /\ Last(WorkStack') = m
    BY <2>1 DEF Last
  <2>6. IsPath(Index', Succ', Deleted', WorkStack', LoopStack')
    BY <1>1, <2>3, <2>5 DEF IsPath
  <2>7. ChildIsDone(Index', LowLink', Succ', WorkStack', LoopStack')
    BY <1>1, <2>3, <2>5 DEF ChildIsDone
  <2>8. Searching'
    BY <1>1, <1>4, <2>1, <2>6, <2>7, SearchingPrimed DEF Sorted, Linked
  <2>9. EntryFirst'
    <3>1. 1 \in Deleted \/ Index[1] = UndefinedIndex
      BY <1>1, <1>2 DEF EntryFirst
    <3>2. 1 \notin Deleted => m = 1
      BY <1>3, <2>2, <2>3, <3>1 DEF Unvisited
    <3> QED BY <1>1, <1>2, <2>1, <3>1, <3>2 DEF EntryFirst
  <2> QED BY <1>1, <2>4, <2>8, <2>9, LoopsPrimed DEF AnalysisInv
<1> QED BY <1>5, <1>6

LEMMA EndRoundsKeeps == ASSUME AnalysisInv, EndRounds PROVE AnalysisInv'
<1>1. pc = "round" /\ pc' = "info" /\ UNCHANGED <<f, tarjan, Loops, LoopInfo>>
  BY DEF EndRounds
<1>2. /\ UNCHANGED <<f, Index, LowLink, Succ, Deleted, NextIndex, WorkStack, LoopStack, NestDepth>>
      /\ Loops' = Loops /\ LoopInfo' = LoopInfo
  BY <1>1 DEF tarjan
<1>3. TypesOfAnalysis'
  BY <1>1, <1>2 DEF AnalysisInv, TypesOfAnalysis, Nodes, Loop
<1>4. Searching'
  BY <1>1, <1>2, SearchingPrimed DEF AnalysisInv, Searching
<1>5. EntryFirst'
  BY <1>1 DEF EntryFirst
<1> QED BY <1>2, <1>3, <1>4, <1>5, LoopsPrimed DEF AnalysisInv

LEMMA LongestEdges ==
  ASSUME TypesOfAnalysis
  PROVE  /\ Max({Len(Edges(m)) : m \in Nodes}) \in Nat
         /\ \A n \in Nodes : Len(Edges(n)) <= Max({Len(Edges(m)) : m \in Nodes})
<1> DEFINE lengths == {Len(Edges(m)) : m \in Nodes}
<1>1. lengths \in SUBSET Nat /\ lengths # {} /\ IsFiniteSet(lengths)
  <2>1. IsFiniteSet(Nodes)
    BY NodesAreFinite
  <2>2. lengths \in SUBSET Nat /\ lengths # {}
    <3>1. \A n \in Nodes : Len(Edges(n)) \in Nat
      BY EdgeFacts
    <3>2. 1 \in Nodes
      BY GraphOfF DEF IsGraph, Nodes
    <3> QED BY <3>1, <3>2
  <2> DEFINE g == [m \in Nodes |-> Len(Edges(m))]
  <2>3. g \in Surjection(Nodes, lengths)
    BY DEF Surjection
  <2> HIDE DEF g, lengths
  <2>4. IsFiniteSet(lengths)
    BY <2>1, <2>3, FS_Surjection
  <2> QED BY <2>2, <2>4
<1>2. \A n \in Nodes : Len(Edges(n)) \in lengths
  OBVIOUS
<1> HIDE DEF lengths
<1>3. Max(lengths) \in Nat /\ \A n \in Nodes : Len(Edges(n)) <= Max(lengths)
  BY <1>1, <1>2, MaxFacts
<1> QED BY <1>3 DEF lengths

(***************************************************************************)
(* An edge enters each loop: the nodes outside are not closed.             *)
(***************************************************************************)
LEMMA LoopIsEntered ==
  ASSUME TypesOfAnalysis, NEW body \in SUBSET Nodes, body # {}, 1 \notin body
  PROVE  EdgesInto(body) # {} /\ NewLoop(body) \in [Header : Nodes, PreHeader : Nodes, Body : {body}]
<1> DEFINE lengths == {Len(Edges(m)) : m \in Nodes}
<1>1. /\ \A n \in Nodes : /\ Edges(n) \in Seq(Nodes) /\ Len(Edges(n)) \in Nat
                          /\ DOMAIN Edges(n) = 1 .. Len(Edges(n))
                          /\ \A k \in DOMAIN Edges(n) : Edges(n)[k] \in Nodes
      /\ 1 \in Nodes
  <2>1. 1 \in Nodes
    BY GraphOfF DEF IsGraph, Nodes
  <2> QED BY <2>1, EdgeFacts
<1>2. PICK n \in Nodes \ body : ~(ToSet(Edges(n)) \subseteq Nodes \ body)
  <2>1. 1 \in Nodes \ body /\ Nodes \ body # Nodes
    BY <1>1
  <2> QED BY <2>1, GraphOfF DEF IsGraph, Nodes, Edges
<1>3. PICK k \in DOMAIN Edges(n) : Edges(n)[k] \in body
  BY <1>1, <1>2 DEF ToSet
<1>4. Max(lengths) \in Nat /\ Len(Edges(n)) <= Max(lengths)
  BY LongestEdges
<1> HIDE DEF lengths
<1>7. EdgesInto(body) = {e \in (Nodes \ body) \X (1 .. Max(lengths)) :
                           e[2] <= Len(Edges(e[1])) /\ Edges(e[1])[e[2]] \in body}
  BY DEF EdgesInto, lengths
<1>8. <<n, k>> \in EdgesInto(body)
  <2>1. k \in 1 .. Max(lengths) /\ k <= Len(Edges(n))
    BY <1>1, <1>3, <1>4
  <2> QED BY <1>2, <1>3, <1>7, <2>1
<1> DEFINE e == CHOOSE x \in EdgesInto(body) : TRUE
<1>9. e \in EdgesInto(body)
  BY <1>8
<1>10. NewLoop(body) = [Header |-> Edges(e[1])[e[2]], PreHeader |-> e[1], Body |-> body]
  BY DEF NewLoop
<1> HIDE DEF e
<1>11. e[1] \in Nodes /\ Edges(e[1])[e[2]] \in Nodes
  BY <1>7, <1>9
<1> QED BY <1>8, <1>10, <1>11

LEMMA AddLoopKeeps == ASSUME AnalysisInv, AddLoop PROVE AnalysisInv'
<1>1. /\ pc = "info" /\ UNCHANGED <<f, tarjan>>
  BY DEF AddLoop
<1>2. UNCHANGED <<f, Index, LowLink, Succ, Deleted, NextIndex, WorkStack, LoopStack, NestDepth>>
  BY <1>1 DEF tarjan
<1>3. TypesOfAnalysis /\ EntryInNoLoop /\ Nodes' = Nodes /\ Loop' = Loop
  BY <1>2 DEF AnalysisInv, Nodes, Loop
<1>4. PICK body \in Loops :
        /\ Loops' = Loops \ {body}
        /\ \/ ~IsSimpleLoop(body) /\ UNCHANGED <<LoopInfo, pc>>
           \/ /\ LoopInfo' = IF EdgesInto(body) = {} THEN LoopInfo ELSE Append(LoopInfo, NewLoop(body))
              /\ pc' = IF EdgesInto(body) = {} THEN "fatal" ELSE pc
  BY DEF AddLoop
<1>5. EdgesInto(body) # {} /\ NewLoop(body) \in Loop
  <2>1. body \in SUBSET Nodes /\ body # {} /\ 1 \notin body
    BY <1>3 DEF TypesOfAnalysis, EntryInNoLoop
  <2> QED BY <1>3, <2>1, LoopIsEntered DEF Loop
<1>6. /\ pc' = "info" /\ Loops' \subseteq Loops
      /\ LoopInfo' = LoopInfo \/ LoopInfo' = Append(LoopInfo, NewLoop(body))
  BY <1>1, <1>4, <1>5
<1>7. LoopInfo' \in Seq(Loop)
  <2>1. LoopInfo \in Seq(Loop)
    BY <1>3 DEF TypesOfAnalysis
  <2> QED BY <1>5, <1>6, <2>1
<1>8. TypesOfAnalysis'
  BY <1>2, <1>3, <1>6, <1>7 DEF TypesOfAnalysis
<1>9. Searching'
  BY <1>1, <1>2, <1>6, SearchingPrimed DEF AnalysisInv, Searching
<1>10. EntryFirst'
  BY <1>6 DEF EntryFirst
<1> QED BY <1>2, <1>6, <1>8, <1>9, <1>10, LoopsPrimed DEF AnalysisInv

-----------------------------------------------------------------------------
(***************************************************************************)
(* Selected.  In a finite set of numbers with more than j elements, one    *)
(* has j below it: the largest that has at most j.                         *)
(***************************************************************************)
LEMMA PlaceExists ==
  ASSUME NEW P \in SUBSET Nat, IsFiniteSet(P), NEW j \in Nat, j < Cardinality(P)
  PROVE  \E p \in P : Cardinality({q \in P : q < p}) = j
<1> DEFINE Under(p) == {q \in P : q < p}
           D == {p \in P : Cardinality(Under(p)) <= j}
<1>1. \A S \in SUBSET P : IsFiniteSet(S) /\ Cardinality(S) \in Nat /\ Cardinality(S) <= Cardinality(P)
  BY FS_Subset, FS_CardinalityType
<1>2. \A p \in P : Under(p) \in SUBSET P
  OBVIOUS
<1>3. D # {}
  <2>1. P # {}
    BY FS_EmptySet
  <2>2. PICK m \in P : \A k \in P : m <= k
    BY <2>1, SmallestNumber
  <2>3. Under(m) = {}
    <3>1. \A q \in P : ~(q < m)
      BY <2>2
    <3> QED BY <3>1
  <2>4. Cardinality(Under(m)) = 0
    BY <2>3, FS_EmptySet
  <2> QED BY <2>4
<1>4. D \in SUBSET P
  OBVIOUS
<1> HIDE DEF D
<1>5. D \in SUBSET Nat /\ IsFiniteSet(D)
  BY <1>1, <1>4
<1>6. PICK p \in D : \A k \in D : k <= p
  BY <1>3, <1>5, MaxFacts
<1>7. p \in P /\ Cardinality(Under(p)) \in Nat /\ Cardinality(Under(p)) <= j
  BY <1>1, <1>2, <1>4 DEF D
<1>8. ASSUME Cardinality(Under(p)) < j PROVE FALSE
  <2> DEFINE Rest == {q \in P : p < q}
  <2>1. IsFiniteSet(Under(p)) /\ Cardinality(Under(p) \cup {p}) = Cardinality(Under(p)) + 1
    <3>1. IsFiniteSet(Under(p)) /\ p \notin Under(p)
      BY <1>1, <1>2, <1>7
    <3> HIDE DEF Under
    <3> QED BY <3>1, FS_AddElement
  <2>2. Rest # {}
    <3>1. SUFFICES ASSUME Rest = {} PROVE FALSE
      OBVIOUS
    <3>2. \A q \in P : q <= p
      BY <1>7, <3>1
    <3>3. P = Under(p) \cup {p}
      <4>1. \A q \in P : q < p \/ q = p
        BY <1>7, <3>2
      <4> QED BY <1>7, <4>1
    <3>4. Cardinality(P) \in Nat
      BY <1>1
    <3> QED BY <1>7, <1>8, <2>1, <3>3, <3>4
  <2>3. PICK r \in Rest : \A k \in Rest : r <= k
    <3>1. Rest \in SUBSET Nat
      OBVIOUS
    <3> HIDE DEF Rest
    <3> QED BY <2>2, <3>1, SmallestNumber
  <2>4. r \in P /\ p < r
    OBVIOUS
  <2>5. Under(r) = Under(p) \cup {p}
    <3>1. \A q \in P : q < r => q <= p
      BY <1>7, <2>3, <2>4
    <3>2. \A q \in P : q < r <=> q < p \/ q = p
      <4>1. \A q \in P : q \in Nat
        OBVIOUS
      <4> QED BY <1>7, <2>4, <3>1, <4>1
    <3> QED BY <1>7, <3>2
  <2>6. r \in D
    BY <1>7, <1>8, <2>1, <2>4, <2>5 DEF D
  <2> QED BY <1>6, <1>7, <2>4, <2>6
<1> QED BY <1>7, <1>8

LEMMA SelectedType ==
  ASSUME NEW S, NEW s, NEW P \in SUBSET Nat, IsFiniteSet(P), \A p \in P : s[p] \in S
  PROVE  Selected(s, P) \in Seq(S)
<1> DEFINE Has(p, k) == Cardinality({q \in P : q < p}) = k - 1
<1>1. Cardinality(P) \in Nat
  BY FS_CardinalityType
<1>2. ASSUME NEW k \in 1 .. Cardinality(P)
      PROVE  (CHOOSE p \in P : Cardinality({q \in P : q < p}) = k - 1) \in P
  <2>1. k - 1 \in Nat /\ k - 1 < Cardinality(P)
    BY <1>1
  <2>2. \E p \in P : Cardinality({q \in P : q < p}) = k - 1
    BY <2>1, PlaceExists
  <2> QED BY <2>2
<1>3. Selected(s, P) \in [1 .. Cardinality(P) -> S]
  BY <1>2 DEF Selected
<1> QED BY <1>1, <1>3

-----------------------------------------------------------------------------
(***************************************************************************)
(* The code motion.                                                        *)
(***************************************************************************)
MotionTypes ==
  /\ Insts \in [Nodes -> Seq(Code)]
  /\ next \in 1 .. Len(LoopInfo) + 1

TypeInv == AnalysisInv /\ MotionTypes

LEMMA CodeFacts ==
  ASSUME TypesOfAnalysis
  PROVE  /\ Code \subseteq Nat
         /\ IsFiniteSet(Code)
         /\ \A S \in SUBSET Code : ByNumber(S) \in Seq(Code)
<1>1. f.code \in Seq({f.code[i] : i \in DOMAIN f.code})
  BY CodeAssumption DEF TypesOfAnalysis
<1>2. Len(f.code) \in Nat /\ Code = 1 .. Len(f.code)
  BY <1>1 DEF Code
<1>3. Code \subseteq Nat /\ IsFiniteSet(Code)
  BY <1>2, FS_Interval
<1>4. ASSUME NEW S \in SUBSET Code PROVE ByNumber(S) \in Seq(Code)
  <2>1. IsFiniteSet(S) /\ S \in SUBSET Nat
    BY <1>3, FS_Subset
  <2> DEFINE s == [i \in Code |-> i]
  <2>2. \A p \in S : s[p] \in Code
    OBVIOUS
  <2> HIDE DEF s
  <2>3. Selected(s, S) \in Seq(Code)
    BY <2>1, <2>2, SelectedType
  <2> QED BY <2>3 DEF ByNumber, s
<1> QED BY <1>3, <1>4

LEMMA InitEstablishesTypeInv == ASSUME InitMotion PROVE TypeInv
<1>1. AnalysisInv /\ LoopInfo = <<>> /\ next = 1 /\ Insts = [n \in Nodes |-> CodeOf(n)]
  BY InitEstablishes DEF InitMotion, Init
<1>2. \A n \in Nodes : CodeOf(n) \in Seq(Code)
  <2>1. \A n \in Nodes : {i \in Code : f.code[i].node = n} \in SUBSET Code
    OBVIOUS
  <2> QED BY <1>1, <2>1, CodeFacts DEF AnalysisInv, CodeOf
<1> QED BY <1>1, <1>2 DEF TypeInv, MotionTypes

LEMMA AnalyzeKeepsTypeInv ==
  ASSUME TypeInv, Analyze, UNCHANGED <<Insts, next>>
  PROVE  TypeInv'
<1>1. AnalysisInv'
  BY StartRoundKeeps, EndRoundsKeeps, VisitRootKeeps, ProcessNodeKeeps, AddLoopKeeps DEF Analyze, TypeInv
<1>2. f' = f
  BY ProcessNodeParts DEF Analyze, StartRound, EndRounds, VisitRoot, AddLoop
<1>3. LoopInfo' = LoopInfo \/ \E loop \in Loop : LoopInfo' = Append(LoopInfo, loop)
  <2>1. CASE AddLoop
    <3>1. PICK body \in Loops :
            \/ LoopInfo' = LoopInfo
            \/ EdgesInto(body) # {} /\ LoopInfo' = Append(LoopInfo, NewLoop(body))
      BY <2>1 DEF AddLoop
    <3>2. NewLoop(body) \in Loop
      <4>1. body \in SUBSET Nodes /\ body # {} /\ 1 \notin body /\ TypesOfAnalysis
        BY DEF TypeInv, AnalysisInv, TypesOfAnalysis, EntryInNoLoop
      <4> QED BY <4>1, LoopIsEntered DEF Loop
    <3> QED BY <3>1, <3>2
  <2>2. CASE StartRound \/ EndRounds \/ VisitRoot \/ ProcessNode
    BY <2>2, ProcessNodeParts DEF StartRound, EndRounds, VisitRoot
  <2> QED BY <2>1, <2>2 DEF Analyze
<1>4. LoopInfo \in Seq(Loop) /\ next \in 1 .. Len(LoopInfo) + 1 /\ Insts \in [Nodes -> Seq(Code)]
  BY DEF TypeInv, MotionTypes, AnalysisInv, TypesOfAnalysis
<1>5. Len(LoopInfo) \in Nat /\ (Len(LoopInfo') = Len(LoopInfo) \/ Len(LoopInfo') = Len(LoopInfo) + 1)
  BY <1>3, <1>4
<1>6. next' \in 1 .. Len(LoopInfo') + 1
  BY <1>4, <1>5
<1>7. Insts' \in [Nodes' -> Seq(Code')]
  BY <1>2, <1>4 DEF Nodes, Code
<1> QED BY <1>1, <1>6, <1>7 DEF TypeInv, MotionTypes

LEMMA StutterKeepsAnalysisInv == ASSUME AnalysisInv, UNCHANGED vars PROVE AnalysisInv'
BY DEF vars, tarjan, AnalysisInv, TypesOfAnalysis, Searching, Sorted, Linked, IsPath, ChildIsDone,
       EntryFirst, EntryInNoLoop, DepthIsBounded, Nodes, Loop, Edges

LEMMA MoveInvariantsKeepsTypeInv == ASSUME TypeInv, MoveInvariants PROVE TypeInv'
<1> DEFINE loop == LoopInfo[next]
           moved == InvariantInsts(loop.Body)
<1>1. /\ next <= Len(LoopInfo) /\ next' = next + 1 /\ UNCHANGED vars
      /\ Insts' = [n \in Nodes |->
                     IF n = loop.PreHeader THEN Insts[n] \o ByNumber(moved)
                     ELSE Selected(Insts[n], {k \in DOMAIN Insts[n] : Insts[n][k] \notin moved})]
  BY DEF MoveInvariants
<1>2. /\ TypesOfAnalysis /\ LoopInfo \in Seq(Loop) /\ next \in 1 .. Len(LoopInfo) + 1
      /\ Insts \in [Nodes -> Seq(Code)]
  BY DEF TypeInv, MotionTypes, AnalysisInv, TypesOfAnalysis
<1>3. f' = f /\ LoopInfo' = LoopInfo
  BY <1>1 DEF vars
<1>4. next' \in 1 .. Len(LoopInfo') + 1
  <2>1. Len(LoopInfo) \in Nat
    BY <1>2
  <2> QED BY <1>1, <1>2, <1>3, <2>1
<1>5. moved \subseteq Code
  <2>1. loop \in Loop
    BY <1>1, <1>2
  <2>2. loop.Body \subseteq Nodes
    BY <2>1 DEF Loop
  <2>3. \A n \in Nodes : ToSet(Insts[n]) \subseteq Code
    BY <1>2 DEF ToSet
  <2> QED BY <2>2, <2>3 DEF InvariantInsts, MovableInsts
<1> HIDE DEF moved, loop
<1>6. ASSUME NEW n \in Nodes
      PROVE  /\ Insts[n] \o ByNumber(moved) \in Seq(Code)
             /\ Selected(Insts[n], {k \in DOMAIN Insts[n] : Insts[n][k] \notin moved}) \in Seq(Code)
  <2>1. Insts[n] \in Seq(Code) /\ ByNumber(moved) \in Seq(Code)
    BY <1>2, <1>5, CodeFacts
  <2>2. Insts[n] \o ByNumber(moved) \in Seq(Code)
    BY <2>1
  <2> DEFINE P == {k \in DOMAIN Insts[n] : Insts[n][k] \notin moved}
  <2>3. /\ P \in SUBSET (1 .. Len(Insts[n])) /\ Len(Insts[n]) \in Nat
        /\ \A p \in P : Insts[n][p] \in Code
    BY <2>1
  <2> HIDE DEF P
  <2>4. IsFiniteSet(P) /\ P \in SUBSET Nat
    <3> DEFINE len == Len(Insts[n])
               I == 1 .. len
    <3>1. len \in Int /\ P \in SUBSET I /\ I \in SUBSET Nat
      BY <2>3
    <3> HIDE DEF len
    <3>2. IsFiniteSet(I)
      BY <3>1, FS_Interval
    <3> HIDE DEF I
    <3>3. IsFiniteSet(P)
      BY <3>1, <3>2, FS_Subset
    <3> QED BY <3>1, <3>3
  <2>5. Selected(Insts[n], P) \in Seq(Code)
    BY <2>3, <2>4, SelectedType
  <2> QED BY <2>2, <2>5 DEF P
<1>7. Insts' \in [Nodes -> Seq(Code)]
  BY <1>1, <1>6
<1>8. Insts' \in [Nodes' -> Seq(Code')]
  BY <1>3, <1>7 DEF Nodes, Code
<1>9. AnalysisInv'
  BY <1>1, StutterKeepsAnalysisInv DEF TypeInv
<1> QED BY <1>4, <1>8, <1>9 DEF TypeInv, MotionTypes

LEMMA EndMotionKeepsTypeInv == ASSUME TypeInv, EndMotion PROVE TypeInv'
<1>1. /\ pc = "info" /\ pc' = "done"
      /\ UNCHANGED <<f, Index, LowLink, Succ, Deleted, NextIndex, WorkStack, LoopStack, NestDepth,
                     Loops, LoopInfo, Insts, next>>
  BY DEF EndMotion, tarjan
<1>2. AnalysisInv
  BY DEF TypeInv
<1>3. TypesOfAnalysis'
  BY <1>1, <1>2 DEF AnalysisInv, TypesOfAnalysis, Nodes, Loop
<1>4. Searching'
  BY <1>1, <1>2, SearchingPrimed DEF AnalysisInv, Searching
<1>5. EntryFirst'
  BY <1>1 DEF EntryFirst
<1>6. AnalysisInv'
  BY <1>1, <1>2, <1>3, <1>4, <1>5, LoopsPrimed DEF AnalysisInv
<1>7. MotionTypes'
  BY <1>1 DEF TypeInv, MotionTypes, Nodes, Code
<1> QED BY <1>6, <1>7 DEF TypeInv

LEMMA TypeInvImpliesTypeOK == ASSUME TypeInv PROVE TypeOK
<1>1. TypesOfAnalysis /\ Searching /\ DepthIsBounded /\ MotionTypes
  BY DEF TypeInv, AnalysisInv
<1>2. IsInjective(WorkStack)
  <2>1. WorkStack \in Seq(Nodes) /\ Index \in [Nodes -> Nat]
        /\ IsPath(Index, Succ, Deleted, WorkStack, LoopStack)
    BY <1>1 DEF TypesOfAnalysis, Searching
  <2>2. ASSUME NEW k \in DOMAIN WorkStack, NEW m \in DOMAIN WorkStack, k < m
        PROVE  WorkStack[k] # WorkStack[m]
    <3>1. Index[WorkStack[k]] \in Nat
      BY <2>1
    <3> QED BY <2>1, <2>2, <3>1 DEF IsPath
  <2>3. \A k, m \in DOMAIN WorkStack : k = m \/ k < m \/ m < k
    BY <2>1
  <2> QED BY <2>2, <2>3 DEF IsInjective
<1>3. IsInjective(LoopStack)
  <2>1. LoopStack \in Seq(Nodes) /\ Index \in [Nodes -> Nat] /\ Sorted(Index, LoopStack)
    BY <1>1 DEF TypesOfAnalysis, Searching
  <2>2. ASSUME NEW k \in DOMAIN LoopStack, NEW m \in DOMAIN LoopStack, k < m
        PROVE  LoopStack[k] # LoopStack[m]
    <3>1. Index[LoopStack[k]] \in Nat
      BY <2>1
    <3> QED BY <2>1, <2>2, <3>1 DEF Sorted
  <2>3. \A k, m \in DOMAIN LoopStack : k = m \/ k < m \/ m < k
    BY <2>1
  <2> QED BY <2>2, <2>3 DEF IsInjective
<1>4. NestDepth \in [Nodes -> 0 .. f.nodes]
  <2>1. Cardinality(Deleted) \in Nat /\ Cardinality(Deleted) <= f.nodes /\ f.nodes \in Nat
    BY <1>1, NodesAreFinite, GraphOfF DEF TypesOfAnalysis, IsGraph
  <2>2. NestDepth \in [Nodes -> Nat] /\ \A n \in Nodes : NestDepth[n] <= Cardinality(Deleted)
    BY <1>1 DEF TypesOfAnalysis, DepthIsBounded
  <2>3. \A n \in Nodes : NestDepth[n] \in 0 .. f.nodes
    BY <2>1, <2>2
  <2> QED BY <2>2, <2>3
<1> QED BY <1>1, <1>2, <1>3, <1>4 DEF TypeOK, TypesOfAnalysis, Searching, MotionTypes, Loop

(***************************************************************************)
(* For every function: the types of LoopAnalyzer's variables; both stacks  *)
(* are without repetition, and empty between rounds; the nest depth of a   *)
(* node is at most the number of rounds that deleted a node; every loop    *)
(* that is added has an edge into it, so the analysis never reaches its    *)
(* fatal error; and instructions are moved within the function's code.     *)
(***************************************************************************)
THEOREM TypeCorrect == Spec => []TypeOK
<1>1. InitMotion => TypeInv
  BY InitEstablishesTypeInv
<1>2. TypeInv /\ [Next]_allVars => TypeInv'
  <2>1. SUFFICES ASSUME TypeInv, [Next]_allVars PROVE TypeInv'
    OBVIOUS
  <2>2. CASE Analyze /\ UNCHANGED <<Insts, next>>
    BY <2>1, <2>2, AnalyzeKeepsTypeInv
  <2>3. CASE MoveInvariants
    BY <2>1, <2>3, MoveInvariantsKeepsTypeInv
  <2>4. CASE EndMotion
    BY <2>1, <2>4, EndMotionKeepsTypeInv
  <2>5. CASE UNCHANGED allVars
    <3>1. UNCHANGED <<vars, f, LoopInfo, Insts, next>>
      BY <2>5 DEF allVars, vars
    <3>2. AnalysisInv'
      BY <2>1, <3>1, StutterKeepsAnalysisInv DEF TypeInv
    <3> QED BY <2>1, <3>1, <3>2 DEF TypeInv, MotionTypes, Nodes, Code
  <2> QED BY <2>1, <2>2, <2>3, <2>4, <2>5 DEF Next, Terminated
<1>3. TypeInv => TypeOK
  BY TypeInvImpliesTypeOK
<1> QED BY <1>1, <1>2, <1>3, PTL DEF Spec

-----------------------------------------------------------------------------

(***************************************************************************)
(* A definition by recursion over the first numbers, for a set that grows  *)
(* within a finite one: after as many steps as there are elements it is    *)
(* closed, and it stays within each closed set that it starts in.          *)
(***************************************************************************)
IsPart(g, m, b, F) == g[0] = b /\ \A k \in 1 .. m : g[k] = F[g[k - 1]]

LEMMA PartIsWithin ==
  ASSUME NEW C, NEW F, \A X \in C : F[X] \in C,
         NEW m \in Nat, NEW b \in C, NEW g, IsPart(g, m, b, F)
  PROVE  \A k \in 0 .. m : g[k] \in C
<1> DEFINE Bad == {k \in 0 .. m : g[k] \notin C}
<1> SUFFICES ASSUME Bad # {} PROVE FALSE
  OBVIOUS
<1>1. PICK k \in Bad : \A d \in Bad : k <= d
  <2>1. Bad \in SUBSET Nat
    OBVIOUS
  <2> HIDE DEF Bad
  <2> QED BY <2>1, SmallestNumber
<1>2. k \in Nat /\ k <= m /\ g[k] \notin C
  BY <1>1
<1>3. k # 0
  BY <1>2 DEF IsPart
<1>4. k \in 1 .. m /\ k - 1 \in 0 .. m /\ k - 1 < k
  BY <1>2, <1>3
<1>5. g[k - 1] \in C
  <2>1. k - 1 \notin Bad
    BY <1>1, <1>2, <1>4
  <2> QED BY <1>4, <2>1
<1> QED BY <1>2, <1>4, <1>5 DEF IsPart

GrowsWithin(g, m, b, F, U) ==
  /\ IsFiniteSet(U) /\ m \in Nat /\ Cardinality(U) <= m
  /\ b \in SUBSET U /\ F \in [SUBSET U -> SUBSET U]
  /\ \A X \in SUBSET U : X \subseteq F[X]
  /\ IsPart(g, m, b, F)

LEMMA PartIsClosed ==
  ASSUME NEW g, NEW m, NEW b, NEW F, NEW U, GrowsWithin(g, m, b, F, U)
  PROVE  g[m] \in SUBSET U /\ F[g[m]] = g[m]
<1> DEFINE T == SUBSET U
<1>0. /\ IsFiniteSet(U) /\ m \in Nat /\ Cardinality(U) <= m
      /\ b \in T /\ F \in [T -> T] /\ \A X \in T : X \subseteq F[X]
      /\ IsPart(g, m, b, F) /\ T = SUBSET U
  BY DEF GrowsWithin
<1> HIDE DEF T
<1>1. \A k \in 0 .. m : g[k] \in T
  <2>1. \A X \in T : F[X] \in T
    BY <1>0
  <2> QED BY <1>0, <2>1, PartIsWithin
<1>2. \A k \in 0 .. m : /\ g[k] \subseteq U /\ IsFiniteSet(g[k])
                        /\ Cardinality(g[k]) \in Nat /\ Cardinality(g[k]) <= Cardinality(U)
  <2>1. \A X \in SUBSET U : /\ IsFiniteSet(X) /\ Cardinality(X) \in Nat
                            /\ Cardinality(X) <= Cardinality(U)
    BY <1>0, FS_Subset, FS_CardinalityType
  <2> QED BY <1>0, <1>1, <2>1
<1>3. \A k \in 1 .. m : k - 1 \in 0 .. m /\ k \in 0 .. m /\ g[k] = F[g[k - 1]] /\ g[k - 1] \subseteq g[k]
  <2>1. ASSUME NEW k \in 1 .. m PROVE k - 1 \in 0 .. m /\ k \in 0 .. m /\ g[k] = F[g[k - 1]]
    BY <1>0 DEF IsPart
  <2> QED BY <1>0, <1>1, <2>1
<1> SUFFICES ASSUME F[g[m]] # g[m] PROVE FALSE
  BY <1>0, <1>1
<1>4. \A k \in 0 .. m : F[g[k]] # g[k]
  <2> DEFINE Rest == {d \in 0 .. m : F[g[m - d]] = g[m - d]}
  <2> SUFFICES ASSUME NEW k \in 0 .. m, F[g[k]] = g[k] PROVE FALSE
    OBVIOUS
  <2>1. Rest # {} /\ Rest \in SUBSET Nat
    <3>1. m - k \in 0 .. m /\ m - (m - k) = k
      BY <1>0
    <3> QED BY <3>1
  <2>2. PICK d \in Rest : \A e \in Rest : d <= e
    <3> HIDE DEF Rest
    <3> QED BY <2>1, SmallestNumber
  <2>3. d \in 0 .. m /\ F[g[m - d]] = g[m - d]
    BY <2>2
  <2>4. d # 0
    BY <1>0, <2>3
  <2> DEFINE n == m - d
  <2>5. n + 1 \in 1 .. m /\ (n + 1) - 1 = n /\ d - 1 \in 0 .. m /\ m - (d - 1) = n + 1 /\ d - 1 < d
    BY <1>0, <2>3, <2>4
  <2>6. g[n + 1] = g[n]
    <3>1. g[n + 1] = F[g[n]]
      BY <1>3, <2>5
    <3> QED BY <2>3, <3>1
  <2>7. d - 1 \in Rest
    BY <2>3, <2>5, <2>6
  <2> QED BY <2>2, <2>3, <2>5, <2>7
<1>5. \A k \in 0 .. m : k <= Cardinality(g[k])
  <2> DEFINE Bad == {k \in 0 .. m : ~(k <= Cardinality(g[k]))}
  <2> SUFFICES ASSUME Bad # {} PROVE FALSE
    OBVIOUS
  <2>1. PICK k \in Bad : \A d \in Bad : k <= d
    <3>1. Bad \in SUBSET Nat
      OBVIOUS
    <3> HIDE DEF Bad
    <3> QED BY <3>1, SmallestNumber
  <2>2. k \in 0 .. m /\ ~(k <= Cardinality(g[k]))
    BY <2>1
  <2>3. k # 0
    BY <1>2, <2>2
  <2>4. k \in 1 .. m /\ k - 1 \in 0 .. m /\ k - 1 < k
    BY <1>0, <2>2, <2>3
  <2>5. k - 1 <= Cardinality(g[k - 1])
    <3>1. k - 1 \notin Bad
      BY <2>1, <2>2, <2>4
    <3> QED BY <2>4, <3>1
  <2>6. g[k - 1] \subseteq g[k] /\ g[k - 1] # g[k]
    BY <1>3, <1>4, <2>4
  <2>7. Cardinality(g[k - 1]) <= Cardinality(g[k]) /\ Cardinality(g[k - 1]) # Cardinality(g[k])
    BY <1>2, <2>2, <2>6, FS_Subset
  <2> QED BY <1>2, <2>2, <2>4, <2>5, <2>7
<1>6. m \in 0 .. m
  BY <1>0
<1>7. Cardinality(g[m]) = Cardinality(U)
  <2>1. Cardinality(U) \in Nat
    BY <1>0, FS_CardinalityType
  <2> QED BY <1>0, <1>2, <1>5, <1>6, <2>1
<1>8. g[m] = U
  BY <1>0, <1>2, <1>6, <1>7, FS_Subset
<1>9. F[U] \in T /\ U \subseteq F[U]
  BY <1>0
<1> QED BY <1>0, <1>8, <1>9

(***************************************************************************)
(* Such a definition has a value.                                          *)
(***************************************************************************)
LEMMA PartExists ==
  ASSUME NEW b, NEW F
  PROVE  \A m \in Nat : \E g : IsPart(g, m, b, F)
<1> DEFINE Missing == {m \in Nat : ~ \E g : IsPart(g, m, b, F)}
<1> SUFFICES ASSUME Missing # {} PROVE FALSE
  OBVIOUS
<1>1. PICK m \in Missing : \A k \in Missing : m <= k
  <2>1. Missing \in SUBSET Nat
    OBVIOUS
  <2> HIDE DEF Missing
  <2> QED BY <2>1, SmallestNumber
<1>2. m \in Nat /\ ~ \E g : IsPart(g, m, b, F)
  BY <1>1
<1>3. CASE m = 0
  <2> DEFINE g == [k \in {0} |-> b]
  <2>1. g[0] = b /\ 1 .. m = {}
    BY <1>3
  <2>2. IsPart(g, m, b, F)
    BY <2>1 DEF IsPart
  <2> QED BY <1>2, <2>2
<1>4. CASE m # 0
  <2>1. m - 1 \in Nat /\ m - 1 \notin Missing
    BY <1>1, <1>2, <1>4
  <2>2. PICK h : IsPart(h, m - 1, b, F)
    BY <2>1
  <2> DEFINE last == F[h[m - 1]]
             g == [k \in 0 .. m |-> IF k = m THEN last ELSE h[k]]
  <2> HIDE DEF last
  <2>3. g[0] = b
    BY <1>2, <1>4, <2>2 DEF IsPart
  <2>4. ASSUME NEW k \in 1 .. m PROVE g[k] = F[g[k - 1]]
    <3>1. k - 1 \in 0 .. m /\ k - 1 # m /\ k \in 0 .. m
      BY <1>2
    <3>2. g[k - 1] = h[k - 1]
      BY <3>1
    <3>3. CASE k = m
      BY <3>1, <3>2, <3>3 DEF last
    <3>4. CASE k # m
      <4>1. k \in 1 .. m - 1
        BY <1>2, <3>4
      <4>2. h[k] = F[h[k - 1]]
        BY <2>2, <4>1 DEF IsPart
      <4>3. g[k] = h[k]
        BY <3>1, <3>4
      <4> QED BY <3>2, <4>2, <4>3
    <3> QED BY <3>3, <3>4
  <2> HIDE DEF g
  <2>5. IsPart(g, m, b, F)
    BY <2>3, <2>4 DEF IsPart
  <2> QED BY <1>2, <2>5
<1> QED BY <1>3, <1>4

(***************************************************************************)
(* The nodes that paths from the nodes of B reach without the node d: the  *)
(* smallest set with B, but for d, that edges to other nodes than d do not *)
(* leave.                                                                  *)
(***************************************************************************)
ClosedFrom(S, B, d) ==
  /\ S \subseteq Nodes /\ d \notin S
  /\ B \ {d} \subseteq S
  /\ \A n \in S : \A k \in DOMAIN Edges(n) : Edges(n)[k] = d \/ Edges(n)[k] \in S

LEMMA ReachableFacts ==
  ASSUME TypesOfAnalysis, NEW B \in SUBSET Nodes, NEW d
  PROVE  /\ ClosedFrom(ReachableFrom(B, {d}), B, d)
         /\ \A S : ClosedFrom(S, B, d) => ReachableFrom(B, {d}) \subseteq S
<1> DEFINE U == Nodes
           T == SUBSET U
           Grown(X) == X \cup ((UNION {ToSet(Edges(n)) : n \in X}) \ {d})
           F == [X \in T |-> Grown(X)]
           b == B \ {d}
           N == f.nodes
           IsReach(h) == h = [k \in 0 .. N |-> IF k = 0 THEN b ELSE Grown(h[k - 1])]
           R == CHOOSE h : IsReach(h)
<1>1. /\ N \in Nat /\ IsFiniteSet(U) /\ Cardinality(U) <= N /\ 1 \in U
      /\ \A n \in U : \A k \in DOMAIN Edges(n) : Edges(n)[k] \in U
  <2>1. N \in Nat \ {0} /\ 1 \in U
    BY GraphOfF DEF IsGraph, Nodes
  <2>2. \A n \in Nodes : \A k \in DOMAIN Edges(n) : Edges(n)[k] \in Nodes
    BY EdgeFacts
  <2> QED BY <2>1, <2>2, NodesAreFinite
<1>2. b \in T /\ F \in [T -> T] /\ \A X \in T : X \subseteq F[X] /\ F[X] = Grown(X)
  <2>1. ASSUME NEW X \in T PROVE Grown(X) \in T
    <3>1. \A n \in X : ToSet(Edges(n)) \subseteq U
      BY <1>1 DEF ToSet
    <3> QED BY <3>1
  <2> QED BY <1>1, <2>1
<1>3. ReachableFrom(B, {d}) = R[N]
  BY Zenon DEF ReachableFrom
<1>4. PICK g : IsPart(g, N, b, F)
  <2> HIDE DEF F, b, N
  <2> QED BY <1>1, PartExists
<1>5. \A k \in 0 .. N : g[k] \in T
  <2>1. \A X \in T : F[X] \in T
    BY <1>2
  <2> HIDE DEF F, b, N, T
  <2> QED BY <1>1, <1>2, <1>4, <2>1, PartIsWithin
<1>6. \E h : IsReach(h)
  <2> DEFINE h == [k \in 0 .. N |-> g[k]]
  <2>1. \A k \in 0 .. N : k # 0 => k \in 1 .. N /\ k - 1 \in 0 .. N
    BY <1>1
  <2>2. \A k \in 0 .. N : g[k] = IF k = 0 THEN b ELSE Grown(g[k - 1])
    <3> HIDE DEF Grown, b
    <3> QED BY <1>2, <1>4, <1>5, <2>1 DEF IsPart
  <2>3. \A k \in 0 .. N : h[k] = IF k = 0 THEN b ELSE Grown(h[k - 1])
    <3> HIDE DEF Grown, b
    <3> QED BY <2>1, <2>2
  <2>4. IsReach(h)
    <3> HIDE DEF Grown, b
    <3> QED BY <2>1, <2>3
  <2> HIDE DEF h, IsReach
  <2> QED BY <2>4
<1>7. IsReach(R)
  <2> HIDE DEF IsReach
  <2> QED BY <1>6
<1> HIDE DEF R
<1>8. IsPart(R, N, b, F)
  <2>1. \A k \in 0 .. N : R[k] = IF k = 0 THEN b ELSE Grown(R[k - 1])
    BY <1>7
  <2>2. R[0] = b
    <3> HIDE DEF b, Grown
    <3> QED BY <1>1, <2>1
  <2>3. \A k \in 0 .. N : R[k] \in T
    <3> DEFINE Bad == {k \in 0 .. N : R[k] \notin T}
    <3> SUFFICES ASSUME Bad # {} PROVE FALSE
      OBVIOUS
    <3>1. PICK k \in Bad : \A e \in Bad : k <= e
      <4>1. Bad \in SUBSET Nat
        OBVIOUS
      <4> HIDE DEF Bad
      <4> QED BY <4>1, SmallestNumber
    <3>2. k \in 0 .. N /\ k # 0
      BY <1>2, <2>2, <3>1
    <3>3. k - 1 \in 0 .. N /\ k - 1 < k
      BY <1>1, <3>2
    <3>4. R[k - 1] \in T
      <4>1. k - 1 \notin Bad
        BY <3>1, <3>2, <3>3
      <4> QED BY <3>3, <4>1
    <3>5. R[k] = Grown(R[k - 1])
      <4> HIDE DEF Grown, b
      <4> QED BY <2>1, <3>2
    <3>6. R[k] = F[R[k - 1]] /\ F[R[k - 1]] \in T
      <4> HIDE DEF Grown
      <4> QED BY <1>2, <3>4, <3>5
    <3> QED BY <3>1, <3>6
  <2>4. ASSUME NEW k \in 1 .. N PROVE R[k] = F[R[k - 1]]
    <3>1. k \in 0 .. N /\ k # 0 /\ k - 1 \in 0 .. N
      BY <1>1
    <3> HIDE DEF Grown, b
    <3> QED BY <1>2, <2>1, <2>3, <3>1
  <2> QED BY <2>2, <2>4 DEF IsPart
<1>9. R[N] \in T /\ F[R[N]] = R[N]
  <2>1. GrowsWithin(R, N, b, F, U)
    <3> HIDE DEF F, b, N, U
    <3> QED BY <1>1, <1>2, <1>8 DEF GrowsWithin
  <2> HIDE DEF F, b, N, U
  <2> QED BY <2>1, PartIsClosed
<1>10. b \subseteq R[N] /\ d \notin R[N]
  <2> DEFINE C == {X \in T : b \subseteq X /\ d \notin X}
  <2>1. \A X \in C : F[X] \in C
    BY <1>2
  <2>2. b \in C
    BY <1>2
  <2> HIDE DEF C, F, b, N
  <2>3. R[N] \in C
    <3>1. \A k \in 0 .. N : R[k] \in C
      BY <1>1, <1>8, <2>1, <2>2, PartIsWithin
    <3> QED BY <1>1, <3>1
  <2> QED BY <2>3 DEF C
<1>11. ClosedFrom(R[N], B, d)
  <2>1. \A n \in R[N] : \A k \in DOMAIN Edges(n) : Edges(n)[k] = d \/ Edges(n)[k] \in R[N]
    <3>1. Grown(R[N]) = R[N]
      BY <1>2, <1>9
    <3> QED BY <3>1 DEF ToSet
  <2> QED BY <1>9, <1>10, <2>1 DEF ClosedFrom
<1>12. ASSUME NEW S, ClosedFrom(S, B, d) PROVE R[N] \subseteq S
  <2> DEFINE C == SUBSET S
  <2>1. \A X \in C : F[X] \in C
    <3>1. S \in T
      BY <1>12 DEF ClosedFrom
    <3>2. ASSUME NEW X \in C PROVE Grown(X) \in C
      <4>1. \A n \in X : ToSet(Edges(n)) \ {d} \subseteq S
        BY <1>12 DEF ClosedFrom, ToSet
      <4> QED BY <4>1
    <3> QED BY <1>2, <3>1, <3>2
  <2>2. b \in C
    BY <1>12 DEF ClosedFrom
  <2> HIDE DEF C, F, b, N
  <2>3. R[N] \in C
    <3>1. \A k \in 0 .. N : R[k] \in C
      BY <1>1, <1>8, <2>1, <2>2, PartIsWithin
    <3> QED BY <1>1, <3>1
  <2> QED BY <2>3 DEF C
<1> QED BY <1>3, <1>11, <1>12

(***************************************************************************)
(* From the entry.                                                         *)
(***************************************************************************)
Without(d) == ReachableFrom({1}, {d})
ClosedWithout(S, d) ==
  /\ S \subseteq Nodes /\ d \notin S
  /\ 1 # d => 1 \in S
  /\ \A n \in S : \A k \in DOMAIN Edges(n) : Edges(n)[k] = d \/ Edges(n)[k] \in S

LEMMA WithoutFacts ==
  ASSUME TypesOfAnalysis, NEW d
  PROVE  /\ ClosedWithout(Without(d), d)
         /\ \A S : ClosedWithout(S, d) => Without(d) \subseteq S
<1>1. {1} \in SUBSET Nodes
  BY GraphOfF DEF IsGraph, Nodes
<1>2. \A S : ClosedWithout(S, d) <=> ClosedFrom(S, {1}, d)
  BY DEF ClosedWithout, ClosedFrom
<1> QED BY <1>1, <1>2, ReachableFacts DEF Without

(***************************************************************************)
(* Domination.  The node before a loop dominates the nodes of the loop,    *)
(* which all paths enter from there; none of them dominates it; and        *)
(* domination is transitive.                                               *)
(***************************************************************************)
IsEntered(loop) ==
  /\ loop.Body \subseteq Nodes /\ 1 \notin loop.Body
  /\ loop.PreHeader \in Nodes \ loop.Body
  /\ \A n \in Nodes \ loop.Body : \A k \in DOMAIN Edges(n) :
       Edges(n)[k] \in loop.Body => n = loop.PreHeader

LEMMA PreHeaderDominates ==
  ASSUME TypesOfAnalysis, NEW loop, IsEntered(loop), NEW b \in loop.Body
  PROVE  Dominates(loop.PreHeader, b)
<1> DEFINE S == Nodes \ (loop.Body \cup {loop.PreHeader})
<1>1. ClosedWithout(S, loop.PreHeader)
  <2>1. \A n \in Nodes : \A k \in DOMAIN Edges(n) : Edges(n)[k] \in Nodes
    BY EdgeFacts
  <2>2. 1 \in Nodes
    BY GraphOfF DEF IsGraph, Nodes
  <2> QED BY <2>1, <2>2 DEF ClosedWithout, IsEntered
<1>2. Without(loop.PreHeader) \subseteq S
  <2> HIDE DEF S
  <2> QED BY <1>1, WithoutFacts
<1> QED BY <1>2 DEF Dominates, Without

LEMMA LoopDoesNotDominate ==
  ASSUME TypesOfAnalysis, NEW loop, IsEntered(loop), NEW b \in loop.Body
  PROVE  ~Dominates(b, loop.PreHeader)
<1> DEFINE p == loop.PreHeader
           W == Without(b)
<1>1. SUFFICES ASSUME p \notin W PROVE FALSE
  BY DEF Dominates, Without
<1>2. ClosedWithout(W, b) /\ \A S : ClosedWithout(S, b) => W \subseteq S
  BY WithoutFacts
<1> HIDE DEF W
<1>3. 1 \in Nodes /\ 1 # b /\ 1 \notin loop.Body
  BY GraphOfF DEF IsGraph, Nodes, IsEntered
<1>4. W \subseteq W \ loop.Body
  <2>1. ClosedWithout(W \ loop.Body, b)
    BY <1>1, <1>2, <1>3 DEF ClosedWithout, IsEntered
  <2> QED BY <1>2, <2>1
<1>5. 1 \in W /\ \A n \in W : ToSet(Edges(n)) \subseteq W
  <2>1. ASSUME NEW n \in W, NEW k \in DOMAIN Edges(n) PROVE Edges(n)[k] \in W
    <3>1. n \in Nodes \ loop.Body
      BY <1>2, <1>4 DEF ClosedWithout
    <3>2. Edges(n)[k] # b
      BY <1>1, <3>1 DEF IsEntered
    <3> QED BY <1>2, <3>2 DEF ClosedWithout
  <2> QED BY <1>2, <1>3, <2>1 DEF ClosedWithout, ToSet
<1>6. W = Nodes
  <2>1. W \in SUBSET Nodes
    BY <1>2 DEF ClosedWithout
  <2> QED BY <1>5, <2>1, GraphOfF DEF IsGraph, Nodes, Edges
<1> QED BY <1>2, <1>6 DEF ClosedWithout, IsEntered

LEMMA DominatesThrough ==
  ASSUME TypesOfAnalysis, NEW p, NEW b, NEW m, Dominates(p, b), Dominates(b, m)
  PROVE  Dominates(p, m)
<1> DEFINE P == Without(p)
           B == Without(b)
<1>1. /\ ClosedWithout(P, p) /\ (\A S : ClosedWithout(S, p) => P \subseteq S)
      /\ ClosedWithout(B, b)
  BY WithoutFacts
<1>2. b \notin P /\ m \notin B
  BY DEF Dominates, Without
<1> HIDE DEF P, B
<1>3. ClosedWithout(P \cap B, p)
  <2>1. 1 # p => 1 \in P \cap B
    BY <1>1, <1>2 DEF ClosedWithout
  <2>2. ASSUME NEW n \in P \cap B, NEW k \in DOMAIN Edges(n)
        PROVE  Edges(n)[k] = p \/ Edges(n)[k] \in P \cap B
    BY <1>1, <1>2 DEF ClosedWithout
  <2> QED BY <1>1, <2>1, <2>2 DEF ClosedWithout
<1>4. m \notin P
  BY <1>1, <1>2, <1>3
<1> QED BY <1>4 DEF P, Dominates, Without

(***************************************************************************)
(* The loops of LoopInfo have one edge into them.                          *)
(***************************************************************************)
LEMMA NewLoopIsEntered ==
  ASSUME TypesOfAnalysis, NEW body \in SUBSET Nodes, body # {}, 1 \notin body, IsSimpleLoop(body)
  PROVE  IsEntered(NewLoop(body))
<1> DEFINE longest == Max({Len(Edges(m)) : m \in Nodes})
           E == EdgesInto(body)
           e == CHOOSE x \in E : TRUE
<1>1. longest \in Nat /\ \A n \in Nodes : Len(Edges(n)) <= longest
  BY LongestEdges
<1>2. E = {x \in (Nodes \ body) \X (1 .. longest) :
             x[2] <= Len(Edges(x[1])) /\ Edges(x[1])[x[2]] \in body}
  BY DEF EdgesInto
<1> HIDE DEF longest
<1>3. E # {}
  BY LoopIsEntered
<1>4. IsFiniteSet(E) /\ Cardinality(E) <= 1
  <2> DEFINE A == Nodes \ body
             B == 1 .. longest
  <2>1. IsFiniteSet(A) /\ IsFiniteSet(B)
    BY <1>1, NodesAreFinite, FS_Interval
  <2>2. E \in SUBSET (A \X B)
    BY <1>2
  <2> HIDE DEF A, B, E
  <2>3. IsFiniteSet(A \X B)
    BY <2>1, FS_Product
  <2>4. IsFiniteSet(E)
    BY <2>2, <2>3, FS_Subset
  <2> QED BY <2>4 DEF IsSimpleLoop, E
<1>5. \A x, y \in E : x = y
  <2> HIDE DEF E
  <2>1. Cardinality(E) = 1
    BY <1>3, <1>4, FS_EmptySet, FS_CardinalityType
  <2>2. \E x : E = {x}
    BY <1>4, <2>1, FS_Singleton
  <2> QED BY <2>2
<1>6. e \in E
  BY <1>3
<1>7. NewLoop(body).PreHeader = e[1] /\ NewLoop(body).Body = body
  BY DEF NewLoop
<1> HIDE DEF e, E
<1>8. e[1] \in Nodes \ body
  BY <1>2, <1>6
<1>9. ASSUME NEW n \in Nodes \ body, NEW k \in DOMAIN Edges(n), Edges(n)[k] \in body
      PROVE  n = e[1]
  <2>1. /\ DOMAIN Edges(n) = 1 .. Len(Edges(n)) /\ Len(Edges(n)) \in Nat
        /\ Len(Edges(n)) <= longest
    BY <1>1, EdgeFacts
  <2>2. k \in 1 .. longest /\ k <= Len(Edges(n))
    BY <1>1, <2>1
  <2>3. <<n, k>> \in E
    BY <1>2, <1>9, <2>2
  <2>4. <<n, k>> = e
    BY <1>5, <1>6, <2>3
  <2> QED BY <2>4
<1> QED BY <1>7, <1>8, <1>9 DEF IsEntered

-----------------------------------------------------------------------------
(***************************************************************************)
(* Selected puts the places in order.                                      *)
(***************************************************************************)
Below(p, P) == Cardinality({q \in P : q < p})
Nth(P, k) == CHOOSE p \in P : Cardinality({q \in P : q < p}) = k - 1

LEMMA BelowFacts ==
  ASSUME NEW P \in SUBSET Nat, IsFiniteSet(P)
  PROVE  /\ Cardinality(P) \in Nat
         /\ \A p \in P : Below(p, P) \in Nat /\ Below(p, P) < Cardinality(P)
         /\ \A p, r \in P : p < r => Below(p, P) < Below(r, P)
<1> DEFINE Under(p) == {q \in P : q < p}
<1>1. \A S \in SUBSET P : IsFiniteSet(S) /\ Cardinality(S) \in Nat
  BY FS_Subset, FS_CardinalityType
<1>2. ASSUME NEW p \in P, NEW S \in SUBSET P, Under(p) \subseteq S, p \in S
      PROVE  Below(p, P) \in Nat /\ Cardinality(S) \in Nat /\ Below(p, P) < Cardinality(S)
  <2>1. Under(p) \in SUBSET S /\ Under(p) # S /\ Under(p) \in SUBSET P
    <3>1. p \notin Under(p)
      OBVIOUS
    <3> QED BY <1>2, <3>1
  <2> HIDE DEF Under
  <2>2. Cardinality(Under(p)) <= Cardinality(S) /\ Cardinality(Under(p)) # Cardinality(S)
    BY <1>1, <2>1, FS_Subset
  <2>3. Cardinality(Under(p)) < Cardinality(S)
    BY <1>1, <2>1, <2>2
  <2> QED BY <1>1, <2>1, <2>3 DEF Below, Under
<1>3. \A p \in P : Below(p, P) \in Nat /\ Below(p, P) < Cardinality(P)
  <2>1. \A p \in P : Under(p) \subseteq P
    OBVIOUS
  <2> HIDE DEF Under
  <2> QED BY <1>2, <2>1
<1>4. ASSUME NEW p \in P, NEW r \in P, p < r PROVE Below(p, P) < Below(r, P)
  <2>1. Under(r) \in SUBSET P /\ Under(p) \subseteq Under(r) /\ p \in Under(r)
    <3>1. \A q \in P : q < p => q < r
      BY <1>4
    <3> QED BY <1>4, <3>1
  <2> HIDE DEF Under
  <2>2. Below(p, P) < Cardinality(Under(r))
    BY <1>2, <2>1
  <2> QED BY <2>2 DEF Below, Under
<1> QED BY <1>1, <1>3, <1>4

LEMMA BelowOrder ==
  ASSUME NEW P \in SUBSET Nat, IsFiniteSet(P), NEW p \in P, NEW r \in P
  PROVE  /\ Below(p, P) < Below(r, P) => p < r
         /\ Below(p, P) = Below(r, P) => p = r
<1>1. /\ Below(p, P) \in Nat /\ Below(r, P) \in Nat
      /\ p < r => Below(p, P) < Below(r, P)
      /\ r < p => Below(r, P) < Below(p, P)
  BY BelowFacts
<1>2. p \in Nat /\ r \in Nat
  OBVIOUS
<1> QED BY <1>1, <1>2

LEMMA NthFacts ==
  ASSUME NEW P \in SUBSET Nat, IsFiniteSet(P)
  PROVE  /\ \A k \in 1 .. Cardinality(P) : Nth(P, k) \in P /\ Below(Nth(P, k), P) = k - 1
         /\ \A k, m \in 1 .. Cardinality(P) : k < m => Nth(P, k) < Nth(P, m)
         /\ \A p \in P : \E k \in 1 .. Cardinality(P) : Nth(P, k) = p
<1>1. /\ Cardinality(P) \in Nat
      /\ \A p \in P : Below(p, P) \in Nat /\ Below(p, P) < Cardinality(P)
      /\ \A p, r \in P : p < r => Below(p, P) < Below(r, P)
  BY BelowFacts
<1>2. ASSUME NEW k \in 1 .. Cardinality(P)
      PROVE  Nth(P, k) \in P /\ Below(Nth(P, k), P) = k - 1
  <2>1. k - 1 \in Nat /\ k - 1 < Cardinality(P)
    BY <1>1
  <2>2. \E p \in P : Cardinality({q \in P : q < p}) = k - 1
    BY <2>1, PlaceExists
  <2> QED BY <2>2 DEF Nth, Below
<1>3. ASSUME NEW k \in 1 .. Cardinality(P), NEW m \in 1 .. Cardinality(P), k < m
      PROVE  Nth(P, k) < Nth(P, m)
  <2>1. /\ Nth(P, k) \in P /\ Nth(P, m) \in P
        /\ Below(Nth(P, k), P) = k - 1 /\ Below(Nth(P, m), P) = m - 1
    BY <1>2
  <2>2. k - 1 < m - 1
    BY <1>1, <1>3
  <2>3. Below(Nth(P, k), P) < Below(Nth(P, m), P)
    BY <2>1, <2>2
  <2> QED BY <2>1, <2>3, BelowOrder
<1>4. ASSUME NEW p \in P PROVE \E k \in 1 .. Cardinality(P) : Nth(P, k) = p
  <2> DEFINE k == Below(p, P) + 1
  <2>1. k \in 1 .. Cardinality(P) /\ k - 1 = Below(p, P)
    BY <1>1
  <2> HIDE DEF k
  <2>2. Nth(P, k) \in P /\ Below(Nth(P, k), P) = Below(p, P)
    BY <1>2, <2>1
  <2>3. Nth(P, k) = p
    BY <2>2, BelowOrder
  <2> QED BY <2>1, <2>3
<1> QED BY <1>2, <1>3, <1>4

(***************************************************************************)
(* What stays of a sequence when the elements of a set are taken away, and *)
(* the elements of a set of instructions in the order of their numbers.    *)
(***************************************************************************)
Kept(s, M) == {k \in DOMAIN s : s[k] \notin M}

LEMMA KeptFacts ==
  ASSUME NEW S, NEW s \in Seq(S), NEW M
  PROVE  /\ DOMAIN Selected(s, Kept(s, M)) = 1 .. Cardinality(Kept(s, M))
         /\ \A k \in DOMAIN Selected(s, Kept(s, M)) :
              /\ Nth(Kept(s, M), k) \in Kept(s, M)
              /\ Selected(s, Kept(s, M))[k] = s[Nth(Kept(s, M), k)]
         /\ \A k, m \in DOMAIN Selected(s, Kept(s, M)) : k < m => Nth(Kept(s, M), k) < Nth(Kept(s, M), m)
         /\ \A p \in Kept(s, M) : \E k \in DOMAIN Selected(s, Kept(s, M)) : Nth(Kept(s, M), k) = p
<1> DEFINE P == Kept(s, M)
<1>1. P \in SUBSET (1 .. Len(s)) /\ Len(s) \in Nat
  BY DEF Kept
<1> HIDE DEF P
<1>2. IsFiniteSet(P) /\ P \in SUBSET Nat
  <2> DEFINE len == Len(s)
             I == 1 .. len
  <2>1. len \in Int /\ I \in SUBSET Nat /\ P \in SUBSET I
    BY <1>1
  <2> HIDE DEF len
  <2>2. IsFiniteSet(I)
    BY <2>1, FS_Interval
  <2> HIDE DEF I
  <2>3. IsFiniteSet(P)
    BY <2>1, <2>2, FS_Subset
  <2> QED BY <2>1, <2>3
<1>3. Selected(s, P) = [k \in 1 .. Cardinality(P) |-> s[Nth(P, k)]]
  BY Zenon DEF Selected, Nth
<1>4. /\ \A k \in 1 .. Cardinality(P) : Nth(P, k) \in P
      /\ \A k, m \in 1 .. Cardinality(P) : k < m => Nth(P, k) < Nth(P, m)
      /\ \A p \in P : \E k \in 1 .. Cardinality(P) : Nth(P, k) = p
  BY <1>2, NthFacts
<1> QED BY <1>3, <1>4 DEF P

LEMMA ByNumberFacts ==
  ASSUME TypesOfAnalysis, NEW M \in SUBSET Code
  PROVE  /\ ByNumber(M) \in Seq(Code)
         /\ DOMAIN ByNumber(M) = 1 .. Cardinality(M) /\ Cardinality(M) \in Nat
         /\ Len(ByNumber(M)) = Cardinality(M)
         /\ \A k \in DOMAIN ByNumber(M) : ByNumber(M)[k] \in M
         /\ \A k, m \in DOMAIN ByNumber(M) : k < m => ByNumber(M)[k] < ByNumber(M)[m]
         /\ \A i \in M : \E k \in DOMAIN ByNumber(M) : ByNumber(M)[k] = i
<1>1. M \in SUBSET Nat /\ IsFiniteSet(M) /\ ByNumber(M) \in Seq(Code)
  <2>1. Code \subseteq Nat /\ IsFiniteSet(Code) /\ ByNumber(M) \in Seq(Code)
    BY CodeFacts
  <2>2. IsFiniteSet(M)
    BY <2>1, FS_Subset
  <2> QED BY <2>1, <2>2
<1>2. ByNumber(M) = [k \in 1 .. Cardinality(M) |-> [i \in Code |-> i][Nth(M, k)]]
  BY Zenon DEF ByNumber, Selected, Nth
<1>3. /\ \A k \in 1 .. Cardinality(M) : Nth(M, k) \in M
      /\ \A k, m \in 1 .. Cardinality(M) : k < m => Nth(M, k) < Nth(M, m)
      /\ \A p \in M : \E k \in 1 .. Cardinality(M) : Nth(M, k) = p
  BY <1>1, NthFacts
<1>4. ByNumber(M) = [k \in 1 .. Cardinality(M) |-> Nth(M, k)]
  BY <1>2, <1>3
<1>5. Cardinality(M) \in Nat
  BY <1>1, FS_CardinalityType
<1>6. Len(ByNumber(M)) = Cardinality(M)
  BY <1>1, <1>4, <1>5
<1> QED BY <1>1, <1>3, <1>4, <1>5, <1>6

-----------------------------------------------------------------------------
(***************************************************************************)
(* Where the instructions are: each is in one place.                       *)
(***************************************************************************)
OncePlaced(insts) ==
  /\ \A i \in Code : \E n \in Nodes : \E k \in DOMAIN insts[n] : insts[n][k] = i
  /\ \A n, m \in Nodes : \A k \in DOMAIN insts[n], l \in DOMAIN insts[m] :
       insts[n][k] = insts[m][l] => n = m /\ k = l

BeforeAt(n, k, m, l) == (n # m => Dominates(n, m)) /\ (n = m => k < l)
BeforeIn(insts, i, j) ==
  \A n, m \in Nodes : \A k \in DOMAIN insts[n], l \in DOMAIN insts[m] :
    insts[n][k] = i /\ insts[m][l] = j => BeforeAt(n, k, m, l)
Ordered(insts) ==
  \A i, j \in Code : f.code[i].dest \in f.code[j].uses => BeforeIn(insts, i, j)

LEMMA PlaceIs ==
  ASSUME OncePlaced(Insts), NEW n \in Nodes, NEW k \in DOMAIN Insts[n]
  PROVE  Place(Insts[n][k]) = <<n, k>>
<1> DEFINE P == UNION {{m} \X DOMAIN Insts[m] : m \in Nodes}
           IsPlace(p) == Insts[p[1]][p[2]] = Insts[n][k]
           place == CHOOSE p \in P : IsPlace(p)
<1>1. <<n, k>> \in P /\ IsPlace(<<n, k>>)
  OBVIOUS
<1>2. Place(Insts[n][k]) = place
  BY Zenon DEF Place
<1>3. place \in P /\ IsPlace(place)
  <2> HIDE DEF P, IsPlace
  <2> QED BY <1>1
<1> HIDE DEF place
<1>4. PICK m \in Nodes : place \in {m} \X DOMAIN Insts[m]
  BY <1>3
<1>5. PICK l \in DOMAIN Insts[m] : place = <<m, l>>
  BY <1>4
<1>6. Insts[m][l] = Insts[n][k]
  BY <1>3, <1>5
<1>7. m = n /\ l = k
  BY <1>6 DEF OncePlaced
<1> QED BY <1>2, <1>5, <1>7

LEMMA BeforeIs ==
  ASSUME OncePlaced(Insts), NEW i \in Code, NEW j \in Code
  PROVE  Before(i, j) <=> BeforeIn(Insts, i, j)
<1>1. PICK n \in Nodes : \E k \in DOMAIN Insts[n] : Insts[n][k] = i
  BY DEF OncePlaced
<1>2. PICK k \in DOMAIN Insts[n] : Insts[n][k] = i
  BY <1>1
<1>3. PICK m \in Nodes : \E l \in DOMAIN Insts[m] : Insts[m][l] = j
  BY DEF OncePlaced
<1>4. PICK l \in DOMAIN Insts[m] : Insts[m][l] = j
  BY <1>3
<1>5. Place(i) = <<n, k>> /\ Place(j) = <<m, l>>
  BY <1>2, <1>4, PlaceIs
<1>6. BeforeIn(Insts, i, j) <=> BeforeAt(n, k, m, l)
  BY <1>2, <1>4 DEF BeforeIn, OncePlaced
<1>7. Before(i, j) <=> BeforeAt(n, k, m, l)
  BY <1>5 DEF Before, BeforeAt
<1> QED BY <1>6, <1>7

LEMMA SSAFormIs == ASSUME OncePlaced(Insts) PROVE SSAForm <=> Ordered(Insts)
BY BeforeIs DEF SSAForm, Ordered

(***************************************************************************)
(* What is moved out of a loop uses only arguments and what is moved.      *)
(***************************************************************************)
TheLoop == LoopInfo[next]
Moving == InvariantInsts(TheLoop.Body)

LEMMA InvariantFacts ==
  ASSUME NEW body, NEW i \in InvariantInsts(body)
  PROVE  /\ i \in MovableInsts(body)
         /\ f.code[i].uses \subseteq Args \cup Dests(InvariantInsts(body))
<1> DEFINE M == InvariantInsts(body)
           All == MovableInsts(body)
<1>1. /\ M \subseteq All
      /\ \A S \in SUBSET All : UsesInvariant(body, S) \subseteq S => M \subseteq S
      /\ \A j \in All \ M : \E S \in SUBSET All : UsesInvariant(body, S) \subseteq S /\ j \notin S
  BY DEF InvariantInsts
<1>2. \A S, R : S \subseteq R => UsesInvariant(body, S) \subseteq UsesInvariant(body, R)
  BY DEF UsesInvariant, Dests
<1>3. UsesInvariant(body, M) \subseteq All
  BY DEF UsesInvariant
<1> HIDE DEF M, All
<1>4. UsesInvariant(body, M) \subseteq M
  <2> SUFFICES ASSUME NEW j \in UsesInvariant(body, M), j \notin M PROVE FALSE
    OBVIOUS
  <2>1. PICK S \in SUBSET All : UsesInvariant(body, S) \subseteq S /\ j \notin S
    BY <1>1, <1>3
  <2>2. M \subseteq S
    BY <1>1, <2>1
  <2>3. UsesInvariant(body, M) \subseteq UsesInvariant(body, S)
    BY <1>2, <2>2
  <2> QED BY <2>1, <2>3
<1>5. UsesInvariant(body, UsesInvariant(body, M)) \subseteq UsesInvariant(body, M)
  BY <1>2, <1>4
<1>6. M \subseteq UsesInvariant(body, M)
  <2>1. UsesInvariant(body, M) \in SUBSET All
    BY <1>1, <1>4
  <2> QED BY <1>1, <1>5, <2>1
<1>7. i \in All /\ i \in UsesInvariant(body, M)
  BY <1>1, <1>6 DEF M
<1> QED BY <1>7 DEF UsesInvariant, M, All

LEMMA DefinitionMoves ==
  ASSUME TypesOfAnalysis, NEW body, InvariantInsts(body) \subseteq Code,
         NEW j \in InvariantInsts(body), NEW i \in Code, f.code[i].dest \in f.code[j].uses
  PROVE  i \in InvariantInsts(body)
<1>1. /\ None \notin f.code[j].uses
      /\ \A h \in Code : f.code[i].dest = f.code[h].dest => i = h \/ f.code[i].dest = None
  BY CodeAssumption DEF TypesOfAnalysis, Code
<1>2. f.code[i].dest # None
  BY <1>1
<1>3. f.code[i].dest \in Dests(Code)
  BY <1>2 DEF Dests
<1>4. f.code[i].dest \in Dests(InvariantInsts(body))
  BY <1>3, InvariantFacts DEF Args
<1>5. PICK h \in InvariantInsts(body) : f.code[h].dest = f.code[i].dest
  BY <1>4 DEF Dests
<1> QED BY <1>1, <1>2, <1>5

(***************************************************************************)
(* The inductive invariant of the motion.  Under the hypothesis that       *)
(* definitions have smaller numbers than uses, the order is kept.          *)
(***************************************************************************)
NumberedInOrder == \A i, j \in Code : f.code[i].dest \in f.code[j].uses => i < j
LoopsAreEntered == \A k \in DOMAIN LoopInfo : IsEntered(LoopInfo[k])
MotionInv ==
  /\ TypeInv
  /\ LoopsAreEntered
  /\ OncePlaced(Insts)
  /\ NumberedInOrder => Ordered(Insts)

(***************************************************************************)
(* After a loop's invariant instructions are moved: those at the end of    *)
(* the node before the loop are the moved ones, by number; the others are  *)
(* where they were, in the order they had.                                 *)
(***************************************************************************)
Origin(n, k) == IF n = TheLoop.PreHeader THEN k ELSE Nth(Kept(Insts[n], Moving), k)
Rank(k) == k - Len(Insts[TheLoop.PreHeader])

LEMMA TheLoopFacts ==
  ASSUME MotionInv, MoveInvariants
  PROVE  /\ TypesOfAnalysis /\ IsEntered(TheLoop)
         /\ \A n \in Nodes : Insts[n] \in Seq(Code)
         /\ Moving \subseteq Code
         /\ \A n \in Nodes : \A k \in DOMAIN Insts[n] : Insts[n][k] \in Moving => n \in TheLoop.Body
         /\ f' = f /\ LoopInfo' = LoopInfo
         /\ Insts' = [n \in Nodes |-> IF n = TheLoop.PreHeader THEN Insts[n] \o ByNumber(Moving)
                                      ELSE Selected(Insts[n], Kept(Insts[n], Moving))]
<1>1. /\ next <= Len(LoopInfo) /\ UNCHANGED vars
      /\ Insts' = [n \in Nodes |->
                     IF n = TheLoop.PreHeader THEN Insts[n] \o ByNumber(Moving)
                     ELSE Selected(Insts[n], Kept(Insts[n], Moving))]
  BY DEF MoveInvariants, TheLoop, Moving, Kept
<1>2. /\ TypesOfAnalysis /\ LoopInfo \in Seq(Loop) /\ next \in 1 .. Len(LoopInfo) + 1
      /\ Insts \in [Nodes -> Seq(Code)]
  BY DEF MotionInv, TypeInv, MotionTypes, AnalysisInv, TypesOfAnalysis
<1>3. next \in DOMAIN LoopInfo
  BY <1>1, <1>2
<1>4. IsEntered(TheLoop)
  BY <1>3 DEF MotionInv, LoopsAreEntered, TheLoop
<1>5. \A i \in Moving : \E n \in TheLoop.Body : i \in ToSet(Insts[n])
  BY DEF Moving, InvariantInsts, MovableInsts
<1>6. Moving \subseteq Code
  BY <1>2, <1>4, <1>5 DEF ToSet, IsEntered
<1>7. ASSUME NEW n \in Nodes, NEW k \in DOMAIN Insts[n], Insts[n][k] \in Moving
      PROVE  n \in TheLoop.Body
  <2>1. PICK m \in TheLoop.Body : Insts[n][k] \in ToSet(Insts[m])
    BY <1>5, <1>7
  <2>2. m \in Nodes /\ \E l \in DOMAIN Insts[m] : Insts[m][l] = Insts[n][k]
    BY <1>4, <2>1 DEF ToSet, IsEntered
  <2> QED BY <2>1, <2>2 DEF MotionInv, OncePlaced
<1> QED BY <1>1, <1>2, <1>4, <1>6, <1>7 DEF vars

LEMMA ConcatFacts ==
  ASSUME NEW S, NEW s \in Seq(S), NEW t \in Seq(S)
  PROVE  /\ Len(s) \in Nat /\ Len(t) \in Nat
         /\ DOMAIN s = 1 .. Len(s) /\ DOMAIN (s \o t) = 1 .. Len(s) + Len(t)
         /\ \A k \in DOMAIN s : k \in DOMAIN (s \o t) /\ (s \o t)[k] = s[k]
         /\ \A k \in DOMAIN (s \o t) : ~(k <= Len(s)) => (s \o t)[k] = t[k - Len(s)]
<1>1. Len(s) \in Nat /\ Len(t) \in Nat /\ DOMAIN s = 1 .. Len(s) /\ Len(s \o t) = Len(s) + Len(t)
      /\ s \o t \in Seq(S)
  OBVIOUS
<1>2. DOMAIN (s \o t) = 1 .. Len(s) + Len(t)
  BY <1>1
<1>3. \A k \in 1 .. Len(s) + Len(t) : (s \o t)[k] = IF k <= Len(s) THEN s[k] ELSE t[k - Len(s)]
  OBVIOUS
<1>4. \A k \in DOMAIN s : k \in DOMAIN (s \o t) /\ k <= Len(s)
  BY <1>1, <1>2
<1> QED BY <1>1, <1>2, <1>3, <1>4

LEMMA OthersStay ==
  ASSUME MotionInv, MoveInvariants, NEW n \in Nodes
  PROVE  /\ \A k \in DOMAIN Insts'[n] : Insts'[n][k] \notin Moving =>
              Origin(n, k) \in DOMAIN Insts[n] /\ Insts[n][Origin(n, k)] = Insts'[n][k]
         /\ \A k, m \in DOMAIN Insts'[n] : Insts'[n][k] \notin Moving /\ Insts'[n][m] \notin Moving /\ k < m =>
              Origin(n, k) < Origin(n, m)
         /\ \A k \in DOMAIN Insts[n] : Insts[n][k] \notin Moving =>
              \E m \in DOMAIN Insts'[n] : Insts'[n][m] = Insts[n][k]
         /\ DOMAIN Insts'[n] \subseteq Nat /\ DOMAIN Insts[n] \subseteq Nat
<1>1. /\ TypesOfAnalysis /\ IsEntered(TheLoop) /\ Insts[n] \in Seq(Code) /\ Moving \in SUBSET Code
      /\ Insts'[n] = IF n = TheLoop.PreHeader THEN Insts[n] \o ByNumber(Moving)
                     ELSE Selected(Insts[n], Kept(Insts[n], Moving))
  BY TheLoopFacts
<1>2. DOMAIN Insts[n] = 1 .. Len(Insts[n]) /\ Len(Insts[n]) \in Nat
  BY <1>1
<1>3. CASE n = TheLoop.PreHeader
  <2>1. /\ ByNumber(Moving) \in Seq(Code)
        /\ \A k \in DOMAIN ByNumber(Moving) : ByNumber(Moving)[k] \in Moving
    BY <1>1, ByNumberFacts
  <2>2. Insts'[n] = Insts[n] \o ByNumber(Moving)
    BY <1>1, <1>3
  <2>3. /\ DOMAIN Insts'[n] = 1 .. Len(Insts[n]) + Len(ByNumber(Moving))
        /\ Len(ByNumber(Moving)) \in Nat
        /\ \A k \in DOMAIN Insts[n] : k \in DOMAIN Insts'[n] /\ Insts'[n][k] = Insts[n][k]
        /\ \A k \in DOMAIN Insts'[n] : k \notin DOMAIN Insts[n] =>
             Insts'[n][k] = ByNumber(Moving)[k - Len(Insts[n])]
    <3>1. \A k \in 1 .. Len(Insts[n]) + Len(ByNumber(Moving)) : k \notin DOMAIN Insts[n] => ~(k <= Len(Insts[n]))
      BY <1>2
    <3> QED BY <1>1, <2>1, <2>2, <3>1, ConcatFacts
  <2>4. ASSUME NEW k \in DOMAIN Insts'[n], k \notin DOMAIN Insts[n]
        PROVE  Insts'[n][k] \in Moving
    <3>1. k - Len(Insts[n]) \in 1 .. Len(ByNumber(Moving))
      BY <1>2, <2>3, <2>4
    <3>2. k - Len(Insts[n]) \in DOMAIN ByNumber(Moving)
      BY <2>1, <3>1
    <3> QED BY <2>1, <2>3, <2>4, <3>2
  <2>5. \A k : Origin(n, k) = k
    BY <1>3 DEF Origin
  <2>6. DOMAIN Insts'[n] \subseteq Nat /\ DOMAIN Insts[n] \subseteq Nat
    BY <1>2, <2>3
  <2> QED BY <2>3, <2>4, <2>5, <2>6
<1>4. CASE n # TheLoop.PreHeader
  <2>1. Insts'[n] = Selected(Insts[n], Kept(Insts[n], Moving))
    BY <1>1, <1>4
  <2>2. \A k : Origin(n, k) = Nth(Kept(Insts[n], Moving), k)
    BY <1>4 DEF Origin
  <2> DEFINE P == Kept(Insts[n], Moving)
  <2>3. /\ DOMAIN Insts'[n] = 1 .. Cardinality(P)
        /\ \A k \in DOMAIN Insts'[n] : Nth(P, k) \in P /\ Insts'[n][k] = Insts[n][Nth(P, k)]
        /\ \A k, m \in DOMAIN Insts'[n] : k < m => Nth(P, k) < Nth(P, m)
        /\ \A p \in P : \E k \in DOMAIN Insts'[n] : Nth(P, k) = p
    <3> DEFINE t == Selected(Insts[n], P)
    <3>1. /\ DOMAIN t = 1 .. Cardinality(P)
          /\ \A k \in DOMAIN t : Nth(P, k) \in P /\ t[k] = Insts[n][Nth(P, k)]
          /\ \A k, m \in DOMAIN t : k < m => Nth(P, k) < Nth(P, m)
          /\ \A p \in P : \E k \in DOMAIN t : Nth(P, k) = p
      BY <1>1, KeptFacts
    <3>2. Insts'[n] = t
      BY <2>1
    <3> HIDE DEF P, t
    <3> QED BY <3>1, <3>2
  <2>4. \A k : k \in P <=> k \in DOMAIN Insts[n] /\ Insts[n][k] \notin Moving
    BY DEF Kept
  <2> HIDE DEF P
  <2>5. DOMAIN Insts'[n] \subseteq Nat /\ DOMAIN Insts[n] \subseteq Nat
    BY <1>2, <2>3
  <2>6. \A k \in DOMAIN Insts[n] : Insts[n][k] \notin Moving =>
          \E m \in DOMAIN Insts'[n] : Insts'[n][m] = Insts[n][k]
    BY <2>3, <2>4
  <2>7. \A k : Origin(n, k) = Nth(P, k)
    BY <2>2 DEF P
  <2> QED BY <2>3, <2>4, <2>5, <2>6, <2>7
<1> QED BY <1>3, <1>4

LEMMA MovedAtEnd ==
  ASSUME MotionInv, MoveInvariants
  PROVE  /\ \A n \in Nodes : \A k \in DOMAIN Insts'[n] : Insts'[n][k] \in Moving =>
              /\ n = TheLoop.PreHeader /\ Rank(k) \in DOMAIN ByNumber(Moving)
              /\ Insts'[n][k] = ByNumber(Moving)[Rank(k)]
         /\ \A i \in Moving : \E k \in DOMAIN Insts'[TheLoop.PreHeader] :
              Insts'[TheLoop.PreHeader][k] = i
<1> DEFINE q == TheLoop.PreHeader
           len == Len(Insts[q])
<1>1. /\ TypesOfAnalysis /\ IsEntered(TheLoop) /\ Moving \in SUBSET Code
      /\ q \in Nodes /\ q \notin TheLoop.Body
      /\ \A n \in Nodes : \A k \in DOMAIN Insts[n] : Insts[n][k] \in Moving => n \in TheLoop.Body
      /\ \A n \in Nodes : Insts[n] \in Seq(Code)
      /\ \A n \in Nodes : Insts'[n] = IF n = q THEN Insts[n] \o ByNumber(Moving)
                                      ELSE Selected(Insts[n], Kept(Insts[n], Moving))
  BY TheLoopFacts DEF IsEntered
<1>2. /\ ByNumber(Moving) \in Seq(Code) /\ Len(ByNumber(Moving)) \in Nat
      /\ DOMAIN ByNumber(Moving) = 1 .. Len(ByNumber(Moving))
      /\ \A i \in Moving : \E k \in DOMAIN ByNumber(Moving) : ByNumber(Moving)[k] = i
  BY <1>1, ByNumberFacts
<1>3. Insts'[q] = Insts[q] \o ByNumber(Moving) /\ Insts[q] \in Seq(Code)
  BY <1>1
<1>4. len \in Nat /\ DOMAIN Insts[q] = 1 .. len
  BY <1>3
<1>5. /\ DOMAIN Insts'[q] = 1 .. len + Len(ByNumber(Moving))
      /\ \A k \in DOMAIN Insts'[q] : Insts'[q][k] = IF k <= len THEN Insts[q][k] ELSE ByNumber(Moving)[k - len]
  <2>1. DOMAIN Insts'[q] = 1 .. len + Len(ByNumber(Moving))
    BY <1>2, <1>3, ConcatFacts
  <2> DEFINE s == Insts[q]
             t == ByNumber(Moving)
  <2>2. s \in Seq(Code) /\ t \in Seq(Code) /\ Insts'[q] = s \o t
    BY <1>2, <1>3
  <2> HIDE DEF s, t
  <2>3. \A k \in DOMAIN (s \o t) : (s \o t)[k] = IF k <= Len(s) THEN s[k] ELSE t[k - Len(s)]
    <3>1. \A k \in 1 .. Len(s) + Len(t) : k <= Len(s) => k \in 1 .. Len(s)
      BY <2>2
    <3> QED BY <2>2, <3>1, ConcatFacts
  <2> QED BY <2>1, <2>2, <2>3 DEF s, t
<1>6. ASSUME NEW i \in Moving PROVE \E k \in DOMAIN Insts'[q] : Insts'[q][k] = i
  <2>1. PICK k \in DOMAIN ByNumber(Moving) : ByNumber(Moving)[k] = i
    BY <1>2
  <2>2. len + k \in DOMAIN Insts'[q] /\ ~(len + k <= len) /\ (len + k) - len = k
    <3>1. k \in 1 .. Len(ByNumber(Moving)) /\ len \in Nat /\ Len(ByNumber(Moving)) \in Nat
      BY <1>2, <1>4
    <3> HIDE DEF len
    <3>2. len + k \in 1 .. len + Len(ByNumber(Moving)) /\ ~(len + k <= len) /\ (len + k) - len = k
      BY <3>1
    <3> QED BY <1>5, <3>2
  <2>3. Insts'[q][len + k] = ByNumber(Moving)[(len + k) - len]
    BY <1>5, <2>2
  <2> QED BY <2>1, <2>2, <2>3
<1>7. ASSUME NEW n \in Nodes, NEW k \in DOMAIN Insts'[n], Insts'[n][k] \in Moving
      PROVE  /\ n = q /\ Rank(k) \in DOMAIN ByNumber(Moving)
             /\ Insts'[n][k] = ByNumber(Moving)[Rank(k)]
  <2>1. n = q
    <3>1. SUFFICES ASSUME n # q PROVE FALSE
      OBVIOUS
    <3>2. Insts'[n] = Selected(Insts[n], Kept(Insts[n], Moving)) /\ Insts[n] \in Seq(Code)
      BY <1>1, <3>1
    <3>3. Nth(Kept(Insts[n], Moving), k) \in Kept(Insts[n], Moving)
          /\ Insts'[n][k] = Insts[n][Nth(Kept(Insts[n], Moving), k)]
      BY <3>2, KeptFacts
    <3> QED BY <1>7, <3>3 DEF Kept
  <2>2. ~(k <= len)
    BY <1>1, <1>4, <1>5, <1>7, <2>1
  <2>3. k - len \in 1 .. Len(ByNumber(Moving))
    BY <1>2, <1>4, <1>5, <2>1, <2>2
  <2> QED BY <1>2, <1>5, <2>1, <2>2, <2>3 DEF Rank
<1> QED BY <1>6, <1>7

LEMMA MovedOncePlaced ==
  ASSUME MotionInv, MoveInvariants
  PROVE  OncePlaced(Insts')
<1>1. OncePlaced(Insts) /\ TheLoop.PreHeader \in Nodes /\ Moving \in SUBSET Code /\ TypesOfAnalysis
  BY TheLoopFacts DEF MotionInv, IsEntered
<1>2. ASSUME NEW i \in Code PROVE \E n \in Nodes : \E k \in DOMAIN Insts'[n] : Insts'[n][k] = i
  <2>1. CASE i \in Moving
    BY <1>1, <2>1, MovedAtEnd
  <2>2. CASE i \notin Moving
    <3>1. PICK n \in Nodes : \E k \in DOMAIN Insts[n] : Insts[n][k] = i
      BY <1>1 DEF OncePlaced
    <3>2. PICK k \in DOMAIN Insts[n] : Insts[n][k] = i
      BY <3>1
    <3> QED BY <2>2, <3>2, OthersStay
  <2> QED BY <2>1, <2>2
<1>3. ASSUME NEW n \in Nodes, NEW m \in Nodes, NEW k \in DOMAIN Insts'[n], NEW l \in DOMAIN Insts'[m],
             Insts'[n][k] = Insts'[m][l]
      PROVE  n = m /\ k = l
  <2>1. k \in Nat /\ l \in Nat
    BY OthersStay
  <2>2. CASE Insts'[n][k] \in Moving
    <3>1. /\ n = m /\ n = TheLoop.PreHeader
          /\ Rank(k) \in DOMAIN ByNumber(Moving) /\ Rank(l) \in DOMAIN ByNumber(Moving)
          /\ ByNumber(Moving)[Rank(k)] = ByNumber(Moving)[Rank(l)]
      BY <1>3, <2>2, MovedAtEnd
    <3>2. /\ DOMAIN ByNumber(Moving) \subseteq Nat
          /\ \A x \in DOMAIN ByNumber(Moving) : ByNumber(Moving)[x] \in Nat
          /\ \A x, y \in DOMAIN ByNumber(Moving) : x < y => ByNumber(Moving)[x] < ByNumber(Moving)[y]
      BY <1>1, ByNumberFacts, CodeFacts
    <3>3. Rank(k) = Rank(l)
      <4>1. ~(Rank(k) < Rank(l)) /\ ~(Rank(l) < Rank(k))
        BY <3>1, <3>2
      <4> QED BY <3>1, <3>2, <4>1
    <3>4. k = l
      <4>1. Len(Insts[TheLoop.PreHeader]) \in Nat
        BY <1>1, TheLoopFacts
      <4> QED BY <2>1, <3>3, <4>1 DEF Rank
    <3> QED BY <3>1, <3>4
  <2>3. CASE Insts'[n][k] \notin Moving
    <3>1. /\ Origin(n, k) \in DOMAIN Insts[n] /\ Origin(m, l) \in DOMAIN Insts[m]
          /\ Insts[n][Origin(n, k)] = Insts[m][Origin(m, l)]
      BY <1>3, <2>3, OthersStay
    <3>2. n = m /\ Origin(n, k) = Origin(n, l)
      BY <1>1, <3>1 DEF OncePlaced
    <3>3. Origin(n, k) \in Nat
      BY <3>1, OthersStay
    <3>4. ~(k < l) /\ ~(l < k)
      BY <1>3, <2>3, <3>2, <3>3, OthersStay
    <3> QED BY <2>1, <3>2, <3>4
  <2> QED BY <2>2, <2>3
<1> QED BY <1>2, <1>3 DEF OncePlaced

(***************************************************************************)
(* A use stays behind the definition.  If both move, they are in the order *)
(* of their numbers; a use does not move without the definition; and if    *)
(* the definition moves alone, it moves to a node that all paths to the    *)
(* use go through.                                                         *)
(***************************************************************************)
LEMMA MovedKeepsOrder ==
  ASSUME MotionInv, MoveInvariants, NumberedInOrder
  PROVE  Ordered(Insts')
<1>1. /\ OncePlaced(Insts) /\ Ordered(Insts) /\ TypesOfAnalysis /\ IsEntered(TheLoop)
      /\ Moving \in SUBSET Code
      /\ \A n \in Nodes : \A k \in DOMAIN Insts[n] : Insts[n][k] \in Moving => n \in TheLoop.Body
  BY TheLoopFacts DEF MotionInv
<1>2. SUFFICES ASSUME NEW i \in Code, NEW j \in Code, f.code[i].dest \in f.code[j].uses,
                      NEW n \in Nodes, NEW m \in Nodes,
                      NEW k \in DOMAIN Insts'[n], NEW l \in DOMAIN Insts'[m],
                      Insts'[n][k] = i, Insts'[m][l] = j
               PROVE  BeforeAt(n, k, m, l)
  BY DEF Ordered, BeforeIn
<1>3. i < j /\ i \in Nat /\ j \in Nat /\ k \in Nat /\ l \in Nat
  BY <1>1, <1>2, CodeFacts, OthersStay DEF NumberedInOrder
<1>4. CASE i \notin Moving /\ j \notin Moving
  <2>1. /\ Origin(n, k) \in DOMAIN Insts[n] /\ Insts[n][Origin(n, k)] = i
        /\ Origin(m, l) \in DOMAIN Insts[m] /\ Insts[m][Origin(m, l)] = j
    BY <1>2, <1>4, OthersStay
  <2>2. BeforeAt(n, Origin(n, k), m, Origin(m, l))
    BY <1>1, <1>2, <2>1 DEF Ordered, BeforeIn
  <2>3. n = m => k < l
    <3>1. SUFFICES ASSUME n = m, ~(k < l) PROVE FALSE
      OBVIOUS
    <3>2. Origin(n, k) < Origin(n, l) /\ Origin(n, k) \in Nat /\ Origin(n, l) \in Nat
      BY <2>1, <2>2, <3>1, OthersStay DEF BeforeAt
    <3>3. k = l \/ l < k
      BY <1>3, <3>1
    <3>4. l < k => Origin(n, l) < Origin(n, k)
      BY <1>2, <1>4, <3>1, OthersStay
    <3>5. k # l
      BY <1>2, <1>3, <3>1
    <3> QED BY <3>2, <3>3, <3>4, <3>5
  <2> QED BY <2>2, <2>3 DEF BeforeAt
<1>5. CASE i \in Moving /\ j \in Moving
  <2>1. /\ n = TheLoop.PreHeader /\ m = TheLoop.PreHeader
        /\ Rank(k) \in DOMAIN ByNumber(Moving) /\ Rank(l) \in DOMAIN ByNumber(Moving)
        /\ ByNumber(Moving)[Rank(k)] = i /\ ByNumber(Moving)[Rank(l)] = j
    BY <1>2, <1>5, MovedAtEnd
  <2>2. /\ DOMAIN ByNumber(Moving) \subseteq Nat
        /\ \A x, y \in DOMAIN ByNumber(Moving) : x < y => ByNumber(Moving)[x] < ByNumber(Moving)[y]
    BY <1>1, ByNumberFacts
  <2>3. Rank(k) < Rank(l)
    <3>1. Rank(k) # Rank(l) /\ ~(Rank(l) < Rank(k))
      BY <1>3, <2>1, <2>2
    <3> QED BY <2>1, <2>2, <3>1
  <2>4. k < l
    <3>1. Len(Insts[TheLoop.PreHeader]) \in Nat
      BY TheLoopFacts DEF IsEntered
    <3> QED BY <1>3, <2>3, <3>1 DEF Rank
  <2> QED BY <2>1, <2>4 DEF BeforeAt
<1>6. CASE i \notin Moving /\ j \in Moving
  BY <1>1, <1>2, <1>6, DefinitionMoves DEF Moving
<1>7. CASE i \in Moving /\ j \notin Moving
  <2> DEFINE q == TheLoop.PreHeader
  <2>1. n = q /\ Origin(m, l) \in DOMAIN Insts[m] /\ Insts[m][Origin(m, l)] = j
    BY <1>2, <1>7, MovedAtEnd, OthersStay
  <2>2. PICK b \in Nodes : \E o \in DOMAIN Insts[b] : Insts[b][o] = i
    BY <1>1 DEF OncePlaced
  <2>3. PICK o \in DOMAIN Insts[b] : Insts[b][o] = i
    BY <2>2
  <2>4. b \in TheLoop.Body /\ q \notin TheLoop.Body
    BY <1>1, <1>7, <2>3 DEF IsEntered
  <2>5. b = m \/ Dominates(b, m)
    BY <1>1, <1>2, <2>1, <2>3 DEF Ordered, BeforeIn, BeforeAt
  <2>6. m # q
    <3>1. ~Dominates(b, q)
      BY <1>1, <2>4, LoopDoesNotDominate
    <3> QED BY <2>4, <2>5, <3>1
  <2>7. Dominates(q, b)
    BY <1>1, <2>4, PreHeaderDominates
  <2>8. Dominates(q, m)
    BY <1>1, <2>5, <2>7, DominatesThrough
  <2> QED BY <2>1, <2>6, <2>8 DEF BeforeAt
<1> QED BY <1>4, <1>5, <1>6, <1>7

LEMMA SameFunction ==
  ASSUME f' = f, OncePlaced(Insts'), NumberedInOrder => Ordered(Insts')
  PROVE  OncePlaced(Insts)' /\ (NumberedInOrder => Ordered(Insts))'
<1>1. Nodes' = Nodes /\ Code' = Code
  BY DEF Nodes, Code
<1>2. \A d, n : Dominates(d, n)' <=> Dominates(d, n)
  BY DEF Dominates, ReachableFrom, Edges
<1>3. OncePlaced(Insts)'
  BY <1>1 DEF OncePlaced
<1>4. NumberedInOrder' <=> NumberedInOrder
  BY <1>1 DEF NumberedInOrder
<1>5. Ordered(Insts)' <=> Ordered(Insts')
  BY <1>1, <1>2 DEF Ordered, BeforeIn, BeforeAt
<1> QED BY <1>3, <1>4, <1>5

LEMMA MoveInvariantsKeepsMotionInv == ASSUME MotionInv, MoveInvariants PROVE MotionInv'
<1>1. f' = f /\ LoopInfo' = LoopInfo
  BY TheLoopFacts
<1>2. TypeInv'
  BY MoveInvariantsKeepsTypeInv DEF MotionInv
<1>3. LoopsAreEntered'
  BY <1>1 DEF MotionInv, LoopsAreEntered, IsEntered, Nodes, Edges
<1>4. OncePlaced(Insts')
  BY MovedOncePlaced
<1>5. NumberedInOrder => Ordered(Insts')
  BY MovedKeepsOrder
<1> QED BY <1>1, <1>2, <1>3, <1>4, <1>5, SameFunction DEF MotionInv

LEMMA InitEstablishesMotionInv == ASSUME InitMotion PROVE MotionInv
<1>1. /\ TypeInv /\ TypesOfAnalysis /\ LoopInfo = <<>> /\ SSAForm
      /\ Insts = [n \in Nodes |-> CodeOf(n)]
  BY InitEstablishesTypeInv DEF InitMotion, Init, TypeInv, AnalysisInv
<1>2. LoopsAreEntered
  BY <1>1 DEF LoopsAreEntered
<1> DEFINE In(n) == {i \in Code : f.code[i].node = n}
<1>3. ASSUME NEW n \in Nodes
      PROVE  /\ Insts[n] = ByNumber(In(n)) /\ DOMAIN Insts[n] \subseteq Nat
             /\ \A k \in DOMAIN Insts[n] : Insts[n][k] \in Nat /\ f.code[Insts[n][k]].node = n
             /\ \A k, l \in DOMAIN Insts[n] : k < l => Insts[n][k] < Insts[n][l]
             /\ \A i \in Code : f.code[i].node = n => \E k \in DOMAIN Insts[n] : Insts[n][k] = i
  <2>1. In(n) \in SUBSET Code /\ Insts[n] = ByNumber(In(n))
    BY <1>1 DEF CodeOf
  <2>2. /\ \A i \in In(n) : i \in Nat /\ f.code[i].node = n
        /\ \A i \in Code : f.code[i].node = n => i \in In(n)
    BY <1>1, CodeFacts
  <2> HIDE DEF In
  <2> QED BY <1>1, <2>1, <2>2, ByNumberFacts
<1>4. ASSUME NEW i \in Code PROVE \E n \in Nodes : \E k \in DOMAIN Insts[n] : Insts[n][k] = i
  <2>1. f.code[i].node \in Nodes
    BY <1>1, CodeAssumption DEF TypesOfAnalysis, Code, Nodes
  <2> QED BY <1>3, <2>1
<1>5. ASSUME NEW n \in Nodes, NEW m \in Nodes, NEW k \in DOMAIN Insts[n], NEW l \in DOMAIN Insts[m],
             Insts[n][k] = Insts[m][l]
      PROVE  n = m /\ k = l
  <2>1. f.code[Insts[n][k]].node = n /\ f.code[Insts[m][l]].node = m
    BY <1>3
  <2>2. n = m
    BY <1>5, <2>1
  <2>3. /\ k \in DOMAIN Insts[n] /\ l \in DOMAIN Insts[n] /\ k \in Nat /\ l \in Nat
        /\ Insts[n][k] \in Nat /\ Insts[n][l] = Insts[n][k]
    BY <1>3, <1>5, <2>2
  <2>4. (k < l => Insts[n][k] < Insts[n][l]) /\ (l < k => Insts[n][l] < Insts[n][k])
    BY <1>3, <2>3
  <2> QED BY <2>2, <2>3, <2>4
<1>6. OncePlaced(Insts)
  BY <1>4, <1>5 DEF OncePlaced
<1> QED BY <1>1, <1>2, <1>6, SSAFormIs DEF MotionInv

LEMMA AnalyzeKeepsMotionInv ==
  ASSUME MotionInv, Analyze, UNCHANGED <<Insts, next>>
  PROVE  MotionInv'
<1>1. TypeInv' /\ TypesOfAnalysis /\ EntryInNoLoop
  BY AnalyzeKeepsTypeInv DEF MotionInv, TypeInv, AnalysisInv
<1>2. f' = f
  BY ProcessNodeParts DEF Analyze, StartRound, EndRounds, VisitRoot, AddLoop
<1>3. \A loop : IsEntered(loop)' <=> IsEntered(loop)
  BY <1>2 DEF IsEntered, Nodes, Edges
<1>4. LoopsAreEntered'
  <2>1. CASE LoopInfo' = LoopInfo
    BY <1>3, <2>1 DEF MotionInv, LoopsAreEntered
  <2>2. CASE LoopInfo' # LoopInfo
    <3>1. AddLoop
      BY <2>2, ProcessNodeParts DEF Analyze, StartRound, EndRounds, VisitRoot
    <3>2. PICK body \in Loops : IsSimpleLoop(body) /\ LoopInfo' = Append(LoopInfo, NewLoop(body))
      BY <2>2, <3>1 DEF AddLoop
    <3>3. body \in SUBSET Nodes /\ body # {} /\ 1 \notin body
      BY <1>1 DEF TypesOfAnalysis, EntryInNoLoop
    <3>4. IsEntered(NewLoop(body))
      BY <1>1, <3>2, <3>3, NewLoopIsEntered
    <3>5. LoopInfo \in Seq(Loop)
      BY <1>1 DEF TypesOfAnalysis
    <3>6. \A k \in DOMAIN LoopInfo' :
            LoopInfo'[k] = NewLoop(body) \/ (k \in DOMAIN LoopInfo /\ LoopInfo'[k] = LoopInfo[k])
      BY <3>2, <3>5
    <3> QED BY <1>3, <3>4, <3>6 DEF MotionInv, LoopsAreEntered
  <2> QED BY <2>1, <2>2
<1> QED BY <1>1, <1>2, <1>4, SameFunction DEF MotionInv

LEMMA EndMotionKeepsMotionInv == ASSUME MotionInv, EndMotion PROVE MotionInv'
<1>1. f' = f /\ LoopInfo' = LoopInfo /\ Insts' = Insts
  BY DEF EndMotion
<1>2. TypeInv'
  BY EndMotionKeepsTypeInv DEF MotionInv
<1>3. LoopsAreEntered'
  BY <1>1 DEF MotionInv, LoopsAreEntered, IsEntered, Nodes, Edges
<1> QED BY <1>1, <1>2, <1>3, SameFunction DEF MotionInv

LEMMA StutterKeepsMotionInv == ASSUME MotionInv, UNCHANGED allVars PROVE MotionInv'
<1>1. UNCHANGED <<vars, f, LoopInfo, Insts, next>>
  BY DEF allVars, vars
<1>2. AnalysisInv'
  BY <1>1, StutterKeepsAnalysisInv DEF MotionInv, TypeInv
<1>3. TypeInv'
  BY <1>1, <1>2 DEF MotionInv, TypeInv, MotionTypes, Nodes, Code
<1>4. LoopsAreEntered'
  BY <1>1 DEF MotionInv, LoopsAreEntered, IsEntered, Nodes, Edges
<1> QED BY <1>1, <1>3, <1>4, SameFunction DEF MotionInv

(***************************************************************************)
(* In every function in which a definition has a smaller number than its   *)
(* uses, as in bitcode: after any number of loops, whose instructions are  *)
(* taken together and put in the order of their numbers, each definition   *)
(* is before its uses on every path.                                       *)
(***************************************************************************)
THEOREM SSAFormIsKeptCorrect == Spec => [](NumberedInOrder => SSAFormIsKept)
<1>1. InitMotion => MotionInv
  BY InitEstablishesMotionInv
<1>2. MotionInv /\ [Next]_allVars => MotionInv'
  BY AnalyzeKeepsMotionInv, MoveInvariantsKeepsMotionInv, EndMotionKeepsMotionInv,
     StutterKeepsMotionInv DEF Next, Terminated
<1>3. MotionInv => (NumberedInOrder => SSAFormIsKept)
  BY SSAFormIs DEF MotionInv, SSAFormIsKept
<1> QED BY <1>1, <1>2, <1>3, PTL DEF Spec

-----------------------------------------------------------------------------
(***************************************************************************)
(* Reducible graphs.  Of each set of nodes, one is taken away first: the   *)
(* edges that lead to it from the set are back edges.                      *)
(***************************************************************************)
LEMMA FirstTakenAway ==
  ASSUME TypesOfAnalysis, Reducible, NEW B \in SUBSET Nodes, B # {}
  PROVE  \E h \in B : \A m \in B : h \in ToSet(Edges(m)) => <<m, h>> \in BackEdges
<1> DEFINE T == SUBSET Nodes
           Left(X) == {n \in X : \E m \in X : n \in ToSet(Edges(m)) /\ <<m, n>> \notin BackEdges}
           F == [X \in T |-> Left(X)]
           b == Nodes
           N == f.nodes
           IsRest(h) == h = [k \in 0 .. N |-> IF k = 0 THEN b ELSE Left(h[k - 1])]
           R == CHOOSE h : IsRest(h)
<1>1. N \in Nat
  BY GraphOfF DEF IsGraph
<1>2. b \in T /\ \A X \in T : F[X] \in T /\ F[X] = Left(X)
  OBVIOUS
<1>3. R[N] = {}
  BY Zenon DEF Reducible
<1>4. PICK g : IsPart(g, N, b, F)
  <2> HIDE DEF F, b, N
  <2> QED BY <1>1, PartExists
<1>5. \A k \in 0 .. N : g[k] \in T
  <2>1. \A X \in T : F[X] \in T
    BY <1>2
  <2> HIDE DEF F, b, N, T
  <2> QED BY <1>1, <1>2, <1>4, <2>1, PartIsWithin
<1>6. \E h : IsRest(h)
  <2> DEFINE h == [k \in 0 .. N |-> g[k]]
  <2>1. \A k \in 0 .. N : k # 0 => k \in 1 .. N /\ k - 1 \in 0 .. N
    BY <1>1
  <2>2. \A k \in 0 .. N : g[k] = IF k = 0 THEN b ELSE Left(g[k - 1])
    <3> HIDE DEF Left, b
    <3> QED BY <1>2, <1>4, <1>5, <2>1 DEF IsPart
  <2>3. \A k \in 0 .. N : h[k] = IF k = 0 THEN b ELSE Left(h[k - 1])
    <3> HIDE DEF Left, b
    <3> QED BY <2>1, <2>2
  <2>4. IsRest(h)
    <3> HIDE DEF Left, b
    <3> QED BY <2>1, <2>3
  <2> HIDE DEF h, IsRest
  <2> QED BY <2>4
<1>7. IsRest(R)
  <2> HIDE DEF IsRest
  <2> QED BY <1>6
<1> HIDE DEF R
<1>8. \A k \in 0 .. N : R[k] = IF k = 0 THEN b ELSE Left(R[k - 1])
  <2> HIDE DEF Left, b
  <2> QED BY <1>7
<1>9. SUFFICES ASSUME \A h \in B : \E m \in B : h \in ToSet(Edges(m)) /\ <<m, h>> \notin BackEdges
               PROVE  FALSE
  OBVIOUS
<1>10. \A X \in T : B \subseteq X => B \subseteq Left(X)
  BY <1>9
<1> DEFINE Bad == {k \in 0 .. N : ~(R[k] \in T /\ B \subseteq R[k])}
<1>11. Bad = {}
  <2> SUFFICES ASSUME Bad # {} PROVE FALSE
    OBVIOUS
  <2>1. PICK k \in Bad : \A e \in Bad : k <= e
    <3>1. Bad \in SUBSET Nat
      OBVIOUS
    <3> HIDE DEF Bad
    <3> QED BY <3>1, SmallestNumber
  <2>2. k \in 0 .. N /\ k # 0
    <3>1. R[0] = b
      <4> HIDE DEF Left, b
      <4> QED BY <1>1, <1>8
    <3> QED BY <2>1, <3>1
  <2>3. k - 1 \in 0 .. N /\ k - 1 < k
    BY <1>1, <2>2
  <2>4. R[k - 1] \in T /\ B \subseteq R[k - 1]
    <3>1. k - 1 \notin Bad
      BY <2>1, <2>2, <2>3
    <3> QED BY <2>3, <3>1
  <2>5. R[k] = Left(R[k - 1])
    <3> HIDE DEF Left, b
    <3> QED BY <1>8, <2>2
  <2>6. Left(R[k - 1]) \in T /\ B \subseteq Left(R[k - 1])
    BY <1>10, <2>4
  <2> QED BY <2>1, <2>5, <2>6
<1>12. N \in 0 .. N
  BY <1>1
<1> HIDE DEF N
<1> QED BY <1>3, <1>11, <1>12

(***************************************************************************)
(* A node reaches another within a set: each set of nodes that has the one *)
(* and that no edge to a node of the first set leaves has the other.       *)
(***************************************************************************)
IsClosedIn(S, T) == \A n \in S : \A k \in DOMAIN Edges(n) : Edges(n)[k] \in T => Edges(n)[k] \in S
Reaches(n, m, T) == \A S \in SUBSET Nodes : n \in S /\ IsClosedIn(S, T) => m \in S

LEMMA ReachesItself == ASSUME NEW n, NEW T PROVE Reaches(n, n, T)
BY DEF Reaches

LEMMA ReachesThrough ==
  ASSUME NEW n, NEW m, NEW l, NEW T, Reaches(n, m, T), Reaches(m, l, T)
  PROVE  Reaches(n, l, T)
BY DEF Reaches

LEMMA ReachesByEdge ==
  ASSUME NEW n, NEW T, NEW k \in DOMAIN Edges(n), Edges(n)[k] \in T
  PROVE  Reaches(n, Edges(n)[k], T)
BY DEF Reaches, IsClosedIn

LEMMA ReachesInMore ==
  ASSUME NEW n, NEW m, NEW T, NEW U, T \subseteq U, Reaches(n, m, T)
  PROVE  Reaches(n, m, U)
BY DEF Reaches, IsClosedIn

(***************************************************************************)
(* What can be reached in a set that is closed in a larger one is reached  *)
(* in the larger one by the same edges; a set that edges do not leave is   *)
(* of no use to reach a node that is not in it.                            *)
(***************************************************************************)
LEMMA ReachesInClosedPart ==
  ASSUME NEW T, NEW B \in SUBSET Nodes, IsClosedIn(B, T), NEW n \in B, NEW m, Reaches(n, m, T)
  PROVE  m \in B /\ Reaches(n, m, B)
<1>1. m \in B
  BY DEF Reaches
<1>2. ASSUME NEW S \in SUBSET Nodes, n \in S, IsClosedIn(S, B) PROVE m \in S
  <2>1. IsClosedIn(S \cap B, T) /\ S \cap B \in SUBSET Nodes /\ n \in S \cap B
    BY <1>2 DEF IsClosedIn
  <2> HIDE DEF IsClosedIn
  <2>2. m \in S \cap B
    BY <2>1 DEF Reaches
  <2> QED BY <2>2
<1> QED BY <1>1, <1>2 DEF Reaches

LEMMA ReachesWithoutClosedPart ==
  ASSUME NEW T, NEW B \in SUBSET Nodes, IsClosedIn(B, T), NEW n, NEW m \in T \ B, Reaches(n, m, T)
  PROVE  Reaches(n, m, T \ B)
<1>1. ASSUME NEW S \in SUBSET Nodes, n \in S, IsClosedIn(S, T \ B) PROVE m \in S
  <2>1. IsClosedIn(S \cup B, T)
    BY <1>1 DEF IsClosedIn
  <2>2. m \in S \cup B
    BY <1>1, <2>1 DEF Reaches
  <2> QED BY <2>2
<1> QED BY <1>1 DEF Reaches

(***************************************************************************)
(* Natural loops.  Edges enter one only at its header.                     *)
(***************************************************************************)
LEMMA LoopIsEnteredAtHeader ==
  ASSUME TypesOfAnalysis, NEW h \in Nodes, NEW n \in Nodes, NEW k \in DOMAIN Edges(n),
         Edges(n)[k] \in NaturalLoop(h), Edges(n)[k] # h
  PROVE  n \in NaturalLoop(h)
<1> DEFINE m == Edges(n)[k]
           FromN == ReachableFrom({n}, {h})
           FromM == ReachableFrom({m}, {h})
           W == Without(h)
<1>1. m \in Nodes /\ m # h
  BY EdgeFacts
<1>2. PICK e \in BackEdges : e[2] = h /\ Dominates(h, m) /\ e[1] \in FromM
  BY <1>1 DEF NaturalLoop
<1>3. CASE n = h
  BY <1>3 DEF NaturalLoop
<1>4. CASE n # h
  <2>1. m \notin W
    BY <1>2 DEF Dominates, Without
  <2>2. ClosedWithout(W, h)
    BY WithoutFacts
  <2>3. n \notin W
    <3> HIDE DEF W
    <3> QED BY <1>1, <2>1, <2>2 DEF ClosedWithout
  <2>4. Dominates(h, n)
    BY <2>3 DEF Dominates, Without
  <2>5. /\ ClosedFrom(FromN, {n}, h)
        /\ \A S : ClosedFrom(S, {m}, h) => FromM \subseteq S
    <3>1. {n} \in SUBSET Nodes /\ {m} \in SUBSET Nodes
      BY <1>1
    <3> QED BY <3>1, ReachableFacts
  <2> HIDE DEF FromN, FromM
  <2>6. m \in FromN
    BY <1>1, <1>4, <2>5 DEF ClosedFrom
  <2>7. ClosedFrom(FromN, {m}, h)
    BY <2>5, <2>6 DEF ClosedFrom
  <2>8. e[1] \in FromN
    BY <1>2, <2>5, <2>7
  <2> QED BY <1>2, <2>4, <2>8 DEF NaturalLoop, FromN
<1> QED BY <1>3, <1>4

LEMMA LoopFacts ==
  ASSUME TypesOfAnalysis, NEW h \in Headers
  PROVE  /\ h \in Nodes /\ NaturalLoop(h) \subseteq Nodes /\ h \in NaturalLoop(h)
         /\ \E n \in NaturalLoop(h) : h \in ToSet(Edges(n))
<1>1. PICK e \in BackEdges : h = e[2]
  BY DEF Headers
<1>2. e[1] \in Nodes /\ h \in Nodes /\ h \in ToSet(Edges(e[1])) /\ Dominates(h, e[1])
  BY <1>1 DEF BackEdges
<1>3. e[1] \in NaturalLoop(h)
  <2>1. CASE e[1] = h
    BY <2>1 DEF NaturalLoop
  <2>2. CASE e[1] # h
    <3>1. {e[1]} \in SUBSET Nodes
      BY <1>2
    <3>2. e[1] \in ReachableFrom({e[1]}, {h})
      BY <2>2, <3>1, ReachableFacts DEF ClosedFrom
    <3> QED BY <1>1, <1>2, <3>2 DEF NaturalLoop
  <2> QED BY <2>1, <2>2
<1>4. NaturalLoop(h) \subseteq Nodes /\ h \in NaturalLoop(h)
  BY <1>2 DEF NaturalLoop
<1> QED BY <1>2, <1>3, <1>4

(***************************************************************************)
(* The header of a natural loop reaches the nodes of the loop, and they    *)
(* reach it, without leaving the loop.                                     *)
(***************************************************************************)
LEMMA LoopIsConnected ==
  ASSUME TypesOfAnalysis, NEW h \in Headers, NEW n \in NaturalLoop(h)
  PROVE  Reaches(n, h, NaturalLoop(h)) /\ Reaches(h, n, NaturalLoop(h))
<1> DEFINE L == NaturalLoop(h)
<1>1. h \in Nodes /\ L \subseteq Nodes /\ h \in L
  BY LoopFacts
<1>2. /\ \A a \in Nodes : \A k \in DOMAIN Edges(a) : Edges(a)[k] \in Nodes
      /\ \A a \in Nodes : \A k \in DOMAIN Edges(a) : Edges(a)[k] \in L /\ Edges(a)[k] # h => a \in L
  BY <1>1, EdgeFacts, LoopIsEnteredAtHeader
<1>3. ASSUME NEW S \in SUBSET Nodes, n \in S, IsClosedIn(S, L), h \notin S PROVE FALSE
  <2>1. n # h /\ n \in Nodes
    BY <1>1, <1>3
  <2>2. PICK e \in BackEdges : e[2] = h /\ Dominates(h, n) /\ e[1] \in ReachableFrom({n}, {h})
    BY <2>1 DEF NaturalLoop
  <2>3. e[1] \in Nodes /\ Dominates(h, e[1]) /\ h \in ToSet(Edges(e[1]))
    BY <2>2 DEF BackEdges
  <2> DEFINE R == ReachableFrom({n}, {h})
             C == (S \cup (Nodes \ L)) \ {h}
  <2>4. /\ ClosedFrom(R, {n}, h)
        /\ \A X : ClosedFrom(X, {n}, h) => R \subseteq X
    <3>1. {n} \in SUBSET Nodes
      BY <2>1
    <3> QED BY <3>1, ReachableFacts
  <2>5. e[1] \in L
    <3>1. e[1] \in R /\ h \notin R
      <4> HIDE DEF R
      <4> QED BY <2>2, <2>4 DEF ClosedFrom, R
    <3>2. {e[1]} \in SUBSET Nodes /\ e[1] # h
      BY <2>3, <3>1
    <3>3. e[1] \in ReachableFrom({e[1]}, {h})
      <4>1. ClosedFrom(ReachableFrom({e[1]}, {h}), {e[1]}, h)
        BY <3>2, ReachableFacts
      <4>2. {e[1]} \ {h} \subseteq ReachableFrom({e[1]}, {h})
        BY <4>1 DEF ClosedFrom
      <4> QED BY <3>2, <4>2
    <3> QED BY <2>2, <2>3, <3>3 DEF NaturalLoop
  <2> HIDE DEF R, L
  <2>6. ClosedFrom(C, {n}, h)
    <3>1. C \subseteq Nodes /\ h \notin C /\ {n} \ {h} \subseteq C
      BY <1>3, <2>1
    <3>2. ASSUME NEW a \in C, NEW k \in DOMAIN Edges(a) PROVE Edges(a)[k] = h \/ Edges(a)[k] \in C
      <4>1. a \in Nodes /\ Edges(a)[k] \in Nodes
        BY <1>2, <3>1
      <4> QED BY <1>2, <1>3, <4>1 DEF IsClosedIn
    <3> QED BY <3>1, <3>2 DEF ClosedFrom
  <2>7. e[1] \in C
    BY <2>2, <2>4, <2>6 DEF R
  <2>8. e[1] \in S
    BY <2>5, <2>7 DEF L
  <2>9. \E k \in DOMAIN Edges(e[1]) : Edges(e[1])[k] = h
    BY <2>3 DEF ToSet
  <2> QED BY <1>1, <1>3, <2>8, <2>9 DEF IsClosedIn
<1>4. ASSUME NEW S \in SUBSET Nodes, h \in S, IsClosedIn(S, L), n \notin S PROVE FALSE
  <2> DEFINE C == Nodes \ (L \ S)
  <2>1. 1 \in C
    <3>1. SUFFICES ASSUME 1 \in L, 1 # h PROVE FALSE
      <4>1. 1 \in Nodes
        BY GraphOfF DEF IsGraph, Nodes
      <4> QED BY <1>4, <4>1
    <3>2. Dominates(h, 1)
      BY <3>1 DEF NaturalLoop
    <3>3. 1 \in Without(h)
      BY <3>1, WithoutFacts DEF ClosedWithout
    <3> QED BY <3>2, <3>3 DEF Dominates, Without
  <2>2. ASSUME NEW a \in C PROVE ToSet(Edges(a)) \subseteq C
    <3> HIDE DEF L
    <3>1. ASSUME NEW k \in DOMAIN Edges(a) PROVE Edges(a)[k] \in C
      <4>1. a \in Nodes /\ Edges(a)[k] \in Nodes
        BY <1>2
      <4> QED BY <1>2, <1>4, <4>1 DEF IsClosedIn
    <3> QED BY <3>1 DEF ToSet
  <2>3. C \in SUBSET Nodes
    OBVIOUS
  <2> HIDE DEF C
  <2>4. C = Nodes
    BY <2>1, <2>2, <2>3, GraphOfF DEF IsGraph, Nodes, Edges
  <2> QED BY <1>1, <1>4, <2>4 DEF C
<1> QED BY <1>3, <1>4 DEF Reaches

(***************************************************************************)
(* In a reducible graph, a set of nodes that reach each other in it, with  *)
(* an edge into each, is within the natural loop of one of them.           *)
(***************************************************************************)
IsComponent(B) ==
  /\ B \subseteq Nodes /\ B # {}
  /\ \A n, m \in B : Reaches(n, m, B)

LEMMA ComponentHasHeader ==
  ASSUME TypesOfAnalysis, Reducible, NEW B, IsComponent(B),
         \A n \in B : \E m \in B : n \in ToSet(Edges(m))
  PROVE  \E h \in B : h \in Headers /\ B \subseteq NaturalLoop(h)
<1>1. B \in SUBSET Nodes /\ B # {}
  BY DEF IsComponent
<1>2. PICK h \in B : \A m \in B : h \in ToSet(Edges(m)) => <<m, h>> \in BackEdges
  BY <1>1, FirstTakenAway
<1>3. PICK m \in B : h \in ToSet(Edges(m))
  OBVIOUS
<1>4. h \in Headers
  <2>1. <<m, h>> \in BackEdges /\ <<m, h>>[2] = h
    BY <1>2, <1>3
  <2> QED BY <2>1 DEF Headers
<1>5. /\ \A a \in B : \A k \in DOMAIN Edges(a) :
           Edges(a)[k] = h => <<a, h>> \in BackEdges /\ Dominates(h, a)
      /\ \A a \in B : \A k \in DOMAIN Edges(a) : Edges(a)[k] \in Nodes
  <2>1. \A a \in B : \A k \in DOMAIN Edges(a) : Edges(a)[k] = h => <<a, h>> \in BackEdges
    BY <1>2 DEF ToSet
  <2>2. \A a : <<a, h>> \in BackEdges => Dominates(h, a)
    BY DEF BackEdges
  <2> QED BY <1>1, <2>1, <2>2, EdgeFacts
<1>6. ASSUME NEW n \in B, n # h PROVE n \in NaturalLoop(h)
  <2>1. n \in Nodes /\ h \in Nodes /\ {n} \in SUBSET Nodes
    BY <1>1
  <2>2. Dominates(h, n)
    <3> DEFINE W == Without(h)
    <3>1. SUFFICES ASSUME n \in W PROVE FALSE
      BY DEF Dominates, Without
    <3>2. ClosedWithout(W, h) /\ \A a : Dominates(h, a) => a \notin W
      BY WithoutFacts DEF Dominates, Without
    <3> HIDE DEF W
    <3>3. IsClosedIn(W \cap B, B) /\ h \notin W
      BY <1>5, <3>2 DEF ClosedWithout, IsClosedIn
    <3>4. W \cap B \in SUBSET Nodes /\ n \in W \cap B
      BY <1>1, <3>1
    <3>5. Reaches(n, h, B)
      BY DEF IsComponent
    <3> QED BY <3>3, <3>4, <3>5 DEF Reaches
  <2> DEFINE R == ReachableFrom({n}, {h})
  <2>3. ClosedFrom(R, {n}, h)
    BY <2>1, ReachableFacts
  <2>4. \E e \in BackEdges : e[2] = h /\ e[1] \in R
    <3> HIDE DEF R
    <3>1. SUFFICES ASSUME \A a \in B \cap R : <<a, h>> \notin BackEdges PROVE FALSE
      <4>1. \A a : <<a, h>>[1] = a /\ <<a, h>>[2] = h
        OBVIOUS
      <4> QED BY <4>1
    <3>2. IsClosedIn(R \cap B, B) /\ h \notin R /\ n \in R
      BY <1>5, <1>6, <2>3, <3>1 DEF ClosedFrom, IsClosedIn
    <3>3. R \cap B \in SUBSET Nodes
      BY <1>1
    <3>4. Reaches(n, h, B)
      BY DEF IsComponent
    <3> QED BY <3>2, <3>3, <3>4 DEF Reaches
  <2> QED BY <2>1, <2>2, <2>4 DEF NaturalLoop
<1>7. h \in NaturalLoop(h)
  BY DEF NaturalLoop
<1> QED BY <1>4, <1>6, <1>7

-----------------------------------------------------------------------------
(***************************************************************************)
(* The search finds the strongly connected components.  No edge leaves the *)
(* nodes of the components found, but to deleted nodes.                    *)
(***************************************************************************)
Finished(index, deleted, stack) ==
  {n \in Nodes : index[n] # UndefinedIndex /\ n \notin deleted /\ n \notin ToSet(stack)}
FinishedIsLeft(index, deleted, stack) ==
  \A n \in Finished(index, deleted, stack) : \A k \in DOMAIN Edges(n) :
    Edges(n)[k] \in Finished(index, deleted, stack) \/ Edges(n)[k] \in deleted

(***************************************************************************)
(* The edges looked at lead to visited nodes, and those to LoopStack count *)
(* for LowLink.                                                            *)
(***************************************************************************)
EdgesLinked(index, low, succ, deleted, work, stack) ==
  \A n \in ToSet(stack) : \A k \in DOMAIN Edges(n) :
    (n \in ToSet(work) => k < succ[n]) /\ Edges(n)[k] \notin deleted =>
      /\ index[Edges(n)[k]] # UndefinedIndex
      /\ Edges(n)[k] \in ToSet(stack) => low[n] <= index[Edges(n)[k]]

(***************************************************************************)
(* The LowLink of a node in the course of a visit counts those of the      *)
(* nodes visited after it, but for what was visited from its present child *)
(* on; the LowLink of a child that is done counts them.                    *)
(***************************************************************************)
Child(succ, n) == Edges(n)[succ[n]]
TreeLinked(index, low, succ, work, stack) ==
  \A n \in ToSet(work), m \in ToSet(stack) :
    index[n] # UndefinedIndex /\ index[n] < index[m] =>
      \/ low[n] <= low[m]
      \/ Child(succ, n) \in ToSet(stack) /\ index[Child(succ, n)] <= index[m]
ChildLinked(index, low, succ, deleted, work, stack) ==
  work # <<>> /\ index[Last(work)] # UndefinedIndex =>
    /\ Child(succ, Last(work)) \notin deleted => index[Child(succ, Last(work))] # UndefinedIndex
    /\ Child(succ, Last(work)) \in ToSet(stack) =>
         \A m \in ToSet(stack) :
           index[Child(succ, Last(work))] <= index[m] => low[Child(succ, Last(work))] <= low[m]

(***************************************************************************)
(* A node reaches the one that its LowLink is the index of; those in the   *)
(* course of a visit reach what was visited after them.                    *)
(***************************************************************************)
LowIsReached(index, low, stack) ==
  \A n, m \in ToSet(stack) : index[m] = low[n] => Reaches(n, m, ToSet(stack))
WorkReaches(index, work, stack) ==
  \A n \in ToSet(work), m \in ToSet(stack) :
    index[n] # UndefinedIndex /\ index[n] <= index[m] => Reaches(n, m, ToSet(stack))

FindsComponents(index, low, succ, deleted, work, stack) ==
  /\ FinishedIsLeft(index, deleted, stack)
  /\ EdgesLinked(index, low, succ, deleted, work, stack)
  /\ TreeLinked(index, low, succ, work, stack)
  /\ ChildLinked(index, low, succ, deleted, work, stack)
  /\ LowIsReached(index, low, stack)
  /\ WorkReaches(index, work, stack)
ComponentsInv == FindsComponents(Index, LowLink, Succ, Deleted, WorkStack, LoopStack)

(***************************************************************************)
(* What processNode() changes, by nodes.                                   *)
(***************************************************************************)
LEMMA OldFacts ==
  ASSUME AnalysisInv, ProcessNode
  PROVE  /\ Node \in ToSet(NewStack) /\ Node \in ToSet(WorkStack) /\ Node \in Nodes
         /\ ToSet(LoopStack) \subseteq ToSet(NewStack) /\ ToSet(NewStack) \subseteq Nodes
         /\ ToSet(NewStack) \subseteq ToSet(LoopStack) \cup {Node}
         /\ \A m \in ToSet(LoopStack) : Index'[m] = Index[m] /\ Index[m] # UndefinedIndex /\ Index[m] < NextIndex
         /\ ~IsNew => Node \in ToSet(LoopStack) /\ NewIndex = Index[Node]
         /\ IsNew => Node \notin ToSet(LoopStack) /\ NewIndex = NextIndex
         /\ \A m \in Nodes \ {Node} : Index'[m] = Index[m] /\ LowLink'[m] = LowLink[m] /\ Succ'[m] = Succ[m]
         /\ Index'[Node] = NewIndex /\ LowLink'[Node] = NewLow /\ Succ'[Node] = To
         /\ \A m \in Nodes : Index'[m] \in Nat /\ LowLink'[m] \in Nat /\ Index[m] \in Nat /\ LowLink[m] \in Nat
         /\ NewIndex \in Nat /\ NextIndex \in Nat /\ NewIndex # UndefinedIndex
         /\ \A m, l \in ToSet(NewStack) : Index'[m] = Index'[l] => m = l
<1>1. /\ pc = "visit" /\ WorkStack # <<>>
      /\ Succ' = [Succ EXCEPT ![Node] = To]
  BY ProcessNodeParts
<1>2. /\ Len(WorkStack) \in DOMAIN WorkStack /\ Node = WorkStack[Len(WorkStack)]
      /\ Node \in Nodes /\ NewIndex \in Nat \ {0}
      /\ ~IsNew => \E k \in DOMAIN LoopStack : LoopStack[k] = Node
      /\ IsNew => \A k \in DOMAIN LoopStack : LoopStack[k] # Node
  BY <1>1, NodeFacts
<1>3. /\ NewStack \in Seq(Nodes) /\ Len(NewStack) \in Nat /\ DOMAIN NewStack = 1 .. Len(NewStack)
      /\ Sorted(Index', NewStack)
      /\ \A k \in DOMAIN LoopStack : k \in DOMAIN NewStack /\ NewStack[k] = LoopStack[k]
      /\ \E k \in DOMAIN NewStack : NewStack[k] = Node
      /\ \A k \in DOMAIN NewStack : NewStack[k] = Node \/ k \in DOMAIN LoopStack
      /\ Index' \in [Nodes -> Nat]
      /\ Index'[Node] = NewIndex
      /\ \A n \in Nodes \ {Node} : Index'[n] = Index[n]
  BY StackFacts
<1>4. /\ Index \in [Nodes -> Nat] /\ LowLink \in [Nodes -> Nat] /\ NextIndex \in Nat
      /\ Succ \in [Nodes -> Nat \ {0}]
      /\ LoopStack \in Seq(Nodes) /\ Sorted(Index, LoopStack)
      /\ \A n \in Nodes : Index[n] < NextIndex
  BY DEF AnalysisInv, TypesOfAnalysis, Searching
<1>5. /\ LowLink' \in [Nodes -> Nat] /\ LowLink'[Node] = NewLow
      /\ \A n \in Nodes \ {Node} : LowLink'[n] = LowLink[n]
  BY LinkFacts
<1>6. Succ'[Node] = To /\ \A n \in Nodes \ {Node} : Succ'[n] = Succ[n]
  BY <1>1, <1>2, <1>4
<1>7. NewIndex = IF IsNew THEN NextIndex ELSE Index[Node]
  BY DEF NewIndex
<1>8. Node \in ToSet(NewStack) /\ Node \in ToSet(WorkStack)
  BY <1>2, <1>3 DEF ToSet
<1>9. /\ ToSet(LoopStack) \subseteq ToSet(NewStack) /\ ToSet(NewStack) \subseteq Nodes
      /\ ToSet(NewStack) \subseteq ToSet(LoopStack) \cup {Node}
      /\ ToSet(LoopStack) \subseteq Nodes
  BY <1>3, <1>4 DEF ToSet
<1>10. /\ ~IsNew => Node \in ToSet(LoopStack)
       /\ IsNew => Node \notin ToSet(LoopStack)
  BY <1>2 DEF ToSet
<1>11. ASSUME NEW m \in ToSet(LoopStack)
       PROVE  Index'[m] = Index[m] /\ Index[m] # UndefinedIndex /\ Index[m] < NextIndex
  <2>1. Index[m] # UndefinedIndex
    BY <1>4 DEF Sorted, ToSet
  <2> QED BY <1>3, <1>4, <1>7, <1>9, <1>10, <2>1
<1>12. ASSUME NEW m \in ToSet(NewStack), NEW l \in ToSet(NewStack), Index'[m] = Index'[l]
       PROVE  m = l
  <2>1. PICK i \in DOMAIN NewStack : NewStack[i] = m
    BY DEF ToSet
  <2>2. PICK j \in DOMAIN NewStack : NewStack[j] = l
    BY DEF ToSet
  <2>3. Index'[m] \in Nat
    BY <1>3, <1>9
  <2>4. ~(i < j) /\ ~(j < i)
    BY <1>3, <1>12, <2>1, <2>2, <2>3 DEF Sorted
  <2>5. i = j
    BY <1>3, <2>4
  <2> QED BY <2>1, <2>2, <2>5
<1> QED BY <1>2, <1>3, <1>4, <1>5, <1>6, <1>7, <1>8, <1>9, <1>10, <1>11, <1>12 DEF UndefinedIndex

(***************************************************************************)
(* The new LowLink is the smallest of what is linked.                      *)
(***************************************************************************)
LEMMA LowIsLeast ==
  ASSUME AnalysisInv, ProcessNode
  PROVE  /\ NewLow \in NewLinks
         /\ \A l \in NewLinks : NewLow <= l
         /\ \A k \in From .. (To - 1) : /\ k \in DOMAIN Edges(Node)
                                        /\ Edges(Node)[k] \notin Unvisited \ {Node}
<1>1. WorkStack # <<>>
  BY ProcessNodeParts
<1>2. /\ Node \in Nodes /\ NewIndex \in Nat
      /\ Index \in [Nodes -> Nat] /\ LowLink \in [Nodes -> Nat]
      /\ ~IsNew => Succ[Node] \in DOMAIN Edges(Node)
  BY <1>1, NodeFacts DEF AnalysisInv, TypesOfAnalysis
<1>3. /\ Len(Edges(Node)) \in Nat /\ DOMAIN Edges(Node) = 1 .. Len(Edges(Node))
      /\ \A k \in DOMAIN Edges(Node) : Edges(Node)[k] \in Nodes
  BY <1>2, EdgeFacts DEF AnalysisInv
<1>4. From \in Nat \ {0} /\ To \in Nat \ {0} /\ To <= Len(Edges(Node)) + 1
  BY <1>1, ToFacts
<1>5. \A k \in From .. (To - 1) : k \in DOMAIN Edges(Node)
  BY <1>3, <1>4
<1>6. NewLinks \in SUBSET Nat /\ NewLinks # {}
  <2>1. Links(Node, From, To) \in SUBSET Nat
    BY <1>2, <1>3, <1>5 DEF Links
  <2>2. ~IsNew => LowLink[Node] \in Nat /\ LowLink[Edges(Node)[Succ[Node]]] \in Nat
    BY <1>2, <1>3
  <2> QED BY <1>2, <2>1, <2>2 DEF NewLinks
<1>7. NewLow \in NewLinks /\ \A l \in NewLinks : NewLow <= l
  BY <1>6, MinFacts DEF NewLow
<1> DEFINE S == {k \in From .. Len(Edges(Node)) : Edges(Node)[k] \in Unvisited \ {Node}}
                  \cup {Len(Edges(Node)) + 1}
<1>8. S \in SUBSET Nat /\ S # {} /\ To = Min(S)
  BY <1>3, <1>4 DEF To, FirstUnvisited
<1>9. \A k \in S : To <= k
  <2> HIDE DEF S
  <2> QED BY <1>8, MinFacts
<1>10. ASSUME NEW k \in From .. (To - 1) PROVE Edges(Node)[k] \notin Unvisited \ {Node}
  <2>1. k \in From .. Len(Edges(Node)) /\ ~(To <= k)
    BY <1>3, <1>4
  <2> QED BY <1>9, <2>1
<1> QED BY <1>5, <1>7, <1>10

(***************************************************************************)
(* The path on WorkStack, by nodes: each node below the last has the next  *)
(* one as its child.                                                       *)
(***************************************************************************)
LEMMA CallerFacts ==
  ASSUME AnalysisInv, ProcessNode, NEW n \in ToSet(WorkStack), n # Node
  PROVE  /\ n \in ToSet(LoopStack) /\ Index[n] # UndefinedIndex /\ Index[n] < NewIndex
         /\ Child(Succ', n) \in ToSet(NewStack) /\ Index'[Child(Succ', n)] <= NewIndex
         /\ \E p \in ToSet(WorkStack) :
              p # Node /\ Index[n] <= Index[p] /\ Succ[p] \in DOMAIN Edges(p) /\ Child(Succ, p) = Node
<1>1. WorkStack # <<>>
  BY ProcessNodeParts
<1>2. /\ Len(WorkStack) \in DOMAIN WorkStack /\ Len(WorkStack) \in Nat
      /\ DOMAIN WorkStack = 1 .. Len(WorkStack)
      /\ Node = WorkStack[Len(WorkStack)]
  BY <1>1, NodeFacts
<1>3. /\ \A k \in DOMAIN WorkStack :
           /\ WorkStack[k] \in Nodes
           /\ WorkStack[k] \in ToSet(NewStack)
           /\ Index'[WorkStack[k]] # UndefinedIndex
           /\ k < Len(WorkStack) =>
                /\ Index'[WorkStack[k]] < NewIndex
                /\ Succ'[WorkStack[k]] \in DOMAIN Edges(WorkStack[k])
                /\ WorkStack[k + 1] = Edges(WorkStack[k])[Succ'[WorkStack[k]]]
      /\ \A k, m \in DOMAIN WorkStack : k < m => Index'[WorkStack[k]] < Index'[WorkStack[m]]
  BY PathFacts
<1>4. /\ ToSet(NewStack) \subseteq ToSet(LoopStack) \cup {Node}
      /\ \A m \in Nodes \ {Node} : Index'[m] = Index[m] /\ Succ'[m] = Succ[m]
      /\ Index'[Node] = NewIndex /\ NewIndex \in Nat
      /\ \A m \in Nodes : Index'[m] \in Nat
  BY OldFacts
<1>5. PICK k \in DOMAIN WorkStack : WorkStack[k] = n
  BY DEF ToSet
<1>6. k < Len(WorkStack) /\ k + 1 \in DOMAIN WorkStack
  BY <1>2, <1>5
<1>7. n \in ToSet(LoopStack) /\ Index[n] # UndefinedIndex /\ Index[n] < NewIndex
  BY <1>3, <1>4, <1>5, <1>6
<1>8. Child(Succ', n) = WorkStack[k + 1]
  BY <1>3, <1>5, <1>6 DEF Child
<1>9. Index'[WorkStack[k + 1]] <= NewIndex
  <2>1. k + 1 = Len(WorkStack) \/ k + 1 < Len(WorkStack)
    BY <1>2, <1>6
  <2> QED BY <1>2, <1>3, <1>4, <1>6, <2>1
<1>10. \E p \in ToSet(WorkStack) :
         p # Node /\ Index[n] <= Index[p] /\ Succ[p] \in DOMAIN Edges(p) /\ Child(Succ, p) = Node
  <2> DEFINE j == Len(WorkStack) - 1
             p == WorkStack[j]
  <2>1. j \in DOMAIN WorkStack /\ j < Len(WorkStack) /\ j + 1 = Len(WorkStack) /\ (k = j \/ k < j)
    BY <1>2, <1>6
  <2> HIDE DEF j
  <2>2. /\ p \in Nodes /\ Index'[p] < NewIndex
        /\ Succ'[p] \in DOMAIN Edges(p) /\ Edges(p)[Succ'[p]] = Node
    BY <1>2, <1>3, <2>1
  <2>3. p # Node
    BY <1>4, <2>2
  <2>4. Index'[n] <= Index'[p]
    <3>1. CASE k = j
      BY <1>4, <1>5, <2>2, <3>1
    <3>2. CASE k < j
      <4>1. Index'[n] < Index'[p]
        BY <1>3, <1>5, <2>1, <3>2
      <4>2. Index'[n] \in Nat /\ Index'[p] \in Nat
        BY <1>3, <1>4, <1>5, <2>2
      <4> QED BY <4>1, <4>2
    <3> QED BY <2>1, <3>1, <3>2
  <2>5. p \in ToSet(WorkStack) /\ n \in Nodes
    BY <1>3, <1>5, <2>1 DEF ToSet
  <2>6. Index[n] <= Index[p] /\ Succ'[p] = Succ[p]
    BY <1>4, <2>2, <2>3, <2>4, <2>5
  <2> QED BY <2>2, <2>3, <2>5, <2>6 DEF Child
<1> QED BY <1>3, <1>6, <1>7, <1>8, <1>9, <1>10

(***************************************************************************)
(* Before the node is taken from a stack, the new values are right, and    *)
(* the node's LowLink counts all that was visited after it.                *)
(***************************************************************************)
LEMMA FinishedStays ==
  ASSUME AnalysisInv, ComponentsInv, ProcessNode
  PROVE  FinishedIsLeft(Index', Deleted, NewStack)
<1>1. Finished(Index', Deleted, NewStack) = Finished(Index, Deleted, LoopStack)
  BY OldFacts DEF Finished, IsNew
<1> QED BY <1>1 DEF ComponentsInv, FindsComponents, FinishedIsLeft

LEMMA EdgesAreLinked ==
  ASSUME AnalysisInv, ComponentsInv, ProcessNode
  PROVE  EdgesLinked(Index', LowLink', Succ', Deleted, WorkStack, NewStack)
<1>1. SUFFICES ASSUME NEW n \in ToSet(NewStack), NEW k \in DOMAIN Edges(n),
                      n \in ToSet(WorkStack) => k < Succ'[n], Edges(n)[k] \notin Deleted
               PROVE  /\ Index'[Edges(n)[k]] # UndefinedIndex
                      /\ Edges(n)[k] \in ToSet(NewStack) => LowLink'[n] <= Index'[Edges(n)[k]]
  BY DEF EdgesLinked
<1> DEFINE m == Edges(n)[k]
<1>2. /\ Node \in ToSet(WorkStack) /\ Node \in Nodes
      /\ ToSet(NewStack) \subseteq ToSet(LoopStack) \cup {Node}
      /\ ~IsNew => Node \in ToSet(LoopStack) /\ NewIndex = Index[Node]
      /\ \A l \in Nodes \ {Node} : Index'[l] = Index[l] /\ LowLink'[l] = LowLink[l] /\ Succ'[l] = Succ[l]
      /\ Index'[Node] = NewIndex /\ LowLink'[Node] = NewLow /\ Succ'[Node] = To
      /\ \A l \in Nodes : Index'[l] \in Nat /\ LowLink'[l] \in Nat /\ Index[l] \in Nat /\ LowLink[l] \in Nat
      /\ NewIndex # UndefinedIndex /\ ToSet(NewStack) \subseteq Nodes /\ ToSet(LoopStack) \subseteq Nodes
  BY OldFacts
<1>3. m \in Nodes /\ m \notin Deleted /\ n \in Nodes /\ DOMAIN Edges(n) = 1 .. Len(Edges(n))
      /\ Len(Edges(n)) \in Nat
  BY <1>1, <1>2, EdgeFacts DEF AnalysisInv
<1>4. EdgesLinked(Index, LowLink, Succ, Deleted, WorkStack, LoopStack)
  BY DEF ComponentsInv, FindsComponents
<1>5. ASSUME Index[m] # UndefinedIndex, m \in ToSet(NewStack) PROVE m \in ToSet(LoopStack) /\ Index'[m] = Index[m]
  <2>1. m = Node => ~IsNew
    BY <1>5 DEF IsNew
  <2> HIDE DEF m
  <2> QED BY <1>2, <1>5, <2>1
<1>6. ASSUME Index[m] # UndefinedIndex PROVE Index'[m] # UndefinedIndex
  BY <1>2, <1>3, <1>6
<1>7. NewLow <= NewIndex /\ NewLow \in Nat
  BY LowFacts
<1>8. CASE n # Node
  <2>1. n \in ToSet(LoopStack) /\ Succ'[n] = Succ[n] /\ LowLink'[n] = LowLink[n]
    BY <1>2, <1>3, <1>8
  <2>2. /\ Index[m] # UndefinedIndex
        /\ m \in ToSet(LoopStack) => LowLink[n] <= Index[m]
    BY <1>1, <1>4, <2>1 DEF EdgesLinked
  <2> QED BY <1>5, <1>6, <2>1, <2>2
<1>9. CASE n = Node
  <2>1. k < To /\ k \in Nat
    BY <1>1, <1>2, <1>3, <1>9
  <2>2. From \in Nat \ {0} /\ To \in Nat \ {0}
    BY ToFacts, ProcessNodeParts
  <2>3. NewLow \in NewLinks /\ \A l \in NewLinks : NewLow <= l
    BY LowIsLeast
  <2>4. CASE From <= k
    <3>1. k \in From .. (To - 1)
      BY <2>1, <2>2, <2>4
    <3>2. m \notin Unvisited \ {Node}
      BY <1>9, <3>1, LowIsLeast
    <3>3. CASE m = Node
      BY <1>2, <1>7, <1>9, <3>3
    <3>4. CASE m # Node
      <4>1. Index[m] # UndefinedIndex
        BY <1>3, <3>2, <3>4 DEF Unvisited
      <4>2. ASSUME m \in ToSet(LoopStack) PROVE NewLow <= Index[m]
        <5>1. Index[m] \in Links(Node, From, To)
          BY <1>9, <3>1, <3>4, <4>2 DEF Links
        <5> QED BY <2>3, <5>1 DEF NewLinks
      <4> HIDE DEF m
      <4> QED BY <1>2, <1>5, <1>6, <1>9, <4>1, <4>2 DEF m
    <3> QED BY <3>3, <3>4
  <2>5. CASE ~(From <= k)
    <3>1. ~IsNew
      BY <1>3, <2>5 DEF From
    <3>2. Succ[Node] \in DOMAIN Edges(Node)
      BY <3>1, NodeFacts, ProcessNodeParts
    <3>3. k < Succ[Node] \/ k = Succ[Node]
      BY <1>3, <1>9, <2>1, <2>5, <3>1, <3>2 DEF From
    <3>4. NewLinks = Links(Node, From, To) \cup {LowLink[Node], LowLink[Edges(Node)[Succ[Node]]]}
      BY <3>1 DEF NewLinks
    <3>5. NewLow <= LowLink[Node] /\ NewLow <= LowLink[Edges(Node)[Succ[Node]]]
      BY <2>3, <3>4
    <3>6. CASE k < Succ[Node]
      <4>1. /\ Index[m] # UndefinedIndex
            /\ m \in ToSet(LoopStack) => LowLink[Node] <= Index[m]
        BY <1>1, <1>2, <1>4, <1>9, <3>1, <3>6 DEF EdgesLinked
      <4>2. ASSUME m \in ToSet(LoopStack) PROVE NewLow <= Index[m]
        <5> HIDE DEF m
        <5> QED BY <1>2, <1>3, <1>7, <3>5, <4>1, <4>2
      <4> HIDE DEF m
      <4> QED BY <1>2, <1>5, <1>6, <1>9, <4>1, <4>2 DEF m
    <3>7. CASE k = Succ[Node]
      <4>1. m = Child(Succ, Node)
        BY <1>9, <3>7 DEF Child
      <4>2. ChildLinked(Index, LowLink, Succ, Deleted, WorkStack, LoopStack)
        BY DEF ComponentsInv, FindsComponents
      <4>3. Index[m] # UndefinedIndex
        BY <1>3, <3>1, <4>1, <4>2, ProcessNodeParts DEF ChildLinked, IsNew, Node
      <4>4. ASSUME m \in ToSet(LoopStack) PROVE NewLow <= Index[m]
        <5>1. LowLink[m] <= Index[m]
          BY <4>4 DEF AnalysisInv, Searching, Linked, ToSet
        <5>2. NewLow <= LowLink[m]
          BY <3>5, <4>1 DEF Child
        <5> HIDE DEF m
        <5> QED BY <1>2, <1>3, <1>7, <5>1, <5>2
      <4> HIDE DEF m
      <4> QED BY <1>2, <1>5, <1>6, <1>9, <4>3, <4>4 DEF m
    <3> QED BY <3>3, <3>6, <3>7
  <2> QED BY <2>4, <2>5
<1> QED BY <1>8, <1>9

LEMMA NodeIsLinked ==
  ASSUME AnalysisInv, ComponentsInv, ProcessNode,
         NEW m \in ToSet(NewStack), NewIndex <= Index'[m]
  PROVE  NewLow <= LowLink'[m]
<1>1. /\ Node \in ToSet(WorkStack) /\ Node \in Nodes
      /\ ToSet(NewStack) \subseteq ToSet(LoopStack) \cup {Node} /\ ToSet(NewStack) \subseteq Nodes
      /\ ~IsNew => Node \in ToSet(LoopStack) /\ NewIndex = Index[Node]
      /\ IsNew => Node \notin ToSet(LoopStack) /\ NewIndex = NextIndex
      /\ \A l \in ToSet(LoopStack) : Index'[l] = Index[l] /\ Index[l] < NextIndex
      /\ \A l \in Nodes \ {Node} : LowLink'[l] = LowLink[l]
      /\ Index'[Node] = NewIndex /\ LowLink'[Node] = NewLow
      /\ \A l \in Nodes : Index'[l] \in Nat /\ LowLink'[l] \in Nat /\ Index[l] \in Nat /\ LowLink[l] \in Nat
      /\ NextIndex \in Nat
      /\ Node \in ToSet(NewStack)
      /\ \A l, j \in ToSet(NewStack) : Index'[l] = Index'[j] => l = j
  BY OldFacts
<1>2. NewLow \in Nat
  BY LowFacts
<1>3. CASE m = Node
  BY <1>1, <1>2, <1>3
<1>4. CASE m # Node
  <2>1. m \in ToSet(LoopStack) /\ Index'[m] = Index[m] /\ LowLink'[m] = LowLink[m] /\ m \in Nodes
    BY <1>1, <1>4
  <2>2. ~IsNew
    BY <1>1, <2>1
  <2>3. Index[Node] < Index[m] /\ Index[Node] # UndefinedIndex
    BY <1>1, <1>4, <2>1, <2>2 DEF IsNew
  <2>4. NewLow <= LowLink[Node] /\ NewLow <= LowLink[Child(Succ, Node)]
    <3>1. NewLinks = Links(Node, From, To) \cup {LowLink[Node], LowLink[Edges(Node)[Succ[Node]]]}
      BY <2>2 DEF NewLinks
    <3> QED BY <3>1, LowIsLeast DEF Child
  <2>5. CASE LowLink[Node] <= LowLink[m]
    BY <1>1, <1>2, <2>1, <2>4, <2>5
  <2>6. CASE Child(Succ, Node) \in ToSet(LoopStack) /\ Index[Child(Succ, Node)] <= Index[m]
    <3>1. LowLink[Child(Succ, Node)] <= LowLink[m]
      BY <2>1, <2>2, <2>6, ProcessNodeParts DEF ComponentsInv, FindsComponents, ChildLinked, IsNew, Node
    <3>2. Child(Succ, Node) \in Nodes
      <4>1. ToSet(LoopStack) \subseteq Nodes
        BY OldFacts
      <4> QED BY <2>6, <4>1
    <3> QED BY <1>1, <1>2, <2>1, <2>4, <3>1, <3>2
  <2> QED BY <1>1, <2>1, <2>3, <2>5, <2>6 DEF ComponentsInv, FindsComponents, TreeLinked
<1> QED BY <1>3, <1>4

LEMMA TreeIsLinked ==
  ASSUME AnalysisInv, ComponentsInv, ProcessNode
  PROVE  TreeLinked(Index', LowLink', Succ', WorkStack, NewStack)
<1>1. SUFFICES ASSUME NEW n \in ToSet(WorkStack), NEW m \in ToSet(NewStack), Index'[n] < Index'[m]
               PROVE  \/ LowLink'[n] <= LowLink'[m]
                      \/ Child(Succ', n) \in ToSet(NewStack) /\ Index'[Child(Succ', n)] <= Index'[m]
  BY DEF TreeLinked
<1>2. /\ Node \in Nodes
      /\ ToSet(LoopStack) \subseteq ToSet(NewStack) /\ ToSet(NewStack) \subseteq Nodes
      /\ ToSet(NewStack) \subseteq ToSet(LoopStack) \cup {Node}
      /\ \A l \in ToSet(LoopStack) : Index'[l] = Index[l]
      /\ \A l \in Nodes \ {Node} : Index'[l] = Index[l] /\ LowLink'[l] = LowLink[l] /\ Succ'[l] = Succ[l]
      /\ Index'[Node] = NewIndex /\ LowLink'[Node] = NewLow
      /\ \A l \in Nodes : Index'[l] \in Nat
      /\ NewIndex \in Nat
  BY OldFacts
<1>3. CASE n = Node
  BY <1>1, <1>2, <1>3, NodeIsLinked
<1>4. CASE n # Node
  <2>1. /\ n \in ToSet(LoopStack) /\ Index[n] # UndefinedIndex
        /\ Child(Succ', n) \in ToSet(NewStack) /\ Index'[Child(Succ', n)] <= NewIndex
    BY <1>4, CallerFacts
  <2>2. CASE NewIndex <= Index'[m]
    <3>1. Index'[Child(Succ', n)] \in Nat /\ Index'[m] \in Nat
      BY <1>2, <2>1
    <3> QED BY <1>2, <2>1, <2>2, <3>1
  <2>3. CASE Index'[m] < NewIndex
    <3>1. m # Node /\ m \in ToSet(LoopStack) /\ m \in Nodes /\ n \in Nodes
      BY <1>2, <2>1, <2>3
    <3>2. Child(Succ', n) = Child(Succ, n) /\ LowLink'[n] = LowLink[n] /\ LowLink'[m] = LowLink[m]
          /\ Index[n] < Index[m] /\ Index'[m] = Index[m]
      BY <1>1, <1>2, <1>4, <3>1 DEF Child
    <3>3. \/ LowLink[n] <= LowLink[m]
          \/ Child(Succ, n) \in ToSet(LoopStack) /\ Index[Child(Succ, n)] <= Index[m]
      BY <2>1, <3>1, <3>2 DEF ComponentsInv, FindsComponents, TreeLinked
    <3> QED BY <1>2, <3>2, <3>3
  <2>4. Index'[m] \in Nat
    BY <1>2
  <2> QED BY <1>2, <2>2, <2>3, <2>4
<1> QED BY <1>3, <1>4

LEMMA LowIsStillReached ==
  ASSUME AnalysisInv, ComponentsInv, ProcessNode
  PROVE  LowIsReached(Index', LowLink', NewStack)
<1>1. SUFFICES ASSUME NEW n \in ToSet(NewStack), NEW m \in ToSet(NewStack), Index'[m] = LowLink'[n]
               PROVE  Reaches(n, m, ToSet(NewStack))
  BY DEF LowIsReached
<1> DEFINE T == ToSet(NewStack)
<1>2. /\ Node \in Nodes
      /\ ToSet(LoopStack) \subseteq T /\ T \subseteq Nodes
      /\ T \subseteq ToSet(LoopStack) \cup {Node}
      /\ \A l \in ToSet(LoopStack) : Index'[l] = Index[l] /\ Index[l] < NextIndex
      /\ ~IsNew => Node \in ToSet(LoopStack) /\ NewIndex = Index[Node]
      /\ IsNew => Node \notin ToSet(LoopStack) /\ NewIndex = NextIndex
      /\ \A l \in Nodes \ {Node} : LowLink'[l] = LowLink[l]
      /\ Index'[Node] = NewIndex /\ LowLink'[Node] = NewLow
      /\ \A l \in Nodes : Index'[l] \in Nat /\ Index[l] \in Nat /\ LowLink[l] \in Nat
      /\ NewIndex \in Nat /\ NextIndex \in Nat
      /\ \A l, j \in T : Index'[l] = Index'[j] => l = j
  BY OldFacts
<1>3. \A l, j \in ToSet(LoopStack) : Index[j] = LowLink[l] => Reaches(l, j, T)
  <2>1. LowIsReached(Index, LowLink, LoopStack)
    BY DEF ComponentsInv, FindsComponents
  <2> HIDE DEF T
  <2> QED BY <1>2, <2>1, ReachesInMore DEF LowIsReached
<1> HIDE DEF T
<1>4. CASE n # Node
  <2>1. n \in ToSet(LoopStack) /\ LowLink'[n] = LowLink[n] /\ n \in Nodes
    BY <1>1, <1>2, <1>4 DEF T
  <2>2. LowLink[n] <= Index[n]
    BY <2>1 DEF AnalysisInv, Searching, Linked, ToSet
  <2>3. m \in ToSet(LoopStack)
    <3>1. Index'[m] # NextIndex
      BY <1>1, <1>2, <2>1, <2>2
    <3> QED BY <1>1, <1>2, <3>1 DEF T
  <2> QED BY <1>1, <1>2, <1>3, <2>1, <2>3 DEF T
<1>5. CASE n = Node
  <2>1. Index'[m] = NewLow /\ NewLow \in NewLinks
    BY <1>1, <1>2, <1>5, LowIsLeast
  <2>2. CASE NewLow \in Links(Node, From, To)
    <3>1. PICK k \in From .. (To - 1) :
            Edges(Node)[k] \in ToSet(LoopStack) \ {Node} /\ NewLow = Index[Edges(Node)[k]]
      BY <2>2 DEF Links
    <3>2. k \in DOMAIN Edges(Node)
      BY LowIsLeast
    <3>3. Edges(Node)[k] = m
      BY <1>1, <1>2, <2>1, <3>1 DEF T
    <3> QED BY <1>1, <1>5, <3>2, <3>3, ReachesByEdge DEF T
  <2>3. CASE IsNew /\ NewLow = NewIndex
    <3>1. m = Node
      BY <1>1, <1>2, <1>5, <2>1, <2>3 DEF T
    <3> QED BY <1>5, <3>1, ReachesItself
  <2>4. CASE ~IsNew /\ NewLow = LowLink[Node]
    <3>1. m \in ToSet(LoopStack) /\ Node \in ToSet(LoopStack) /\ Index[m] = LowLink[Node]
      BY <1>1, <1>2, <2>1, <2>4 DEF T
    <3> QED BY <1>3, <1>5, <3>1 DEF T
  <2>5. CASE ~IsNew /\ NewLow = LowLink[Child(Succ, Node)]
    <3>1. m \in ToSet(LoopStack)
      BY <1>1, <1>2, <2>5 DEF T
    <3>2. Succ[Node] \in DOMAIN Edges(Node)
      BY <2>5, NodeFacts, ProcessNodeParts
    <3>3. Child(Succ, Node) \in ToSet(LoopStack)
      <4>1. NewLow <= NewIndex /\ NewLow \in Nat
        BY LowFacts
      <4>2. ~(Index[Node] < LowLink[Child(Succ, Node)])
        BY <1>2, <2>5, <4>1
      <4> QED BY <2>5, <4>2, ProcessNodeParts
              DEF AnalysisInv, Searching, ChildIsDone, Child, IsNew, Node
    <3>4. Reaches(Child(Succ, Node), m, T)
      BY <1>2, <1>3, <2>1, <2>5, <3>1, <3>3
    <3>5. Reaches(Node, Child(Succ, Node), T)
      BY <1>2, <3>2, <3>3, ReachesByEdge DEF Child
    <3> QED BY <1>5, <3>4, <3>5, ReachesThrough DEF T
  <2> QED BY <2>1, <2>2, <2>3, <2>4, <2>5 DEF NewLinks, Child
<1> QED BY <1>4, <1>5

LEMMA WorkStillReaches ==
  ASSUME AnalysisInv, ComponentsInv, ProcessNode
  PROVE  WorkReaches(Index', WorkStack, NewStack)
<1>1. SUFFICES ASSUME NEW n \in ToSet(WorkStack), NEW m \in ToSet(NewStack), Index'[n] <= Index'[m]
               PROVE  Reaches(n, m, ToSet(NewStack))
  BY DEF WorkReaches
<1> DEFINE T == ToSet(NewStack)
<1>2. /\ Node \in Nodes /\ Node \in T
      /\ ToSet(LoopStack) \subseteq T /\ T \subseteq Nodes
      /\ T \subseteq ToSet(LoopStack) \cup {Node}
      /\ \A l \in ToSet(LoopStack) : Index'[l] = Index[l] /\ Index[l] < NextIndex
      /\ ~IsNew => Node \in ToSet(LoopStack) /\ NewIndex = Index[Node]
      /\ IsNew => Node \notin ToSet(LoopStack) /\ NewIndex = NextIndex
      /\ \A l \in Nodes \ {Node} : Index'[l] = Index[l]
      /\ Index'[Node] = NewIndex
      /\ \A l \in Nodes : Index'[l] \in Nat /\ Index[l] \in Nat
      /\ NewIndex \in Nat /\ NextIndex \in Nat
  BY OldFacts
<1>3. \A l \in ToSet(WorkStack), j \in ToSet(LoopStack) :
        Index[l] # UndefinedIndex /\ Index[l] <= Index[j] => Reaches(l, j, T)
  <2>1. WorkReaches(Index, WorkStack, LoopStack)
    BY DEF ComponentsInv, FindsComponents
  <2> HIDE DEF T
  <2> QED BY <1>2, <2>1, ReachesInMore DEF WorkReaches
<1>4. n # Node => n \in ToSet(LoopStack) /\ Index[n] # UndefinedIndex /\ n \in Nodes
  <2>1. n # Node => n \in ToSet(LoopStack) /\ Index[n] # UndefinedIndex
    BY CallerFacts
  <2> QED BY <1>2, <2>1
<1> HIDE DEF T
<1>5. CASE m \in ToSet(LoopStack)
  <2>1. ~(n = Node /\ IsNew)
    BY <1>1, <1>2, <1>5
  <2>2. Index[n] # UndefinedIndex /\ Index[n] = Index'[n]
    BY <1>2, <1>4, <2>1 DEF IsNew
  <2> QED BY <1>1, <1>2, <1>3, <1>5, <2>2 DEF T
<1>6. CASE m \notin ToSet(LoopStack)
  <2>1. m = Node /\ IsNew
    BY <1>1, <1>2, <1>6 DEF T
  <2>2. CASE n = Node
    BY <2>1, <2>2, ReachesItself
  <2>3. CASE n # Node
    <3>1. PICK p \in ToSet(WorkStack) :
            p # Node /\ Index[n] <= Index[p] /\ Succ[p] \in DOMAIN Edges(p) /\ Child(Succ, p) = Node
      BY <2>3, CallerFacts
    <3>2. p \in ToSet(LoopStack)
      BY <3>1, CallerFacts
    <3>3. Reaches(n, p, T)
      BY <1>3, <1>4, <2>3, <3>1, <3>2
    <3>4. Reaches(p, Node, T)
      BY <1>2, <3>1, ReachesByEdge DEF Child
    <3> QED BY <2>1, <3>3, <3>4, ReachesThrough DEF T
  <2> QED BY <2>2, <2>3
<1> QED BY <1>5, <1>6

(***************************************************************************)
(* The component found: the nodes of LoopStack visited from the node on.   *)
(***************************************************************************)
LEMMA ComponentIs ==
  ASSUME AnalysisInv, ProcessNode
  PROVE  /\ Component(Node, NewStack) = {m \in ToSet(NewStack) : NewIndex <= Index'[m]}
         /\ FoundLoop(Node, NewStack) =>
              ToSet(LoopStack') = ToSet(NewStack) \ Component(Node, NewStack)
<1>1. /\ NewStack \in Seq(Nodes) /\ Len(NewStack) \in Nat /\ DOMAIN NewStack = 1 .. Len(NewStack)
      /\ Sorted(Index', NewStack)
      /\ \A k \in DOMAIN NewStack : NewStack[k] \in Nodes
      /\ Index' \in [Nodes -> Nat]
      /\ Index'[Node] = NewIndex
  BY StackFacts
<1>2. PICK p \in DOMAIN NewStack :
        /\ NewStack[p] = Node
        /\ Component(Node, NewStack) = {NewStack[k] : k \in p .. Len(NewStack)}
        /\ Cardinality(Component(Node, NewStack)) = Len(NewStack) - p + 1
  BY ComponentFacts
<1>3. \A k \in DOMAIN NewStack : p <= k <=> NewIndex <= Index'[NewStack[k]]
  <2>1. ASSUME NEW k \in DOMAIN NewStack PROVE p <= k <=> NewIndex <= Index'[NewStack[k]]
    <3>1. Index'[NewStack[k]] \in Nat /\ Index'[NewStack[p]] = NewIndex /\ NewIndex \in Nat
      BY <1>1, <1>2
    <3>2. CASE p < k
      <4>1. Index'[NewStack[p]] < Index'[NewStack[k]]
        BY <1>1, <3>2 DEF Sorted
      <4> QED BY <1>1, <3>1, <3>2, <4>1
    <3>3. CASE k < p
      <4>1. Index'[NewStack[k]] < Index'[NewStack[p]]
        BY <1>1, <3>3 DEF Sorted
      <4> QED BY <1>1, <3>1, <3>3, <4>1
    <3>4. CASE k = p
      BY <1>1, <3>1, <3>4
    <3> QED BY <1>1, <3>2, <3>3, <3>4
  <2> QED BY <2>1
<1>4. Component(Node, NewStack) = {m \in ToSet(NewStack) : NewIndex <= Index'[m]}
  <2>1. \A k : k \in p .. Len(NewStack) <=> k \in DOMAIN NewStack /\ p <= k
    BY <1>1
  <2> QED BY <1>2, <1>3, <2>1 DEF ToSet
<1>5. ASSUME FoundLoop(Node, NewStack)
      PROVE  ToSet(LoopStack') = ToSet(NewStack) \ Component(Node, NewStack)
  <2>1. LoopStack' = SubSeq(NewStack, 1, Len(NewStack) - (Len(NewStack) - p + 1))
    BY <1>2, <1>5 DEF FoundLoop
  <2>2. Len(NewStack) - (Len(NewStack) - p + 1) = p - 1 /\ p - 1 \in Nat /\ p - 1 <= Len(NewStack)
    BY <1>1
  <2>3. /\ DOMAIN LoopStack' = 1 .. (p - 1)
        /\ \A k \in 1 .. (p - 1) : LoopStack'[k] = NewStack[k]
    BY <1>1, <2>1, <2>2
  <2>4. \A k : k \in 1 .. (p - 1) <=> k \in DOMAIN NewStack /\ ~(p <= k)
    BY <1>1, <2>2
  <2>5. ToSet(LoopStack') = {NewStack[k] : k \in 1 .. (p - 1)}
    BY <2>3 DEF ToSet
  <2>6. \A m \in ToSet(NewStack) : m \in Component(Node, NewStack) <=> NewIndex <= Index'[m]
    BY <1>4
  <2>7. \A k \in DOMAIN NewStack : NewStack[k] \in Component(Node, NewStack) <=> p <= k
    BY <1>3, <2>6 DEF ToSet
  <2> QED BY <2>4, <2>5, <2>7 DEF ToSet
<1> QED BY <1>4, <1>5

(***************************************************************************)
(* Its nodes reach each other in it, and no edge leaves it but to deleted  *)
(* nodes and to those of components found before.                          *)
(***************************************************************************)
LEMMA ComponentIsComplete ==
  ASSUME AnalysisInv, ComponentsInv, ProcessNode, To > Len(Edges(Node)), NewLow = NewIndex
  PROVE  /\ Component(Node, NewStack) \subseteq Nodes /\ Node \in Component(Node, NewStack)
         /\ IsComponent(Component(Node, NewStack))
         /\ IsClosedIn(Component(Node, NewStack), ToSet(NewStack))
         /\ \A n \in Component(Node, NewStack) : \A k \in DOMAIN Edges(n) :
              \/ Edges(n)[k] \in Component(Node, NewStack)
              \/ Edges(n)[k] \in Deleted
              \/ Edges(n)[k] \in Finished(Index', Deleted, NewStack)
<1> DEFINE B == Component(Node, NewStack)
           T == ToSet(NewStack)
<1>1. /\ Node \in T /\ Node \in Nodes /\ T \subseteq Nodes
      /\ Index'[Node] = NewIndex /\ LowLink'[Node] = NewLow /\ Succ'[Node] = To
      /\ \A m \in Nodes : Index'[m] \in Nat /\ LowLink'[m] \in Nat
      /\ NewIndex \in Nat
      /\ \A m \in ToSet(LoopStack) : Index'[m] = Index[m]
      /\ \A m \in T : m \in ToSet(LoopStack) \/ m = Node
  BY OldFacts
<1>2. B = {m \in T : NewIndex <= Index'[m]}
  BY ComponentIs
<1> HIDE DEF B
<1>3. B \subseteq Nodes /\ Node \in B /\ B \subseteq T
  BY <1>1, <1>2
<1>4. \A n \in B : n \in ToSet(WorkStack) => n = Node
  <2>1. ASSUME NEW n \in B, n \in ToSet(WorkStack), n # Node PROVE FALSE
    <3>1. Index[n] < NewIndex /\ n \in ToSet(LoopStack)
      BY <2>1, CallerFacts
    <3>2. Index'[n] = Index[n] /\ Index'[n] \in Nat
      BY <1>1, <1>3, <3>1
    <3> QED BY <1>1, <1>2, <3>1, <3>2
  <2> QED BY <2>1
<1>5. ASSUME NEW n \in B, NEW k \in DOMAIN Edges(n)
      PROVE  Edges(n)[k] \in B \/ Edges(n)[k] \in Deleted \/ Edges(n)[k] \in Finished(Index', Deleted, NewStack)
  <2> DEFINE m == Edges(n)[k]
  <2>1. /\ m \in Nodes /\ k \in Nat /\ k <= Len(Edges(n)) /\ Len(Edges(n)) \in Nat
    <3>1. n \in Nodes
      BY <1>3
    <3>2. DOMAIN Edges(n) = 1 .. Len(Edges(n)) /\ Len(Edges(n)) \in Nat /\ m \in Nodes
      BY <3>1, EdgeFacts DEF AnalysisInv
    <3> QED BY <3>2
  <2>2. To \in Nat
    BY ToFacts, ProcessNodeParts
  <2>3. n \in ToSet(WorkStack) => k < Succ'[n]
    BY <1>1, <1>4, <2>1, <2>2
  <2>4. m \notin Deleted => /\ Index'[m] # UndefinedIndex
                            /\ m \in T => LowLink'[n] <= Index'[m]
    BY <1>3, <2>3, EdgesAreLinked DEF EdgesLinked
  <2>5. NewIndex <= LowLink'[n]
    BY <1>2, <1>3, NodeIsLinked
  <2>6. LowLink'[n] \in Nat /\ Index'[m] \in Nat
    BY <1>1, <1>3, <2>1
  <2>7. CASE m \in Deleted
    BY <2>7
  <2>8. CASE m \notin Deleted /\ m \in T
    <3>1. NewIndex <= Index'[m]
      BY <1>1, <2>4, <2>5, <2>6, <2>8
    <3> QED BY <1>2, <2>8, <3>1
  <2>9. CASE m \notin Deleted /\ m \notin T
    BY <2>1, <2>4, <2>9 DEF Finished
  <2> QED BY <2>7, <2>8, <2>9
<1>6. IsClosedIn(B, T)
  <2>1. ASSUME NEW n \in B, NEW k \in DOMAIN Edges(n), Edges(n)[k] \in T PROVE Edges(n)[k] \in B
    <3>1. Edges(n)[k] \notin Deleted
      <4>1. \A m \in ToSet(LoopStack) : m \notin Deleted
        BY DEF AnalysisInv, Searching, ToSet
      <4> QED BY <1>1, <2>1, <4>1, NodeFacts, ProcessNodeParts
    <3> QED BY <1>5, <2>1, <3>1 DEF Finished
  <2> QED BY <2>1 DEF IsClosedIn
<1>7. \A n \in B : Reaches(Node, n, B)
  <2>1. Node \in ToSet(WorkStack)
    BY OldFacts
  <2>2. \A n \in B : Reaches(Node, n, T)
    <3>1. NewIndex # UndefinedIndex
      BY OldFacts
    <3> QED BY <1>1, <1>2, <1>3, <2>1, <3>1, WorkStillReaches DEF WorkReaches
  <2> HIDE DEF T
  <2> QED BY <1>3, <1>6, <2>2, ReachesInClosedPart
<1>8. ASSUME NEW n \in B PROVE Reaches(n, Node, B)
  <2>1. SUFFICES ASSUME NEW S \in SUBSET Nodes, n \in S, IsClosedIn(S, B), Node \notin S PROVE FALSE
    BY DEF Reaches
  <2> DEFINE I == {Index'[m] : m \in S \cap B}
  <2>2. I \in SUBSET Nat /\ I # {}
    BY <1>1, <2>1
  <2>3. PICK i \in I : \A j \in I : i <= j
    <3> HIDE DEF I
    <3> QED BY <2>2, SmallestNumber
  <2>4. PICK m \in S \cap B : \A l \in S \cap B : Index'[m] <= Index'[l]
    BY <2>3
  <2>5. m # Node /\ m \notin ToSet(WorkStack) /\ m \in T
    BY <1>3, <1>4, <2>1
  <2>6. PICK k \in DOMAIN NewStack : NewStack[k] = m
    BY <2>5 DEF ToSet
  <2>7. LowLink'[m] < Index'[m] /\ \E j \in DOMAIN NewStack : Index'[NewStack[j]] = LowLink'[m]
    BY <2>5, <2>6, LinkFacts DEF Linked
  <2>8. PICK l \in T : Index'[l] = LowLink'[m]
    BY <2>7 DEF ToSet
  <2>9. Reaches(m, l, T)
    BY <2>5, <2>8, LowIsStillReached DEF LowIsReached
  <2> HIDE DEF T
  <2>10. l \in B /\ Reaches(m, l, B)
    BY <1>3, <1>6, <2>9, ReachesInClosedPart
  <2>11. l \in S
    BY <2>1, <2>10 DEF Reaches
  <2>12. Index'[l] \in Nat /\ Index'[m] \in Nat
    BY <1>1, <1>3, <2>10
  <2> QED BY <2>4, <2>7, <2>8, <2>10, <2>11, <2>12
<1>9. IsComponent(B)
  BY <1>3, <1>7, <1>8, ReachesThrough DEF IsComponent
<1> QED BY <1>3, <1>5, <1>6, <1>9 DEF B

(***************************************************************************)
(* The three ways of processNode().                                        *)
(***************************************************************************)
LEMMA RecurseFindsComponents ==
  ASSUME AnalysisInv, ComponentsInv, ProcessNode, Recurse(Node, To, NewStack)
  PROVE  FindsComponents(Index', LowLink', Succ', Deleted', WorkStack', LoopStack')
<1> DEFINE m == Edges(Node)[To]
<1>1. /\ WorkStack' = Append(WorkStack, m) /\ LoopStack' = NewStack /\ Deleted' = Deleted
      /\ To <= Len(Edges(Node)) /\ WorkStack # <<>> /\ WorkStack \in Seq(Nodes)
  BY ProcessNodeParts DEF Recurse, AnalysisInv, TypesOfAnalysis
<1>2. m \in Nodes /\ m # Node /\ Index[m] = UndefinedIndex
  BY <1>1, ToFacts
<1>3. Index'[m] = UndefinedIndex
  BY <1>2, OldFacts
<1> HIDE DEF m
<1>4. ToSet(WorkStack') = ToSet(WorkStack) \cup {m} /\ Last(WorkStack') = m
  <2>1. /\ Len(WorkStack') = Len(WorkStack) + 1 /\ Len(WorkStack) \in Nat
        /\ DOMAIN WorkStack' = 1 .. Len(WorkStack) + 1 /\ DOMAIN WorkStack = 1 .. Len(WorkStack)
        /\ WorkStack'[Len(WorkStack) + 1] = m
        /\ \A k \in DOMAIN WorkStack : WorkStack'[k] = WorkStack[k]
    BY <1>1, <1>2
  <2>2. \A k : k \in DOMAIN WorkStack' <=> k \in DOMAIN WorkStack \/ k = Len(WorkStack) + 1
    BY <2>1
  <2> QED BY <2>1, <2>2 DEF ToSet, Last
<1>5. FinishedIsLeft(Index', Deleted', LoopStack')
  BY <1>1, FinishedStays
<1>6. EdgesLinked(Index', LowLink', Succ', Deleted', WorkStack', LoopStack')
  <2>1. EdgesLinked(Index', LowLink', Succ', Deleted, WorkStack, NewStack)
    BY EdgesAreLinked
  <2> QED BY <1>1, <1>4, <2>1 DEF EdgesLinked
<1>7. TreeLinked(Index', LowLink', Succ', WorkStack', LoopStack')
  BY <1>1, <1>3, <1>4, TreeIsLinked DEF TreeLinked
<1>8. ChildLinked(Index', LowLink', Succ', Deleted', WorkStack', LoopStack')
  BY <1>3, <1>4 DEF ChildLinked
<1>9. LowIsReached(Index', LowLink', LoopStack')
  BY <1>1, LowIsStillReached
<1>10. WorkReaches(Index', WorkStack', LoopStack')
  BY <1>1, <1>3, <1>4, WorkStillReaches DEF WorkReaches
<1> QED BY <1>5, <1>6, <1>7, <1>8, <1>9, <1>10 DEF FindsComponents

(***************************************************************************)
(* WorkStack without the node, by nodes.                                   *)
(***************************************************************************)
LEMMA FrontIs ==
  ASSUME AnalysisInv, ProcessNode, WorkStack' = Front(WorkStack)
  PROVE  /\ ToSet(WorkStack') = ToSet(WorkStack) \ {Node}
         /\ WorkStack' # <<>> => Last(WorkStack') \in ToSet(WorkStack') /\ Child(Succ', Last(WorkStack')) = Node
<1>1. /\ Len(WorkStack) \in DOMAIN WorkStack /\ Len(WorkStack) \in Nat
      /\ DOMAIN WorkStack = 1 .. Len(WorkStack)
      /\ Node = WorkStack[Len(WorkStack)]
      /\ WorkStack \in Seq(Nodes)
  BY ProcessNodeParts, NodeFacts DEF AnalysisInv, TypesOfAnalysis
<1>2. /\ WorkStack' \in Seq(Nodes)
      /\ Len(WorkStack') = Len(WorkStack) - 1
      /\ DOMAIN WorkStack' = 1 .. (Len(WorkStack) - 1)
      /\ \A k \in DOMAIN WorkStack' : k \in DOMAIN WorkStack /\ k < Len(WorkStack) /\ WorkStack'[k] = WorkStack[k]
  BY <1>1 DEF Front
<1>3. /\ \A k \in DOMAIN WorkStack :
           /\ Index'[WorkStack[k]] \in Nat
           /\ k < Len(WorkStack) => WorkStack[k + 1] = Edges(WorkStack[k])[Succ'[WorkStack[k]]]
      /\ \A k, i \in DOMAIN WorkStack : k < i => Index'[WorkStack[k]] < Index'[WorkStack[i]]
  BY PathFacts, OldFacts
<1>4. \A k \in DOMAIN WorkStack : k # Len(WorkStack) => k \in DOMAIN WorkStack' /\ k < Len(WorkStack)
  BY <1>1, <1>2
<1>5. \A k \in DOMAIN WorkStack : k < Len(WorkStack) => WorkStack[k] # Node
  <2>1. ASSUME NEW k \in DOMAIN WorkStack, k < Len(WorkStack) PROVE WorkStack[k] # Node
    <3>1. Index'[WorkStack[k]] < Index'[WorkStack[Len(WorkStack)]] /\ Index'[WorkStack[k]] \in Nat
      BY <1>1, <1>3, <2>1
    <3> QED BY <1>1, <3>1
  <2> QED BY <2>1
<1>6. ToSet(WorkStack') = ToSet(WorkStack) \ {Node}
  BY <1>1, <1>2, <1>4, <1>5 DEF ToSet
<1>7. ASSUME WorkStack' # <<>>
      PROVE  Last(WorkStack') \in ToSet(WorkStack') /\ Child(Succ', Last(WorkStack')) = Node
  <2> DEFINE j == Len(WorkStack) - 1
  <2>1. j \in DOMAIN WorkStack' /\ j + 1 = Len(WorkStack) /\ j < Len(WorkStack) /\ Len(WorkStack') = j
    BY <1>1, <1>2, <1>7
  <2> HIDE DEF j
  <2>2. Last(WorkStack') = WorkStack'[j] /\ WorkStack'[j] = WorkStack[j] /\ j \in DOMAIN WorkStack
    BY <1>2, <2>1 DEF Last
  <2>3. WorkStack[j + 1] = Edges(WorkStack[j])[Succ'[WorkStack[j]]]
    BY <1>3, <2>1, <2>2
  <2> QED BY <1>1, <2>1, <2>2, <2>3 DEF ToSet, Child
<1> QED BY <1>6, <1>7

LEMMA ReturnFindsComponents ==
  ASSUME AnalysisInv, ComponentsInv, ProcessNode, To > Len(Edges(Node)), ReturnLinked(Node, NewStack)
  PROVE  FindsComponents(Index', LowLink', Succ', Deleted', WorkStack', LoopStack')
<1>1. WorkStack' = Front(WorkStack) /\ LoopStack' = NewStack /\ Deleted' = Deleted
  BY DEF ReturnLinked
<1>2. /\ ToSet(WorkStack') = ToSet(WorkStack) \ {Node}
      /\ WorkStack' # <<>> => Last(WorkStack') \in ToSet(WorkStack') /\ Child(Succ', Last(WorkStack')) = Node
  BY <1>1, FrontIs
<1>3. /\ Index'[Node] = NewIndex /\ LowLink'[Node] = NewLow /\ Succ'[Node] = To /\ NewIndex # UndefinedIndex
      /\ Node \in Nodes
  BY OldFacts
<1>4. FinishedIsLeft(Index', Deleted', LoopStack')
  BY <1>1, FinishedStays
<1>5. EdgesLinked(Index', LowLink', Succ', Deleted', WorkStack', LoopStack')
  <2>1. EdgesLinked(Index', LowLink', Succ', Deleted, WorkStack, NewStack)
    BY EdgesAreLinked
  <2>2. \A k \in DOMAIN Edges(Node) : k < To
    <3>1. DOMAIN Edges(Node) = 1 .. Len(Edges(Node)) /\ Len(Edges(Node)) \in Nat /\ To \in Nat
      BY <1>3, EdgeFacts, ToFacts, ProcessNodeParts DEF AnalysisInv
    <3> QED BY <3>1
  <2> QED BY <1>1, <1>2, <1>3, <2>1, <2>2 DEF EdgesLinked
<1>6. TreeLinked(Index', LowLink', Succ', WorkStack', LoopStack')
  BY <1>1, <1>2, TreeIsLinked DEF TreeLinked
<1>7. ChildLinked(Index', LowLink', Succ', Deleted', WorkStack', LoopStack')
  BY <1>1, <1>2, <1>3, NodeIsLinked DEF ChildLinked
<1>8. LowIsReached(Index', LowLink', LoopStack')
  BY <1>1, LowIsStillReached
<1>9. WorkReaches(Index', WorkStack', LoopStack')
  BY <1>1, <1>2, WorkStillReaches DEF WorkReaches
<1> QED BY <1>4, <1>5, <1>6, <1>7, <1>8, <1>9 DEF FindsComponents

LEMMA FoundLoopFindsComponents ==
  ASSUME AnalysisInv, ComponentsInv, ProcessNode, To > Len(Edges(Node)), NewLow = NewIndex,
         FoundLoop(Node, NewStack)
  PROVE  FindsComponents(Index', LowLink', Succ', Deleted', WorkStack', LoopStack')
<1> DEFINE B == Component(Node, NewStack)
           T == ToSet(NewStack)
<1>1. WorkStack' = Front(WorkStack) /\ Deleted' = Deleted \cup {Node}
  BY DEF FoundLoop
<1>2. /\ ToSet(WorkStack') = ToSet(WorkStack) \ {Node}
      /\ WorkStack' # <<>> => Last(WorkStack') \in ToSet(WorkStack') /\ Child(Succ', Last(WorkStack')) = Node
  BY <1>1, FrontIs
<1>3. /\ ToSet(LoopStack') = T \ B
      /\ B = {m \in T : NewIndex <= Index'[m]}
  BY ComponentIs
<1>4. /\ B \subseteq Nodes /\ Node \in B
      /\ IsClosedIn(B, T)
      /\ \A n \in B : \A k \in DOMAIN Edges(n) :
           \/ Edges(n)[k] \in B
           \/ Edges(n)[k] \in Deleted
           \/ Edges(n)[k] \in Finished(Index', Deleted, NewStack)
  BY ComponentIsComplete
<1>5. /\ Index'[Node] = NewIndex /\ T \subseteq Nodes /\ NewIndex \in Nat
      /\ \A m \in Nodes : Index'[m] \in Nat
      /\ \A m \in T : Index'[m] # UndefinedIndex
  <2>1. \A m \in T : Index'[m] # UndefinedIndex
    BY StackFacts DEF Sorted, ToSet
  <2> QED BY <2>1, OldFacts
<1> HIDE DEF B
<1>6. FinishedIsLeft(Index', Deleted', LoopStack')
  <2>1. Finished(Index', Deleted', LoopStack') = Finished(Index', Deleted, NewStack) \cup (B \ {Node})
    <3>1. \A m \in B : m \notin Deleted
      <4>1. \A m \in ToSet(LoopStack) : m \notin Deleted
        BY DEF AnalysisInv, Searching, ToSet
      <4>2. T \subseteq ToSet(LoopStack) \cup {Node}
        BY OldFacts
      <4> QED BY <1>3, <4>1, <4>2, NodeFacts, ProcessNodeParts
    <3>2. Node \in T
      BY OldFacts
    <3> QED BY <1>1, <1>3, <1>4, <1>5, <3>1, <3>2 DEF Finished
  <2>2. FinishedIsLeft(Index', Deleted, NewStack)
    BY FinishedStays
  <2> QED BY <1>1, <1>4, <2>1, <2>2 DEF FinishedIsLeft
<1>7. EdgesLinked(Index', LowLink', Succ', Deleted', WorkStack', LoopStack')
  <2>1. EdgesLinked(Index', LowLink', Succ', Deleted, WorkStack, NewStack)
    BY EdgesAreLinked
  <2> QED BY <1>1, <1>2, <1>3, <1>4, <2>1 DEF EdgesLinked
<1>8. TreeLinked(Index', LowLink', Succ', WorkStack', LoopStack')
  <2>1. TreeLinked(Index', LowLink', Succ', WorkStack, NewStack)
    BY TreeIsLinked
  <2>2. ASSUME NEW m \in T \ B, NEW c \in T, Index'[c] <= Index'[m] PROVE c \in T \ B
    BY <1>3, <1>5, <2>2
  <2> QED BY <1>2, <1>3, <2>1, <2>2 DEF TreeLinked
<1>9. ChildLinked(Index', LowLink', Succ', Deleted', WorkStack', LoopStack')
  BY <1>1, <1>2, <1>3, <1>4 DEF ChildLinked
<1>10. LowIsReached(Index', LowLink', LoopStack')
  <2>1. \A n, m \in T \ B : Index'[m] = LowLink'[n] => Reaches(n, m, T)
    BY LowIsStillReached DEF LowIsReached
  <2> HIDE DEF T
  <2> QED BY <1>3, <1>4, <2>1, ReachesWithoutClosedPart DEF LowIsReached
<1>11. WorkReaches(Index', WorkStack', LoopStack')
  <2>1. \A n \in ToSet(WorkStack'), m \in T \ B :
          Index'[n] # UndefinedIndex /\ Index'[n] <= Index'[m] => Reaches(n, m, T)
    BY <1>2, WorkStillReaches DEF WorkReaches
  <2> HIDE DEF T
  <2> QED BY <1>3, <1>4, <2>1, ReachesWithoutClosedPart DEF WorkReaches
<1> QED BY <1>6, <1>7, <1>8, <1>9, <1>10, <1>11 DEF FindsComponents

(***************************************************************************)
(* The natural loops depend on the function only.                          *)
(***************************************************************************)
LEMMA SameLoops ==
  ASSUME f' = f
  PROVE  /\ Nodes' = Nodes /\ Headers' = Headers
         /\ \A h : NaturalLoop(h)' = NaturalLoop(h)
         /\ Reducible' <=> Reducible
         /\ HeadersFirst' <=> HeadersFirst
<1>1. Nodes' = Nodes /\ \A n : Edges(n)' = Edges(n)
  BY DEF Nodes, Edges
<1>2. \A d, n : Dominates(d, n)' <=> Dominates(d, n)
  BY DEF Dominates, ReachableFrom, Edges
<1>3. BackEdges' = BackEdges
  BY <1>1, <1>2 DEF BackEdges, Dominates, ReachableFrom, Edges
<1>4. Headers' = Headers
  BY <1>3 DEF Headers
<1>5. \A h : NaturalLoop(h)' = NaturalLoop(h)
  BY <1>1, <1>2, <1>3 DEF NaturalLoop, ReachableFrom, Edges, Dominates
<1>6. Reducible' <=> Reducible
  BY <1>1, <1>3 DEF Reducible, Edges
<1>7. HeadersFirst' <=> HeadersFirst
  BY <1>4, <1>5 DEF HeadersFirst
<1> QED BY <1>1, <1>4, <1>5, <1>6, <1>7

LEMMA ComponentsPrimed ==
  ASSUME f' = f, FindsComponents(Index', LowLink', Succ', Deleted', WorkStack', LoopStack')
  PROVE  ComponentsInv'
<1>1. Nodes' = Nodes /\ \A n : Edges(n)' = Edges(n)
  BY DEF Nodes, Edges
<1>2. FinishedIsLeft(Index, Deleted, LoopStack)'
  BY <1>1 DEF FindsComponents, FinishedIsLeft, Finished, Edges
<1>3. EdgesLinked(Index, LowLink, Succ, Deleted, WorkStack, LoopStack)'
  BY <1>1 DEF FindsComponents, EdgesLinked, Edges
<1>4. TreeLinked(Index, LowLink, Succ, WorkStack, LoopStack)'
  BY <1>1 DEF FindsComponents, TreeLinked, Child, Edges
<1>5. ChildLinked(Index, LowLink, Succ, Deleted, WorkStack, LoopStack)'
  BY <1>1 DEF FindsComponents, ChildLinked, Child, Edges
<1>6. LowIsReached(Index, LowLink, LoopStack)'
  BY <1>1 DEF FindsComponents, LowIsReached, Reaches, IsClosedIn, Edges
<1>7. WorkReaches(Index, WorkStack, LoopStack)'
  BY <1>1 DEF FindsComponents, WorkReaches, Reaches, IsClosedIn, Edges
<1> QED BY <1>2, <1>3, <1>4, <1>5, <1>6, <1>7 DEF ComponentsInv, FindsComponents

(***************************************************************************)
(* While LoopStack is empty, the last node of WorkStack is new, if there   *)
(* is one.                                                                 *)
(***************************************************************************)
LEMMA NothingStacked ==
  ASSUME NEW index, NEW low, NEW succ, NEW deleted, NEW work,
         FinishedIsLeft(index, deleted, <<>>), work # <<>> => index[Last(work)] = UndefinedIndex
  PROVE  FindsComponents(index, low, succ, deleted, work, <<>>)
<1>1. ToSet(<<>>) = {}
  BY DEF ToSet
<1> QED BY <1>1 DEF FindsComponents, EdgesLinked, TreeLinked, ChildLinked, LowIsReached, WorkReaches

LEMMA AnalyzeKeepsComponents ==
  ASSUME AnalysisInv, ComponentsInv, Analyze
  PROVE  ComponentsInv'
<1>1. f' = f
  BY ProcessNodeParts DEF Analyze, StartRound, EndRounds, VisitRoot, AddLoop
<1>2. CASE StartRound
  <2>1. /\ Deleted' = Deleted /\ WorkStack' = WorkStack /\ LoopStack' = LoopStack
        /\ WorkStack = <<>> /\ LoopStack = <<>>
        /\ \A n \in Nodes : n \notin Deleted => Index'[n] = UndefinedIndex
    BY <1>2 DEF StartRound, Reset, AnalysisInv, Searching
  <2>2. FinishedIsLeft(Index', Deleted', <<>>)
    BY <2>1 DEF FinishedIsLeft, Finished
  <2> QED BY <1>1, <2>1, <2>2, NothingStacked, ComponentsPrimed
<1>3. CASE VisitRoot
  <2>1. /\ Index' = Index /\ LowLink' = LowLink /\ Succ' = Succ /\ Deleted' = Deleted
        /\ LoopStack' = LoopStack /\ WorkStack = <<>>
        /\ WorkStack' = WorkStack \/ (Unvisited # {} /\ WorkStack' = <<Min(Unvisited)>>)
    BY <1>3 DEF VisitRoot
  <2>2. LoopStack = <<>>
    BY <2>1, StacksAreEmpty
  <2>3. FinishedIsLeft(Index', Deleted', <<>>)
    BY <2>1, <2>2 DEF ComponentsInv, FindsComponents
  <2>4. WorkStack' # <<>> => Index'[Last(WorkStack')] = UndefinedIndex
    <3>1. SUFFICES ASSUME Unvisited # {}, WorkStack' = <<Min(Unvisited)>>
                   PROVE  Index[Last(WorkStack')] = UndefinedIndex
      BY <2>1
    <3>2. Unvisited \in SUBSET Nat
      <4>1. Nodes \subseteq Nat
        BY GraphOfF DEF AnalysisInv, Nodes, IsGraph
      <4> QED BY <4>1 DEF Unvisited
    <3>3. Min(Unvisited) \in Unvisited
      BY <3>1, <3>2, MinFacts
    <3>4. Last(WorkStack') = Min(Unvisited)
      BY <3>1 DEF Last
    <3> QED BY <3>3, <3>4 DEF Unvisited
  <2> QED BY <1>1, <2>1, <2>2, <2>3, <2>4, NothingStacked, ComponentsPrimed
<1>4. CASE ProcessNode
  BY <1>1, <1>4, ProcessNodeParts, RecurseFindsComponents, ReturnFindsComponents,
     FoundLoopFindsComponents, ComponentsPrimed
<1>5. CASE EndRounds \/ AddLoop
  <2>1. UNCHANGED <<Index, LowLink, Succ, Deleted, WorkStack, LoopStack>>
    BY <1>5 DEF EndRounds, AddLoop, tarjan
  <2> QED BY <1>1, <2>1, ComponentsPrimed DEF ComponentsInv
<1> QED BY <1>2, <1>3, <1>4, <1>5 DEF Analyze

LEMMA InitEstablishesComponents == ASSUME Init PROVE ComponentsInv
<1>1. /\ Index = [n \in Nodes |-> UndefinedIndex] /\ WorkStack = <<>> /\ LoopStack = <<>>
  BY DEF Init
<1>2. FinishedIsLeft(Index, Deleted, <<>>)
  BY <1>1 DEF FinishedIsLeft, Finished
<1> QED BY <1>1, <1>2, NothingStacked DEF ComponentsInv

-----------------------------------------------------------------------------
(***************************************************************************)
(* The loop nest depth.  A loop is visited from its header; its header is  *)
(* deleted before its other nodes; and the depth counts the loops of the   *)
(* headers deleted.                                                        *)
(***************************************************************************)
HeadersBefore(index, deleted, work) ==
  \A h \in Headers \ deleted : \A n \in NaturalLoop(h) :
    /\ index[n] # UndefinedIndex => index[h] # UndefinedIndex /\ index[h] <= index[n]
    /\ work # <<>> /\ n = Last(work) => h = n \/ index[h] # UndefinedIndex
OutsideIn(deleted) == \A h \in Headers : \A n \in NaturalLoop(h) : n \in deleted => h \in deleted
DepthCounts(depth, deleted) ==
  \A n \in Nodes : depth[n] = Cardinality({h \in Headers \cap deleted : n \in NaturalLoop(h)})
Nesting(index, deleted, work, depth) ==
  HeadersBefore(index, deleted, work) /\ OutsideIn(deleted) /\ DepthCounts(depth, deleted)

LEMMA VisitedAfterHeader ==
  ASSUME AnalysisInv, ProcessNode, HeadersBefore(Index, Deleted, WorkStack),
         NEW h \in Headers \ Deleted, NEW n \in NaturalLoop(h), Index'[n] # UndefinedIndex
  PROVE  Index'[h] # UndefinedIndex /\ Index'[h] <= Index'[n]
<1>1. /\ \A m \in ToSet(LoopStack) : Index'[m] = Index[m]
      /\ ~IsNew => NewIndex = Index[Node]
      /\ IsNew => NewIndex = NextIndex
      /\ \A m \in Nodes \ {Node} : Index'[m] = Index[m]
      /\ Index'[Node] = NewIndex
      /\ \A m \in Nodes : Index'[m] \in Nat /\ Index[m] \in Nat
      /\ NewIndex # UndefinedIndex /\ NewIndex \in Nat
  BY OldFacts
<1>2. /\ Index[n] # UndefinedIndex => Index[h] # UndefinedIndex /\ Index[h] <= Index[n]
      /\ n = Node => h = n \/ Index[h] # UndefinedIndex
  BY ProcessNodeParts DEF HeadersBefore, Node
<1>3. h \in Nodes /\ n \in Nodes
  BY LoopFacts DEF AnalysisInv
<1>4. \A m \in Nodes : Index[m] < NextIndex
  BY DEF AnalysisInv, Searching
<1>5. CASE n = Node /\ IsNew
  BY <1>1, <1>2, <1>3, <1>4, <1>5
<1>6. CASE ~(n = Node /\ IsNew)
  <2>1. Index[n] # UndefinedIndex /\ Index'[n] = Index[n]
    BY <1>1, <1>3, <1>6 DEF IsNew
  <2>2. Index'[h] = Index[h]
    BY <1>1, <1>2, <1>3, <2>1 DEF IsNew
  <2> QED BY <1>2, <2>1, <2>2
<1> QED BY <1>5, <1>6

(***************************************************************************)
(* The component found has the natural loops around the node whose header  *)
(* is not deleted: from the node to the header and back there is no way    *)
(* through the components found before.                                    *)
(***************************************************************************)
LEMMA LoopsOfNode ==
  ASSUME AnalysisInv, ComponentsInv, ProcessNode, To > Len(Edges(Node)), NewLow = NewIndex,
         OutsideIn(Deleted), NEW h \in Headers \ Deleted, Node \in NaturalLoop(h)
  PROVE  NaturalLoop(h) \subseteq Component(Node, NewStack)
<1> DEFINE B == Component(Node, NewStack)
           L == NaturalLoop(h)
           D == Finished(Index', Deleted, NewStack)
<1>1. SUFFICES ASSUME NEW n \in L PROVE n \in B
  OBVIOUS
<1>2. /\ Reaches(n, h, L) /\ Reaches(h, n, L)
      /\ Reaches(Node, h, L) /\ Reaches(h, Node, L)
  BY LoopIsConnected DEF AnalysisInv
<1>3. Reaches(Node, n, L) /\ Reaches(n, Node, L)
  <2> HIDE DEF L
  <2> QED BY <1>2, ReachesThrough
<1>4. L \cap Deleted = {}
  BY DEF OutsideIn
<1>5. /\ B \subseteq Nodes /\ Node \in B
      /\ \A m \in B : \A k \in DOMAIN Edges(m) : Edges(m)[k] \in B \/ Edges(m)[k] \in Deleted \/ Edges(m)[k] \in D
  BY ComponentIsComplete
<1>6. D \subseteq Nodes /\ \A m \in D : \A k \in DOMAIN Edges(m) : Edges(m)[k] \in D \/ Edges(m)[k] \in Deleted
  BY FinishedStays DEF FinishedIsLeft, Finished
<1>7. Node \notin D
  BY OldFacts DEF Finished
<1> HIDE DEF B, D, L
<1>8. IsClosedIn(B \cup D, L) /\ IsClosedIn(D, L)
  BY <1>4, <1>5, <1>6 DEF IsClosedIn
<1>9. n \in B \cup D
  <2>1. B \cup D \in SUBSET Nodes
    BY <1>5, <1>6
  <2> QED BY <1>3, <1>5, <1>8, <2>1 DEF Reaches
<1>10. n \notin D
  <2>1. D \in SUBSET Nodes
    BY <1>6
  <2> QED BY <1>3, <1>7, <1>8, <2>1 DEF Reaches
<1> QED BY <1>9, <1>10

(***************************************************************************)
(* The nodes that count are those of the natural loop of the node, if it   *)
(* is a header.                                                            *)
(***************************************************************************)
LEMMA NestedIsLoop ==
  ASSUME AnalysisInv, ComponentsInv, ProcessNode, To > Len(Edges(Node)), NewLow = NewIndex,
         HeadersBefore(Index, Deleted, WorkStack), OutsideIn(Deleted), Reducible
  PROVE  /\ Node \in Headers => Nested(Node, Component(Node, NewStack)) = NaturalLoop(Node)
         /\ Node \notin Headers => Nested(Node, Component(Node, NewStack)) = {}
         /\ \A h \in Headers : Node \in NaturalLoop(h) => h \in Deleted \cup {Node}
<1> DEFINE B == Component(Node, NewStack)
<1>1. B \subseteq Nodes /\ Node \in B /\ IsComponent(B)
  BY ComponentIsComplete
<1>2. /\ B = {m \in ToSet(NewStack) : NewIndex <= Index'[m]}
      /\ Index'[Node] = NewIndex /\ Node \in ToSet(NewStack) /\ NewIndex \in Nat
      /\ NewIndex # UndefinedIndex
      /\ \A m \in Nodes : Index'[m] \in Nat
      /\ \A m, l \in ToSet(NewStack) : Index'[m] = Index'[l] => m = l
  BY ComponentIs, OldFacts
<1>3. Node \notin Deleted /\ \A m \in B : m \notin Deleted
  <2>1. \A m \in ToSet(LoopStack) : m \notin Deleted
    BY DEF AnalysisInv, Searching, ToSet
  <2>2. ToSet(NewStack) \subseteq ToSet(LoopStack) \cup {Node} /\ Node \notin Deleted
    BY OldFacts, NodeFacts, ProcessNodeParts
  <2> HIDE DEF B
  <2> QED BY <1>2, <2>1, <2>2
<1> HIDE DEF B
<1>4. ASSUME NEW h \in Headers \ Deleted, Node \in NaturalLoop(h), h \in B PROVE h = Node
  <2>1. Index'[h] <= Index'[Node]
    BY <1>2, <1>4, VisitedAfterHeader
  <2>2. NewIndex <= Index'[h] /\ h \in ToSet(NewStack) /\ Index'[h] \in Nat
    BY <1>1, <1>2, <1>4
  <2> QED BY <1>2, <2>1, <2>2
<1>5. ASSUME NEW h \in Headers, Node \in NaturalLoop(h) PROVE h \in Deleted \cup {Node}
  <2>1. SUFFICES ASSUME h \notin Deleted PROVE h = Node
    OBVIOUS
  <2>2. NaturalLoop(h) \subseteq B /\ h \in NaturalLoop(h)
    BY <1>5, <2>1, LoopsOfNode, LoopFacts DEF B, AnalysisInv
  <2> QED BY <1>4, <1>5, <2>1, <2>2
<1>6. ASSUME Node \in Headers
      PROVE  /\ NaturalLoop(Node) \subseteq B
             /\ \E n \in NaturalLoop(Node) : Node \in ToSet(Edges(n))
  <2>1. Node \in NaturalLoop(Node) /\ \E n \in NaturalLoop(Node) : Node \in ToSet(Edges(n))
    BY <1>6, LoopFacts DEF AnalysisInv
  <2> QED BY <1>3, <1>6, <2>1, LoopsOfNode DEF B
<1>7. CASE B = {Node} /\ ~HasSelfEdge(Node)
  <2>1. Nested(Node, B) = {}
    BY <1>7 DEF Nested
  <2>2. Node \notin Headers
    BY <1>6, <1>7 DEF HasSelfEdge
  <2> QED BY <1>5, <2>1, <2>2 DEF B
<1>8. CASE ~(B = {Node} /\ ~HasSelfEdge(Node))
  <2>1. Nested(Node, B) = B
    BY <1>8 DEF Nested
  <2>2. ASSUME NEW n \in B PROVE \E m \in B : n \in ToSet(Edges(m))
    <3>1. CASE B = {Node}
      BY <1>8, <2>2, <3>1 DEF HasSelfEdge
    <3>2. CASE B # {Node}
      <4>1. PICK m \in B : m # n
        BY <1>1, <3>2
      <4>2. SUFFICES ASSUME \A a \in B : n \notin ToSet(Edges(a)) PROVE FALSE
        OBVIOUS
      <4>3. IsClosedIn(B \ {n}, B)
        BY <4>2 DEF IsClosedIn, ToSet
      <4>4. B \ {n} \in SUBSET Nodes /\ m \in B \ {n} /\ Reaches(m, n, B)
        BY <1>1, <4>1 DEF IsComponent
      <4> QED BY <4>3, <4>4 DEF Reaches
    <3> QED BY <3>1, <3>2
  <2>3. PICK h \in B : h \in Headers /\ B \subseteq NaturalLoop(h)
    BY <1>1, <2>2, ComponentHasHeader DEF AnalysisInv
  <2>4. h = Node
    BY <1>1, <1>3, <1>4, <2>3
  <2>5. Node \in Headers /\ B = NaturalLoop(Node)
    BY <1>6, <2>3, <2>4
  <2> QED BY <1>5, <2>1, <2>5 DEF B
<1> QED BY <1>7, <1>8

(***************************************************************************)
(* The steps of the analysis keep this.                                    *)
(***************************************************************************)
LEMMA FoundLoopKeepsNesting ==
  ASSUME AnalysisInv, ComponentsInv, ProcessNode, To > Len(Edges(Node)), NewLow = NewIndex,
         FoundLoop(Node, NewStack), Nesting(Index, Deleted, WorkStack, NestDepth), Reducible
  PROVE  Nesting(Index', Deleted', WorkStack', NestDepth')
<1> DEFINE B == Component(Node, NewStack)
<1>1. /\ WorkStack' = Front(WorkStack) /\ Deleted' = Deleted \cup {Node}
      /\ NestDepth' = [m \in Nodes |-> IF m \in Nested(Node, B) THEN NestDepth[m] + 1 ELSE NestDepth[m]]
  BY DEF FoundLoop
<1>2. HeadersBefore(Index, Deleted, WorkStack) /\ OutsideIn(Deleted) /\ DepthCounts(NestDepth, Deleted)
  BY DEF Nesting
<1>3. /\ Node \in Headers => Nested(Node, B) = NaturalLoop(Node)
      /\ Node \notin Headers => Nested(Node, B) = {}
      /\ \A h \in Headers : Node \in NaturalLoop(h) => h \in Deleted \cup {Node}
  BY <1>2, NestedIsLoop
<1>4. HeadersBefore(Index', Deleted', WorkStack')
  <2>1. ASSUME NEW h \in Headers \ Deleted', NEW n \in NaturalLoop(h), Index'[n] # UndefinedIndex
        PROVE  Index'[h] # UndefinedIndex /\ Index'[h] <= Index'[n]
    BY <1>1, <1>2, <2>1, VisitedAfterHeader
  <2>2. ASSUME WorkStack' # <<>> PROVE Index'[Last(WorkStack')] # UndefinedIndex
    <3>1. Last(WorkStack') \in ToSet(WorkStack) \ {Node}
      BY <1>1, <2>2, FrontIs
    <3>2. Last(WorkStack') \in ToSet(LoopStack) /\ Index[Last(WorkStack')] # UndefinedIndex
      BY <3>1, CallerFacts
    <3> QED BY <3>2, OldFacts
  <2> QED BY <2>1, <2>2 DEF HeadersBefore
<1>5. OutsideIn(Deleted')
  BY <1>1, <1>2, <1>3 DEF OutsideIn
<1>6. DepthCounts(NestDepth', Deleted')
  <2>1. SUFFICES ASSUME NEW n \in Nodes
                 PROVE  NestDepth'[n] = Cardinality({h \in Headers \cap (Deleted \cup {Node}) : n \in NaturalLoop(h)})
    BY <1>1 DEF DepthCounts
  <2> DEFINE Old == {h \in Headers \cap Deleted : n \in NaturalLoop(h)}
             New == {h \in Headers \cap (Deleted \cup {Node}) : n \in NaturalLoop(h)}
  <2>2. NestDepth[n] = Cardinality(Old)
    BY <1>2 DEF DepthCounts
  <2>3. NestDepth'[n] = IF n \in Nested(Node, B) THEN NestDepth[n] + 1 ELSE NestDepth[n]
    BY <1>1
  <2>4. IsFiniteSet(Old) /\ Node \notin Old
    <3>1. Old \in SUBSET Nodes
      BY DEF AnalysisInv, TypesOfAnalysis
    <3>2. Node \notin Deleted
      BY NodeFacts, ProcessNodeParts
    <3> QED BY <3>1, <3>2, NodesAreFinite DEF AnalysisInv
  <2>5. CASE Node \in Headers /\ n \in NaturalLoop(Node)
    <3>1. New = Old \cup {Node}
      BY <2>5
    <3>2. Cardinality(Old \cup {Node}) = Cardinality(Old) + 1
      <4> HIDE DEF Old
      <4> QED BY <2>4, FS_AddElement
    <3>3. n \in Nested(Node, B)
      BY <1>3, <2>5
    <3> HIDE DEF Old, New, B
    <3>4. Cardinality(New) = NestDepth'[n]
      BY <2>2, <2>3, <3>1, <3>2, <3>3
    <3> QED BY <3>4 DEF New
  <2>6. CASE ~(Node \in Headers /\ n \in NaturalLoop(Node))
    <3>1. New = Old
      BY <2>6
    <3>2. n \notin Nested(Node, B)
      BY <1>3, <2>6
    <3> HIDE DEF Old, New, B
    <3>3. Cardinality(New) = NestDepth'[n]
      BY <2>2, <2>3, <3>1, <3>2
    <3> QED BY <3>3 DEF New
  <2> QED BY <2>5, <2>6
<1> QED BY <1>4, <1>5, <1>6 DEF Nesting

LEMMA RecurseKeepsNesting ==
  ASSUME AnalysisInv, ProcessNode, Recurse(Node, To, NewStack),
         Nesting(Index, Deleted, WorkStack, NestDepth)
  PROVE  Nesting(Index', Deleted', WorkStack', NestDepth')
<1> DEFINE m == Edges(Node)[To]
<1>1. /\ WorkStack' = Append(WorkStack, m) /\ Deleted' = Deleted /\ NestDepth' = NestDepth
      /\ To <= Len(Edges(Node)) /\ WorkStack # <<>> /\ WorkStack \in Seq(Nodes)
  BY ProcessNodeParts DEF Recurse, AnalysisInv, TypesOfAnalysis
<1>2. To \in DOMAIN Edges(Node) /\ m \in Nodes
  BY <1>1, ToFacts
<1>3. Last(WorkStack') = m
  <2> HIDE DEF m
  <2> QED BY <1>1, <1>2 DEF Last
<1>4. HeadersBefore(Index, Deleted, WorkStack)
  BY DEF Nesting
<1>5. ASSUME NEW h \in Headers \ Deleted, NEW n \in NaturalLoop(h), Index'[n] # UndefinedIndex
      PROVE  Index'[h] # UndefinedIndex /\ Index'[h] <= Index'[n]
  BY <1>4, <1>5, VisitedAfterHeader
<1>6. ASSUME NEW h \in Headers \ Deleted, m \in NaturalLoop(h), m # h PROVE Index'[h] # UndefinedIndex
  <2>1. Node \in NaturalLoop(h)
    <3>1. h \in Nodes /\ Node \in Nodes
      BY LoopFacts, OldFacts DEF AnalysisInv
    <3> QED BY <1>2, <1>6, <3>1, LoopIsEnteredAtHeader DEF AnalysisInv
  <2>2. Index'[Node] # UndefinedIndex
    BY OldFacts
  <2> QED BY <1>5, <2>1, <2>2
<1> HIDE DEF m
<1>7. HeadersBefore(Index', Deleted', WorkStack')
  BY <1>1, <1>3, <1>5, <1>6 DEF HeadersBefore
<1> QED BY <1>1, <1>7 DEF Nesting

LEMMA ReturnKeepsNesting ==
  ASSUME AnalysisInv, ProcessNode, ReturnLinked(Node, NewStack),
         Nesting(Index, Deleted, WorkStack, NestDepth)
  PROVE  Nesting(Index', Deleted', WorkStack', NestDepth')
<1>1. WorkStack' = Front(WorkStack) /\ Deleted' = Deleted /\ NestDepth' = NestDepth
  BY DEF ReturnLinked
<1>2. ASSUME NEW h \in Headers \ Deleted, NEW n \in NaturalLoop(h), Index'[n] # UndefinedIndex
      PROVE  Index'[h] # UndefinedIndex /\ Index'[h] <= Index'[n]
  BY <1>2, VisitedAfterHeader DEF Nesting
<1>3. ASSUME WorkStack' # <<>> PROVE Index'[Last(WorkStack')] # UndefinedIndex
  <2>1. Last(WorkStack') \in ToSet(WorkStack) \ {Node}
    BY <1>1, <1>3, FrontIs
  <2>2. Last(WorkStack') \in ToSet(LoopStack) /\ Index[Last(WorkStack')] # UndefinedIndex
    BY <2>1, CallerFacts
  <2> QED BY <2>2, OldFacts
<1>4. HeadersBefore(Index', Deleted', WorkStack')
  BY <1>1, <1>2, <1>3 DEF HeadersBefore
<1> QED BY <1>1, <1>4 DEF Nesting

LEMMA StartRoundKeepsNesting ==
  ASSUME AnalysisInv, StartRound, Nesting(Index, Deleted, WorkStack, NestDepth)
  PROVE  Nesting(Index', Deleted', WorkStack', NestDepth')
<1>1. /\ Deleted' = Deleted /\ WorkStack' = WorkStack /\ NestDepth' = NestDepth /\ WorkStack = <<>>
      /\ \A n \in Nodes : n \notin Deleted => Index'[n] = UndefinedIndex
  BY DEF StartRound, Reset, AnalysisInv, Searching
<1>2. ASSUME NEW h \in Headers \ Deleted, NEW n \in NaturalLoop(h) PROVE Index'[n] = UndefinedIndex
  <2>1. n \in Nodes
    BY LoopFacts DEF AnalysisInv
  <2>2. n \notin Deleted
    BY DEF Nesting, OutsideIn
  <2> QED BY <1>1, <2>1, <2>2
<1>3. HeadersBefore(Index', Deleted', WorkStack')
  BY <1>1, <1>2 DEF HeadersBefore
<1> QED BY <1>1, <1>3 DEF Nesting

LEMMA VisitRootKeepsNesting ==
  ASSUME AnalysisInv, VisitRoot, HeadersFirst, Nesting(Index, Deleted, WorkStack, NestDepth)
  PROVE  Nesting(Index', Deleted', WorkStack', NestDepth')
<1>1. /\ Index' = Index /\ Deleted' = Deleted /\ NestDepth' = NestDepth
      /\ WorkStack' = WorkStack \/ (Unvisited # {} /\ WorkStack' = <<Min(Unvisited)>>)
  BY DEF VisitRoot
<1>2. CASE WorkStack' = WorkStack
  BY <1>1, <1>2
<1>3. CASE Unvisited # {} /\ WorkStack' = <<Min(Unvisited)>>
  <2>1. Nodes \subseteq Nat
    BY GraphOfF DEF AnalysisInv, Nodes, IsGraph
  <2>2. Unvisited \in SUBSET Nat
    BY <2>1 DEF Unvisited
  <2>3. Min(Unvisited) \in Unvisited /\ \A n \in Unvisited : Min(Unvisited) <= n
    BY <1>3, <2>2, MinFacts
  <2>4. Last(WorkStack') = Min(Unvisited)
    BY <1>3 DEF Last
  <2>5. ASSUME NEW h \in Headers \ Deleted, Min(Unvisited) \in NaturalLoop(h), Index[h] = UndefinedIndex
        PROVE  h = Min(Unvisited)
    <3>1. h \in Nodes
      BY LoopFacts DEF AnalysisInv
    <3>2. h \in Unvisited
      BY <2>5, <3>1 DEF Unvisited
    <3>3. h <= Min(Unvisited)
      BY <2>5 DEF HeadersFirst
    <3>4. Min(Unvisited) <= h /\ Min(Unvisited) \in Nat
      BY <2>2, <2>3, <3>2
    <3>5. h \in Nat
      BY <2>1, <3>1
    <3> QED BY <3>3, <3>4, <3>5
  <2>6. HeadersBefore(Index', Deleted', WorkStack')
    BY <1>1, <2>4, <2>5 DEF Nesting, HeadersBefore
  <2> QED BY <1>1, <2>6 DEF Nesting
<1> QED BY <1>1, <1>2, <1>3

(***************************************************************************)
(* The invariant of the nest depth.                                        *)
(***************************************************************************)
NestInv ==
  /\ TypeInv
  /\ ComponentsInv
  /\ Reducible /\ HeadersFirst => Nesting(Index, Deleted, WorkStack, NestDepth)
  /\ pc = "info" => Deleted = Nodes

LEMMA NestingPrimed ==
  ASSUME f' = f, Reducible /\ HeadersFirst => Nesting(Index', Deleted', WorkStack', NestDepth')
  PROVE  (Reducible /\ HeadersFirst => Nesting(Index, Deleted, WorkStack, NestDepth))'
<1>1. /\ Nodes' = Nodes /\ Headers' = Headers
      /\ \A h : NaturalLoop(h)' = NaturalLoop(h)
      /\ (Reducible' <=> Reducible) /\ (HeadersFirst' <=> HeadersFirst)
  BY SameLoops
<1>2. Nesting(Index', Deleted', WorkStack', NestDepth') => Nesting(Index, Deleted, WorkStack, NestDepth)'
  BY <1>1 DEF Nesting, HeadersBefore, OutsideIn, DepthCounts
<1> QED BY <1>1, <1>2

LEMMA InitEstablishesNestInv == ASSUME InitMotion PROVE NestInv
<1>1. Init
  BY DEF InitMotion
<1>2. /\ pc = "round" /\ Deleted = {} /\ WorkStack = <<>>
      /\ Index = [n \in Nodes |-> UndefinedIndex] /\ NestDepth = [n \in Nodes |-> 0]
  BY <1>1 DEF Init
<1>3. TypeInv /\ ComponentsInv
  BY <1>1, InitEstablishesTypeInv, InitEstablishesComponents
<1>4. HeadersBefore(Index, Deleted, WorkStack)
  <2>1. \A h \in Headers : \A n \in NaturalLoop(h) : n \in Nodes
    BY <1>3, LoopFacts DEF TypeInv, AnalysisInv
  <2> QED BY <1>2, <2>1 DEF HeadersBefore
<1>5. OutsideIn(Deleted)
  BY <1>2 DEF OutsideIn
<1>6. DepthCounts(NestDepth, Deleted)
  <2>1. \A n \in Nodes : {h \in Headers \cap Deleted : n \in NaturalLoop(h)} = {}
    BY <1>2
  <2>2. Cardinality({}) = 0
    BY FS_EmptySet
  <2> QED BY <1>2, <2>1, <2>2 DEF DepthCounts
<1> QED BY <1>2, <1>3, <1>4, <1>5, <1>6 DEF NestInv, Nesting

LEMMA AnalyzeKeepsNestInv ==
  ASSUME NestInv, Analyze, UNCHANGED <<Insts, next>>
  PROVE  NestInv'
<1>1. AnalysisInv /\ ComponentsInv /\ TypeInv
  BY DEF NestInv, TypeInv
<1>2. TypeInv' /\ ComponentsInv'
  BY <1>1, AnalyzeKeepsTypeInv, AnalyzeKeepsComponents
<1>3. f' = f
  BY ProcessNodeParts DEF Analyze, StartRound, EndRounds, VisitRoot, AddLoop
<1>4. ASSUME Reducible, HeadersFirst PROVE Nesting(Index', Deleted', WorkStack', NestDepth')
  <2>1. Nesting(Index, Deleted, WorkStack, NestDepth)
    BY <1>4 DEF NestInv
  <2>2. CASE StartRound
    BY <1>1, <2>1, <2>2, StartRoundKeepsNesting
  <2>3. CASE VisitRoot
    BY <1>1, <1>4, <2>1, <2>3, VisitRootKeepsNesting
  <2>4. CASE ProcessNode
    BY <1>1, <1>4, <2>1, <2>4, ProcessNodeParts, RecurseKeepsNesting, ReturnKeepsNesting,
       FoundLoopKeepsNesting
  <2>5. CASE EndRounds \/ AddLoop
    <3>1. UNCHANGED <<Index, Deleted, WorkStack, NestDepth>>
      BY <2>5 DEF EndRounds, AddLoop, tarjan
    <3> QED BY <2>1, <3>1
  <2> QED BY <2>2, <2>3, <2>4, <2>5 DEF Analyze
<1>5. pc' = "info" => Deleted' = Nodes'
  <2>1. Nodes' = Nodes
    BY <1>3 DEF Nodes
  <2>2. CASE StartRound \/ VisitRoot \/ ProcessNode
    BY <2>2, ProcessNodeParts DEF StartRound, VisitRoot
  <2>3. CASE EndRounds
    BY <2>1, <2>3 DEF EndRounds, tarjan
  <2>4. CASE AddLoop
    BY <2>1, <2>4 DEF AddLoop, tarjan, NestInv
  <2> QED BY <2>2, <2>3, <2>4 DEF Analyze
<1>6. (Reducible /\ HeadersFirst => Nesting(Index, Deleted, WorkStack, NestDepth))'
  BY <1>3, <1>4, NestingPrimed
<1> QED BY <1>2, <1>5, <1>6 DEF NestInv

LEMMA MotionKeepsNestInv ==
  ASSUME NestInv, MoveInvariants \/ EndMotion \/ UNCHANGED allVars
  PROVE  NestInv'
<1>1. /\ f' = f
      /\ UNCHANGED <<Index, LowLink, Succ, Deleted, WorkStack, LoopStack, NestDepth>>
      /\ pc' = pc \/ pc' = "done"
  BY DEF MoveInvariants, EndMotion, allVars, vars, tarjan
<1>2. TypeInv'
  <2>1. CASE MoveInvariants
    BY <2>1, MoveInvariantsKeepsTypeInv DEF NestInv
  <2>2. CASE EndMotion
    BY <2>2, EndMotionKeepsTypeInv DEF NestInv
  <2>3. CASE UNCHANGED allVars
    <3>1. AnalysisInv'
      BY <2>3, StutterKeepsAnalysisInv DEF allVars, NestInv, TypeInv
    <3> QED BY <2>3, <3>1 DEF NestInv, TypeInv, MotionTypes, allVars, vars, Nodes, Code
  <2> QED BY <2>1, <2>2, <2>3
<1>3. ComponentsInv'
  BY <1>1, ComponentsPrimed DEF NestInv, ComponentsInv
<1>4. (Reducible /\ HeadersFirst => Nesting(Index, Deleted, WorkStack, NestDepth))'
  <2>1. Reducible /\ HeadersFirst => Nesting(Index', Deleted', WorkStack', NestDepth')
    BY <1>1 DEF NestInv
  <2> QED BY <1>1, <2>1, NestingPrimed
<1>5. pc' = "info" => Deleted' = Nodes'
  BY <1>1 DEF NestInv, Nodes
<1> QED BY <1>2, <1>3, <1>4, <1>5 DEF NestInv

(***************************************************************************)
(* The depth that uses are weighted by is the number of natural loops      *)
(* around a node: for each function whose loops have one entry each, which *)
(* comes first.                                                            *)
(***************************************************************************)
THEOREM NestDepthIsExactCorrect == Spec => []NestDepthIsExact
<1>1. InitMotion => NestInv
  BY InitEstablishesNestInv
<1>2. NestInv /\ [Next]_allVars => NestInv'
  BY AnalyzeKeepsNestInv, MotionKeepsNestInv DEF Next, Terminated
<1>3. NestInv => NestDepthIsExact
  <2>1. SUFFICES ASSUME NestInv, pc = "info", Reducible, HeadersFirst, NEW n \in Nodes
                 PROVE  NestDepth[n] = Cardinality({h \in Headers : n \in NaturalLoop(h)})
    BY DEF NestDepthIsExact
  <2>2. NestDepth[n] = Cardinality({h \in Headers \cap Deleted : n \in NaturalLoop(h)})
    BY <2>1 DEF NestInv, Nesting, DepthCounts
  <2>3. Headers \cap Deleted = Headers
    <3>1. Headers \subseteq Nodes /\ Deleted = Nodes
      BY <2>1, LoopFacts DEF NestInv, TypeInv, AnalysisInv
    <3> QED BY <3>1
  <2> QED BY <2>2, <2>3
<1> QED BY <1>1, <1>2, <1>3, PTL DEF Spec

=============================================================================
