---------------------- MODULE TranslationPipelineProofs ----------------------
(***************************************************************************)
(* Proofs about the translation pipeline, for any number of functions and  *)
(* worker threads, any command lines and any sizes of the queues.          *)
(*                                                                         *)
(* An item carries its sequence number from OptQ to the output.  Held is   *)
(* the set of the numbers that are on their way; every number up to the    *)
(* last one popped has either come out or is held in exactly one place     *)
(* (Items, Account).  The emitter's bounds start and end separate what     *)
(* has come out from what is to come (Reordering, Windows), or, without    *)
(* threads, there is only one item at a time (NestedCalls).                *)
(***************************************************************************)
EXTENDS TranslationPipeline, Integers, FiniteSetTheorems, SequenceTheorems, TLAPS

-----------------------------------------------------------------------------
(***************************************************************************)
(* WaitForWorkerThreadsCalled is false before the first call: what the     *)
(* code relies on and does not establish.                                  *)
(***************************************************************************)
FlagStartsFalse == TRUE \notin WaitCalledAtStart

(***************************************************************************)
(* The local variables of emitItems(), and what data lowering is given.    *)
(***************************************************************************)
Pendings == UNION {[D -> ItemSet] : D \in SUBSET Nat}
Locals == [pending : Pendings, desired : Nat, start : Nat, end : Nat, queueEmpty : BOOLEAN]
DataPieces == [kind : {"data"}, list : Seq(SeqNumbers)]
CodeTexts == [kind : {"code"}, seq : SeqNumbers]

Threads == Workers \cup {Main}
Active(t) == trPc[t] \in {"parse", "translate", "push"}

(***************************************************************************)
(* Numbers are given out one after the other, and a queued function has    *)
(* the number of its place.                                                *)
(***************************************************************************)
Numbering ==
  /\ mainPc = "install" => nextSeq = 1 /\ nextFn = 1 /\ optQ = <<>>
  /\ mainPc = "parse" => nextSeq = nextFn + 1
  /\ mainPc = "push" => nextSeq = nextFn + 2 /\ nextFn \in Functions
  /\ mainPc # "install" => Len(optQ) < nextFn
  /\ \A k \in DOMAIN optQ : optQ[k] = nextFn - Len(optQ) + k

TypeInv ==
  /\ TypeOK
  /\ em \in Locals
  /\ output \in Seq(DataPieces \cup CodeTexts)
  /\ globals \in Seq(SeqNumbers)
  /\ \A t \in Threads : Active(t) => trSeq[t] \in SeqNumbers
  /\ Numbering

(***************************************************************************)
(* The last number whose item has left OptQ, and the numbers whose items   *)
(* are on their way: in a translator, in EmitQ, or set aside by the        *)
(* emitter.                                                                *)
(***************************************************************************)
Popped == IF mainPc = "install" THEN 0 ELSE nextFn - Len(optQ)
Working == {q \in SeqNumbers : \E t \in Threads : Active(t) /\ trSeq[t] = q}
Queued == {q \in SeqNumbers : \E k \in DOMAIN emitQ : emitQ[k].seq = q}
Parked == {q \in SeqNumbers : \E i \in DOMAIN em.pending : em.pending[i].seq = q}
Held == Working \cup Queued \cup Parked

(***************************************************************************)
(* Where the threads can be at each stage of the main thread.              *)
(***************************************************************************)
Waiting == {"joinTranslators", "joinEmitter", "exited", "compiler", "finish", "done"}
Phases ==
  /\ waitCalled <=> mainPc \in Waiting
  /\ optEnded <=> mainPc \in Waiting
  /\ emitEnded <=> mainPc \in Waiting \ {"joinTranslators"}
  /\ parserAlive <=> mainPc \notin {"compiler", "finish", "done"}
  /\ emitEnded => TranslatorsJoined
  /\ mainPc \in Waiting \ {"joinTranslators", "joinEmitter"} => EmitterJoined
  /\ Threaded => emPc # "idle"
  /\ Sequential => emPc # "exited"
  /\ \A t \in Threads :
       /\ (Threaded \/ t # Main) /\ t \notin flags.workers => trPc[t] = "idle"
       /\ t \in flags.workers => trPc[t] # "idle"
       /\ trPc[t] = "exited" => Threaded /\ optEnded /\ optQ = <<>>
       /\ trPc[t] = "parse" => flags.parallel

(***************************************************************************)
(* Every item is on its way in one place only.                             *)
(***************************************************************************)
ItemOf(seq) == IF seq = FirstSequenceNumber THEN GlobalInits(seq) ELSE ResultItem(seq)
Items ==
  /\ \A t \in Threads : Active(t) => trSeq[t] \in 2 .. Popped
  /\ \A k \in DOMAIN emitQ :
       emitQ[k] = ItemOf(emitQ[k].seq) /\ emitQ[k].seq <= Popped /\ emitQ[k].seq \notin Working
  /\ \A i \in DOMAIN em.pending :
       /\ em.pending[i] = ItemOf(em.pending[i].seq) /\ em.pending[i].seq <= Popped
       /\ em.pending[i].seq \notin Working \cup Queued
  /\ \A t, u \in Threads : Active(t) /\ Active(u) /\ trSeq[t] = trSeq[u] => t = u
  /\ \A k, l \in DOMAIN emitQ : emitQ[k].seq = emitQ[l].seq => k = l
  /\ \A i, j \in DOMAIN em.pending : em.pending[i].seq = em.pending[j].seq => i = j

(***************************************************************************)
(* With threads: the emitter parks items under their own numbers, and      *)
(* below em.end it has had them all.                                       *)
(***************************************************************************)
Reordering ==
  /\ \A i \in DOMAIN em.pending : em.pending[i].seq = i /\ i >= em.start
  /\ \A q \in Working \cup Queued : q >= em.end
  /\ \A q \in em.end .. Popped : q \in Held
  /\ em.end <= Popped + 1
  /\ em.queueEmpty => emitEnded /\ emitQ = <<>> /\ em.end = Popped + 1 /\ emPc # "fetch"
  /\ emPc = "exited" => em.queueEmpty /\ DOMAIN em.pending = {}
  /\ em.start >= 1
  /\ em.start = 1 => em.end = IF emPc = "fetch" THEN 1 ELSE 2

(***************************************************************************)
(* With threads and shuffling: windows begin at multiples of their size.   *)
(***************************************************************************)
Windows ==
  /\ em.start # 1 => em.start >= 2 /\ (em.start - 2) % ShuffleWindowSize = 0
  /\ em.end - em.start <= ShuffleWindowSize
  /\ emPc = "fetch" => em.end - em.start < ShuffleWindowSize
  /\ emPc = "emit" /\ ~em.queueEmpty /\ em.start # 1 => em.end - em.start = ShuffleWindowSize

(***************************************************************************)
(* Without threads: one item at a time goes down the nested calls.         *)
(***************************************************************************)
NestedCalls ==
  /\ \A q \in Held : q = Popped
  /\ mainPc # "parse" => emPc = "idle" /\ trPc[Main] = "idle"
  /\ emPc # "idle" => trPc[Main] \in {"idle", "pop"}
  /\ optQ # <<>> => Len(optQ) = 1 /\ emPc = "idle" /\ trPc[Main] = "pop"
  /\ emitQ # <<>> => Len(emitQ) = 1 /\ emPc = "fetch" /\ em = EmitterLocals
  /\ emPc = "fetch" => DOMAIN em.pending = {}
  /\ DOMAIN em.pending # {} =>
       emPc = "emit" /\ DOMAIN em.pending = {1} /\ em.start = 1 /\ em.end = 2 /\ ~em.queueEmpty
  /\ em.queueEmpty => emPc # "fetch"

Journey == IF Threaded THEN Reordering /\ (Shuffle => Windows) ELSE NestedCalls

(***************************************************************************)
(* What has come out, and what has been accumulated for lowerGlobals().    *)
(***************************************************************************)
Emitted == {q \in SeqNumbers : \E i \in CodePieces : output[i].seq = q}
Translatable(q) == q \in 2 .. Popped /\ outcome[FnOf(q)] = "ok"

Account == \A q \in SeqNumbers : q \in Emitted <=> Translatable(q) /\ q \notin Held

Open ==
  /\ \A i \in 2 .. Len(output) : output[i].kind = "code"
  /\ globals = [i \in 1 .. Len(output) - 1 |-> output[i + 1].seq]
Closed ==
  /\ Len(output) >= 2
  /\ \A i \in 2 .. Len(output) - 1 : output[i].kind = "code"
  /\ output[Len(output)] = Data([i \in 1 .. Len(output) - 2 |-> output[i + 1].seq])
  /\ globals = <<>>

DataOut ==
  /\ output # <<>> /\ output[1] = Data(<<FirstSequenceNumber>>)
  /\ Popped >= 1 /\ FirstSequenceNumber \notin Held
  /\ IF mainPc = "done" /\ parseStatus = "none" THEN Closed ELSE Open
DataWaits ==
  /\ output = <<>>
  /\ emPc \in {"idle", "exited"} => mainPc = "install"
  /\ globals = IF Popped = 0 \/ FirstSequenceNumber \in Held
               THEN <<>> ELSE <<FirstSequenceNumber>>
  /\ Sequential => Popped <= 1

Accumulated == IF hasSeenCode THEN DataOut ELSE DataWaits

(***************************************************************************)
(* What is still to come belongs behind what has come out.                 *)
(***************************************************************************)
Behind(i) ==
  \A q \in 2 .. NumFunctions + 1 :
    q \in Held \/ q > Popped => WindowOf(output[i].seq) <= WindowOf(q)
InOrder ==
  /\ \A i \in CodePieces : Behind(i)
  /\ \A i, j \in CodePieces :
       i < j => /\ output[i].seq # output[j].seq
                /\ WindowOf(output[i].seq) <= WindowOf(output[j].seq)

(***************************************************************************)
(* What has been read and which errors have been met on the way.           *)
(***************************************************************************)
ReadSoFar == 1 .. (IF mainPc = "push" THEN nextFn ELSE nextFn - 1)
Untranslated == {q \in SeqNumbers : \E t \in Threads : trPc[t] \in {"parse", "translate"} /\ trSeq[t] = q}
SomeRejected == \E q \in 2 .. Popped : q \notin Untranslated /\ Rejected(q)

ReadErrors ==
  /\ flags.parallel \/ \A n \in Functions : outcome[n] # "badBlock"
  /\ \A n \in ReadSoFar : outcome[n] # "badBlock"
  /\ mainPc \in {"install", "parse", "push"} => ~blockFailed
  /\ blockFailed => nextFn \in Functions /\ outcome[nextFn] = "badBlock"
  /\ mainPc \notin {"install", "parse", "push"} /\ ~blockFailed => nextFn = NumFunctions + 1
  /\ parseStatus # "none" =>
       parseStatus = "Bitcode" /\ (blockFailed \/ \E n \in ReadSoFar : outcome[n] = "badParse")
  /\ mainPc \in {"compiler", "finish", "done"} /\ blockFailed => parseStatus = "Bitcode"

Rejections == mainPc # "done" => ctxStatus = IF SomeRejected THEN "Translation" ELSE "none"

Errors == ReadErrors /\ Rejections

Safe == Phases /\ Items /\ Journey /\ Account /\ Accumulated /\ InOrder /\ Errors /\ StatusIsDeterministic

IInv == TypeInv /\ Safe

-----------------------------------------------------------------------------
(***************************************************************************)
(* The map of items set aside.                                             *)
(***************************************************************************)
LEMMA PendingFacts ==
  ASSUME NEW f \in Pendings
  PROVE  /\ DOMAIN f \subseteq Nat
         /\ \A i \in DOMAIN f : f[i] \in ItemSet
BY DEF Pendings

LEMMA KeepFacts ==
  ASSUME em \in Locals, NEW index \in Nat, NEW item \in ItemSet
  PROVE  /\ Keep(index, item) \in Pendings
         /\ DOMAIN Keep(index, item) = DOMAIN em.pending \cup {index}
         /\ Keep(index, item)[index] = item
         /\ \A i \in DOMAIN em.pending \ {index} : Keep(index, item)[i] = em.pending[i]
<1>1. em.pending \in Pendings
  BY DEF Locals
<1>2. /\ DOMAIN em.pending \subseteq Nat
      /\ \A i \in DOMAIN em.pending : em.pending[i] \in ItemSet
  BY <1>1, PendingFacts
<1> DEFINE D == DOMAIN em.pending \cup {index}
<1>3. Keep(index, item) \in [D -> ItemSet]
  BY <1>2 DEF Keep
<1>4. D \in SUBSET Nat
  BY <1>2
<1>5. Keep(index, item) \in Pendings
  BY <1>3, <1>4 DEF Pendings
<1>6. QED
  BY <1>5 DEF Keep

LEMMA WithoutFacts ==
  ASSUME em \in Locals, NEW i \in Nat
  PROVE  /\ Without(i) \in Pendings
         /\ DOMAIN Without(i) = DOMAIN em.pending \ {i}
         /\ \A j \in DOMAIN em.pending \ {i} : Without(i)[j] = em.pending[j]
<1>1. em.pending \in Pendings
  BY DEF Locals
<1>2. /\ DOMAIN em.pending \subseteq Nat
      /\ \A j \in DOMAIN em.pending : em.pending[j] \in ItemSet
  BY <1>1, PendingFacts
<1> DEFINE D == DOMAIN em.pending \ {i}
<1>3. Without(i) \in [D -> ItemSet]
  BY <1>2 DEF Without
<1>4. D \in SUBSET Nat
  BY <1>2
<1>5. Without(i) \in Pendings
  BY <1>3, <1>4 DEF Pendings
<1>6. QED
  BY <1>5 DEF Without

LEMMA EmitterLocalsFacts ==
  /\ EmitterLocals \in Locals
  /\ DOMAIN EmitterLocals.pending = {}
  /\ EmitterLocals.start = 1 /\ EmitterLocals.end = 1 /\ EmitterLocals.desired = 1
  /\ EmitterLocals.queueEmpty = FALSE
<1>1. <<>> \in [{} -> ItemSet]
  BY EmptySeq, 1 .. 0 = {}
<1>2. <<>> \in Pendings
  BY <1>1 DEF Pendings
<1>3. DOMAIN <<>> = {}
  BY <1>1
<1>4. QED
  BY <1>2, <1>3 DEF EmitterLocals, Locals, FirstSequenceNumber

-----------------------------------------------------------------------------
(***************************************************************************)
(* Types.                                                                  *)
(***************************************************************************)
LEMMA SomeFlags ==
  ASSUME flags \in FlagChoices
  PROVE  /\ flags.workers \subseteq Workers
         /\ flags.parallel \in BOOLEAN
         /\ flags.parallel => Threaded
         /\ OptQSize \in Nat
         /\ ShuffleWindowSize \in Nat \ {0}
<1>1. IsFiniteSet(flags.workers)
  BY PipelineAssumption, FS_Subset
<1>2. Cardinality(flags.workers) \in Nat
  BY <1>1, FS_CardinalityType
<1>3. QED
  BY <1>2, PipelineAssumption DEF Threaded, Sequential, OptQSize, ShuffleWindowSize

LEMMA InitTypeInv == Init => TypeInv
<1> SUFFICES ASSUME Init PROVE TypeInv
  OBVIOUS
<1>1. NumFunctions \in Nat /\ 0 \in Nat
  BY PipelineAssumption
<1>2. /\ <<>> \in Seq(SeqNumbers) /\ <<>> \in Seq(ItemSet)
      /\ <<>> \in Seq(DataPieces \cup CodeTexts)
      /\ DOMAIN <<>> = {} /\ Len(<<>>) = 0
  BY EmptySeq, 1 .. 0 = {}
<1>3. em \in Locals /\ DOMAIN em.pending = {} /\ em.start = 1 /\ em.end = 1 /\ em.desired = 1
  BY EmitterLocalsFacts DEF Init
<1>4. outcome \in [Functions -> Outcomes]
  BY DEF Init
<1>5. waitCalled \in BOOLEAN
  BY PipelineAssumption DEF Init
<1>6. /\ trPc \in [Threads -> {"idle", "pop"}]
      /\ trSeq \in [Threads -> 0 .. NumFunctions + 1]
  BY <1>1 DEF Init, Threads
<1>7. 0 <= OptQSize /\ 0 <= EmitQSize
  BY SomeFlags, PipelineAssumption DEF Init
<1>8. emPc \in {"idle", "fetch"}
  BY DEF Init
<1>9. TypeOK
  <2>1. /\ flags \in FlagChoices /\ outcome \in [Functions -> Outcomes]
        /\ nextFn \in 1 .. NumFunctions + 1 /\ nextSeq \in 1 .. NumFunctions + 2
    BY <1>1, <1>4 DEF Init, FirstSequenceNumber
  <2>2. /\ mainPc = "install" /\ blockFailed = FALSE /\ parserAlive = TRUE
        /\ optEnded = FALSE /\ emitEnded = FALSE /\ hasSeenCode = FALSE
        /\ optQ = <<>> /\ emitQ = <<>> /\ parseStatus = "none" /\ ctxStatus = "none"
    BY DEF Init
  <2>3. /\ em.start <= em.end /\ em.end = em.desired
        /\ \A i \in DOMAIN em.pending : em.pending[i] \in ItemSet
    BY <1>3
  <2>4. /\ trPc \in [Threads -> {"idle", "pop", "parse", "translate", "push", "exited"}]
        /\ emPc \in {"idle", "fetch", "emit", "exited"}
    BY <1>6, <1>8
  <2>5. QED
    BY <1>2, <1>5, <1>6, <1>7, <2>1, <2>2, <2>3, <2>4 DEF TypeOK, Threads, Statuses
<1>10. Numbering
  BY <1>2 DEF Init, Numbering, FirstSequenceNumber
<1>11. \A t \in Threads : ~Active(t)
  BY <1>6 DEF Active
<1>12. QED
  BY <1>2, <1>3, <1>9, <1>10, <1>11 DEF Init, TypeInv

(***************************************************************************)
(* The steps that change only few things.                                  *)
(***************************************************************************)
LEMMA MainTypeInv ==
  ASSUME TypeInv,
         \/ ReadFunctionBlock \/ SkipBlockFailed \/ EndOfModule
         \/ WaitFirst \/ WaitAgain \/ JoinTranslators \/ JoinEmitter \/ LeaveModule
  PROVE  TypeInv'
<1> USE DEF TypeInv, TypeOK, Numbering, Threads, Active, Statuses, Assign, mainVars, queueVars,
            trVars, emVars, outVars, statusVars, Threaded, Sequential, OptQSize, FirstSequenceNumber
<1>0. NumFunctions \in Nat
  BY PipelineAssumption
<1>1. CASE ReadFunctionBlock
  BY <1>0, <1>1 DEF ReadFunctionBlock, Functions
<1>2. CASE SkipBlockFailed
  BY <1>0, <1>2 DEF SkipBlockFailed, Functions
<1>3. CASE EndOfModule
  BY <1>3 DEF EndOfModule
<1>4. CASE WaitFirst
  BY <1>4 DEF WaitFirst, OptQ!NotifyEnd
<1>5. CASE WaitAgain
  BY <1>5 DEF WaitAgain, AfterWait
<1>6. CASE JoinTranslators
  BY <1>6 DEF JoinTranslators, EmitQ!NotifyEnd
<1>7. CASE JoinEmitter
  BY <1>7 DEF JoinEmitter, AfterWait
<1>8. CASE LeaveModule
  <2>1. parseStatus' \in {"none", "Translation", "Bitcode"}
    BY <1>8 DEF LeaveModule
  <2>2. parserAlive' = FALSE /\ mainPc' = "compiler"
    BY <1>8 DEF LeaveModule
  <2>3. UNCHANGED <<flags, outcome, nextFn, nextSeq, blockFailed, waitCalled, optQ, optEnded,
                    emitQ, emitEnded, trPc, trSeq, emPc, em, globals, hasSeenCode, output, ctxStatus>>
    BY <1>8 DEF LeaveModule
  <2>4. parserAlive' \in BOOLEAN
    BY <2>2
  <2>5. Numbering'
    BY <2>2, <2>3
  <2>6. TypeOK'
    BY <2>1, <2>2, <2>3, <2>4
  <2>7. QED
    BY <2>3, <2>5, <2>6
<1>9. QED
  BY <1>1, <1>2, <1>3, <1>4, <1>5, <1>6, <1>7, <1>8

LEMMA OtherTypeInv ==
  ASSUME TypeInv
  PROVE  /\ UNCHANGED vars => TypeInv'
         /\ \A t \in Threads : GetParsedCfg(t) \/ Translate(t) => TypeInv'
         /\ NextWindow => TypeInv'
<1> USE DEF TypeInv, TypeOK, Numbering, Threads, Active, Statuses, Assign, mainVars, queueVars,
            trVars, emVars, outVars, statusVars, Threaded, Sequential, OptQSize
<1>1. ASSUME UNCHANGED vars PROVE TypeInv'
  BY <1>1 DEF vars
<1>2. ASSUME NEW t \in Threads, GetParsedCfg(t) PROVE TypeInv'
  BY <1>2 DEF GetParsedCfg
<1>3. ASSUME NEW t \in Threads, Translate(t) PROVE TypeInv'
  BY <1>3 DEF Translate
<1>4. ASSUME NextWindow PROVE TypeInv'
  BY <1>4 DEF NextWindow, Locals
<1>5. QED
  BY <1>1, <1>2, <1>3, <1>4

(***************************************************************************)
(* Pushes and pops.                                                        *)
(***************************************************************************)
LEMMA EmitPushFacts ==
  ASSUME TypeInv, NEW item \in ItemSet, EmitQueueBlockingPush(item), UNCHANGED flags
  PROVE  /\ emitQ' = Append(emitQ, item) /\ emitEnded' = emitEnded
         /\ emitQ' \in Seq(ItemSet)
         /\ Len(emitQ') = Len(emitQ) + 1
         /\ emitQ'[Len(emitQ) + 1] = item
         /\ \A k \in DOMAIN emitQ : emitQ'[k] = emitQ[k]
         /\ DOMAIN emitQ' = DOMAIN emitQ \cup {Len(emitQ) + 1}
         /\ Threaded => Len(emitQ') <= EmitQSize /\ UNCHANGED emVars
         /\ Sequential => emPc' = "fetch" /\ em' = EmitterLocals
         /\ em' \in Locals /\ em'.start <= em'.end /\ em'.end = em'.desired
         /\ \A i \in DOMAIN em'.pending : em'.pending[i] \in ItemSet
         /\ emPc' \in {"idle", "fetch", "emit", "exited"}
<1>1. emitQ \in Seq(ItemSet) /\ Len(emitQ) \in Nat /\ DOMAIN emitQ = 1 .. Len(emitQ)
  BY DEF TypeInv, TypeOK
<1>2. emitQ' = Append(emitQ, item) /\ emitEnded' = emitEnded
  BY DEF EmitQueueBlockingPush, EmitQ!Push
<1>3. Threaded => Len(emitQ) < EmitQSize
  BY DEF EmitQueueBlockingPush, EmitQ!Push, EmitQ!MayPush, Threaded
<1>4. IF Sequential THEN emPc' = "fetch" /\ em' = EmitterLocals ELSE UNCHANGED emVars
  BY DEF EmitQueueBlockingPush
<1>5. EmitQSize \in Nat
  BY PipelineAssumption
<1>6. /\ em' \in Locals /\ em'.start <= em'.end /\ em'.end = em'.desired
      /\ \A i \in DOMAIN em'.pending : em'.pending[i] \in ItemSet
      /\ emPc' \in {"idle", "fetch", "emit", "exited"}
  <2>1. CASE Sequential
    BY <1>4, <2>1, EmitterLocalsFacts
  <2>2. CASE ~Sequential
    BY <1>4, <2>2 DEF TypeInv, TypeOK, emVars
  <2>3. QED
    BY <2>1, <2>2
<1>7. /\ emitQ' \in Seq(ItemSet)
      /\ Len(emitQ') = Len(emitQ) + 1
      /\ emitQ'[Len(emitQ) + 1] = item
      /\ \A k \in DOMAIN emitQ : emitQ'[k] = emitQ[k]
      /\ DOMAIN emitQ' = DOMAIN emitQ \cup {Len(emitQ) + 1}
  BY <1>1, <1>2
<1>8. Threaded => Len(emitQ') <= EmitQSize
  BY <1>1, <1>3, <1>5, <1>7
<1>9. QED
  BY <1>2, <1>4, <1>6, <1>7, <1>8 DEF Threaded

LEMMA InstallGlobalsTypeInv == ASSUME TypeInv, InstallGlobals PROVE TypeInv'
<1>1. GlobalInits(nextSeq) \in ItemSet /\ nextSeq = 1 /\ nextFn = 1 /\ optQ = <<>>
  BY PipelineAssumption
     DEF InstallGlobals, TypeInv, Numbering, GlobalInits, ItemSet, SeqNumbers, FirstSequenceNumber
<1>2. /\ emitQ' \in Seq(ItemSet)
      /\ Threaded => Len(emitQ') <= EmitQSize
      /\ em' \in Locals /\ em'.start <= em'.end /\ em'.end = em'.desired
      /\ \A i \in DOMAIN em'.pending : em'.pending[i] \in ItemSet
      /\ emPc' \in {"idle", "fetch", "emit", "exited"} /\ emitEnded' = emitEnded
  BY <1>1, EmitPushFacts DEF InstallGlobals
<1>3. /\ nextSeq' = 2 /\ mainPc' = "parse"
      /\ UNCHANGED <<flags, outcome, nextFn, blockFailed, parserAlive, waitCalled, optQ, optEnded,
                     trPc, trSeq, globals, hasSeenCode, output, parseStatus, ctxStatus>>
  BY <1>1 DEF InstallGlobals, trVars, outVars, statusVars
<1>4. NumFunctions \in Nat /\ Len(<<>>) = 0 /\ DOMAIN <<>> = {}
  BY PipelineAssumption, EmptySeq, 1 .. 0 = {}
<1>5. QED
  BY <1>1, <1>2, <1>3, <1>4
     DEF TypeInv, TypeOK, Numbering, Active, Threaded, Sequential, OptQSize

LEMMA PushFunctionTypeInv == ASSUME TypeInv, PushFunction PROVE TypeInv'
<1>1. /\ optQ \in Seq(SeqNumbers) /\ Len(optQ) \in Nat /\ DOMAIN optQ = 1 .. Len(optQ)
      /\ nextFn \in Functions /\ NumFunctions \in Nat /\ nextSeq = nextFn + 2 /\ Len(optQ) < nextFn
      /\ \A k \in DOMAIN optQ : optQ[k] = nextFn - Len(optQ) + k
  BY PipelineAssumption DEF PushFunction, TypeInv, TypeOK, Numbering
<1>2. nextSeq - 1 = nextFn + 1 /\ nextSeq - 1 \in SeqNumbers
  BY <1>1 DEF SeqNumbers, FirstSequenceNumber, Functions
<1>3. /\ optQ' = Append(optQ, nextFn + 1) /\ optEnded' = optEnded
      /\ ~Sequential => Len(optQ) < OptQSize
      /\ trPc' = IF Sequential THEN [trPc EXCEPT ![Main] = "pop"] ELSE trPc
  BY <1>2 DEF PushFunction, OptQueueBlockingPush, OptQ!Push, OptQ!MayPush
<1>4. /\ nextFn' = nextFn + 1 /\ mainPc' = "parse"
      /\ UNCHANGED <<flags, outcome, nextSeq, blockFailed, parserAlive, waitCalled, emitQ, emitEnded,
                     trSeq, emPc, em, globals, hasSeenCode, output, parseStatus, ctxStatus>>
  BY DEF PushFunction, emVars, outVars, statusVars
<1>5. /\ optQ' \in Seq(SeqNumbers) /\ Len(optQ') = Len(optQ) + 1
      /\ \A k \in DOMAIN optQ' : optQ'[k] = nextFn' - Len(optQ') + k
  <2>1. optQ' \in Seq(SeqNumbers) /\ Len(optQ') = Len(optQ) + 1
    BY <1>1, <1>2, <1>3
  <2>2. /\ optQ'[Len(optQ) + 1] = nextFn + 1
        /\ \A k \in DOMAIN optQ : optQ'[k] = optQ[k]
        /\ DOMAIN optQ' = 1 .. Len(optQ) + 1
    BY <1>1, <1>2, <1>3
  <2>3. ASSUME NEW k \in DOMAIN optQ' PROVE optQ'[k] = nextFn' - Len(optQ') + k
    BY <1>1, <1>4, <2>1, <2>2 DEF Functions
  <2>4. QED
    BY <2>1, <2>3
<1>6. /\ trPc' \in [Threads -> {"idle", "pop", "parse", "translate", "push", "exited"}]
      /\ \A t \in Threads : Active(t)' => Active(t)
  BY <1>3 DEF TypeInv, TypeOK, Threads, Active
<1>7. Threaded' => Len(optQ') <= OptQSize'
  BY <1>1, <1>3, <1>4, <1>5, SomeFlags DEF Threaded, Sequential, OptQSize, TypeInv, TypeOK
<1>8. Numbering'
  BY <1>1, <1>4, <1>5 DEF Numbering, Functions
<1>9. nextFn' \in 1 .. NumFunctions + 1
  BY <1>1, <1>4 DEF Functions
<1>10. TypeOK'
  BY <1>3, <1>4, <1>5, <1>6, <1>7, <1>9 DEF TypeInv, TypeOK, Threaded, Sequential, Threads
<1>11. QED
  BY <1>4, <1>6, <1>8, <1>10 DEF TypeInv

LEMMA HeadTail ==
  ASSUME NEW S, NEW s \in Seq(S), s # <<>>
  PROVE  /\ Len(s) \in Nat \ {0} /\ Head(s) \in S /\ Head(s) = s[1]
         /\ Tail(s) \in Seq(S) /\ Len(Tail(s)) = Len(s) - 1
         /\ \A k \in 1 .. Len(s) - 1 : Tail(s)[k] = s[k + 1]
<1>1. Len(s) \in Nat \ {0} /\ Head(s) \in S /\ Tail(s) \in Seq(S)
  BY EmptySeq, LenProperties, HeadTailProperties
<1>2. QED
  BY <1>1, HeadTailProperties

LEMMA PopFunctionTypeInv == ASSUME TypeInv, NEW t \in Threads, PopFunction(t) PROVE TypeInv'
<1> DEFINE Took == /\ optQ # <<>> /\ optQ' = Tail(optQ)
                   /\ trSeq' = [trSeq EXCEPT ![t] = Head(optQ)]
                   /\ trPc' = [trPc EXCEPT ![t] = IF flags.parallel THEN "parse" ELSE "translate"]
           Left == /\ optQ' = optQ
                   /\ trPc' = [trPc EXCEPT ![t] = IF Sequential THEN "idle" ELSE "exited"]
                   /\ trSeq' = trSeq
<1>1. /\ optQ \in Seq(SeqNumbers) /\ Len(optQ) \in Nat /\ DOMAIN optQ = 1 .. Len(optQ)
      /\ nextFn \in Nat /\ NumFunctions \in Nat
  BY PipelineAssumption DEF TypeInv, TypeOK
<1>2. /\ UNCHANGED <<flags, outcome, mainPc, nextFn, nextSeq, blockFailed, parserAlive, waitCalled,
                     optEnded, emitQ, emitEnded, emPc, em, globals, hasSeenCode, output,
                     parseStatus, ctxStatus>>
      /\ Took \/ Left
  BY DEF PopFunction, OptQ!TakeHead, OptQ!TakeNothing, mainVars, emVars, outVars, statusVars
<1>3. /\ trPc' \in [Threads -> {"idle", "pop", "parse", "translate", "push", "exited"}]
      /\ trSeq' \in [Threads -> 0 .. NumFunctions + 1]
      /\ \A u \in Threads : Active(u)' => trSeq[u]' \in SeqNumbers
  <2>1. CASE Took
    <3>1. Head(optQ) \in SeqNumbers
      BY <1>1, <2>1, HeadTail
    <3>2. Head(optQ) \in 0 .. NumFunctions + 1
      BY <1>1, <3>1 DEF SeqNumbers, FirstSequenceNumber
    <3>3. QED
      BY <2>1, <3>1, <3>2 DEF TypeInv, TypeOK, Threads, Active
  <2>2. CASE Left
    BY <2>2 DEF TypeInv, TypeOK, Threads, Active
  <2>3. QED
    BY <1>2, <2>1, <2>2
<1>4. /\ optQ' \in Seq(SeqNumbers) /\ Len(optQ') <= Len(optQ)
      /\ \A k \in DOMAIN optQ' : optQ'[k] = nextFn - Len(optQ') + k
  <2>1. CASE Took
    <3>1. /\ Len(optQ) \in Nat \ {0} /\ Tail(optQ) \in Seq(SeqNumbers) /\ Len(Tail(optQ)) = Len(optQ) - 1
          /\ \A k \in 1 .. Len(optQ) - 1 : Tail(optQ)[k] = optQ[k + 1]
      BY <1>1, <2>1, HeadTail
    <3>2. DOMAIN Tail(optQ) = 1 .. Len(optQ) - 1
      BY <3>1
    <3>3. ASSUME NEW k \in 1 .. Len(optQ) - 1 PROVE Tail(optQ)[k] = nextFn - (Len(optQ) - 1) + k
      <4>1. k + 1 \in DOMAIN optQ
        BY <1>1
      <4>2. optQ[k + 1] = nextFn - Len(optQ) + (k + 1)
        BY <4>1 DEF TypeInv, Numbering
      <4>3. QED
        BY <1>1, <3>1, <4>2
    <3>4. QED
      BY <1>1, <2>1, <3>1, <3>2, <3>3
  <2>2. CASE Left
    BY <1>1, <2>2 DEF TypeInv, Numbering
  <2>3. QED
    BY <1>2, <2>1, <2>2
<1>5. Len(optQ') \in Nat
  BY <1>4
<1>6. Threaded' => Len(optQ') <= OptQSize'
  BY <1>1, <1>2, <1>4, <1>5, SomeFlags DEF Threaded, Sequential, OptQSize, TypeInv, TypeOK
<1>7. TypeOK'
  BY <1>2, <1>3, <1>4, <1>6 DEF TypeInv, TypeOK, Threaded, Sequential, Threads
<1>8. mainPc = "install" => optQ' = <<>>
  <2>1. mainPc = "install" => optQ = <<>>
    BY DEF TypeInv, Numbering
  <2>2. QED
    BY <1>2, <2>1
<1>9. Numbering'
  BY <1>1, <1>2, <1>4, <1>5, <1>8 DEF TypeInv, Numbering
<1>10. QED
  BY <1>2, <1>3, <1>7, <1>9 DEF TypeInv

LEMMA PushResultTypeInv == ASSUME TypeInv, NEW t \in Threads, PushResult(t) PROVE TypeInv'
<1>1. ResultItem(trSeq[t]) \in ItemSet
  BY DEF PushResult, TypeInv, Active, ResultItem, Code, Nop, ItemSet
<1>2. /\ UNCHANGED <<flags, outcome, mainPc, nextFn, nextSeq, blockFailed, parserAlive, waitCalled,
                     optQ, optEnded, trSeq, globals, hasSeenCode, output, parseStatus, ctxStatus>>
      /\ trPc' = [trPc EXCEPT ![t] = "pop"]
      /\ EmitQueueBlockingPush(ResultItem(trSeq[t]))
  BY DEF PushResult, mainVars, outVars, statusVars
<1>3. /\ emitQ' \in Seq(ItemSet)
      /\ Threaded => Len(emitQ') <= EmitQSize
      /\ em' \in Locals /\ em'.start <= em'.end /\ em'.end = em'.desired
      /\ \A i \in DOMAIN em'.pending : em'.pending[i] \in ItemSet
      /\ emPc' \in {"idle", "fetch", "emit", "exited"} /\ emitEnded' = emitEnded
  BY <1>1, <1>2, EmitPushFacts
<1>4. /\ trPc' \in [Threads -> {"idle", "pop", "parse", "translate", "push", "exited"}]
      /\ \A u \in Threads : Active(u)' => Active(u)
  BY <1>2 DEF TypeInv, TypeOK, Threads, Active
<1>5. TypeOK'
  BY <1>2, <1>3, <1>4 DEF TypeInv, TypeOK, Threaded, Sequential, Threads, OptQSize
<1>6. QED
  BY <1>2, <1>3, <1>4, <1>5 DEF TypeInv, Numbering

(***************************************************************************)
(* The emitter's steps.                                                    *)
(***************************************************************************)
LEMMA AdvanceFacts ==
  ASSUME em \in Locals, NEW item, NEW pending \in Pendings, Advance(item, pending)
  PROVE  /\ em' \in Locals
         /\ em'.pending = pending /\ em'.desired = em.desired + 1 /\ em'.end = em.end + 1
         /\ em'.start = em.start /\ em'.queueEmpty = em.queueEmpty
         /\ emPc' = IF Growing(item) THEN "fetch" ELSE "emit"
<1>1. em' = [em EXCEPT !.pending = pending, !.desired = em.desired + 1, !.end = em.end + 1]
  BY DEF Advance
<1>4. emPc' = IF Growing(item) THEN "fetch" ELSE "emit"
  BY DEF Advance
<1>2. em.desired + 1 \in Nat /\ em.end + 1 \in Nat
  BY DEF Locals
<1>3. QED
  BY <1>1, <1>2, <1>4 DEF Locals

LEMMA FetchItemFacts ==
  ASSUME TypeInv, FetchItem
  PROVE  /\ emitQ # <<>> /\ emitQ' = Tail(emitQ) /\ Head(emitQ) \in ItemSet
         /\ em.desired \notin DOMAIN em.pending /\ em.desired = em.end
         /\ emPc = "fetch"
         /\ em' \in Locals
         /\ em'.start = em.start /\ em'.queueEmpty = em.queueEmpty
         /\ \/ /\ Threaded /\ Head(emitQ).seq # em.desired
               /\ em'.pending = Keep(Head(emitQ).seq, Head(emitQ))
               /\ em'.end = em.end /\ em'.desired = em.desired /\ emPc' = emPc
            \/ /\ Threaded => Head(emitQ).seq = em.desired
               /\ em'.pending = Keep(em.desired, Head(emitQ))
               /\ em'.end = em.end + 1 /\ em'.desired = em.desired + 1
               /\ emPc' = IF Growing(Head(emitQ)) THEN "fetch" ELSE "emit"
         /\ UNCHANGED <<flags, outcome, mainVars, optQ, optEnded, emitEnded, trVars, outVars,
                        statusVars>>
<1> DEFINE item == Head(emitQ)
<1>1. /\ emitQ # <<>> /\ emitQ' = Tail(emitQ) /\ emitEnded' = emitEnded
      /\ em.desired \notin DOMAIN em.pending /\ emPc = "fetch"
      /\ UNCHANGED <<flags, outcome, mainVars, optQ, optEnded, trVars, outVars, statusVars>>
  BY DEF FetchItem, EmitQ!TakeHead, HaveDesired
<1>2. emitQ \in Seq(ItemSet) /\ em \in Locals /\ em.end = em.desired /\ em.desired \in Nat
  BY DEF TypeInv, TypeOK, Locals
<1>3. item \in ItemSet
  BY <1>1, <1>2, HeadTail
<1>4. item.seq \in Nat
  BY <1>3, PipelineAssumption DEF ItemSet, SeqNumbers, FirstSequenceNumber
<1>5. CASE Threaded /\ item.seq # em.desired
  <2>1. em' = [em EXCEPT !.pending = Keep(item.seq, item)] /\ emPc' = emPc
    BY <1>5 DEF FetchItem
  <2>2. Keep(item.seq, item) \in Pendings
    BY <1>2, <1>3, <1>4, KeepFacts
  <2>3. /\ em' \in Locals /\ em'.pending = Keep(item.seq, item) /\ em'.start = em.start
        /\ em'.end = em.end /\ em'.desired = em.desired /\ em'.queueEmpty = em.queueEmpty
    BY <1>2, <2>1, <2>2 DEF Locals
  <2>4. QED
    BY <1>1, <1>2, <1>3, <1>5, <2>1, <2>3
<1>6. CASE ~(Threaded /\ item.seq # em.desired)
  <2>1. Advance(item, Keep(em.desired, item))
    BY <1>6 DEF FetchItem
  <2>2. Keep(em.desired, item) \in Pendings
    BY <1>2, <1>3, KeepFacts
  <2>3. /\ em' \in Locals
        /\ em'.pending = Keep(em.desired, item)
        /\ em'.desired = em.desired + 1 /\ em'.end = em.end + 1
        /\ em'.start = em.start /\ em'.queueEmpty = em.queueEmpty
        /\ emPc' = IF Growing(item) THEN "fetch" ELSE "emit"
    BY <1>2, <2>1, <2>2, AdvanceFacts
  <2>4. QED
    BY <1>1, <1>2, <1>3, <1>6, <2>3
<1>7. QED
  BY <1>5, <1>6

LEMMA FetchItemTypeInv == ASSUME TypeInv, FetchItem PROVE TypeInv'
<1>1. /\ emitQ \in Seq(ItemSet) /\ Len(emitQ) \in Nat
      /\ em \in Locals /\ em.end \in Nat /\ em.start \in Nat /\ em.desired \in Nat
      /\ em.start <= em.end /\ em.end = em.desired
  BY DEF TypeInv, TypeOK, Locals
<1>2. em'.start <= em'.end /\ em'.end = em'.desired
  BY <1>1, FetchItemFacts
<1>3. em' \in Locals /\ emPc' \in {"idle", "fetch", "emit", "exited"}
  BY FetchItemFacts
<1>4. em'.pending \in Pendings
  BY <1>3 DEF Locals
<1>5. \A i \in DOMAIN em'.pending : em'.pending[i] \in ItemSet
  BY <1>4, PendingFacts
<1>6. emitQ' \in Seq(ItemSet) /\ Len(emitQ') = Len(emitQ) - 1
  BY <1>1, FetchItemFacts, HeadTail
<1>7. /\ UNCHANGED <<flags, outcome, mainPc, nextFn, nextSeq, blockFailed, parserAlive, waitCalled,
                     optQ, optEnded, emitEnded, trPc, trSeq, globals, hasSeenCode, output,
                     parseStatus, ctxStatus>>
  BY FetchItemFacts DEF mainVars, trVars, outVars, statusVars
<1>8. Threaded' => Len(emitQ') <= EmitQSize
  BY <1>1, <1>6, <1>7, PipelineAssumption DEF TypeInv, TypeOK, Threaded, Sequential
<1>9. TypeOK'
  BY <1>2, <1>3, <1>5, <1>6, <1>7, <1>8 DEF TypeInv, TypeOK, Threaded, Sequential, OptQSize
<1>10. QED
  BY <1>3, <1>7, <1>9 DEF TypeInv, Numbering, Active

LEMMA TakePendingFacts ==
  ASSUME TypeInv, TakePending
  PROVE  /\ emPc = "fetch" /\ em.desired \in DOMAIN em.pending /\ em.desired = em.end
         /\ em' \in Locals
         /\ em'.pending = em.pending /\ em'.desired = em.desired + 1 /\ em'.end = em.end + 1
         /\ em'.start = em.start /\ em'.queueEmpty = em.queueEmpty
         /\ emPc' = IF Growing(em.pending[em.desired]) THEN "fetch" ELSE "emit"
         /\ UNCHANGED <<flags, outcome, mainVars, queueVars, trVars, outVars, statusVars>>
<1>1. em \in Locals /\ em.pending \in Pendings /\ em.desired = em.end
  BY DEF TypeInv, TypeOK, Locals
<1>2. Advance(em.pending[em.desired], em.pending)
  BY DEF TakePending
<1>3. /\ em' \in Locals
      /\ em'.pending = em.pending /\ em'.desired = em.desired + 1 /\ em'.end = em.end + 1
      /\ em'.start = em.start /\ em'.queueEmpty = em.queueEmpty
      /\ emPc' = IF Growing(em.pending[em.desired]) THEN "fetch" ELSE "emit"
  BY <1>1, <1>2, AdvanceFacts
<1>4. QED
  BY <1>1, <1>3 DEF TakePending, HaveDesired

LEMMA FetchNothingFacts ==
  ASSUME TypeInv, FetchNothing
  PROVE  /\ emPc = "fetch" /\ emPc' = "emit" /\ emitQ = <<>> /\ (Threaded => emitEnded)
         /\ em.desired \notin DOMAIN em.pending
         /\ em' \in Locals
         /\ em'.pending = em.pending /\ em'.desired = em.desired /\ em'.end = em.end
         /\ em'.start = em.start /\ em'.queueEmpty = TRUE
         /\ UNCHANGED <<flags, outcome, mainVars, queueVars, trVars, outVars, statusVars>>
<1>1. em \in Locals
  BY DEF TypeInv
<1>2. /\ emPc = "fetch" /\ emPc' = "emit" /\ emitQ = <<>> /\ (Threaded => emitEnded)
      /\ em.desired \notin DOMAIN em.pending
      /\ em' = [em EXCEPT !.queueEmpty = TRUE]
      /\ UNCHANGED <<flags, outcome, mainVars, queueVars, trVars, outVars, statusVars>>
  BY DEF FetchNothing, EmitQ!TakeNothing, EmitQ!MayPop, HaveDesired, queueVars, Threaded
<1>3. QED
  BY <1>1, <1>2 DEF Locals

LEMMA TakeOrNothingTypeInv ==
  ASSUME TypeInv, TakePending \/ FetchNothing PROVE TypeInv'
<1>1. /\ em.end \in Nat /\ em.start \in Nat /\ em.desired \in Nat
      /\ em.start <= em.end /\ em.end = em.desired
  BY DEF TypeInv, TypeOK, Locals
<1>2. /\ em' \in Locals /\ em'.pending = em.pending /\ em'.start <= em'.end /\ em'.end = em'.desired
      /\ emPc' \in {"fetch", "emit"}
      /\ UNCHANGED <<flags, outcome, mainVars, queueVars, trVars, outVars, statusVars>>
  <2>1. CASE TakePending
    BY <1>1, <2>1, TakePendingFacts
  <2>2. CASE FetchNothing
    BY <1>1, <2>2, FetchNothingFacts
  <2>3. QED
    BY <2>1, <2>2
<1>3. TypeOK'
  BY <1>2 DEF TypeInv, TypeOK, Threaded, Sequential, OptQSize, mainVars, queueVars, trVars,
              outVars, statusVars
<1>4. QED
  BY <1>2, <1>3 DEF TypeInv, Numbering, Active, mainVars, queueVars, trVars, outVars, statusVars

(***************************************************************************)
(* The effect of emitting the item at index i.                             *)
(***************************************************************************)
Emits(i) ==
  /\ i \in DOMAIN em.pending /\ i \in Nat /\ MayEmit(i)
  /\ em.pending[i] \in ItemSet
  /\ emPc = "emit" /\ emPc' = "emit"
  /\ em' \in Locals /\ em'.pending = Without(i)
  /\ em'.desired = em.desired /\ em'.start = em.start /\ em'.end = em.end
  /\ em'.queueEmpty = em.queueEmpty
  /\ UNCHANGED <<flags, outcome, mainVars, queueVars, trVars, statusVars>>
  /\ \/ em.pending[i].kind = "Nop" /\ UNCHANGED outVars
     \/ /\ em.pending[i].kind = "GlobalInits"
        /\ globals' = Append(globals, em.pending[i].seq)
        /\ UNCHANGED <<hasSeenCode, output>>
     \/ /\ em.pending[i].kind = "Code"
        /\ LowerGlobalsIfNoCodeHasBeenSeen(<<em.pending[i].seq>>, <<Text(em.pending[i].seq)>>)

LEMMA EmitItemFacts == ASSUME TypeInv, EmitItem PROVE \E i \in Nat : Emits(i)
<1>1. em \in Locals /\ em.pending \in Pendings
  BY DEF TypeInv, Locals
<1>2. /\ DOMAIN em.pending \subseteq Nat
      /\ \A i \in DOMAIN em.pending : em.pending[i] \in ItemSet
  BY <1>1, PendingFacts
<1>3. PICK i \in DOMAIN em.pending :
        /\ MayEmit(i)
        /\ em' = [em EXCEPT !.pending = Without(i)]
        /\ CASE em.pending[i].kind = "Nop" -> UNCHANGED outVars
             [] em.pending[i].kind = "GlobalInits" ->
                  /\ globals' = Append(globals, em.pending[i].seq)
                  /\ UNCHANGED <<hasSeenCode, output>>
             [] em.pending[i].kind = "Code" ->
                  LowerGlobalsIfNoCodeHasBeenSeen(<<em.pending[i].seq>>, <<Text(em.pending[i].seq)>>)
  BY DEF EmitItem
<1>4. i \in Nat /\ em.pending[i] \in ItemSet
  BY <1>2
<1>5. Without(i) \in Pendings
  BY <1>1, <1>4, WithoutFacts
<1>6. /\ em' \in Locals /\ em'.pending = Without(i)
      /\ em'.desired = em.desired /\ em'.start = em.start /\ em'.end = em.end
      /\ em'.queueEmpty = em.queueEmpty
  BY <1>1, <1>3, <1>5 DEF Locals
<1>7. em.pending[i].kind \in {"GlobalInits", "Nop", "Code"}
  BY <1>4 DEF ItemSet
<1>8. /\ emPc = "emit" /\ emPc' = "emit"
      /\ UNCHANGED <<flags, outcome, mainVars, queueVars, trVars, statusVars>>
  BY DEF EmitItem
<1>9. Emits(i)
  BY <1>3, <1>4, <1>6, <1>7, <1>8 DEF Emits
<1>10. QED
  BY <1>4, <1>9

LEMMA LowerTypes ==
  ASSUME TypeInv, NEW more \in Seq(SeqNumbers), NEW pieces \in Seq(CodeTexts),
         LowerGlobalsIfNoCodeHasBeenSeen(more, pieces)
  PROVE  /\ output' \in Seq(DataPieces \cup CodeTexts)
         /\ globals' \in Seq(SeqNumbers) /\ hasSeenCode' = TRUE
<1>1. /\ output \in Seq(DataPieces \cup CodeTexts) /\ globals \in Seq(SeqNumbers)
      /\ pieces \in Seq(DataPieces \cup CodeTexts) /\ <<>> \in Seq(SeqNumbers)
  BY EmptySeq, SeqMonotonic DEF TypeInv
<1>2. Data(globals) \in DataPieces \cup CodeTexts
  BY <1>1 DEF Data, DataPieces
<1>3. (IF hasSeenCode THEN output ELSE Append(output, Data(globals))) \in Seq(DataPieces \cup CodeTexts)
  BY <1>1, <1>2, AppendProperties
<1>4. (IF hasSeenCode THEN globals ELSE <<>>) \in Seq(SeqNumbers)
  BY <1>1
<1>5. QED
  BY <1>1, <1>3, <1>4, ConcatProperties DEF LowerGlobalsIfNoCodeHasBeenSeen

LEMMA EmitItemTypeInv == ASSUME TypeInv, EmitItem PROVE TypeInv'
<1>1. PICK i \in Nat : Emits(i)
  BY EmitItemFacts
<1> DEFINE item == em.pending[i]
<1>2. item.seq \in SeqNumbers
  BY <1>1 DEF Emits, ItemSet
<1>3. /\ output' \in Seq(DataPieces \cup CodeTexts)
      /\ globals' \in Seq(SeqNumbers) /\ hasSeenCode' \in BOOLEAN
  <2>1. CASE UNCHANGED outVars
    BY <2>1 DEF outVars, TypeInv, TypeOK
  <2>2. CASE globals' = Append(globals, item.seq) /\ UNCHANGED <<hasSeenCode, output>>
    BY <1>2, <2>2, AppendProperties DEF TypeInv, TypeOK
  <2>3. CASE LowerGlobalsIfNoCodeHasBeenSeen(<<item.seq>>, <<Text(item.seq)>>)
    <3>1. <<item.seq>> \in Seq(SeqNumbers) /\ <<Text(item.seq)>> \in Seq(CodeTexts)
      BY <1>2 DEF Text, CodeTexts
    <3>2. QED
      BY <2>3, <3>1, LowerTypes
  <2>4. QED
    BY <1>1, <2>1, <2>2, <2>3 DEF Emits
<1>4. em'.pending \in Pendings
  BY <1>1 DEF Emits, Locals
<1>5. \A j \in DOMAIN em'.pending : em'.pending[j] \in ItemSet
  BY <1>4, PendingFacts
<1>6. /\ em' \in Locals /\ em'.start <= em'.end /\ em'.end = em'.desired
      /\ emPc' \in {"idle", "fetch", "emit", "exited"}
  BY <1>1 DEF Emits, TypeInv, TypeOK
<1>7. UNCHANGED <<flags, outcome, mainPc, nextFn, nextSeq, blockFailed, parserAlive, waitCalled,
                  optQ, optEnded, emitQ, emitEnded, trPc, trSeq, parseStatus, ctxStatus>>
  BY <1>1 DEF Emits, mainVars, queueVars, trVars, statusVars
<1>8. TypeOK'
  BY <1>3, <1>5, <1>6, <1>7 DEF TypeInv, TypeOK, Threaded, Sequential, OptQSize
<1>9. QED
  BY <1>3, <1>6, <1>7, <1>8 DEF TypeInv, Numbering, Active

LEMMA EndTypeInv == ASSUME TypeInv, EndOfItems \/ Finish PROVE TypeInv'
<1>1. /\ output' \in Seq(DataPieces \cup CodeTexts)
      /\ globals' \in Seq(SeqNumbers) /\ hasSeenCode' \in BOOLEAN
      /\ emPc' \in {"idle", "fetch", "emit", "exited"}
      /\ ctxStatus' \in Statuses
      /\ mainPc' = mainPc \/ mainPc' = "done"
      /\ UNCHANGED <<flags, outcome, nextFn, nextSeq, blockFailed, parserAlive, waitCalled,
                     optQ, optEnded, emitQ, emitEnded, trPc, trSeq, em, parseStatus>>
  <2>1. CASE EndOfItems
    <3>1. <<>> \in Seq(SeqNumbers) /\ <<>> \in Seq(CodeTexts)
      BY EmptySeq
    <3>2. /\ output' \in Seq(DataPieces \cup CodeTexts)
          /\ globals' \in Seq(SeqNumbers) /\ hasSeenCode' = TRUE
      BY <2>1, <3>1, LowerTypes DEF EndOfItems
    <3>3. QED
      BY <2>1, <3>2 DEF EndOfItems, TypeInv, TypeOK, mainVars, queueVars, trVars, statusVars
  <2>2. CASE Finish
    <3>1. /\ UNCHANGED <<hasSeenCode, emPc>> /\ mainPc' = "done"
          /\ UNCHANGED <<flags, outcome, nextFn, nextSeq, blockFailed, parserAlive, waitCalled,
                         optQ, optEnded, emitQ, emitEnded, trPc, trSeq, em, parseStatus>>
      BY <2>2 DEF Finish, queueVars, trVars, emVars
    <3>2. ctxStatus' \in Statuses
      BY <2>2 DEF Finish, Assign, TypeInv, TypeOK
    <3>3. output' \in Seq(DataPieces \cup CodeTexts) /\ globals' \in Seq(SeqNumbers)
      <4>1. CASE parseStatus # "none"
        BY <2>2, <4>1 DEF Finish, TypeInv
      <4>2. CASE parseStatus = "none"
        <5>1. Data(globals) \in DataPieces \cup CodeTexts
          BY DEF TypeInv, Data, DataPieces
        <5>2. output' = Append(output, Data(globals)) /\ globals' = <<>>
          BY <2>2, <4>2 DEF Finish
        <5>3. QED
          BY <5>1, <5>2, AppendProperties, EmptySeq DEF TypeInv
      <4>3. QED
        BY <4>1, <4>2
    <3>4. QED
      BY <3>1, <3>2, <3>3 DEF TypeInv, TypeOK
  <2>3. QED
    BY <2>1, <2>2
<1>2. TypeOK'
  BY <1>1 DEF TypeInv, TypeOK, Threaded, Sequential, OptQSize
<1>3. QED
  BY <1>1, <1>2 DEF TypeInv, Numbering, Active

LEMMA NextTypeInv == ASSUME TypeInv, [Next]_vars PROVE TypeInv'
<1>1. CASE UNCHANGED vars
  BY <1>1, OtherTypeInv
<1>2. CASE MainStep
  BY <1>2, MainTypeInv, InstallGlobalsTypeInv, PushFunctionTypeInv, EndTypeInv DEF MainStep
<1>3. ASSUME NEW t \in Threads, TranslatorStep(t) PROVE TypeInv'
  BY <1>3, PopFunctionTypeInv, PushResultTypeInv, OtherTypeInv DEF TranslatorStep
<1>4. CASE EmitterStep
  BY <1>4, FetchItemTypeInv, TakeOrNothingTypeInv, EmitItemTypeInv, OtherTypeInv, EndTypeInv
     DEF EmitterStep
<1>5. QED
  BY <1>1, <1>2, <1>3, <1>4 DEF Next, Terminated, Threads

(***************************************************************************)
(* The types of the pipeline's state, whatever the flag of the wait starts *)
(* with: no queue holds more than it has room for, no sequence number is   *)
(* beyond the last function's, and the emitter's bounds keep their order.  *)
(***************************************************************************)
THEOREM TypeCorrect == Spec => []TypeOK
<1>1. Spec => []TypeInv
  BY InitTypeInv, NextTypeInv, PTL DEF Spec
<1>2. TypeInv => TypeOK
  BY DEF TypeInv
<1>3. QED
  BY <1>1, <1>2, PTL

-----------------------------------------------------------------------------
(***************************************************************************)
(* Stages.                                                                 *)
(***************************************************************************)
LEMMA InitPhases == ASSUME Init, FlagStartsFalse PROVE Phases
<1>1. waitCalled = FALSE
  BY PipelineAssumption DEF Init, FlagStartsFalse
<1>2. \A t \in Threads : trPc[t] = IF t \in flags.workers THEN "pop" ELSE "idle"
  BY DEF Init, Threads
<1>3. /\ mainPc = "install" /\ optEnded = FALSE /\ emitEnded = FALSE /\ parserAlive = TRUE
      /\ emPc = IF Sequential THEN "idle" ELSE "fetch"
  BY DEF Init
<1>4. mainPc \notin Waiting
  BY <1>3 DEF Waiting
<1>5. QED
  BY <1>1, <1>2, <1>3, <1>4 DEF Phases, Threaded

LEMMA NextPhases == ASSUME TypeInv, Phases, [Next]_vars PROVE Phases'
<1> USE DEF Phases, Waiting, Threaded, Sequential, TranslatorsJoined, EmitterJoined
<1>0. /\ Main \notin flags.workers /\ flags.workers \subseteq Threads
      /\ trPc \in [Threads -> {"idle", "pop", "parse", "translate", "push", "exited"}]
      /\ {waitCalled, optEnded, emitEnded, parserAlive} \subseteq BOOLEAN
  BY SomeFlags, PipelineAssumption DEF TypeInv, TypeOK, Threads
<1>1. CASE UNCHANGED vars
  BY <1>1 DEF vars, mainVars, queueVars, trVars, emVars
<1>2. CASE MainStep
  <2> USE DEF queueVars, trVars, emVars
  <2>1. CASE InstallGlobals
    <3>1. emitEnded' = emitEnded /\ IF Sequential THEN emPc' = "fetch" ELSE emPc' = emPc
      BY <2>1 DEF InstallGlobals, EmitQueueBlockingPush, EmitQ!Push
    <3>2. QED
      BY <2>1, <3>1 DEF InstallGlobals
  <2>2. CASE ReadFunctionBlock
    BY <2>2 DEF ReadFunctionBlock
  <2>3. CASE SkipBlockFailed
    BY <2>3 DEF SkipBlockFailed
  <2>4. CASE PushFunction
    <3>1. /\ optEnded' = optEnded
          /\ trPc' = IF Sequential THEN [trPc EXCEPT ![Main] = "pop"] ELSE trPc
      BY <2>4 DEF PushFunction, OptQueueBlockingPush, OptQ!Push
    <3>2. ~optEnded
      BY <2>4 DEF PushFunction
    <3>3. QED
      BY <1>0, <2>4, <3>1, <3>2 DEF PushFunction
  <2>5. CASE EndOfModule
    BY <2>5 DEF EndOfModule
  <2>6. CASE WaitFirst
    BY <2>6 DEF WaitFirst, OptQ!NotifyEnd
  <2>7. CASE WaitAgain
    BY <2>7 DEF WaitAgain, AfterWait
  <2>8. CASE JoinTranslators
    BY <2>8 DEF JoinTranslators, EmitQ!NotifyEnd
  <2>9. CASE JoinEmitter
    BY <2>9 DEF JoinEmitter, AfterWait
  <2>10. CASE LeaveModule
    BY <2>10 DEF LeaveModule
  <2>11. CASE Finish
    BY <2>11 DEF Finish
  <2>12. QED
    BY <1>2, <2>1, <2>2, <2>3, <2>4, <2>5, <2>6, <2>7, <2>8, <2>9, <2>10, <2>11 DEF MainStep
<1>3. ASSUME NEW t \in Threads, TranslatorStep(t) PROVE Phases'
  <2> USE DEF mainVars, emVars
  <2>1. CASE PopFunction(t)
    BY <1>0, <2>1 DEF PopFunction, OptQ!TakeHead, OptQ!TakeNothing, OptQ!MayPop
  <2>2. CASE GetParsedCfg(t)
    BY <1>0, <2>2 DEF GetParsedCfg, queueVars
  <2>3. CASE Translate(t)
    BY <1>0, <2>3 DEF Translate, queueVars
  <2>4. CASE PushResult(t)
    <3>1. emitEnded' = emitEnded /\ IF Sequential THEN emPc' = "fetch" ELSE emPc' = emPc
      BY <2>4 DEF PushResult, EmitQueueBlockingPush, EmitQ!Push
    <3>2. QED
      BY <1>0, <2>4, <3>1 DEF PushResult
  <2>5. QED
    BY <1>3, <2>1, <2>2, <2>3, <2>4 DEF TranslatorStep
<1>4. CASE EmitterStep
  <2>1. /\ emPc \in {"fetch", "emit"}
        /\ emPc' \in {"fetch", "emit"} \/ (EndOfItems /\ emPc' = IF Sequential THEN "idle" ELSE "exited")
        /\ UNCHANGED <<flags, mainVars, optQ, optEnded, emitEnded, trVars>>
    <3>1. CASE FetchItem
      BY <3>1, FetchItemFacts
    <3>2. CASE TakePending
      BY <3>2, TakePendingFacts DEF queueVars
    <3>3. CASE FetchNothing
      BY <3>3, FetchNothingFacts DEF queueVars
    <3>4. CASE EmitItem
      BY <3>4, EmitItemFacts DEF Emits, queueVars
    <3>5. CASE NextWindow
      BY <3>5 DEF NextWindow, queueVars
    <3>6. CASE EndOfItems
      BY <3>6 DEF EndOfItems, queueVars
    <3>7. QED
      BY <1>4, <3>1, <3>2, <3>3, <3>4, <3>5, <3>6 DEF EmitterStep
  <2>2. QED
    BY <2>1 DEF mainVars, trVars
<1>5. QED
  BY <1>1, <1>2, <1>3, <1>4 DEF Next, Terminated, Threads

-----------------------------------------------------------------------------
(***************************************************************************)
(* How the steps move items along.                                         *)
(***************************************************************************)
Stay == Working' = Working /\ Queued' = Queued /\ Parked' = Parked

LEMMA SeqNumbersAre == SeqNumbers = 1 .. NumFunctions + 1 /\ NumFunctions \in Nat
BY PipelineAssumption DEF SeqNumbers, FirstSequenceNumber

LEMMA Typed ==
  ASSUME TypeInv
  PROVE  /\ \A k \in DOMAIN emitQ : emitQ[k] \in ItemSet /\ emitQ[k].seq \in SeqNumbers
         /\ \A i \in DOMAIN em.pending :
              i \in Nat /\ em.pending[i] \in ItemSet /\ em.pending[i].seq \in SeqNumbers
         /\ em.start \in Nat /\ em.end \in Nat /\ em.desired = em.end /\ em.start <= em.end
         /\ optQ \in Seq(SeqNumbers) /\ Len(optQ) \in Nat /\ DOMAIN optQ = 1 .. Len(optQ)
         /\ emitQ \in Seq(ItemSet) /\ Len(emitQ) \in Nat /\ DOMAIN emitQ = 1 .. Len(emitQ)
         /\ nextFn \in 1 .. NumFunctions + 1 /\ Popped \in 0 .. NumFunctions + 1
<1>1. emitQ \in Seq(ItemSet) /\ optQ \in Seq(SeqNumbers)
  BY DEF TypeInv, TypeOK
<1>2. /\ Len(optQ) \in Nat /\ DOMAIN optQ = 1 .. Len(optQ)
      /\ Len(emitQ) \in Nat /\ DOMAIN emitQ = 1 .. Len(emitQ)
  BY <1>1
<1>3. \A k \in DOMAIN emitQ : emitQ[k] \in ItemSet
  BY <1>1
<1>4. em \in Locals /\ em.pending \in Pendings
  BY DEF TypeInv, Locals
<1>5. \A i \in DOMAIN em.pending : i \in Nat /\ em.pending[i] \in ItemSet
  BY <1>4, PendingFacts
<1>6. \A x \in ItemSet : x.seq \in SeqNumbers
  BY DEF ItemSet
<1>7. em.start \in Nat /\ em.end \in Nat /\ em.desired = em.end /\ em.start <= em.end
  BY <1>4 DEF Locals, TypeInv, TypeOK
<1>8. nextFn \in 1 .. NumFunctions + 1
  BY DEF TypeInv, TypeOK
<1>9. Popped \in 0 .. NumFunctions + 1
  BY <1>2, <1>8, SeqNumbersAre DEF Popped, TypeInv, Numbering
<1>10. QED
  BY <1>1, <1>2, <1>3, <1>5, <1>6, <1>7, <1>8, <1>9

LEMMA JourneyPending ==
  ASSUME TypeInv, Journey
  PROVE  /\ Threaded => \A i \in DOMAIN em.pending : em.pending[i].seq = i
         /\ Sequential /\ emPc # "emit" => DOMAIN em.pending = {}
BY DEF Journey, Reordering, NestedCalls, Threaded

LEMMA HeldBelow ==
  ASSUME TypeInv, Items
  PROVE  /\ \A q \in Held : q \in 1 .. Popped
         /\ \A q \in Working : q \in 2 .. Popped
BY Typed, SeqNumbersAre DEF Items, Held, Working, Queued, Parked

LEMMA UnchangedMoves ==
  /\ UNCHANGED trVars => Working' = Working
  /\ emitQ' = emitQ => Queued' = Queued
  /\ em'.pending = em.pending => Parked' = Parked
BY DEF trVars, Working, Active, Queued, Parked

LEMMA InstallGlobalsMoves ==
  ASSUME TypeInv, Items, InstallGlobals
  PROVE  /\ Working = {} /\ Queued = {} /\ Parked = {}
         /\ Working' = {} /\ Queued' = {1} /\ Parked' = {}
         /\ Popped = 0 /\ Popped' = 1
         /\ emitQ = <<>> /\ emitQ' = <<GlobalInits(1)>>
         /\ DOMAIN em.pending = {} /\ DOMAIN em'.pending = {}
         /\ \A t \in Threads : ~Active(t) /\ ~Active(t)'
         /\ Sequential => emPc' = "fetch" /\ em' = EmitterLocals
         /\ Threaded => UNCHANGED emVars
<1>1. /\ Popped = 0 /\ nextSeq = 1 /\ nextFn = 1 /\ optQ = <<>>
  BY DEF InstallGlobals, Popped, TypeInv, Numbering
<1>2. \A t \in Threads : ~Active(t)
  BY <1>1 DEF Items
<1>3. DOMAIN emitQ = {} /\ DOMAIN em.pending = {}
  BY <1>1, Typed, SeqNumbersAre DEF Items
<1>4. emitQ = <<>>
  BY <1>3, Typed
<1>5. GlobalInits(1) \in ItemSet
  BY SeqNumbersAre DEF GlobalInits, ItemSet
<1>6. EmitQueueBlockingPush(GlobalInits(1)) /\ mainPc' = "parse" /\ UNCHANGED <<flags, nextFn, optQ, trVars>>
  BY <1>1 DEF InstallGlobals
<1>7. /\ emitQ' = Append(emitQ, GlobalInits(1))
      /\ Sequential => emPc' = "fetch" /\ em' = EmitterLocals
      /\ Threaded => UNCHANGED emVars
  BY <1>5, <1>6, EmitPushFacts
<1>8. emitQ' = <<GlobalInits(1)>>
  BY <1>4, <1>7
<1>9. DOMAIN em'.pending = {}
  BY <1>3, <1>7, EmitterLocalsFacts DEF Threaded, emVars
<1>10. Queued' = {1}
  BY <1>8, SeqNumbersAre DEF Queued, GlobalInits
<1>11. Popped' = 1
  BY <1>1, <1>6 DEF Popped
<1>12. \A t \in Threads : ~Active(t)'
  BY <1>2, <1>6 DEF Active, trVars
<1>13. Working = {} /\ Queued = {} /\ Parked = {} /\ Working' = {} /\ Parked' = {}
  BY <1>2, <1>3, <1>9, <1>12 DEF Working, Queued, Parked
<1>14. QED
  BY <1>1, <1>2, <1>3, <1>4, <1>7, <1>8, <1>9, <1>10, <1>11, <1>12, <1>13

LEMMA PushFunctionMoves ==
  ASSUME TypeInv, Journey, PushFunction
  PROVE  /\ Stay /\ Popped' = Popped
         /\ \A t \in Threads : Active(t)' <=> Active(t)
<1>1. /\ nextFn' = nextFn + 1 /\ mainPc = "push" /\ mainPc' = "parse" /\ nextFn \in Nat
      /\ optQ' = Append(optQ, nextSeq - 1)
      /\ trPc' = (IF Sequential THEN [trPc EXCEPT ![Main] = "pop"] ELSE trPc)
      /\ UNCHANGED <<emitQ, trSeq, em>>
  BY Typed DEF PushFunction, OptQueueBlockingPush, OptQ!Push, emVars
<1>2. Len(optQ') = Len(optQ) + 1
  BY <1>1, Typed
<1>3. Popped' = Popped
  BY <1>1, <1>2, Typed DEF Popped
<1>4. trPc \in [Threads -> {"idle", "pop", "parse", "translate", "push", "exited"}]
  BY DEF TypeInv, TypeOK, Threads
<1>5. Queued' = Queued /\ Parked' = Parked
  BY <1>1, UnchangedMoves
<1>6. Sequential => trPc[Main] = "idle"
  BY <1>1 DEF Journey, NestedCalls, Threaded
<1>7. \A t \in Threads : Active(t)' <=> Active(t)
  BY <1>1, <1>4, <1>6 DEF Active
<1>8. Working' = Working
  BY <1>1, <1>7 DEF Working
<1>9. QED
  BY <1>3, <1>5, <1>7, <1>8 DEF Stay

LEMMA TakeFunctionMoves ==
  ASSUME TypeInv, Items, NEW t \in Threads, PopFunction(t), optQ # <<>>
  PROVE  /\ ~Active(t) /\ Active(t)' /\ trSeq'[t] = Popped + 1
         /\ \A u \in Threads \ {t} : (Active(u)' <=> Active(u)) /\ trSeq'[u] = trSeq[u]
         /\ Popped' = Popped + 1 /\ Popped >= 1 /\ Popped + 1 \in SeqNumbers
         /\ optQ' = Tail(optQ)
         /\ Working' = Working \cup {Popped + 1} /\ Queued' = Queued /\ Parked' = Parked
<1>1. /\ trPc[t] = "pop" /\ optQ' = Tail(optQ)
      /\ trSeq' = [trSeq EXCEPT ![t] = Head(optQ)]
      /\ trPc' = [trPc EXCEPT ![t] = IF flags.parallel THEN "parse" ELSE "translate"]
      /\ UNCHANGED <<mainPc, nextFn, emitQ, em>>
  BY DEF PopFunction, OptQ!TakeHead, OptQ!TakeNothing, mainVars, emVars
<1>2. /\ trPc \in [Threads -> {"idle", "pop", "parse", "translate", "push", "exited"}]
      /\ trSeq \in [Threads -> 0 .. NumFunctions + 1]
  BY DEF TypeInv, TypeOK, Threads
<1>3. mainPc # "install"
  BY DEF TypeInv, Numbering
<1>4. /\ Len(optQ) \in Nat \ {0} /\ Head(optQ) \in SeqNumbers /\ Head(optQ) = optQ[1]
      /\ Len(optQ') = Len(optQ) - 1
  BY <1>1, Typed, HeadTail
<1>5. Head(optQ) = nextFn - Len(optQ) + 1
  <2>1. 1 \in DOMAIN optQ
    BY <1>4, Typed
  <2>2. \A k \in DOMAIN optQ : optQ[k] = nextFn - Len(optQ) + k
    BY DEF TypeInv, Numbering
  <2>3. QED
    BY <1>4, <2>1, <2>2
<1>6. Head(optQ) = Popped + 1 /\ Popped' = Popped + 1 /\ Popped >= 1
  BY <1>1, <1>3, <1>4, <1>5, Typed DEF Popped, TypeInv, Numbering
<1>7. ~Active(t) /\ Active(t)' /\ trSeq'[t] = Popped + 1
  BY <1>1, <1>2, <1>6 DEF Active
<1>8. \A u \in Threads \ {t} : (Active(u)' <=> Active(u)) /\ trSeq'[u] = trSeq[u]
  BY <1>1, <1>2 DEF Active
<1>9. Working' = Working \cup {Popped + 1}
  BY <1>4, <1>6, <1>7, <1>8 DEF Working
<1>10. QED
  BY <1>1, <1>4, <1>6, <1>7, <1>8, <1>9, UnchangedMoves

LEMMA PushResultMoves ==
  ASSUME TypeInv, Phases, Items, Journey, NEW t \in Threads, PushResult(t)
  PROVE  /\ Active(t) /\ ~Active(t)'
         /\ \A u \in Threads \ {t} : (Active(u)' <=> Active(u))
         /\ UNCHANGED <<trSeq, flags, outcome, mainVars, optQ>>
         /\ trSeq[t] \in Working /\ trSeq[t] \notin Queued \cup Parked
         /\ Working' = Working \ {trSeq[t]}
         /\ Queued' = Queued \cup {trSeq[t]}
         /\ Parked' = Parked
         /\ Popped' = Popped
         /\ emitQ' = Append(emitQ, ResultItem(trSeq[t]))
         /\ ResultItem(trSeq[t]) = ItemOf(trSeq[t]) /\ ItemOf(trSeq[t]).seq = trSeq[t]
         /\ Len(emitQ') = Len(emitQ) + 1
         /\ emitQ'[Len(emitQ) + 1] = ItemOf(trSeq[t])
         /\ \A k \in DOMAIN emitQ : emitQ'[k] = emitQ[k]
         /\ DOMAIN emitQ' = DOMAIN emitQ \cup {Len(emitQ) + 1}
         /\ DOMAIN em'.pending = DOMAIN em.pending
         /\ \A i \in DOMAIN em.pending : em'.pending[i] = em.pending[i]
         /\ Threaded => UNCHANGED emVars
         /\ Sequential => emPc' = "fetch" /\ em' = EmitterLocals /\ emPc = "idle" /\ mainPc = "parse"
<1> DEFINE q == trSeq[t]
<1>1. /\ trPc[t] = "push" /\ trPc' = [trPc EXCEPT ![t] = "pop"] /\ EmitQueueBlockingPush(ResultItem(q))
      /\ UNCHANGED <<trSeq, flags, outcome, mainVars, optQ>>
  BY DEF PushResult
<1>2. /\ trPc \in [Threads -> {"idle", "pop", "parse", "translate", "push", "exited"}]
      /\ trSeq \in [Threads -> 0 .. NumFunctions + 1]
  BY DEF TypeInv, TypeOK, Threads
<1>3. /\ Active(t) /\ ~Active(t)'
      /\ \A u \in Threads \ {t} : (Active(u)' <=> Active(u))
  BY <1>1, <1>2 DEF Active
<1>4. q \in SeqNumbers /\ q \in 2 .. Popped
  BY <1>3 DEF TypeInv, Items
<1>5. q \in Working /\ q \notin Queued \cup Parked
  BY <1>3, <1>4, Typed DEF Items, Working, Queued, Parked
<1>6. Working' = Working \ {q}
  BY <1>1, <1>3 DEF Working, Items
<1>7. ResultItem(q) = ItemOf(q) /\ ItemOf(q).seq = q /\ ItemOf(q) \in ItemSet
  BY <1>4, SeqNumbersAre DEF ItemOf, ResultItem, Code, Nop, FirstSequenceNumber, ItemSet
<1>8. /\ emitQ' = Append(emitQ, ItemOf(q))
      /\ Len(emitQ') = Len(emitQ) + 1
      /\ emitQ'[Len(emitQ) + 1] = ItemOf(q)
      /\ \A k \in DOMAIN emitQ : emitQ'[k] = emitQ[k]
      /\ DOMAIN emitQ' = DOMAIN emitQ \cup {Len(emitQ) + 1}
      /\ Threaded => UNCHANGED emVars
      /\ Sequential => emPc' = "fetch" /\ em' = EmitterLocals
  BY <1>1, <1>7, EmitPushFacts
<1>9. Queued' = Queued \cup {q}
  BY <1>4, <1>7, <1>8 DEF Queued
<1>10. Sequential => t = Main
  BY <1>1, <1>3 DEF Phases, Sequential, Active
<1>11. ASSUME Sequential PROVE emPc = "idle" /\ mainPc = "parse" /\ DOMAIN em.pending = {}
  BY <1>1, <1>10, <1>11 DEF Journey, NestedCalls, Threaded
<1>12. /\ DOMAIN em'.pending = DOMAIN em.pending
       /\ \A i \in DOMAIN em.pending : em'.pending[i] = em.pending[i]
  BY <1>8, <1>11, EmitterLocalsFacts DEF Threaded, emVars
<1>13. Parked' = Parked
  BY <1>12 DEF Parked
<1>14. Popped' = Popped
  BY <1>1 DEF Popped, mainVars
<1>15. QED
  BY <1>1, <1>3, <1>5, <1>6, <1>7, <1>8, <1>9, <1>11, <1>12, <1>13, <1>14

LEMMA FetchItemMoves ==
  ASSUME TypeInv, Items, Journey, FetchItem
  PROVE  \E i \in Nat :
         /\ i \notin DOMAIN em.pending
         /\ em'.pending = Keep(i, Head(emitQ))
         /\ DOMAIN em'.pending = DOMAIN em.pending \cup {i}
         /\ em'.pending[i] = Head(emitQ)
         /\ \A j \in DOMAIN em.pending : em'.pending[j] = em.pending[j]
         /\ i = IF Threaded THEN Head(emitQ).seq ELSE em.desired
         /\ Len(emitQ) \in Nat \ {0} /\ emitQ' = Tail(emitQ) /\ Head(emitQ) = emitQ[1]
         /\ DOMAIN emitQ' = 1 .. Len(emitQ) - 1 /\ Len(emitQ') = Len(emitQ) - 1
         /\ \A k \in 1 .. Len(emitQ) - 1 : emitQ'[k] = emitQ[k + 1]
         /\ Head(emitQ).seq \in Queued /\ Head(emitQ).seq \in SeqNumbers
         /\ Working' = Working
         /\ Queued' = Queued \ {Head(emitQ).seq}
         /\ Parked' = Parked \cup {Head(emitQ).seq}
         /\ Popped' = Popped
<1> DEFINE item == Head(emitQ)
<1> DEFINE i == IF Threaded THEN item.seq ELSE em.desired
<1>1. /\ Len(emitQ) \in Nat \ {0} /\ Head(emitQ) = emitQ[1] /\ item \in ItemSet
      /\ emitQ' \in Seq(ItemSet) /\ Len(emitQ') = Len(emitQ) - 1
      /\ \A k \in 1 .. Len(emitQ) - 1 : emitQ'[k] = emitQ[k + 1]
  <2>1. emitQ # <<>> /\ emitQ' = Tail(emitQ) /\ item \in ItemSet
    BY FetchItemFacts
  <2>2. emitQ \in Seq(ItemSet)
    BY Typed
  <2> HIDE DEF item
  <2>3. /\ Len(emitQ) \in Nat \ {0} /\ Head(emitQ) = emitQ[1]
        /\ Tail(emitQ) \in Seq(ItemSet) /\ Len(Tail(emitQ)) = Len(emitQ) - 1
        /\ \A k \in 1 .. Len(emitQ) - 1 : Tail(emitQ)[k] = emitQ[k + 1]
    BY <2>1, <2>2, HeadTail
  <2>4. QED
    BY <2>1, <2>3
<1>2. DOMAIN emitQ' = 1 .. Len(emitQ) - 1
  BY <1>1
<1>3. item.seq \in SeqNumbers /\ item.seq \in Nat /\ item.seq \in Queued
  <2>1. 1 \in DOMAIN emitQ /\ emitQ[1].seq \in SeqNumbers
    BY <1>1, Typed
  <2>2. \A q \in SeqNumbers : q \in Nat
    BY SeqNumbersAre
  <2>3. emitQ[1].seq \in Queued
    BY <2>1 DEF Queued
  <2>4. QED
    BY <1>1, <2>1, <2>2, <2>3
<1>4. i \in Nat /\ em'.pending = Keep(i, item)
  BY <1>3, FetchItemFacts, Typed DEF TypeInv, TypeOK
<1>5. i \notin DOMAIN em.pending
  <2>1. CASE Sequential
    BY <2>1, FetchItemFacts, JourneyPending
  <2>2. CASE Threaded
    <3>1. ASSUME item.seq \in DOMAIN em.pending PROVE FALSE
      <4>1. em.pending[item.seq].seq = item.seq
        BY <2>2, <3>1, JourneyPending
      <4>2. em.pending[item.seq].seq \notin Queued
        BY <3>1 DEF Items
      <4>3. QED
        BY <1>3, <4>1, <4>2
    <3>2. QED
      BY <2>2, <3>1
  <2>3. QED
    BY <2>1, <2>2 DEF Threaded
<1>6. /\ DOMAIN em'.pending = DOMAIN em.pending \cup {i}
      /\ em'.pending[i] = item
      /\ \A j \in DOMAIN em.pending : em'.pending[j] = em.pending[j]
  <2>1. em \in Locals
    BY DEF TypeInv
  <2>2. item \in ItemSet /\ i \in Nat
    BY <1>1, <1>4
  <2> HIDE DEF i, item
  <2>3. /\ DOMAIN Keep(i, item) = DOMAIN em.pending \cup {i}
        /\ Keep(i, item)[i] = item
        /\ \A j \in DOMAIN em.pending \ {i} : Keep(i, item)[j] = em.pending[j]
    BY <2>1, <2>2, KeepFacts
  <2>4. QED
    BY <1>4, <1>5, <2>3
<1>7. Parked' = Parked \cup {item.seq}
  BY <1>3, <1>6 DEF Parked
<1>8. Queued' = Queued \ {item.seq}
  <2>1. \A q \in SeqNumbers : q \in Queued' => q \in Queued /\ q # item.seq
    <3>1. SUFFICES ASSUME NEW k \in 1 .. Len(emitQ) - 1
                   PROVE  emitQ'[k].seq \in Queued /\ emitQ'[k].seq # item.seq
      BY <1>2 DEF Queued
    <3>2. k + 1 \in DOMAIN emitQ /\ 1 \in DOMAIN emitQ /\ k + 1 # 1
      BY <1>1, Typed
    <3>3. emitQ[k + 1].seq # emitQ[1].seq
      BY <3>2 DEF Items
    <3>4. emitQ[k + 1].seq \in Queued
      BY <3>2, Typed DEF Queued
    <3>5. QED
      BY <1>1, <3>3, <3>4
  <2>2. \A q \in SeqNumbers : q \in Queued /\ q # item.seq => q \in Queued'
    <3>1. SUFFICES ASSUME NEW k \in DOMAIN emitQ, emitQ[k].seq # item.seq
                   PROVE  \E l \in DOMAIN emitQ' : emitQ'[l].seq = emitQ[k].seq
      BY DEF Queued
    <3>2. k \in 1 .. Len(emitQ) /\ k # 1
      BY <1>1, <3>1, Typed
    <3>3. k - 1 \in 1 .. Len(emitQ) - 1 /\ emitQ'[k - 1] = emitQ[k]
      BY <1>1, <3>2
    <3>4. QED
      BY <1>2, <3>3
  <2>3. QED
    BY <2>1, <2>2 DEF Queued
<1>9. Working' = Working /\ Popped' = Popped
  BY FetchItemFacts, UnchangedMoves DEF mainVars, Popped
<1>10. QED
  BY <1>1, <1>2, <1>3, <1>4, <1>5, <1>6, <1>7, <1>8, <1>9, FetchItemFacts

LEMMA EmitsMoves ==
  ASSUME TypeInv, Items, NEW i \in Nat, Emits(i)
  PROVE  /\ DOMAIN em'.pending = DOMAIN em.pending \ {i}
         /\ \A j \in DOMAIN em.pending \ {i} : em'.pending[j] = em.pending[j]
         /\ em.pending[i].seq \in Parked /\ em.pending[i].seq \notin Working \cup Queued
         /\ em.pending[i].seq \in 1 .. Popped
         /\ em.pending[i] = ItemOf(em.pending[i].seq)
         /\ Working' = Working /\ Queued' = Queued
         /\ Parked' = Parked \ {em.pending[i].seq}
         /\ Popped' = Popped
<1>1. /\ DOMAIN em'.pending = DOMAIN em.pending \ {i}
      /\ \A j \in DOMAIN em.pending \ {i} : em'.pending[j] = em.pending[j]
  BY WithoutFacts DEF Emits, TypeInv
<1>2. i \in DOMAIN em.pending /\ em.pending[i].seq \in SeqNumbers
  BY Typed DEF Emits
<1>3. /\ em.pending[i].seq \in Parked /\ em.pending[i].seq \notin Working \cup Queued
      /\ em.pending[i].seq \in 1 .. Popped
      /\ em.pending[i] = ItemOf(em.pending[i].seq)
  BY <1>2, Typed, SeqNumbersAre DEF Items, Parked
<1>4. Parked' = Parked \ {em.pending[i].seq}
  <2>1. \A j \in DOMAIN em.pending \ {i} : em.pending[j].seq # em.pending[i].seq
    BY <1>2 DEF Items
  <2>2. QED
    BY <1>1, <2>1 DEF Parked
<1>5. Working' = Working /\ Queued' = Queued /\ Popped' = Popped
  BY UnchangedMoves DEF Emits, mainVars, queueVars, Popped
<1>6. QED
  BY <1>1, <1>3, <1>4, <1>5

(***************************************************************************)
(* The other steps move nothing.                                           *)
(***************************************************************************)
Elsewhere ==
  \/ UNCHANGED vars
  \/ ReadFunctionBlock \/ SkipBlockFailed \/ EndOfModule \/ WaitFirst \/ WaitAgain
  \/ JoinTranslators \/ JoinEmitter \/ LeaveModule \/ Finish
  \/ \E t \in Threads : (PopFunction(t) /\ optQ = <<>>) \/ GetParsedCfg(t) \/ Translate(t)
  \/ TakePending \/ FetchNothing \/ NextWindow \/ EndOfItems

LEMMA ElsewhereMoves ==
  ASSUME TypeInv, Elsewhere
  PROVE  /\ Stay /\ Popped' = Popped
         /\ UNCHANGED <<flags, outcome, optQ, emitQ, trSeq>>
         /\ em'.pending = em.pending /\ em'.start \in {em.start, em.end}
         /\ \A t \in Threads : Active(t)' <=> Active(t)
<1>0. trPc \in [Threads -> {"idle", "pop", "parse", "translate", "push", "exited"}]
  BY DEF TypeInv, TypeOK, Threads
<1>1. /\ UNCHANGED <<flags, outcome, optQ, emitQ, trSeq>>
      /\ em'.pending = em.pending /\ em'.start \in {em.start, em.end}
      /\ \A t \in Threads : Active(t)' <=> Active(t)
      /\ nextFn' = nextFn /\ (mainPc' = "install" <=> mainPc = "install")
  <2> USE DEF mainVars, queueVars, trVars, emVars, Active
  <2>1. CASE UNCHANGED vars
    BY <2>1 DEF vars
  <2>2. CASE ReadFunctionBlock \/ SkipBlockFailed \/ EndOfModule
    BY <2>2 DEF ReadFunctionBlock, SkipBlockFailed, EndOfModule
  <2>3. CASE WaitFirst \/ WaitAgain \/ JoinTranslators \/ JoinEmitter
    BY <2>3 DEF WaitFirst, WaitAgain, JoinTranslators, JoinEmitter, AfterWait,
                OptQ!NotifyEnd, EmitQ!NotifyEnd
  <2>4. CASE LeaveModule \/ Finish
    BY <2>4 DEF LeaveModule, Finish
  <2>5. CASE \E t \in Threads : (PopFunction(t) /\ optQ = <<>>) \/ GetParsedCfg(t) \/ Translate(t)
    <3>1. PICK t \in Threads : (PopFunction(t) /\ optQ = <<>>) \/ GetParsedCfg(t) \/ Translate(t)
      BY <2>5
    <3>2. CASE PopFunction(t) /\ optQ = <<>>
      BY <1>0, <3>2 DEF PopFunction, OptQ!TakeHead, OptQ!TakeNothing
    <3>3. CASE GetParsedCfg(t)
      BY <1>0, <3>3 DEF GetParsedCfg
    <3>4. CASE Translate(t)
      BY <1>0, <3>4 DEF Translate
    <3>5. QED
      BY <3>1, <3>2, <3>3, <3>4
  <2>6. CASE TakePending
    BY <2>6, TakePendingFacts
  <2>7. CASE FetchNothing
    BY <2>7, FetchNothingFacts
  <2>8. CASE NextWindow
    <3>1. em \in Locals
      BY DEF TypeInv
    <3>2. QED
      BY <2>8, <3>1 DEF NextWindow, Locals
  <2>9. CASE EndOfItems
    BY <2>9 DEF EndOfItems
  <2>10. QED
    BY <2>1, <2>2, <2>3, <2>4, <2>5, <2>6, <2>7, <2>8, <2>9 DEF Elsewhere
<1>2. Working' = Working
  BY <1>1 DEF Working
<1>3. Queued' = Queued /\ Parked' = Parked
  BY <1>1, UnchangedMoves
<1>4. Popped' = Popped
  BY <1>1 DEF Popped
<1>5. QED
  BY <1>1, <1>2, <1>3, <1>4 DEF Stay

(***************************************************************************)
(* All kinds of steps.                                                     *)
(***************************************************************************)
LEMMA StepKinds ==
  ASSUME TypeInv, [Next]_vars
  PROVE  \/ InstallGlobals \/ PushFunction \/ FetchItem \/ Elsewhere
         \/ \E t \in Threads : PopFunction(t) /\ optQ # <<>>
         \/ \E t \in Threads : PushResult(t)
         \/ \E i \in Nat : Emits(i)
<1>1. CASE MainStep
  BY <1>1 DEF MainStep, Elsewhere
<1>2. CASE \E t \in Threads : TranslatorStep(t)
  BY <1>2 DEF TranslatorStep, Elsewhere
<1>3. CASE EmitterStep
  BY <1>3, EmitItemFacts DEF EmitterStep, Elsewhere
<1>4. CASE UNCHANGED vars
  BY <1>4 DEF Elsewhere
<1>5. QED
  BY <1>1, <1>2, <1>3, <1>4 DEF Next, Terminated, Threads

LEMMA InputStays ==
  ASSUME TypeInv, [Next]_vars
  PROVE  UNCHANGED <<flags, outcome>>
<1>1. CASE UNCHANGED vars
  BY <1>1 DEF vars
<1>2. CASE MainStep
  BY <1>2 DEF MainStep, InstallGlobals, ReadFunctionBlock, SkipBlockFailed, PushFunction, EndOfModule,
              WaitFirst, WaitAgain, JoinTranslators, JoinEmitter, LeaveModule, Finish
<1>3. CASE \E t \in Threads : TranslatorStep(t)
  BY <1>3 DEF TranslatorStep, PopFunction, GetParsedCfg, Translate, PushResult
<1>4. CASE EmitterStep
  BY <1>4 DEF EmitterStep, FetchItem, TakePending, FetchNothing, EmitItem, NextWindow, EndOfItems
<1>5. QED
  BY <1>1, <1>2, <1>3, <1>4 DEF Next, Terminated, Threads

LEMMA ItemStays ==
  ASSUME UNCHANGED <<flags, outcome>>
  PROVE  \A q : ItemOf(q)' = ItemOf(q)
BY DEF ItemOf, ResultItem

(***************************************************************************)
(* Items stay apart.                                                       *)
(***************************************************************************)
LEMMA InitItems == ASSUME Init PROVE Items
<1>1. \A t \in Threads : ~Active(t)
  BY DEF Init, Active, Threads
<1>2. DOMAIN em.pending = {} /\ DOMAIN emitQ = {}
  BY EmitterLocalsFacts, EmptySeq, 1 .. 0 = {} DEF Init
<1>3. QED
  BY <1>1, <1>2 DEF Items

LEMMA NextItems == ASSUME TypeInv, Phases, Items, Journey, [Next]_vars PROVE Items'
<1>0. \A q : ItemOf(q)' = ItemOf(q)
  BY InputStays, ItemStays
<1>1. CASE InstallGlobals
  <2>1. /\ \A t \in Threads : ~Active(t)'
        /\ emitQ' = <<GlobalInits(1)>> /\ DOMAIN em'.pending = {} /\ Working' = {} /\ Popped' = 1
    BY <1>1, InstallGlobalsMoves
  <2>2. DOMAIN emitQ' = {1} /\ emitQ'[1] = GlobalInits(1)
    BY <2>1
  <2>3. GlobalInits(1) = ItemOf(1) /\ GlobalInits(1).seq = 1
    BY DEF ItemOf, GlobalInits, FirstSequenceNumber
  <2>4. QED
    BY <1>0, <2>1, <2>2, <2>3 DEF Items
<1>2. CASE PushFunction \/ Elsewhere
  <2>1. /\ \A t \in Threads : Active(t)' <=> Active(t)
        /\ Stay /\ Popped' = Popped /\ UNCHANGED <<trSeq, emitQ>> /\ em'.pending = em.pending
    BY <1>2, PushFunctionMoves, ElsewhereMoves DEF PushFunction, emVars
  <2>2. QED
    BY <1>0, <2>1 DEF Items, Stay
<1>3. ASSUME NEW t \in Threads, PopFunction(t), optQ # <<>> PROVE Items'
  <2>1. /\ ~Active(t) /\ Active(t)' /\ trSeq'[t] = Popped + 1
        /\ \A u \in Threads \ {t} : (Active(u)' <=> Active(u)) /\ trSeq'[u] = trSeq[u]
        /\ Popped' = Popped + 1 /\ Popped >= 1
        /\ Working' = Working \cup {Popped + 1} /\ Queued' = Queued /\ Parked' = Parked
    BY <1>3, TakeFunctionMoves
  <2>2. UNCHANGED <<emitQ, em>>
    BY <1>3 DEF PopFunction, emVars
  <2>3. Popped \in Nat
    BY Typed
  <2>4. \A u \in Threads : Active(u)' => trSeq'[u] \in 2 .. Popped'
    BY <2>1, <2>3 DEF Items
  <2>5. \A u, v \in Threads : Active(u)' /\ Active(v)' /\ trSeq'[u] = trSeq'[v] => u = v
    BY <2>1, <2>3 DEF Items
  <2>6. \A k \in DOMAIN emitQ :
          emitQ[k] = ItemOf(emitQ[k].seq) /\ emitQ[k].seq <= Popped' /\ emitQ[k].seq \notin Working'
    BY <2>1, <2>3, Typed, SeqNumbersAre DEF Items
  <2>7. \A i \in DOMAIN em.pending :
          /\ em.pending[i] = ItemOf(em.pending[i].seq) /\ em.pending[i].seq <= Popped'
          /\ em.pending[i].seq \notin Working' \cup Queued'
    BY <2>1, <2>3, Typed, SeqNumbersAre DEF Items
  <2>8. QED
    BY <1>0, <2>2, <2>4, <2>5, <2>6, <2>7 DEF Items
<1>4. ASSUME NEW t \in Threads, PushResult(t) PROVE Items'
  <2> DEFINE q == trSeq[t]
             n == Len(emitQ) + 1
  <2>1. /\ ~Active(t)'
        /\ \A u \in Threads \ {t} : (Active(u)' <=> Active(u))
        /\ trSeq' = trSeq
        /\ q \in Working /\ q \notin Queued \cup Parked
        /\ Working' = Working \ {q} /\ Queued' = Queued \cup {q}
        /\ Popped' = Popped
        /\ ItemOf(q).seq = q /\ emitQ'[n] = ItemOf(q)
        /\ \A k \in DOMAIN emitQ : emitQ'[k] = emitQ[k]
        /\ DOMAIN emitQ' = DOMAIN emitQ \cup {n}
        /\ DOMAIN em'.pending = DOMAIN em.pending
        /\ \A i \in DOMAIN em.pending : em'.pending[i] = em.pending[i]
    BY <1>4, PushResultMoves
  <2>2. \A k \in DOMAIN emitQ : emitQ[k].seq \in Queued
    BY Typed DEF Queued
  <2>3. \A i \in DOMAIN em.pending : em.pending[i].seq \in Parked
    BY Typed DEF Parked
  <2>4. q <= Popped
    BY <2>1, HeldBelow
  <2>5. \A u \in Threads : Active(u)' => trSeq'[u] \in 2 .. Popped'
    BY <2>1 DEF Items
  <2>6. \A u, v \in Threads : Active(u)' /\ Active(v)' /\ trSeq'[u] = trSeq'[v] => u = v
    BY <2>1 DEF Items
  <2>7. \A k \in DOMAIN emitQ' :
          emitQ'[k] = ItemOf(emitQ'[k].seq) /\ emitQ'[k].seq <= Popped' /\ emitQ'[k].seq \notin Working'
    BY <2>1, <2>4 DEF Items
  <2>8. \A i \in DOMAIN em'.pending :
          /\ em'.pending[i] = ItemOf(em'.pending[i].seq) /\ em'.pending[i].seq <= Popped'
          /\ em'.pending[i].seq \notin Working' \cup Queued'
    BY <2>1, <2>3 DEF Items
  <2>9. \A k, l \in DOMAIN emitQ' : emitQ'[k].seq = emitQ'[l].seq => k = l
    BY <2>1, <2>2 DEF Items
  <2>10. \A i, j \in DOMAIN em'.pending : em'.pending[i].seq = em'.pending[j].seq => i = j
    BY <2>1 DEF Items
  <2>11. QED
    BY <1>0, <2>5, <2>6, <2>7, <2>8, <2>9, <2>10 DEF Items
<1>5. CASE FetchItem
  <2> DEFINE item == Head(emitQ)
  <2>1. PICK i \in Nat :
         /\ i \notin DOMAIN em.pending
         /\ DOMAIN em'.pending = DOMAIN em.pending \cup {i}
         /\ em'.pending[i] = item
         /\ \A j \in DOMAIN em.pending : em'.pending[j] = em.pending[j]
         /\ Len(emitQ) \in Nat \ {0} /\ item = emitQ[1]
         /\ DOMAIN emitQ' = 1 .. Len(emitQ) - 1
         /\ \A k \in 1 .. Len(emitQ) - 1 : emitQ'[k] = emitQ[k + 1]
         /\ item.seq \in Queued
         /\ Working' = Working /\ Queued' = Queued \ {item.seq} /\ Popped' = Popped
    BY <1>5, FetchItemMoves
  <2>2. UNCHANGED <<trSeq, trPc>>
    BY <1>5 DEF FetchItem, trVars
  <2>3. \A t \in Threads : Active(t)' <=> Active(t)
    BY <2>2 DEF Active
  <2>4. 1 \in DOMAIN emitQ
    BY <2>1, Typed
  <2>5. \A k \in 1 .. Len(emitQ) - 1 : k + 1 \in DOMAIN emitQ
    BY <2>1, Typed
  <2>6. \A k \in DOMAIN emitQ' :
          emitQ'[k] = ItemOf(emitQ'[k].seq) /\ emitQ'[k].seq <= Popped' /\ emitQ'[k].seq \notin Working'
    BY <2>1, <2>5 DEF Items
  <2>7. \A i_1 \in DOMAIN em.pending : em.pending[i_1].seq # item.seq
    BY <2>1 DEF Items
  <2>8. item = ItemOf(item.seq) /\ item.seq <= Popped /\ item.seq \notin Working
    BY <2>1, <2>4 DEF Items
  <2>9. \A j \in DOMAIN em'.pending :
          /\ em'.pending[j] = ItemOf(em'.pending[j].seq) /\ em'.pending[j].seq <= Popped'
          /\ em'.pending[j].seq \notin Working' \cup Queued'
    BY <2>1, <2>8 DEF Items
  <2>10. \A k, l \in DOMAIN emitQ' : emitQ'[k].seq = emitQ'[l].seq => k = l
    <3>1. SUFFICES ASSUME NEW k \in DOMAIN emitQ', NEW l \in DOMAIN emitQ', emitQ'[k].seq = emitQ'[l].seq
                   PROVE  k = l
      OBVIOUS
    <3>2. k + 1 = l + 1
      BY <2>1, <2>5, <3>1 DEF Items
    <3>3. QED
      BY <2>1, <3>2
  <2>11. \A j, l \in DOMAIN em'.pending : em'.pending[j].seq = em'.pending[l].seq => j = l
    BY <2>1, <2>7 DEF Items
  <2>12. QED
    BY <1>0, <2>1, <2>2, <2>3, <2>6, <2>9, <2>10, <2>11 DEF Items
<1>6. ASSUME NEW i \in Nat, Emits(i) PROVE Items'
  <2>1. /\ DOMAIN em'.pending = DOMAIN em.pending \ {i}
        /\ \A j \in DOMAIN em.pending \ {i} : em'.pending[j] = em.pending[j]
        /\ Working' = Working /\ Queued' = Queued /\ Popped' = Popped
    BY <1>6, EmitsMoves
  <2>2. UNCHANGED <<trSeq, trPc, emitQ>>
    BY <1>6 DEF Emits, trVars, queueVars
  <2>3. \A t \in Threads : Active(t)' <=> Active(t)
    BY <2>2 DEF Active
  <2>4. QED
    BY <1>0, <2>1, <2>2, <2>3 DEF Items
<1>7. QED
  BY <1>1, <1>2, <1>3, <1>4, <1>5, <1>6, StepKinds

-----------------------------------------------------------------------------
(***************************************************************************)
(* With threads: what the emitter has parked, and what is still to come.   *)
(***************************************************************************)
LEMMA InitReordering == ASSUME Init, Threaded PROVE Reordering
<1>1. /\ em = EmitterLocals /\ emPc = "fetch" /\ emitQ = <<>>
      /\ mainPc = "install"
  BY DEF Init, Threaded
<1>2. \A t \in Threads : ~Active(t)
  BY DEF Init, Active, Threads
<1>3. Working = {} /\ Queued = {} /\ Popped = 0
  BY <1>1, <1>2, EmptySeq, 1 .. 0 = {} DEF Working, Queued, Popped
<1>4. QED
  BY <1>1, <1>3, EmitterLocalsFacts DEF Reordering

(***************************************************************************)
(* Once EmitQ is closed no translator works and OptQ is empty.             *)
(***************************************************************************)
LEMMA WhenEnded ==
  ASSUME TypeInv, Phases, Threaded, emitEnded
  PROVE  /\ \A t \in Threads : trPc[t] \in {"idle", "exited"}
         /\ Working = {} /\ optQ = <<>>
<1>1. \A t \in Threads : trPc[t] \in {"idle", "exited"}
  BY DEF Phases, TranslatorsJoined
<1>2. Working = {}
  BY <1>1 DEF Working, Active
<1>3. PICK t \in flags.workers : TRUE
  BY DEF Threaded, Sequential
<1>4. t \in Threads /\ trPc[t] = "exited"
  BY <1>1, SomeFlags DEF Phases, Threads, TypeInv, TypeOK
<1>5. optQ = <<>>
  BY <1>4 DEF Phases
<1>6. QED
  BY <1>1, <1>2, <1>5

LEMMA FirstItem ==
  ASSUME NEW x, x = ItemOf(1) PROVE x.seq = 1 /\ x.kind = "GlobalInits"
BY DEF ItemOf, GlobalInits, FirstSequenceNumber

LEMMA EmitterReordering ==
  ASSUME TypeInv, Phases, Items, Threaded, Reordering, Journey,
         FetchItem \/ TakePending \/ FetchNothing \/ NextWindow \/ EndOfItems
  PROVE  Reordering'
<1>0. /\ em.start \in Nat /\ em.end \in Nat /\ em.desired = em.end /\ em.start <= em.end
      /\ Popped \in Nat
      /\ \A i \in DOMAIN em.pending : i \in Nat /\ em.pending[i].seq = i /\ i >= em.start
      /\ \A q \in Working \cup Queued : q \in Nat /\ q >= em.end
      /\ \A q \in em.end .. Popped : q \in Held
      /\ em.end <= Popped + 1 /\ em.start >= 1
  BY Typed, HeldBelow DEF Reordering, Held
<1>1. CASE FetchItem
  <2> DEFINE item == Head(emitQ)
  <2>1. PICK i \in Nat :
         /\ i \notin DOMAIN em.pending
         /\ DOMAIN em'.pending = DOMAIN em.pending \cup {i}
         /\ em'.pending[i] = item
         /\ \A j \in DOMAIN em.pending : em'.pending[j] = em.pending[j]
         /\ i = item.seq
         /\ item.seq \in Queued
         /\ Len(emitQ) \in Nat \ {0} /\ item = emitQ[1]
         /\ Working' = Working /\ Queued' = Queued \ {item.seq}
         /\ Parked' = Parked \cup {item.seq} /\ Popped' = Popped
    BY <1>1, FetchItemMoves
  <2>2. item = ItemOf(item.seq) /\ item.seq <= Popped /\ item.seq \notin Working /\ i >= em.end
    BY <1>0, <2>1, Typed DEF Items
  <2>3. Held' = Held
    BY <2>1 DEF Held
  <2>4. /\ emPc = "fetch" /\ em'.start = em.start /\ em'.queueEmpty = em.queueEmpty
        /\ emPc' \in {"fetch", "emit"} /\ ~em.queueEmpty
    BY <1>1, FetchItemFacts DEF Reordering
  <2>5. \A j \in DOMAIN em'.pending : em'.pending[j].seq = j /\ j >= em'.start
    BY <1>0, <2>1, <2>2, <2>4
  <2>6. CASE item.seq # em.desired
    <3>1. em'.end = em.end /\ emPc' = emPc
      BY <1>1, <2>6, FetchItemFacts
    <3>2. \A q \in Working' \cup Queued' : q >= em'.end
      BY <1>0, <2>1, <3>1
    <3>3. em'.start = 1 => em'.end = IF emPc' = "fetch" THEN 1 ELSE 2
      BY <2>4, <3>1 DEF Reordering
    <3>4. QED
      BY <1>0, <2>1, <2>3, <2>4, <2>5, <3>1, <3>2, <3>3 DEF Reordering
  <2>7. CASE item.seq = em.desired
    <3>1. em'.end = em.end + 1 /\ emPc' = IF Growing(item) THEN "fetch" ELSE "emit"
      BY <1>1, <2>7, FetchItemFacts
    <3>2. \A q \in Working' \cup Queued' : q >= em'.end
      BY <1>0, <2>1, <2>2, <2>7, <3>1
    <3>3. em'.start = 1 => em'.end = IF emPc' = "fetch" THEN 1 ELSE 2
      <4>1. SUFFICES ASSUME em.start = 1 PROVE em'.end = IF emPc' = "fetch" THEN 1 ELSE 2
        BY <2>4
      <4>2. em.end = 1
        BY <2>4, <4>1 DEF Reordering
      <4>3. item.kind = "GlobalInits"
        BY <1>0, <2>2, <2>7, <4>2, FirstItem
      <4>4. QED
        BY <3>1, <4>2, <4>3 DEF Growing
    <3>4. \A q \in em'.end .. Popped' : q \in Held'
      BY <1>0, <2>1, <2>3, <3>1
    <3>5. em'.end <= Popped' + 1
      BY <1>0, <2>1, <2>2, <2>7, <3>1
    <3>6. QED
      BY <1>0, <2>4, <2>5, <3>2, <3>3, <3>4, <3>5 DEF Reordering
  <2>8. QED
    BY <2>6, <2>7
<1>2. CASE TakePending
  <2>1. /\ emPc = "fetch" /\ em.end \in DOMAIN em.pending
        /\ em'.pending = em.pending /\ em'.end = em.end + 1 /\ em'.start = em.start
        /\ em'.queueEmpty = em.queueEmpty
        /\ emPc' = IF Growing(em.pending[em.end]) THEN "fetch" ELSE "emit"
    BY <1>2, TakePendingFacts
  <2>2. Stay /\ Popped' = Popped
    BY <1>2, ElsewhereMoves DEF Elsewhere
  <2>3. Held' = Held
    BY <2>2 DEF Held, Stay
  <2>4. /\ em.pending[em.end] = ItemOf(em.end) /\ em.end <= Popped
        /\ em.end \notin Working \cup Queued
    BY <1>0, <2>1 DEF Items
  <2>5. ~em.queueEmpty
    BY <2>1 DEF Reordering
  <2>6. \A q \in Working' \cup Queued' : q >= em'.end
    BY <1>0, <2>1, <2>2, <2>4 DEF Stay
  <2>7. em'.start = 1 => em'.end = IF emPc' = "fetch" THEN 1 ELSE 2
    <3>1. SUFFICES ASSUME em.start = 1 PROVE em'.end = IF emPc' = "fetch" THEN 1 ELSE 2
      BY <2>1
    <3>2. em.end = 1
      BY <2>1, <3>1 DEF Reordering
    <3>3. em.pending[em.end].kind = "GlobalInits"
      BY <2>4, <3>2, FirstItem
    <3>4. QED
      BY <2>1, <3>2, <3>3 DEF Growing
  <2>8. \A q \in em'.end .. Popped' : q \in Held'
    BY <1>0, <2>1, <2>2, <2>3
  <2>9. em'.end <= Popped' + 1 /\ emPc' # "exited"
    BY <1>0, <2>1, <2>2, <2>4
  <2>10. QED
    BY <1>0, <2>1, <2>5, <2>6, <2>7, <2>8, <2>9 DEF Reordering
<1>3. CASE FetchNothing
  <2>1. /\ emPc = "fetch" /\ emPc' = "emit" /\ emitQ = <<>> /\ emitEnded
        /\ em.end \notin DOMAIN em.pending
        /\ em'.pending = em.pending /\ em'.end = em.end /\ em'.start = em.start
        /\ UNCHANGED <<emitQ, emitEnded, mainPc>>
    BY <1>3, FetchNothingFacts DEF mainVars, queueVars, TypeInv, TypeOK
  <2>2. Stay /\ Popped' = Popped
    BY <1>3, ElsewhereMoves DEF Elsewhere
  <2>3. Held' = Held
    BY <2>2 DEF Held, Stay
  <2>4. Working = {} /\ Queued = {}
    BY <2>1, WhenEnded, EmptySeq DEF Queued
  <2>5. em.end = Popped + 1
    <3>1. SUFFICES ASSUME em.end <= Popped PROVE FALSE
      BY <1>0
    <3>2. em.end \in Parked
      BY <1>0, <2>4, <3>1 DEF Held
    <3>3. QED
      BY <1>0, <2>1, <3>2 DEF Parked
  <2>6. Popped >= 1
    BY <2>1, Typed DEF Phases, Waiting, Popped, TypeInv, Numbering
  <2>7. em.start # 1
    BY <1>0, <2>1, <2>5, <2>6 DEF Reordering
  <2>8. QED
    BY <1>0, <2>1, <2>2, <2>3, <2>4, <2>5, <2>7 DEF Reordering, Stay
<1>4. CASE NextWindow
  <2>1. /\ emPc = "emit" /\ emPc' = "fetch" /\ Window = {} /\ ~em.queueEmpty
        /\ em'.pending = em.pending /\ em'.end = em.end /\ em'.start = em.end
        /\ em'.queueEmpty = em.queueEmpty
    BY <1>4 DEF NextWindow, TypeInv, Locals
  <2>2. Stay /\ Popped' = Popped
    BY <1>4, ElsewhereMoves DEF Elsewhere
  <2>3. Held' = Held
    BY <2>2 DEF Held, Stay
  <2>4. \A i \in DOMAIN em.pending : i >= em.end
    BY <1>0, <2>1 DEF Window
  <2>5. em.end >= 2
    BY <1>0, <2>1 DEF Reordering
  <2>6. QED
    BY <1>0, <2>1, <2>2, <2>3, <2>4, <2>5 DEF Reordering, Stay
<1>5. CASE EndOfItems
  <2>1. /\ emPc = "emit" /\ emPc' = "exited" /\ Window = {} /\ em.queueEmpty
        /\ UNCHANGED <<em, emitQ, emitEnded>>
    BY <1>5 DEF EndOfItems, queueVars, Threaded
  <2>2. Stay /\ Popped' = Popped
    BY <1>5, ElsewhereMoves DEF Elsewhere
  <2>3. Held' = Held
    BY <2>2 DEF Held, Stay
  <2>4. em.end = Popped + 1 /\ emitEnded /\ emitQ = <<>>
    BY <2>1 DEF Reordering
  <2>5. DOMAIN em.pending = {}
    <3>1. ASSUME NEW i \in DOMAIN em.pending PROVE FALSE
      <4>1. i \in Nat /\ em.pending[i].seq = i /\ i >= em.start
        BY <1>0
      <4>2. i <= Popped
        BY <4>1 DEF Items
      <4>3. i \in Window
        BY <1>0, <2>4, <4>1, <4>2 DEF Window
      <4>4. QED
        BY <2>1, <4>3
    <3>2. QED
      BY <3>1
  <2>6. em.start = 1 => em.end = 2
    BY <2>1 DEF Reordering
  <2>7. QED
    BY <1>0, <2>1, <2>2, <2>3, <2>4, <2>5, <2>6 DEF Reordering, Stay
<1>6. QED
  BY <1>1, <1>2, <1>3, <1>4, <1>5

LEMMA NextReordering ==
  ASSUME TypeInv, Phases, Items, Threaded, Journey, [Next]_vars
  PROVE  Reordering'
<1>0. Reordering
  BY DEF Journey
<1>1. /\ em.start \in Nat /\ em.end \in Nat /\ em.desired = em.end /\ em.start <= em.end
      /\ Popped \in Nat
      /\ \A i \in DOMAIN em.pending : i \in Nat /\ em.pending[i].seq = i /\ i >= em.start
      /\ \A q \in Working \cup Queued : q \in Nat /\ q >= em.end
      /\ \A q \in em.end .. Popped : q \in Held
      /\ em.end <= Popped + 1 /\ em.start >= 1
  BY <1>0, Typed, HeldBelow DEF Reordering, Held
<1>2. CASE InstallGlobals
  <2>1. /\ Working' = {} /\ Queued' = {1} /\ Popped = 0 /\ Popped' = 1 /\ UNCHANGED <<em, emPc>>
        /\ DOMAIN em.pending = {}
    BY <1>2, InstallGlobalsMoves DEF emVars
  <2>2. em.end = 1
    BY <1>1, <2>1
  <2>3. ~emitEnded
    BY <1>2 DEF InstallGlobals, Phases, Waiting
  <2>4. ~em.queueEmpty /\ emPc # "exited"
    BY <1>0, <2>3 DEF Reordering
  <2>5. Held' = {1} \cup Parked'
    BY <2>1 DEF Held
  <2>6. \A q \in em'.end .. Popped' : q \in Held'
    BY <2>1, <2>2, <2>5
  <2>7. QED
    BY <1>0, <1>1, <2>1, <2>2, <2>4, <2>6 DEF Reordering
<1>3. CASE PushFunction \/ \E t \in Threads : (PopFunction(t) /\ optQ = <<>>) \/ GetParsedCfg(t) \/ Translate(t)
  <2>1. UNCHANGED <<em, emPc, emitEnded, emitQ>>
    BY <1>3 DEF PushFunction, PopFunction, GetParsedCfg, Translate, emVars, queueVars
  <2>2. Stay /\ Popped' = Popped
    BY <1>3, PushFunctionMoves, ElsewhereMoves DEF Elsewhere
  <2>3. Held' = Held
    BY <2>2 DEF Held, Stay
  <2>4. QED
    BY <1>0, <2>1, <2>2, <2>3 DEF Reordering, Stay
<1>4. CASE \/ UNCHANGED vars
           \/ ReadFunctionBlock \/ SkipBlockFailed \/ EndOfModule \/ WaitFirst \/ WaitAgain
           \/ JoinTranslators \/ JoinEmitter \/ LeaveModule \/ Finish
  <2>1. UNCHANGED <<em, emPc, emitQ>> /\ (emitEnded => emitEnded')
    <3> USE DEF emVars, queueVars
    <3>1. CASE UNCHANGED vars
      BY <3>1 DEF vars
    <3>2. CASE ReadFunctionBlock \/ SkipBlockFailed \/ EndOfModule
      BY <3>2 DEF ReadFunctionBlock, SkipBlockFailed, EndOfModule
    <3>3. CASE WaitFirst \/ WaitAgain \/ JoinTranslators \/ JoinEmitter
      BY <3>3 DEF WaitFirst, WaitAgain, JoinTranslators, JoinEmitter, EmitQ!NotifyEnd
    <3>4. CASE LeaveModule \/ Finish
      BY <3>4 DEF LeaveModule, Finish
    <3>5. QED
      BY <1>4, <3>1, <3>2, <3>3, <3>4
  <2>2. Stay /\ Popped' = Popped
    BY <1>4, ElsewhereMoves DEF Elsewhere
  <2>3. Held' = Held
    BY <2>2 DEF Held, Stay
  <2>4. QED
    BY <1>0, <2>1, <2>2, <2>3 DEF Reordering, Stay
<1>5. ASSUME NEW t \in Threads, PopFunction(t), optQ # <<>> PROVE Reordering'
  <2>1. /\ Popped' = Popped + 1
        /\ Working' = Working \cup {Popped + 1} /\ Queued' = Queued /\ Parked' = Parked
    BY <1>5, TakeFunctionMoves
  <2>2. UNCHANGED <<em, emPc, emitEnded, emitQ>>
    BY <1>5 DEF PopFunction, emVars
  <2>3. ~emitEnded
    BY <1>5, WhenEnded
  <2>4. Held' = Held \cup {Popped + 1}
    BY <2>1 DEF Held
  <2>5. \A q \in em'.end .. Popped' : q \in Held'
    BY <1>1, <2>1, <2>2, <2>4
  <2>6. \A q \in Working' \cup Queued' : q >= em'.end
    BY <1>1, <2>1, <2>2
  <2>7. em'.end <= Popped' + 1
    BY <1>1, <2>1, <2>2
  <2>8. QED
    BY <1>0, <2>2, <2>3, <2>5, <2>6, <2>7 DEF Reordering
<1>6. ASSUME NEW t \in Threads, PushResult(t) PROVE Reordering'
  <2>1. /\ trSeq[t] \in Working
        /\ Working' = Working \ {trSeq[t]} /\ Queued' = Queued \cup {trSeq[t]} /\ Parked' = Parked
        /\ Popped' = Popped /\ UNCHANGED <<em, emPc>> /\ Active(t)
    BY <1>6, PushResultMoves DEF emVars
  <2>2. ~emitEnded
    BY <2>1, WhenEnded DEF Active
  <2>3. Held' = Held
    BY <2>1 DEF Held
  <2>4. \A q \in Working' \cup Queued' : q >= em'.end
    BY <1>1, <2>1
  <2>5. QED
    BY <1>0, <2>1, <2>2, <2>3, <2>4 DEF Reordering
<1>7. ASSUME NEW i \in Nat, Emits(i) PROVE Reordering'
  <2>1. /\ DOMAIN em'.pending = DOMAIN em.pending \ {i}
        /\ \A j \in DOMAIN em.pending \ {i} : em'.pending[j] = em.pending[j]
        /\ Working' = Working /\ Queued' = Queued /\ Parked' = Parked \ {em.pending[i].seq}
        /\ Popped' = Popped
    BY <1>7, EmitsMoves
  <2>2. /\ i \in DOMAIN em.pending /\ MayEmit(i) /\ emPc = "emit" /\ emPc' = "emit"
        /\ em'.start = em.start /\ em'.end = em.end /\ em'.queueEmpty = em.queueEmpty
        /\ UNCHANGED <<emitQ, emitEnded>>
    BY <1>7 DEF Emits, queueVars
  <2>3. i < em.end /\ em.pending[i].seq = i
    BY <1>1, <2>2 DEF MayEmit, Window
  <2>4. Held \ {i} \subseteq Held'
    BY <2>1, <2>3 DEF Held
  <2>5. \A q \in em'.end .. Popped' : q \in Held'
    BY <1>1, <2>1, <2>2, <2>3, <2>4
  <2>6. QED
    BY <1>0, <1>1, <2>1, <2>2, <2>5 DEF Reordering
<1>8. QED
  BY <1>0, <1>2, <1>3, <1>4, <1>5, <1>6, <1>7, EmitterReordering, StepKinds DEF Elsewhere

-----------------------------------------------------------------------------
(***************************************************************************)
(* Windows of a shuffle.                                                   *)
(***************************************************************************)
LEMMA Division ==
  ASSUME NEW w \in Nat \ {0}, NEW a \in Nat
  PROVE  /\ a \div w \in Nat /\ (a % w) \in 0 .. w - 1
         /\ a = w * (a \div w) + (a % w)
<1>1. a \div w \in Nat
  OBVIOUS
<1>2. (a % w) \in 0 .. w - 1
  OBVIOUS
<1>3. a = w * (a \div w) + (a % w)
  BY SMT
<1>4. QED
  BY <1>1, <1>2, <1>3

LEMMA Ordered ==
  ASSUME NEW w \in Nat \ {0}, NEW k \in Int, NEW m \in Int
  PROVE  /\ w * k \in Int /\ w * m \in Int /\ w * (k + 1) = w * k + w
         /\ k <= m => w * k <= w * m
<1>1. w * k \in Int /\ w * m \in Int
  OBVIOUS
<1>2. w * (k + 1) = w * k + w
  BY SMT
<1>3. k <= m => w * k <= w * m
  BY SMT
<1>4. QED
  BY <1>1, <1>2, <1>3

(***************************************************************************)
(* The quotient is the only number with a small remainder.                 *)
(***************************************************************************)
LEMMA DivisionIs ==
  ASSUME NEW w \in Nat \ {0}, NEW a \in Nat, NEW k \in Int, w * k <= a, a < w * k + w
  PROVE  a % w = a - w * k
<1> DEFINE m == a \div w
           r == a % w
<1>1. m \in Int /\ r \in 0 .. w - 1 /\ a = w * m + r
  BY Division
<1> HIDE DEF m, r
<1>2. w * k \in Int /\ w * m \in Int
  BY <1>1, Ordered
<1>3. ~(m + 1 <= k)
  <2>1. m + 1 <= k => w * (m + 1) <= w * k
    BY <1>1, Ordered, m + 1 \in Int
  <2>2. w * (m + 1) = w * m + w
    BY <1>1, Ordered
  <2>3. QED
    BY <1>1, <1>2, <2>1, <2>2
<1>4. ~(k + 1 <= m)
  <2>1. k + 1 <= m => w * (k + 1) <= w * m
    BY <1>1, Ordered, k + 1 \in Int
  <2>2. w * (k + 1) = w * k + w
    BY <1>1, Ordered
  <2>3. QED
    BY <1>1, <1>2, <2>1, <2>2
<1>5. m = k
  BY <1>1, <1>3, <1>4
<1>6. r = a - w * k
  BY <1>1, <1>2, <1>5
<1>7. QED
  BY <1>6 DEF r

LEMMA NextMultiple ==
  ASSUME NEW w \in Nat \ {0}, NEW a \in Nat, a % w = 0
  PROVE  (a + w) % w = 0
<1> DEFINE k == a \div w
<1>1. k \in Int /\ a = w * k
  BY Division
<1> HIDE DEF k
<1>2. w * (k + 1) = a + w
  BY <1>1, Ordered
<1>3. a + w \in Nat /\ k + 1 \in Int /\ w * (k + 1) <= a + w /\ a + w < w * (k + 1) + w
  BY <1>1, <1>2
<1>4. (a + w) % w = (a + w) - w * (k + 1)
  BY <1>3, DivisionIs
<1>5. QED
  BY <1>2, <1>4

(***************************************************************************)
(* Rounding down to a multiple of w is monotone, and it leads to the       *)
(* multiple when what is above it is less than w.                          *)
(***************************************************************************)
LEMMA RoundDown ==
  ASSUME NEW w \in Nat \ {0}, NEW a \in Nat, NEW b \in Nat, a <= b
  PROVE  /\ a - (a % w) <= b - (b % w)
         /\ a % w = 0 /\ b < a + w => b - (b % w) = a
<1> DEFINE k == a \div w
           m == b \div w
<1>1. k \in Int /\ (a % w) \in 0 .. w - 1 /\ a = w * k + (a % w)
  BY Division
<1>2. m \in Int /\ (b % w) \in 0 .. w - 1 /\ b = w * m + (b % w)
  BY Division
<1> HIDE DEF k, m
<1>3. w * k \in Int /\ w * m \in Int
  BY <1>1, <1>2, Ordered
<1>4. ~(m + 1 <= k)
  <2>1. m + 1 <= k => w * (m + 1) <= w * k
    BY <1>1, <1>2, Ordered, m + 1 \in Int
  <2>2. w * (m + 1) = w * m + w
    BY <1>2, Ordered
  <2>3. QED
    BY <1>1, <1>2, <1>3, <2>1, <2>2
<1>5. w * k <= w * m
  BY <1>1, <1>2, <1>4, Ordered
<1>6. a - (a % w) <= b - (b % w)
  BY <1>1, <1>2, <1>3, <1>5
<1>7. ASSUME a % w = 0, b < a + w PROVE b - (b % w) = a
  <2>1. w * k <= b /\ b < w * k + w
    BY <1>1, <1>3, <1>7
  <2>2. b % w = b - w * k
    BY <1>1, <2>1, DivisionIs
  <2>3. QED
    BY <1>1, <1>3, <1>7, <2>2
<1>8. QED
  BY <1>6, <1>7

LEMMA InitWindows == ASSUME Init, Threaded PROVE Windows
<1>1. ShuffleWindowSize \in Nat \ {0}
  BY SomeFlags DEF Init
<1>2. em.start = 1 /\ em.end = 1 /\ emPc = "fetch"
  BY EmitterLocalsFacts DEF Init, Threaded
<1>3. QED
  BY <1>1, <1>2 DEF Windows

LEMMA NextWindows ==
  ASSUME TypeInv, Phases, Items, Shuffle, Journey, [Next]_vars
  PROVE  Windows'
<1>0. /\ Threaded /\ Reordering /\ Windows
      /\ em.start \in Nat /\ em.end \in Nat /\ em.desired = em.end /\ em.start <= em.end
      /\ ShuffleWindowSize \in Nat \ {0}
  BY Typed, SomeFlags DEF Journey, Shuffle, TypeInv, TypeOK
<1>1. ShuffleWindowSize' = ShuffleWindowSize
  BY InputStays DEF ShuffleWindowSize
<1>2. CASE UNCHANGED emVars
  BY <1>0, <1>1, <1>2 DEF Windows, emVars
<1>3. CASE FetchItem
  <2> DEFINE item == Head(emitQ)
  <2>1. /\ emPc = "fetch" /\ em'.start = em.start /\ em'.queueEmpty = em.queueEmpty
        /\ \/ em'.end = em.end /\ emPc' = emPc
           \/ /\ em'.end = em.end + 1 /\ item.seq = em.end
              /\ emPc' = IF Growing(item) THEN "fetch" ELSE "emit"
    BY <1>0, <1>3, FetchItemFacts
  <2>2. CASE em'.end = em.end /\ emPc' = emPc
    BY <1>0, <1>1, <2>1, <2>2 DEF Windows
  <2>3. CASE /\ em'.end = em.end + 1 /\ item.seq = em.end
            /\ emPc' = IF Growing(item) THEN "fetch" ELSE "emit"
    <3>1. ASSUME em.start # 1 PROVE item.kind # "GlobalInits"
      <4>1. item = ItemOf(item.seq)
        <5>1. 1 \in DOMAIN emitQ /\ item = emitQ[1]
          BY <1>3, FetchItemFacts, Typed, HeadTail
        <5>2. QED
          BY <5>1 DEF Items
      <4>2. em.end >= 2
        BY <1>0, <3>1 DEF Reordering
      <4>3. QED
        BY <1>0, <2>3, <4>1, <4>2 DEF ItemOf, ResultItem, Code, Nop, FirstSequenceNumber
    <3>2. em.end - em.start < ShuffleWindowSize
      BY <1>0, <2>1 DEF Windows
    <3>3. CASE Growing(item)
      BY <1>0, <1>1, <2>1, <2>3, <3>3 DEF Windows, Growing
    <3>4. CASE ~Growing(item)
      <4>1. em.start # 1 => ~(em.end + 1 - em.start < ShuffleWindowSize)
        BY <3>1, <3>4 DEF Growing
      <4>2. em.start # 1 => em'.end - em'.start = ShuffleWindowSize
        BY <1>0, <2>1, <2>3, <3>2, <4>1
      <4>3. em'.end - em'.start <= ShuffleWindowSize
        BY <1>0, <2>1, <2>3, <3>2
      <4>4. emPc' = "emit"
        BY <2>3, <3>4
      <4>5. QED
        BY <1>0, <1>1, <2>1, <4>2, <4>3, <4>4 DEF Windows
    <3>5. QED
      BY <3>3, <3>4
  <2>4. QED
    BY <2>1, <2>2, <2>3
<1>4. CASE TakePending
  <2> DEFINE item == em.pending[em.end]
  <2>1. /\ emPc = "fetch" /\ em'.start = em.start /\ em'.queueEmpty = em.queueEmpty
        /\ em'.end = em.end + 1 /\ emPc' = IF Growing(item) THEN "fetch" ELSE "emit"
    BY <1>0, <1>4, TakePendingFacts
  <2>2. ASSUME em.start # 1 PROVE item.kind # "GlobalInits"
    <3>1. item = ItemOf(item.seq) /\ item.seq = em.end
      BY <1>0, <1>4, TakePendingFacts DEF Items, Reordering
    <3>2. em.end >= 2
      BY <1>0, <2>2 DEF Reordering
    <3>3. QED
      BY <1>0, <3>1, <3>2 DEF ItemOf, ResultItem, Code, Nop, FirstSequenceNumber
  <2>3. em.end - em.start < ShuffleWindowSize
    BY <1>0, <2>1 DEF Windows
  <2>4. CASE Growing(item)
    BY <1>0, <1>1, <2>1, <2>4 DEF Windows, Growing
  <2>5. CASE ~Growing(item)
    <3>1. em.start # 1 => ~(em.end + 1 - em.start < ShuffleWindowSize)
      BY <2>2, <2>5 DEF Growing
    <3>2. em.start # 1 => em'.end - em'.start = ShuffleWindowSize
      BY <1>0, <2>1, <2>3, <3>1
    <3>3. em'.end - em'.start <= ShuffleWindowSize
      BY <1>0, <2>1, <2>3
    <3>4. emPc' = "emit"
      BY <2>1, <2>5
    <3>5. QED
      BY <1>0, <1>1, <2>1, <3>2, <3>3, <3>4 DEF Windows
  <2>6. QED
    BY <2>4, <2>5
<1>5. CASE FetchNothing \/ EndOfItems
  <2>1. /\ em'.start = em.start /\ em'.end = em.end /\ emPc' # "fetch"
        /\ em'.queueEmpty = TRUE
    <3>1. CASE FetchNothing
      BY <3>1, FetchNothingFacts
    <3>2. CASE EndOfItems
      BY <1>0, <3>2 DEF EndOfItems, TypeInv, Locals
    <3>3. QED
      BY <1>5, <3>1, <3>2
  <2>2. QED
    BY <1>0, <1>1, <2>1 DEF Windows
<1>6. CASE NextWindow
  <2>1. /\ emPc = "emit" /\ emPc' = "fetch" /\ ~em.queueEmpty
        /\ em'.end = em.end /\ em'.start = em.end
    BY <1>6 DEF NextWindow, TypeInv, Locals
  <2>2. em.end >= 2 /\ (em.end - 2) % ShuffleWindowSize = 0
    <3>1. CASE em.start = 1
      <4>1. em.end = 2
        BY <1>0, <2>1, <3>1 DEF Reordering
      <4>2. 0 % ShuffleWindowSize = 0
        BY <1>0
      <4>3. QED
        BY <4>1, <4>2
    <3>2. CASE em.start # 1
      <4>1. em.end - em.start = ShuffleWindowSize /\ em.start >= 2 /\ (em.start - 2) % ShuffleWindowSize = 0
        BY <1>0, <2>1, <3>2 DEF Windows
      <4>2. em.start - 2 \in Nat /\ em.end - 2 = (em.start - 2) + ShuffleWindowSize /\ em.end >= 2
        BY <1>0, <4>1
      <4>3. QED
        BY <1>0, <4>1, <4>2, NextMultiple
    <3>3. QED
      BY <3>1, <3>2
  <2>3. QED
    BY <1>0, <1>1, <2>1, <2>2 DEF Windows
<1>7. ASSUME NEW i \in Nat, Emits(i) PROVE Windows'
  <2>1. emPc = "emit" /\ emPc' = "emit" /\ em'.start = em.start /\ em'.end = em.end
        /\ em'.queueEmpty = em.queueEmpty
    BY <1>7 DEF Emits
  <2>2. QED
    BY <1>0, <1>1, <2>1 DEF Windows
<1>8. CASE UNCHANGED vars \/ MainStep
  <2>1. UNCHANGED emVars
    <3>1. CASE InstallGlobals
      BY <1>0, <3>1, InstallGlobalsMoves
    <3>2. QED
      BY <1>8, <3>1 DEF vars, MainStep, ReadFunctionBlock, SkipBlockFailed, PushFunction, EndOfModule,
                WaitFirst, WaitAgain, JoinTranslators, JoinEmitter, LeaveModule, Finish
  <2>2. QED
    BY <1>2, <2>1
<1>9. ASSUME NEW t \in Threads, TranslatorStep(t) PROVE Windows'
  <2>1. UNCHANGED emVars
    <3>1. CASE PushResult(t)
      BY <1>0, <3>1, PushResultMoves
    <3>2. QED
      BY <1>9, <3>1 DEF TranslatorStep, PopFunction, GetParsedCfg, Translate
  <2>2. QED
    BY <1>2, <2>1
<1>10. QED
  BY <1>3, <1>4, <1>5, <1>6, <1>7, <1>8, <1>9, EmitItemFacts DEF Next, Terminated, EmitterStep, Threads

-----------------------------------------------------------------------------
(***************************************************************************)
(* Without threads: one item at a time.                                    *)
(***************************************************************************)
LEMMA InitNestedCalls == ASSUME Init, Sequential PROVE NestedCalls
<1>1. /\ em = EmitterLocals /\ emPc = "idle" /\ emitQ = <<>> /\ optQ = <<>>
      /\ Main \in Threads /\ trPc[Main] = "idle"
  BY DEF Init, Sequential, Threads
<1>2. \A t \in Threads : ~Active(t)
  BY DEF Init, Active, Threads
<1>3. Held = {}
  BY <1>1, <1>2, EmitterLocalsFacts, EmptySeq, 1 .. 0 = {} DEF Working, Queued, Parked, Held
<1>4. QED
  BY <1>1, <1>3, EmitterLocalsFacts DEF NestedCalls

LEMMA OnlyMain ==
  ASSUME Phases, Sequential, NEW t \in Threads, trPc[t] # "idle"
  PROVE  t = Main /\ Main \in Threads
BY DEF Phases, Sequential, Threads

(***************************************************************************)
(* With the emitter and the translator at rest nothing is on its way.      *)
(***************************************************************************)
LEMMA AtRest ==
  ASSUME TypeInv, Phases, Sequential, NestedCalls, emPc = "idle", ~Active(Main)
  PROVE  /\ emitQ = <<>> /\ DOMAIN em.pending = {} /\ Held = {}
<1>1. emitQ = <<>> /\ DOMAIN em.pending = {}
  BY DEF NestedCalls
<1>2. \A t \in Threads : ~Active(t)
  BY OnlyMain DEF Active
<1>3. Held = {}
  BY <1>1, <1>2, EmptySeq, 1 .. 0 = {} DEF Held, Working, Queued, Parked
<1>4. QED
  BY <1>1, <1>3

LEMMA EmitterNestedCalls ==
  ASSUME TypeInv, Phases, Items, Sequential, NestedCalls, Journey,
         FetchItem \/ TakePending \/ FetchNothing \/ NextWindow \/ EndOfItems
  PROVE  NestedCalls'
<1>1. CASE FetchItem
  <2> DEFINE item == Head(emitQ)
  <2>1. PICK i \in Nat :
         /\ DOMAIN em'.pending = DOMAIN em.pending \cup {i}
         /\ i = em.desired
         /\ Len(emitQ) \in Nat \ {0} /\ emitQ' = Tail(emitQ) /\ Len(emitQ') = Len(emitQ) - 1
         /\ item.seq \in Queued
         /\ Working' = Working /\ Queued' = Queued \ {item.seq}
         /\ Parked' = Parked \cup {item.seq} /\ Popped' = Popped
    BY <1>1, FetchItemMoves DEF Threaded
  <2>2. /\ emPc = "fetch" /\ emPc' = IF Growing(item) THEN "fetch" ELSE "emit"
    BY <1>1, FetchItemFacts DEF Threaded
  <2>3. /\ em'.start = em.start /\ em'.end = em.end + 1 /\ em'.queueEmpty = em.queueEmpty
        /\ UNCHANGED <<trPc, mainPc, optQ>>
    BY <1>1, FetchItemFacts DEF Threaded, trVars, mainVars
  <2>4. Len(emitQ) = 1 /\ em = EmitterLocals /\ DOMAIN em.pending = {} /\ optQ = <<>>
    BY <1>1, <2>2, FetchItemFacts DEF NestedCalls
  <2>5. emPc' = "emit"
    BY <2>2 DEF Growing, Shuffle, Threaded
  <2>6. emitQ' = <<>>
    BY <2>1, <2>4, Typed
  <2>7. DOMAIN em'.pending = {1} /\ em'.start = 1 /\ em'.end = 2 /\ em'.queueEmpty = FALSE
    BY <2>1, <2>3, <2>4, EmitterLocalsFacts
  <2>8. \A q \in Held' : q = Popped'
    BY <2>1 DEF Held, NestedCalls
  <2>9. QED
    BY <2>2, <2>3, <2>4, <2>5, <2>6, <2>7, <2>8 DEF NestedCalls
<1>2. CASE TakePending
  BY <1>2, TakePendingFacts DEF NestedCalls
<1>3. CASE FetchNothing
  <2>1. /\ emPc = "fetch" /\ emPc' = "emit" /\ emitQ = <<>>
        /\ em'.pending = em.pending
        /\ UNCHANGED <<trPc, mainPc, optQ, emitQ>>
    BY <1>3, FetchNothingFacts DEF trVars, mainVars, queueVars
  <2>2. Stay /\ Popped' = Popped
    BY <1>3, ElsewhereMoves DEF Elsewhere
  <2>3. Held' = Held
    BY <2>2 DEF Held, Stay
  <2>4. QED
    BY <2>1, <2>2, <2>3 DEF NestedCalls
<1>4. CASE NextWindow
  <2>1. /\ emPc = "emit" /\ emPc' = "fetch" /\ Window = {} /\ ~em.queueEmpty
        /\ em'.pending = em.pending /\ em'.queueEmpty = em.queueEmpty
        /\ UNCHANGED <<trPc, mainPc, optQ, emitQ>>
    BY <1>4 DEF NextWindow, TypeInv, Locals, trVars, mainVars, queueVars
  <2>2. Stay /\ Popped' = Popped
    BY <1>4, ElsewhereMoves DEF Elsewhere
  <2>3. Held' = Held
    BY <2>2 DEF Held, Stay
  <2>4. DOMAIN em.pending = {}
    BY <2>1 DEF NestedCalls, Window
  <2>5. emitQ = <<>>
    BY <2>1 DEF NestedCalls
  <2>6. QED
    BY <2>1, <2>2, <2>3, <2>4, <2>5 DEF NestedCalls
<1>5. CASE EndOfItems
  <2>1. /\ emPc = "emit" /\ emPc' = "idle" /\ Window = {} /\ em.queueEmpty
        /\ UNCHANGED <<em, trPc, mainPc, optQ, emitQ>>
    BY <1>5 DEF EndOfItems, trVars, mainVars, queueVars
  <2>2. Stay /\ Popped' = Popped
    BY <1>5, ElsewhereMoves DEF Elsewhere
  <2>3. Held' = Held
    BY <2>2 DEF Held, Stay
  <2>4. DOMAIN em.pending = {} /\ emitQ = <<>>
    BY <2>1 DEF NestedCalls
  <2>5. QED
    BY <2>1, <2>2, <2>3, <2>4 DEF NestedCalls
<1>6. QED
  BY <1>1, <1>2, <1>3, <1>4, <1>5

LEMMA MainNestedCalls ==
  ASSUME TypeInv, Phases, Items, Sequential, NestedCalls, Journey,
         UNCHANGED vars \/ MainStep
  PROVE  NestedCalls'
<1>1. CASE InstallGlobals
  <2>1. /\ Working' = {} /\ Queued' = {1} /\ Parked' = {} /\ Popped' = 1
        /\ emitQ' = <<GlobalInits(1)>> /\ emPc' = "fetch" /\ em' = EmitterLocals
        /\ DOMAIN em'.pending = {}
    BY <1>1, InstallGlobalsMoves
  <2>2. /\ mainPc = "install" /\ mainPc' = "parse" /\ UNCHANGED <<trPc, optQ>>
    BY <1>1 DEF InstallGlobals, trVars
  <2>3. trPc[Main] = "idle" /\ optQ = <<>>
    BY <2>2 DEF NestedCalls, TypeInv, Numbering
  <2>4. \A q \in Held' : q = Popped'
    BY <2>1 DEF Held
  <2>5. Len(emitQ') = 1
    BY <2>1
  <2>6. em'.queueEmpty = FALSE
    BY <2>1, EmitterLocalsFacts
  <2>7. QED
    BY <2>1, <2>2, <2>3, <2>4, <2>5, <2>6 DEF NestedCalls
<1>2. CASE PushFunction
  <2>1. /\ mainPc = "push" /\ mainPc' = "parse" /\ trPc' = [trPc EXCEPT ![Main] = "pop"]
        /\ UNCHANGED <<em, emPc, emitQ>>
    BY <1>2 DEF PushFunction, OptQueueBlockingPush, emVars
  <2>2. Stay /\ Popped' = Popped
    BY <1>2, PushFunctionMoves
  <2>3. Held' = Held
    BY <2>2 DEF Held, Stay
  <2>4. emPc = "idle"
    BY <2>1 DEF NestedCalls
  <2>5. trPc'[Main] = "pop"
    BY <2>1 DEF TypeInv, TypeOK
  <2>6. optQ = <<>> /\ optQ' = Append(optQ, nextSeq - 1)
    BY <1>2, <2>1 DEF PushFunction, OptQueueBlockingPush, OptQ!Push, NestedCalls
  <2>7. Len(optQ') = 1
    BY <2>6
  <2>8. QED
    BY <2>1, <2>2, <2>3, <2>4, <2>5, <2>7 DEF NestedCalls
<1>3. CASE ReadFunctionBlock \/ SkipBlockFailed \/ EndOfModule
  <2>1. ~flags.parallel
    BY SomeFlags DEF Threaded, TypeInv, TypeOK
  <2>2. emPc = "idle" /\ trPc[Main] = "idle"
    BY <1>3, <2>1 DEF ReadFunctionBlock, SkipBlockFailed, EndOfModule, NestedCallsReturned,
                      NestedEmitterReturned
  <2>3. UNCHANGED <<em, emPc, emitQ, optQ, trPc>>
    BY <1>3 DEF ReadFunctionBlock, SkipBlockFailed, EndOfModule, emVars, queueVars, trVars
  <2>4. Stay /\ Popped' = Popped
    BY <1>3, ElsewhereMoves DEF Elsewhere
  <2>5. Held' = Held
    BY <2>4 DEF Held, Stay
  <2>6. QED
    BY <2>2, <2>3, <2>4, <2>5 DEF NestedCalls
<1>4. CASE \/ UNCHANGED vars
           \/ WaitFirst \/ WaitAgain \/ JoinTranslators \/ JoinEmitter \/ LeaveModule \/ Finish
  <2>1. UNCHANGED <<em, emPc, emitQ, optQ, trPc>> /\ (mainPc # "parse" \/ mainPc' = mainPc)
    <3> USE DEF emVars, queueVars, trVars
    <3>1. CASE UNCHANGED vars
      BY <3>1 DEF vars, mainVars
    <3>2. CASE WaitFirst \/ WaitAgain \/ JoinTranslators \/ JoinEmitter
      BY <3>2 DEF WaitFirst, WaitAgain, JoinTranslators, JoinEmitter, EmitQ!NotifyEnd, OptQ!NotifyEnd
    <3>3. CASE LeaveModule \/ Finish
      BY <3>3 DEF LeaveModule, Finish
    <3>4. QED
      BY <1>4, <3>1, <3>2, <3>3
  <2>2. Stay /\ Popped' = Popped
    BY <1>4, ElsewhereMoves DEF Elsewhere
  <2>3. Held' = Held
    BY <2>2 DEF Held, Stay
  <2>4. QED
    BY <2>1, <2>2, <2>3 DEF NestedCalls
<1>5. QED
  BY <1>1, <1>2, <1>3, <1>4 DEF MainStep

LEMMA NextNestedCalls ==
  ASSUME TypeInv, Phases, Items, Sequential, Journey, [Next]_vars
  PROVE  NestedCalls'
<1>0. NestedCalls
  BY DEF Journey, Threaded
<1>1. CASE UNCHANGED vars \/ MainStep
  BY <1>0, <1>1, MainNestedCalls
<1>2. ASSUME NEW t \in Threads, TranslatorStep(t) PROVE NestedCalls'
  <2>0. trPc[t] # "idle"
    BY <1>2 DEF TranslatorStep, PopFunction, GetParsedCfg, Translate, PushResult
  <2>1. t = Main /\ Main \in Threads
    BY <2>0, OnlyMain
  <2>2. /\ trPc \in [Threads -> {"idle", "pop", "parse", "translate", "push", "exited"}]
    BY DEF TypeInv, TypeOK, Threads
  <2>3. mainPc = "parse"
    BY <1>0, <2>0, <2>1 DEF NestedCalls
  <2>4. CASE PopFunction(t) /\ optQ # <<>>
    <3>1. /\ emPc = "idle" /\ trPc[Main] = "pop" /\ ~flags.parallel
          /\ optQ' = Tail(optQ) /\ trPc'[Main] # "pop" /\ trPc'[Main] # "idle"
          /\ UNCHANGED <<em, emPc, emitQ, mainPc>>
      BY <2>1, <2>2, <2>4, SomeFlags DEF PopFunction, NestedEmitterReturned, OptQ!TakeHead,
         OptQ!TakeNothing, emVars, mainVars, TypeInv, TypeOK, Threaded
    <3>2. Held = {}
      BY <1>0, <2>1, <3>1, AtRest DEF Active
    <3>3. Held' = {Popped'}
      BY <2>4, <3>2, TakeFunctionMoves DEF Held
    <3>4. optQ' = <<>>
      <4>1. Len(optQ) = 1
        BY <1>0, <2>4 DEF NestedCalls
      <4>2. optQ \in Seq(SeqNumbers)
        BY Typed
      <4>3. Tail(optQ) \in Seq(SeqNumbers) /\ Len(Tail(optQ)) = Len(optQ) - 1
        BY <2>4, <4>2, HeadTail
      <4>4. Tail(optQ) = <<>>
        <5>1. \A s \in Seq(SeqNumbers) : Len(s) = 0 => s = <<>>
          BY EmptySeq
        <5>2. Len(Tail(optQ)) = 0
          BY <4>1, <4>3
        <5>3. QED
          BY <4>3, <5>1, <5>2
      <4>5. QED
        BY <3>1, <4>4
    <3>5. QED
      BY <1>0, <2>3, <3>1, <3>3, <3>4 DEF NestedCalls
  <2>5. CASE (PopFunction(t) /\ optQ = <<>>) \/ GetParsedCfg(t) \/ Translate(t)
    <3>1. Stay /\ Popped' = Popped
      BY <2>5, ElsewhereMoves DEF Elsewhere
    <3>2. Held' = Held
      BY <3>1 DEF Held, Stay
    <3>3. UNCHANGED <<em, emPc, emitQ, mainPc, optQ>>
      BY <2>5 DEF PopFunction, OptQ!TakeHead, OptQ!TakeNothing, GetParsedCfg, Translate, emVars, mainVars,
                  queueVars
    <3>4. emPc = "idle"
      BY <1>0, <2>1, <2>5 DEF NestedCalls, PopFunction, NestedEmitterReturned, GetParsedCfg, Translate
    <3>5. optQ = <<>>
      BY <1>0, <2>1, <2>5 DEF NestedCalls, GetParsedCfg, Translate
    <3>6. QED
      BY <1>0, <2>3, <3>1, <3>2, <3>3, <3>4, <3>5 DEF NestedCalls
  <2>6. CASE PushResult(t)
    <3>1. /\ emPc' = "fetch" /\ em' = EmitterLocals /\ emPc = "idle"
          /\ trSeq[t] \in Working /\ Working' = Working \ {trSeq[t]}
          /\ Queued' = Queued \cup {trSeq[t]} /\ Parked' = Parked /\ Popped' = Popped
          /\ emitQ' = Append(emitQ, ResultItem(trSeq[t])) /\ Len(emitQ') = Len(emitQ) + 1
          /\ UNCHANGED optQ
      BY <2>6, PushResultMoves
    <3>2. trPc[Main] = "push" /\ trPc'[Main] = "pop" /\ mainPc' = mainPc
      BY <2>1, <2>2, <2>6 DEF PushResult, mainVars
    <3>3. optQ = <<>> /\ emitQ = <<>>
      BY <1>0, <3>1, <3>2 DEF NestedCalls
    <3>4. Len(emitQ') = 1
      BY <3>1, <3>3
    <3>5. Held' = Held
      BY <3>1 DEF Held
    <3>6. QED
      BY <1>0, <2>3, <3>1, <3>2, <3>3, <3>4, <3>5, EmitterLocalsFacts DEF NestedCalls
  <2>7. QED
    BY <1>2, <2>4, <2>5, <2>6 DEF TranslatorStep
<1>3. ASSUME NEW i \in Nat, Emits(i) PROVE NestedCalls'
  <2>1. /\ DOMAIN em'.pending = DOMAIN em.pending \ {i} /\ i \in DOMAIN em.pending
        /\ Working' = Working /\ Queued' = Queued /\ Parked' = Parked \ {em.pending[i].seq}
        /\ Popped' = Popped
    BY <1>3, EmitsMoves DEF Emits
  <2>2. /\ emPc = "emit" /\ emPc' = "emit"
        /\ UNCHANGED <<emitQ, optQ, trPc, mainPc>>
    BY <1>3 DEF Emits, queueVars, trVars, mainVars
  <2>3. DOMAIN em.pending = {1}
    BY <1>0, <2>1 DEF NestedCalls
  <2>4. DOMAIN em'.pending = {}
    BY <2>1, <2>3
  <2>5. \A q \in Held' : q = Popped'
    BY <1>0, <2>1 DEF Held, NestedCalls
  <2>6. emitQ = <<>>
    BY <1>0, <2>2 DEF NestedCalls
  <2>7. QED
    BY <1>0, <2>2, <2>4, <2>5, <2>6 DEF NestedCalls
<1>4. QED
  BY <1>0, <1>1, <1>2, <1>3, EmitterNestedCalls, EmitItemFacts DEF Next, Terminated, EmitterStep, Threads

LEMMA NextJourney ==
  ASSUME TypeInv, Phases, Items, Journey, [Next]_vars
  PROVE  Journey'
<1>1. UNCHANGED flags
  BY InputStays
<1>2. (Threaded' <=> Threaded) /\ (Shuffle' <=> Shuffle)
  BY <1>1 DEF Threaded, Sequential, Shuffle
<1>3. CASE Threaded
  <2>1. Reordering'
    BY <1>3, NextReordering
  <2>2. Shuffle => Windows'
    BY NextWindows
  <2>3. QED
    BY <1>2, <1>3, <2>1, <2>2 DEF Journey
<1>4. CASE Sequential
  BY <1>2, <1>4, NextNestedCalls DEF Journey, Threaded
<1>5. QED
  BY <1>3, <1>4 DEF Threaded

-----------------------------------------------------------------------------
(***************************************************************************)
(* Output.                                                                 *)
(***************************************************************************)
LEMMA HeldMoves ==
  ASSUME TypeInv, Phases, Items, Journey, [Next]_vars
  PROVE  \/ /\ InstallGlobals
            /\ Held = {} /\ Held' = {1} /\ Popped = 0 /\ Popped' = 1 /\ UNCHANGED outVars
         \/ /\ \E t \in Threads : PopFunction(t)
            /\ Held' = Held \cup {Popped + 1} /\ Popped' = Popped + 1 /\ Popped >= 1
            /\ UNCHANGED outVars
         \/ Held' = Held /\ Popped' = Popped /\ (UNCHANGED outVars \/ EndOfItems \/ Finish)
         \/ \E i \in Nat : Emits(i)
<1>1. CASE InstallGlobals
  BY <1>1, InstallGlobalsMoves DEF Held, InstallGlobals
<1>2. CASE PushFunction
  <2>1. Stay /\ Popped' = Popped /\ UNCHANGED outVars
    BY <1>2, PushFunctionMoves DEF PushFunction
  <2>2. QED
    BY <2>1 DEF Held, Stay
<1>3. CASE Elsewhere
  <2>1. Stay /\ Popped' = Popped
    BY <1>3, ElsewhereMoves
  <2>2. UNCHANGED outVars \/ EndOfItems \/ Finish
    BY <1>3 DEF Elsewhere, vars, ReadFunctionBlock, SkipBlockFailed, EndOfModule, WaitFirst, WaitAgain,
                JoinTranslators, JoinEmitter, LeaveModule, PopFunction, GetParsedCfg, Translate,
                TakePending, FetchNothing, NextWindow
  <2>3. QED
    BY <2>1, <2>2 DEF Held, Stay
<1>4. ASSUME NEW t \in Threads, PopFunction(t), optQ # <<>>
      PROVE  /\ Held' = Held \cup {Popped + 1} /\ Popped' = Popped + 1 /\ Popped >= 1
             /\ UNCHANGED outVars
  BY <1>4, TakeFunctionMoves DEF Held, PopFunction
<1>5. ASSUME NEW t \in Threads, PushResult(t)
      PROVE  Held' = Held /\ Popped' = Popped /\ UNCHANGED outVars
  <2>1. /\ trSeq[t] \in Working
        /\ Working' = Working \ {trSeq[t]} /\ Queued' = Queued \cup {trSeq[t]} /\ Parked' = Parked
        /\ Popped' = Popped
    BY <1>5, PushResultMoves
  <2>2. QED
    BY <1>5, <2>1 DEF Held, PushResult
<1>6. CASE FetchItem
  <2>1. /\ Head(emitQ).seq \in Queued
        /\ Working' = Working /\ Queued' = Queued \ {Head(emitQ).seq}
        /\ Parked' = Parked \cup {Head(emitQ).seq} /\ Popped' = Popped
    BY <1>6, FetchItemMoves
  <2>2. QED
    BY <1>6, <2>1 DEF Held, FetchItem
<1>7. QED
  BY <1>1, <1>2, <1>3, <1>4, <1>5, <1>6, StepKinds

LEMMA EmitsHeld ==
  ASSUME TypeInv, Items, NEW i \in Nat, Emits(i)
  PROVE  /\ em.pending[i].seq \in Held /\ Held' = Held \ {em.pending[i].seq} /\ Popped' = Popped
         /\ em.pending[i].seq \in SeqNumbers /\ em.pending[i].seq \in 1 .. Popped
         /\ em.pending[i] = ItemOf(em.pending[i].seq)
<1>1. /\ em.pending[i].seq \in Parked /\ em.pending[i].seq \notin Working \cup Queued
      /\ Working' = Working /\ Queued' = Queued
      /\ Parked' = Parked \ {em.pending[i].seq} /\ Popped' = Popped
      /\ em.pending[i].seq \in 1 .. Popped
      /\ em.pending[i] = ItemOf(em.pending[i].seq)
  BY EmitsMoves
<1>2. em.pending[i].seq \in SeqNumbers
  BY <1>1 DEF Parked
<1>3. QED
  BY <1>1, <1>2 DEF Held

LEMMA KindOf ==
  ASSUME NEW q \in SeqNumbers
  PROVE  /\ ItemOf(q).kind = "GlobalInits" <=> q = 1
         /\ ItemOf(q).kind = "Code" <=> q >= 2 /\ outcome[FnOf(q)] = "ok"
BY SeqNumbersAre DEF ItemOf, GlobalInits, ResultItem, Code, Nop, FirstSequenceNumber

LEMMA OutputTyped ==
  ASSUME TypeInv
  PROVE  /\ output \in Seq(DataPieces \cup CodeTexts) /\ Len(output) \in Nat
         /\ DOMAIN output = 1 .. Len(output)
         /\ globals \in Seq(SeqNumbers) /\ Len(globals) \in Nat /\ DOMAIN globals = 1 .. Len(globals)
         /\ \A i \in CodePieces : i \in Nat /\ output[i] \in CodeTexts /\ output[i].seq \in SeqNumbers
         /\ Data(globals).kind = "data"
<1>1. output \in Seq(DataPieces \cup CodeTexts) /\ globals \in Seq(SeqNumbers)
  BY DEF TypeInv
<1>2. /\ Len(output) \in Nat /\ DOMAIN output = 1 .. Len(output)
      /\ Len(globals) \in Nat /\ DOMAIN globals = 1 .. Len(globals)
  BY <1>1
<1>3. ASSUME NEW i \in CodePieces
      PROVE  i \in Nat /\ output[i] \in CodeTexts /\ output[i].seq \in SeqNumbers
  <2>1. i \in DOMAIN output /\ output[i].kind = "code"
    BY DEF CodePieces
  <2>2. output[i] \in DataPieces \cup CodeTexts /\ i \in Nat
    BY <1>1, <1>2, <2>1
  <2>3. output[i] \notin DataPieces
    BY <2>1 DEF DataPieces
  <2>4. QED
    BY <2>2, <2>3 DEF CodeTexts
<1>4. Data(globals).kind = "data"
  BY DEF Data
<1>5. QED
  BY <1>1, <1>2, <1>3, <1>4

(***************************************************************************)
(* A step adds one code piece at the end, or none.                         *)
(***************************************************************************)
SameCode ==
  /\ CodePieces' = CodePieces
  /\ \A i \in CodePieces : output'[i] = output[i]
NewCode(n, q) ==
  /\ CodePieces' = CodePieces \cup {n}
  /\ \A i \in CodePieces : i < n /\ output'[i] = output[i]
  /\ n \notin CodePieces
  /\ output'[n].seq = q

LEMMA AppendPiece ==
  ASSUME TypeInv, NEW x, output' = Append(output, x)
  PROVE  /\ x.kind # "code" => SameCode
         /\ x.kind = "code" => NewCode(Len(output) + 1, x.seq)
<1>1. /\ DOMAIN output' = 1 .. Len(output) + 1 /\ DOMAIN output = 1 .. Len(output) /\ Len(output) \in Nat
      /\ \A i \in 1 .. Len(output) : output'[i] = output[i]
      /\ output'[Len(output) + 1] = x
  BY OutputTyped
<1>2. CASE x.kind # "code"
  BY <1>1, <1>2 DEF SameCode, CodePieces
<1>3. CASE x.kind = "code"
  <2>1. CodePieces' = CodePieces \cup {Len(output) + 1}
    BY <1>1, <1>3 DEF CodePieces
  <2>2. \A i \in CodePieces : i < Len(output) + 1 /\ output'[i] = output[i]
    BY <1>1 DEF CodePieces
  <2>3. Len(output) + 1 \notin CodePieces
    BY <1>1 DEF CodePieces
  <2>4. QED
    BY <1>1, <1>3, <2>1, <2>2, <2>3 DEF NewCode
<1>4. QED
  BY <1>2, <1>3

LEMMA ShortSequences ==
  ASSUME NEW a, NEW b
  PROVE  /\ Append(<<>>, a) = <<a>>
         /\ <<a>> \o <<b>> = <<a, b>> /\ <<>> \o <<b>> = <<b>>
         /\ <<a>> \o <<>> = <<a>> /\ <<>> \o <<>> = <<>>
<1>1. Append(<<>>, a) = <<a>>
  OBVIOUS
<1>2. <<a>> \in Seq({a, b}) /\ <<b>> \in Seq({a, b}) /\ <<>> \in Seq({a, b})
  OBVIOUS
<1>3. <<a>> \o <<>> = <<a>> /\ <<>> \o <<b>> = <<b>> /\ <<>> \o <<>> = <<>>
  BY <1>2, ConcatEmptySeq
<1>4. Append(<<a>>, b) = <<a>> \o <<b>>
  BY <1>2, AppendIsConcat
<1>5. Append(<<a>>, b) = <<a, b>>
  <2>1. <<a, b>> \in Seq({a, b}) /\ Len(<<a, b>>) = 2 /\ Len(<<a>>) = 1
    OBVIOUS
  <2>2. /\ Append(<<a>>, b) \in Seq({a, b}) /\ Len(Append(<<a>>, b)) = 2
        /\ Append(<<a>>, b)[1] = a /\ Append(<<a>>, b)[2] = b
    BY <1>2, <2>1, AppendProperties
  <2>3. <<a, b>>[1] = a /\ <<a, b>>[2] = b
    OBVIOUS
  <2>4. \A i \in 1 .. 2 : Append(<<a>>, b)[i] = <<a, b>>[i]
    BY <2>2, <2>3
  <2>5. QED
    BY <2>1, <2>2, <2>4, SeqEqual
<1>6. QED
  BY <1>1, <1>3, <1>4, <1>5

LEMMA LowerCode ==
  ASSUME TypeInv, NEW q \in SeqNumbers, output = <<>> \/ hasSeenCode,
         LowerGlobalsIfNoCodeHasBeenSeen(<<q>>, <<Text(q)>>)
  PROVE  /\ hasSeenCode' = TRUE
         /\ hasSeenCode => output' = Append(output, Text(q)) /\ globals' = Append(globals, q)
         /\ ~hasSeenCode => output' = <<Data(globals), Text(q)>> /\ globals' = <<q>>
         /\ \E n \in Nat : NewCode(n, q)
<1>1. hasSeenCode => output' = Append(output, Text(q)) /\ globals' = Append(globals, q)
  BY OutputTyped, AppendIsConcat DEF LowerGlobalsIfNoCodeHasBeenSeen
<1>2. ASSUME ~hasSeenCode PROVE output' = <<Data(globals), Text(q)>> /\ globals' = <<q>>
  <2>1. output = <<>>
    BY <1>2
  <2>2. output' = Append(<<>>, Data(globals)) \o <<Text(q)>> /\ globals' = <<>> \o <<q>>
    BY <1>2, <2>1 DEF LowerGlobalsIfNoCodeHasBeenSeen
  <2>3. QED
    BY <2>2, ShortSequences
<1>3. hasSeenCode' = TRUE
  BY DEF LowerGlobalsIfNoCodeHasBeenSeen
<1>4. \E n \in Nat : NewCode(n, q)
  <2>1. Text(q).kind = "code" /\ Text(q).seq = q
    BY DEF Text
  <2>2. CASE hasSeenCode
    BY <1>1, <2>1, <2>2, AppendPiece, OutputTyped
  <2>3. CASE ~hasSeenCode
    <3>1. CodePieces = {}
      BY <2>3, EmptySeq, 1 .. 0 = {} DEF CodePieces
    <3>2. DOMAIN output' = {1, 2} /\ output'[1].kind = "data" /\ output'[2] = Text(q)
      BY <1>2, <2>3, OutputTyped
    <3>3. CodePieces' = {2}
      BY <2>1, <3>2 DEF CodePieces
    <3>4. QED
      BY <2>1, <3>1, <3>2, <3>3 DEF NewCode
  <2>4. QED
    BY <2>2, <2>3
<1>5. QED
  BY <1>1, <1>2, <1>3, <1>4

LEMMA LowerNothing ==
  ASSUME TypeInv, output = <<>> \/ hasSeenCode, LowerGlobalsIfNoCodeHasBeenSeen(<<>>, <<>>)
  PROVE  /\ hasSeenCode' = TRUE
         /\ hasSeenCode => output' = output /\ globals' = globals
         /\ ~hasSeenCode => output' = <<Data(globals)>> /\ globals' = <<>>
         /\ SameCode
<1>1. ASSUME hasSeenCode PROVE output' = output /\ globals' = globals
  <2>1. output' = output \o <<>> /\ globals' = globals \o <<>>
    BY <1>1 DEF LowerGlobalsIfNoCodeHasBeenSeen
  <2>2. QED
    BY <2>1, OutputTyped, ConcatEmptySeq
<1>2. ASSUME ~hasSeenCode PROVE output' = <<Data(globals)>> /\ globals' = <<>>
  <2>1. output = <<>>
    BY <1>2
  <2>2. output' = Append(<<>>, Data(globals)) \o <<>> /\ globals' = <<>> \o <<>>
    BY <1>2, <2>1 DEF LowerGlobalsIfNoCodeHasBeenSeen
  <2>3. QED
    BY <2>2, ShortSequences
<1>3. hasSeenCode' = TRUE
  BY DEF LowerGlobalsIfNoCodeHasBeenSeen
<1>4. SameCode
  <2>1. CASE hasSeenCode
    BY <1>1, <2>1 DEF SameCode, CodePieces
  <2>2. CASE ~hasSeenCode
    <3>1. CodePieces = {}
      BY <2>2, EmptySeq, 1 .. 0 = {} DEF CodePieces
    <3>2. DOMAIN output' = {1} /\ output'[1].kind = "data"
      BY <1>2, <2>2, OutputTyped
    <3>3. CodePieces' = {}
      BY <3>2 DEF CodePieces
    <3>4. QED
      BY <3>1, <3>3 DEF SameCode
  <2>3. QED
    BY <2>1, <2>2
<1>5. QED
  BY <1>1, <1>2, <1>3, <1>4

(***************************************************************************)
(* How the numbers on their way, the numbers popped and the code that has  *)
(* come out change together.                                               *)
(***************************************************************************)
Unseen == output = <<>> \/ hasSeenCode

LEMMA FinishOutput ==
  ASSUME TypeInv, Finish PROVE SameCode
<1>1. CASE parseStatus # "none"
  BY <1>1 DEF Finish, SameCode, CodePieces
<1>2. CASE parseStatus = "none"
  <2>1. output' = Append(output, Data(globals))
    BY <1>2 DEF Finish
  <2>2. QED
    BY <2>1, AppendPiece, OutputTyped
<1>3. QED
  BY <1>1, <1>2

LEMMA EmitsCode ==
  ASSUME TypeInv, Items, Unseen, NEW i \in Nat, Emits(i)
  PROVE  \/ SameCode /\ ~(em.pending[i].seq >= 2 /\ outcome[FnOf(em.pending[i].seq)] = "ok")
         \/ /\ em.pending[i].seq >= 2 /\ outcome[FnOf(em.pending[i].seq)] = "ok"
            /\ LowerGlobalsIfNoCodeHasBeenSeen(<<em.pending[i].seq>>, <<Text(em.pending[i].seq)>>)
            /\ \E n \in Nat : NewCode(n, em.pending[i].seq)
<1>1. em.pending[i].seq \in SeqNumbers /\ em.pending[i] = ItemOf(em.pending[i].seq)
  BY EmitsHeld
<1>2. /\ em.pending[i].kind = "GlobalInits" <=> em.pending[i].seq = 1
      /\ em.pending[i].kind = "Code" <=> em.pending[i].seq >= 2 /\ outcome[FnOf(em.pending[i].seq)] = "ok"
  BY <1>1, KindOf
<1>3. CASE em.pending[i].kind = "Code"
  <2>1. LowerGlobalsIfNoCodeHasBeenSeen(<<em.pending[i].seq>>, <<Text(em.pending[i].seq)>>)
    BY <1>3 DEF Emits
  <2>2. QED
    BY <1>1, <1>2, <1>3, <2>1, LowerCode DEF Unseen
<1>4. CASE em.pending[i].kind # "Code"
  <2>1. UNCHANGED output
    BY <1>4 DEF Emits, outVars
  <2>2. QED
    BY <1>2, <1>4, <2>1 DEF SameCode, CodePieces
<1>5. QED
  BY <1>3, <1>4

SameCodeMoves ==
  \/ Held = {} /\ Held' = {1} /\ Popped = 0 /\ Popped' = 1
  \/ Held' = Held \cup {Popped + 1} /\ Popped' = Popped + 1 /\ Popped >= 1
  \/ Held' = Held /\ Popped' = Popped
  \/ \E q \in Held :
       Held' = Held \ {q} /\ Popped' = Popped /\ ~(q >= 2 /\ outcome[FnOf(q)] = "ok")

NewCodeMoves(n, i) ==
  LET q == em.pending[i].seq IN
  /\ Emits(i) /\ NewCode(n, q)
  /\ LowerGlobalsIfNoCodeHasBeenSeen(<<q>>, <<Text(q)>>)
  /\ q \in Held /\ q \in 2 .. Popped /\ q \in SeqNumbers /\ outcome[FnOf(q)] = "ok"
  /\ Held' = Held \ {q} /\ Popped' = Popped

LEMMA CodeMoves ==
  ASSUME TypeInv, Phases, Items, Journey, Unseen, [Next]_vars
  PROVE  \/ SameCode /\ SameCodeMoves
         \/ \E n, i \in Nat : NewCodeMoves(n, i)
<1>1. ASSUME UNCHANGED outVars PROVE SameCode
  BY <1>1 DEF SameCode, CodePieces, outVars
<1>2. ASSUME EndOfItems PROVE SameCode
  <2>1. LowerGlobalsIfNoCodeHasBeenSeen(<<>>, <<>>)
    BY <1>2 DEF EndOfItems
  <2>2. QED
    BY <2>1, LowerNothing DEF Unseen
<1>3. ASSUME Finish PROVE SameCode
  BY <1>3, FinishOutput
<1>4. ASSUME NEW i \in Nat, Emits(i)
      PROVE  (SameCode /\ SameCodeMoves) \/ \E n \in Nat : NewCodeMoves(n, i)
  <2> DEFINE q == em.pending[i].seq
  <2>1. /\ q \in Held /\ Held' = Held \ {q} /\ Popped' = Popped
        /\ q \in SeqNumbers /\ q \in 1 .. Popped
    BY <1>4, EmitsHeld
  <2>2. \/ SameCode /\ ~(q >= 2 /\ outcome[FnOf(q)] = "ok")
        \/ /\ q >= 2 /\ outcome[FnOf(q)] = "ok"
           /\ LowerGlobalsIfNoCodeHasBeenSeen(<<q>>, <<Text(q)>>)
           /\ \E n \in Nat : NewCode(n, q)
    BY <1>4, EmitsCode
  <2>3. ASSUME q >= 2 PROVE q \in 2 .. Popped
    BY <2>1, <2>3
  <2>4. ASSUME SameCode, ~(q >= 2 /\ outcome[FnOf(q)] = "ok") PROVE SameCode /\ SameCodeMoves
    BY <2>1, <2>4 DEF SameCodeMoves
  <2>5. ASSUME NEW n \in Nat, NewCode(n, q), q >= 2, outcome[FnOf(q)] = "ok",
               LowerGlobalsIfNoCodeHasBeenSeen(<<q>>, <<Text(q)>>)
        PROVE  NewCodeMoves(n, i)
    BY <1>4, <2>1, <2>3, <2>5 DEF NewCodeMoves
  <2>6. QED
    BY <2>2, <2>4, <2>5
<1>5. QED
  BY <1>1, <1>2, <1>3, <1>4, HeldMoves DEF SameCodeMoves

LEMMA EmittedMoves ==
  ASSUME TypeInv
  PROVE  /\ SameCode => Emitted' = Emitted
         /\ \A n \in Nat, q \in SeqNumbers : NewCode(n, q) => Emitted' = Emitted \cup {q}
<1>0. SeqNumbers' = SeqNumbers
  BY DEF SeqNumbers, FirstSequenceNumber
<1>1. ASSUME SameCode PROVE Emitted' = Emitted
  BY <1>0, <1>1 DEF SameCode, Emitted
<1>2. ASSUME NEW n \in Nat, NEW q \in SeqNumbers, NewCode(n, q) PROVE Emitted' = Emitted \cup {q}
  <2>1. /\ CodePieces' = CodePieces \cup {n}
        /\ \A i \in CodePieces : output'[i].seq = output[i].seq
        /\ output'[n].seq = q
    BY <1>2 DEF NewCode
  <2>2. QED
    BY <1>0, <2>1 DEF Emitted
<1>3. QED
  BY <1>1, <1>2

(***************************************************************************)
(* Nothing comes out twice, and nothing is lost.                           *)
(***************************************************************************)
LEMMA NextAccount ==
  ASSUME TypeInv, Phases, Items, Journey, Unseen, Account, [Next]_vars
  PROVE  Account'
<1>0. /\ UNCHANGED <<flags, outcome>> /\ SeqNumbers' = SeqNumbers /\ Popped \in Nat
      /\ \A q \in Held : q \in 1 .. Popped
      /\ SeqNumbers \subseteq Nat
  BY InputStays, HeldBelow, Typed, SeqNumbersAre DEF SeqNumbers, FirstSequenceNumber
<1>1. \A q \in SeqNumbers :
        /\ Translatable(q) <=> q >= 2 /\ q <= Popped /\ outcome[FnOf(q)] = "ok"
        /\ Translatable(q)' <=> q >= 2 /\ q <= Popped' /\ outcome[FnOf(q)] = "ok"
  <2>1. Popped' \in Nat
    <3>1. Popped' = Popped \/ Popped' = Popped + 1 \/ Popped' = 1
      <4>1. SameCodeMoves => Popped' = Popped \/ Popped' = Popped + 1 \/ Popped' = 1
        BY DEF SameCodeMoves
      <4>2. \A n, i \in Nat : NewCodeMoves(n, i) => Popped' = Popped
        BY DEF NewCodeMoves
      <4>3. QED
        BY <4>1, <4>2, CodeMoves
    <3>2. QED
      BY <1>0, <3>1
  <2>2. QED
    BY <1>0, <2>1 DEF Translatable, FnOf
<1>2. CASE SameCode /\ SameCodeMoves
  <2>1. Emitted' = Emitted
    BY <1>2, EmittedMoves
  <2>2. ASSUME NEW q \in SeqNumbers PROVE Translatable(q)' /\ q \notin Held' <=> Translatable(q) /\ q \notin Held
    BY <1>0, <1>1, <1>2 DEF SameCodeMoves
  <2>3. QED
    BY <1>0, <2>1, <2>2 DEF Account
<1>3. ASSUME NEW n \in Nat, NEW i \in Nat, NewCodeMoves(n, i) PROVE Account'
  <2> DEFINE r == em.pending[i].seq
  <2>1. /\ NewCode(n, r) /\ r \in Held /\ r \in 2 .. Popped /\ r \in SeqNumbers
        /\ outcome[FnOf(r)] = "ok" /\ Held' = Held \ {r} /\ Popped' = Popped
    BY <1>3 DEF NewCodeMoves
  <2>2. Emitted' = Emitted \cup {r}
    BY <2>1, EmittedMoves
  <2> HIDE DEF r
  <2>3. ASSUME NEW q \in SeqNumbers
        PROVE  Translatable(q)' /\ q \notin Held' <=> q = r \/ (Translatable(q) /\ q \notin Held)
    BY <1>0, <1>1, <2>1
  <2>4. QED
    BY <1>0, <2>2, <2>3 DEF Account
<1>4. QED
  BY <1>2, <1>3, CodeMoves

(***************************************************************************)
(* The data that is lowered is complete.                                   *)
(***************************************************************************)
LEMMA EmitterAtWork ==
  ASSUME TypeInv, Phases, Journey, emPc \in {"fetch", "emit"}
  PROVE  /\ mainPc \notin {"exited", "compiler", "finish", "done"}
         /\ Sequential => mainPc = "parse"
<1>1. CASE Threaded
  BY <1>1 DEF Phases, Waiting, EmitterJoined, Threaded
<1>2. CASE Sequential
  <2>1. NestedCalls
    BY <1>2 DEF Journey, Threaded
  <2>2. mainPc = "parse"
    BY <2>1 DEF NestedCalls
  <2>3. QED
    BY <1>2, <2>2
<1>3. QED
  BY <1>1, <1>2 DEF Threaded

LEMMA EmitterGone ==
  ASSUME TypeInv, Phases, Journey, emPc = "exited"
  PROVE  mainPc # "install"
<1>1. Threaded
  BY DEF Phases, Threaded
<1>2. em.queueEmpty
  BY <1>1 DEF Journey, Reordering
<1>3. emitEnded
  BY <1>1, <1>2 DEF Journey, Reordering
<1>4. QED
  BY <1>3 DEF Phases, Waiting

LEMMA EverythingOut ==
  ASSUME TypeInv, Phases, Items, Journey, EndOfItems
  PROVE  Held = {} /\ Popped >= 1
<1>0. /\ emPc = "emit" /\ Window = {} /\ em.queueEmpty
      /\ Popped \in Nat /\ em.end \in Nat /\ em.start \in Nat
      /\ \A i \in DOMAIN em.pending : i \in Nat
      /\ Len(optQ) \in Nat /\ nextFn \in Nat
  BY Typed DEF EndOfItems
<1>1. CASE Threaded
  <2>1. /\ emitEnded /\ emitQ = <<>> /\ em.end = Popped + 1
        /\ \A i \in DOMAIN em.pending : em.pending[i].seq = i /\ i >= em.start
    BY <1>0, <1>1 DEF Journey, Reordering
  <2>2. Working = {}
    BY <1>1, <2>1, WhenEnded
  <2>3. Queued = {}
    BY <2>1 DEF Queued
  <2>4. ASSUME NEW i \in DOMAIN em.pending PROVE FALSE
    <3>1. em.pending[i].seq <= Popped /\ em.pending[i].seq = i /\ i >= em.start
      BY <2>1 DEF Items
    <3>2. i \in Window
      BY <1>0, <2>1, <3>1 DEF Window
    <3>3. QED
      BY <1>0, <3>2
  <2>5. Parked = {}
    BY <2>4 DEF Parked
  <2>6. mainPc # "install"
    BY <2>1 DEF Phases, Waiting
  <2>7. QED
    BY <1>0, <2>2, <2>3, <2>5, <2>6 DEF Held, Popped, TypeInv, Numbering
<1>2. CASE Sequential
  <2>1. /\ emitQ = <<>> /\ DOMAIN em.pending = {} /\ trPc[Main] \in {"idle", "pop"} /\ mainPc = "parse"
    BY <1>0, <1>2 DEF Journey, NestedCalls, Threaded
  <2>2. Working = {}
    <3>1. \A t \in Threads : t # Main => trPc[t] = "idle"
      BY <1>2 DEF Phases, Sequential
    <3>2. \A t \in Threads : ~Active(t)
      BY <2>1, <3>1 DEF Active
    <3>3. QED
      BY <3>2 DEF Working
  <2>3. Queued = {} /\ Parked = {}
    BY <2>1 DEF Queued, Parked
  <2>4. QED
    BY <1>0, <2>1, <2>2, <2>3 DEF Held, Popped, TypeInv, Numbering
<1>3. QED
  BY <1>1, <1>2 DEF Threaded

LEMMA InitializersFirst ==
  ASSUME TypeInv, Items, Journey, NEW i \in Nat, Emits(i), em.pending[i].seq >= 2
  PROVE  Threaded => em.start >= 2 /\ 1 \notin Held
<1>1. SUFFICES ASSUME Threaded PROVE em.start >= 2 /\ 1 \notin Held
  OBVIOUS
<1>2. /\ em.start \in Nat /\ em.end \in Nat /\ em.start <= em.end
      /\ i \in Window /\ emPc = "emit" /\ i \in DOMAIN em.pending
  BY Typed DEF Emits, MayEmit
<1>3. /\ \A j \in DOMAIN em.pending : em.pending[j].seq = j /\ j >= em.start
      /\ \A q \in Working \cup Queued : q >= em.end
      /\ em.start >= 1 /\ (em.start = 1 => em.end = 2)
  BY <1>1, <1>2 DEF Journey, Reordering
<1>4. em.pending[i].seq = i /\ i >= em.start /\ i < em.end
  BY <1>2, <1>3 DEF Window
<1>5. em.start >= 2
  BY <1>2, <1>3, <1>4
<1>6. \A q \in Parked : q >= em.start
  BY <1>3 DEF Parked
<1>7. \A q \in Held : q >= 2
  <2>1. \A q \in Parked \cup Working \cup Queued : q \in Nat
    BY SeqNumbersAre DEF Parked, Working, Queued
  <2>2. QED
    BY <1>2, <1>3, <1>5, <1>6, <2>1 DEF Held
<1>8. QED
  BY <1>5, <1>7

LEMMA OpenGrows ==
  ASSUME TypeInv, Open, output # <<>>, NEW q \in SeqNumbers,
         output' = Append(output, Text(q)), globals' = Append(globals, q)
  PROVE  Open' /\ output' # <<>> /\ output'[1] = output[1]
<1>1. /\ Len(output) \in Nat \ {0}
      /\ Len(output') = Len(output) + 1 /\ output' # <<>>
      /\ \A i \in 1 .. Len(output) : output'[i] = output[i]
      /\ output'[Len(output) + 1] = Text(q)
  BY OutputTyped
<1>2. Text(q).kind = "code" /\ Text(q).seq = q
  BY DEF Text
<1>3. \A i \in 2 .. Len(output') : output'[i].kind = "code"
  BY <1>1, <1>2 DEF Open
<1>4. /\ globals = [i \in 1 .. Len(output) - 1 |-> output[i + 1].seq]
      /\ globals \in Seq(SeqNumbers)
  BY OutputTyped DEF Open
<1>5. /\ Len(globals) \in Nat /\ DOMAIN globals = 1 .. Len(globals)
      /\ DOMAIN globals = 1 .. Len(output) - 1
  BY <1>4, OutputTyped
<1>6. Len(globals) = Len(output) - 1
  BY <1>1, <1>5
<1>7. globals' = [i \in 1 .. Len(output') - 1 |-> output'[i + 1].seq]
  <2> DEFINE g == [i \in 1 .. Len(output) |-> output'[i + 1].seq]
  <2>1. \A i \in 1 .. Len(output) : g[i] \in SeqNumbers
    <3>1. ASSUME NEW i \in 1 .. Len(output) - 1 PROVE g[i] = globals[i] /\ g[i] \in SeqNumbers
      BY <1>1, <1>4, <1>5
    <3>2. g[Len(output)] = q
      BY <1>1, <1>2
    <3>3. \A i \in 1 .. Len(output) : i \in 1 .. Len(output) - 1 \/ i = Len(output)
      BY <1>1
    <3> HIDE DEF g
    <3>4. QED
      BY <3>1, <3>2, <3>3
  <2>2. g \in Seq(SeqNumbers) /\ Len(g) = Len(output)
    BY <1>1, <2>1
  <2>3. /\ globals' \in Seq(SeqNumbers) /\ Len(globals') = Len(output)
        /\ \A i \in 1 .. Len(output) - 1 : globals'[i] = globals[i]
        /\ globals'[Len(output)] = q
    BY <1>1, <1>4, <1>6, AppendProperties
  <2>4. \A i \in 1 .. Len(output) : globals'[i] = g[i]
    BY <1>1, <1>2, <1>4, <2>3
  <2>5. globals' = g
    BY <2>2, <2>3, <2>4, SeqEqual
  <2>6. QED
    BY <1>1, <2>5
<1>8. QED
  BY <1>1, <1>3, <1>7 DEF Open

LEMMA CloseUp ==
  ASSUME TypeInv, Open, output # <<>>, output' = Append(output, Data(globals)), globals' = <<>>
  PROVE  Closed' /\ output' # <<>> /\ output'[1] = output[1]
<1>1. /\ Len(output) \in Nat \ {0}
      /\ Len(output') = Len(output) + 1 /\ output' # <<>>
      /\ \A i \in 1 .. Len(output) : output'[i] = output[i]
      /\ output'[Len(output) + 1] = Data(globals)
  BY OutputTyped
<1>2. \A i \in 2 .. Len(output') - 1 : output'[i].kind = "code"
  BY <1>1 DEF Open
<1>3. [i \in 1 .. Len(output') - 2 |-> output'[i + 1].seq] = [i \in 1 .. Len(output) - 1 |-> output[i + 1].seq]
  BY <1>1
<1>4. output'[Len(output')] = Data([i \in 1 .. Len(output') - 2 |-> output'[i + 1].seq])
  BY <1>1, <1>3 DEF Open
<1>5. Len(output') >= 2
  BY <1>1
<1>6. output'[1] = output[1]
  BY <1>1
<1>7. Closed'
  BY <1>2, <1>4, <1>5 DEF Closed
<1>8. QED
  BY <1>1, <1>6, <1>7

LEMMA StageMoves ==
  ASSUME TypeInv, Phases, Journey, [Next]_vars, ~Finish
  PROVE  /\ mainPc' = "done" <=> mainPc = "done"
         /\ mainPc = "done" => parseStatus' = parseStatus
         /\ mainPc = "install" => mainPc' = "install" \/ InstallGlobals
         /\ emPc' \in {"idle", "exited"} => emPc' = emPc \/ EndOfItems
<1>1. ASSUME MainStep
      PROVE  /\ mainPc' # "done" /\ mainPc # "done"
             /\ mainPc = "install" => InstallGlobals
             /\ emPc' \in {"idle", "exited"} => emPc' = emPc
  <2>1. mainPc' # "done" /\ mainPc # "done"
    BY <1>1 DEF MainStep, InstallGlobals, ReadFunctionBlock, SkipBlockFailed, PushFunction, EndOfModule,
                WaitFirst, WaitAgain, JoinTranslators, JoinEmitter, LeaveModule, AfterWait
  <2>2. mainPc = "install" => InstallGlobals
    BY <1>1 DEF MainStep, ReadFunctionBlock, SkipBlockFailed, PushFunction, EndOfModule,
                WaitFirst, WaitAgain, JoinTranslators, JoinEmitter, LeaveModule
  <2>3. CASE InstallGlobals
    <3>1. emPc' = emPc \/ emPc' = "fetch"
      BY <2>3 DEF InstallGlobals, EmitQueueBlockingPush, emVars
    <3>2. QED
      BY <2>1, <2>2, <3>1
  <2>4. CASE ~InstallGlobals
    <3>1. emPc' = emPc
      BY <1>1, <2>4 DEF MainStep, emVars, ReadFunctionBlock, SkipBlockFailed, PushFunction, EndOfModule,
                        WaitFirst, WaitAgain, JoinTranslators, JoinEmitter, LeaveModule
    <3>2. QED
      BY <2>1, <2>2, <3>1
  <2>5. QED
    BY <2>3, <2>4
<1>2. ASSUME NEW t \in Threads, TranslatorStep(t)
      PROVE  /\ mainPc' = mainPc
             /\ mainPc = "done" => parseStatus' = parseStatus
             /\ emPc' \in {"idle", "exited"} => emPc' = emPc
  <2>1. mainPc' = mainPc
    BY <1>2 DEF TranslatorStep, PopFunction, GetParsedCfg, Translate, PushResult, mainVars
  <2>2. emPc' = emPc \/ emPc' = "fetch"
    BY <1>2 DEF TranslatorStep, PopFunction, GetParsedCfg, Translate, PushResult, EmitQueueBlockingPush, emVars
  <2>3. ASSUME GetParsedCfg(t) PROVE mainPc # "done"
    <3>1. trPc[t] = "parse" /\ flags \in FlagChoices
      BY <2>3 DEF GetParsedCfg, TypeInv, TypeOK
    <3>2. flags.parallel /\ Threaded
      BY <3>1, SomeFlags DEF Phases
    <3>3. mainPc = "done" => TranslatorsJoined
      BY DEF Phases, Waiting
    <3>4. t \in flags.workers
      BY <3>1, <3>2 DEF Phases
    <3>5. QED
      BY <3>1, <3>3, <3>4 DEF TranslatorsJoined
  <2>4. ~GetParsedCfg(t) => parseStatus' = parseStatus
    BY <1>2 DEF TranslatorStep, PopFunction, Translate, PushResult, statusVars
  <2>5. QED
    BY <2>1, <2>2, <2>3, <2>4
<1>3. ASSUME EmitterStep
      PROVE  /\ mainPc' = mainPc /\ parseStatus' = parseStatus
             /\ emPc' \in {"idle", "exited"} => emPc' = emPc \/ EndOfItems
  <2>1. mainPc' = mainPc /\ parseStatus' = parseStatus
    BY <1>3 DEF EmitterStep, FetchItem, TakePending, FetchNothing, EmitItem, NextWindow, EndOfItems,
                mainVars, statusVars
  <2>2. emPc' \in {"idle", "exited"} => emPc' = emPc \/ EndOfItems
    <3>1. CASE FetchItem
      BY <3>1 DEF FetchItem, Advance
    <3>2. CASE TakePending
      BY <3>2 DEF TakePending, Advance
    <3>3. CASE FetchNothing \/ EmitItem \/ NextWindow
      BY <3>3 DEF FetchNothing, EmitItem, NextWindow
    <3>4. QED
      BY <1>3, <3>1, <3>2, <3>3 DEF EmitterStep
  <2>3. QED
    BY <2>1, <2>2
<1>4. ASSUME UNCHANGED vars PROVE mainPc' = mainPc /\ parseStatus' = parseStatus /\ emPc' = emPc
  BY <1>4 DEF vars, mainVars, statusVars, emVars
<1>5. QED
  BY <1>1, <1>2, <1>3, <1>4 DEF Next, Terminated, Threads

LEMMA NoDataYet ==
  ASSUME TypeInv, Phases, Journey, ~hasSeenCode, Accumulated
  PROVE  DataWaits /\ mainPc \notin {"finish", "done"}
<1>1. DataWaits
  BY DEF Accumulated
<1>2. ASSUME mainPc \in {"finish", "done"} PROVE FALSE
  <2>1. emPc \notin {"idle", "exited"}
    BY <1>1, <1>2 DEF DataWaits
  <2>2. emPc \in {"fetch", "emit"}
    BY <2>1 DEF TypeInv, TypeOK
  <2>3. QED
    BY <1>2, <2>2, EmitterAtWork
<1>3. QED
  BY <1>1, <1>2

LEMMA AccumulatedUnseen == ASSUME Accumulated PROVE Unseen
BY DEF Accumulated, DataWaits, Unseen

LEMMA WhenInstalling ==
  ASSUME TypeInv PROVE Popped = 0 <=> mainPc = "install"
BY Typed DEF Popped, TypeInv, Numbering

LEMMA InstallAccumulated ==
  ASSUME TypeInv, Phases, Items, Journey, Accumulated, InstallGlobals,
         Held = {}, Held' = {1}, Popped = 0, Popped' = 1, UNCHANGED outVars
  PROVE  Accumulated'
<1>1. ~hasSeenCode /\ ~hasSeenCode' /\ output' = <<>> /\ globals' = <<>>
  BY DEF Accumulated, DataOut, DataWaits, outVars
<1>2. emPc' \notin {"idle", "exited"}
  <2>1. CASE Sequential
    BY <2>1 DEF InstallGlobals, EmitQueueBlockingPush
  <2>2. CASE Threaded
    <3>1. emPc' = emPc
      BY <2>2 DEF InstallGlobals, EmitQueueBlockingPush, emVars, Threaded
    <3>2. emPc # "idle" /\ emPc # "exited"
      BY <2>2, EmitterGone DEF Phases, InstallGlobals
    <3>3. QED
      BY <3>1, <3>2
  <2>3. QED
    BY <2>1, <2>2 DEF Threaded
<1>3. QED
  BY <1>1, <1>2 DEF Accumulated, DataWaits, FirstSequenceNumber

LEMMA TakeAccumulated ==
  ASSUME TypeInv, Phases, Items, Journey, Accumulated, NEW t \in Threads, PopFunction(t),
         Held' = Held \cup {Popped + 1}, Popped' = Popped + 1, Popped >= 1, UNCHANGED outVars
  PROVE  Accumulated'
<1>1. UNCHANGED <<flags, mainPc, parseStatus, emPc, output, globals, hasSeenCode>>
  BY DEF PopFunction, mainVars, statusVars, emVars, outVars
<1>2. Popped \in Nat /\ Popped' >= 1
  BY Typed
<1>3. 1 \in Held' <=> 1 \in Held
  BY <1>2
<1>4. CASE hasSeenCode
  BY <1>1, <1>2, <1>3, <1>4 DEF Accumulated, DataOut, FirstSequenceNumber, Open, Closed
<1>5. CASE ~hasSeenCode
  <2>1. mainPc # "install"
    BY WhenInstalling
  <2>2. Sequential => emPc = "idle"
    BY DEF PopFunction, NestedEmitterReturned
  <2>3. DataWaits /\ Threaded
    BY <1>5, <2>1, <2>2 DEF Accumulated, DataWaits, Threaded
  <2>4. Threaded'
    BY <1>1, <2>3 DEF Threaded, Sequential
  <2>5. QED
    BY <1>1, <1>2, <1>3, <1>5, <2>3, <2>4 DEF Accumulated, DataWaits, FirstSequenceNumber, Threaded
<1>6. QED
  BY <1>4, <1>5

LEMMA QuietAccumulated ==
  ASSUME TypeInv, Phases, Items, Journey, Accumulated, [Next]_vars, ~Finish,
         Held' = Held, Popped' = Popped, UNCHANGED outVars
  PROVE  Accumulated'
<1>1. /\ UNCHANGED <<flags, output, globals, hasSeenCode>>
      /\ mainPc' = "done" <=> mainPc = "done"
      /\ mainPc = "done" => parseStatus' = parseStatus
      /\ mainPc = "install" => mainPc' = "install" \/ InstallGlobals
      /\ emPc' \in {"idle", "exited"} => emPc' = emPc \/ EndOfItems
  BY InputStays, StageMoves DEF outVars
<1>2. Popped \in Nat
  BY Typed
<1>3. CASE hasSeenCode
  <2>1. (Open' <=> Open) /\ (Closed' <=> Closed)
    BY <1>1 DEF Open, Closed
  <2>2. DataOut
    BY <1>3 DEF Accumulated
  <2>3. IF mainPc' = "done" /\ parseStatus' = "none" THEN Closed' ELSE Open'
    BY <1>1, <2>1, <2>2 DEF DataOut
  <2>4. DataOut'
    BY <1>1, <2>2, <2>3 DEF DataOut
  <2>5. QED
    BY <1>1, <1>3, <2>4 DEF Accumulated
<1>4. CASE ~hasSeenCode
  <2>1. DataWaits
    BY <1>4 DEF Accumulated
  <2>2. ~EndOfItems
    BY <1>1, <1>4 DEF EndOfItems, LowerGlobalsIfNoCodeHasBeenSeen
  <2>3. ~InstallGlobals
    BY InstallGlobalsMoves
  <2>4. emPc' \in {"idle", "exited"} => mainPc' = "install"
    BY <1>1, <2>1, <2>2, <2>3 DEF DataWaits
  <2>5. Threaded' <=> Threaded
    BY <1>1 DEF Threaded, Sequential
  <2>6. DataWaits'
    BY <1>1, <2>1, <2>4, <2>5 DEF DataWaits, Threaded
  <2>7. QED
    BY <1>1, <1>4, <2>6 DEF Accumulated
<1>5. QED
  BY <1>3, <1>4

LEMMA EndAccumulated ==
  ASSUME TypeInv, Phases, Items, Journey, Accumulated, EndOfItems,
         Held' = Held, Popped' = Popped
  PROVE  Accumulated'
<1>1. /\ LowerGlobalsIfNoCodeHasBeenSeen(<<>>, <<>>) /\ emPc = "emit"
      /\ UNCHANGED <<flags, mainPc, parseStatus>>
  BY DEF EndOfItems, mainVars, statusVars
<1>2. mainPc # "done" /\ Held = {} /\ Popped >= 1
  BY <1>1, EmitterAtWork, EverythingOut
<1>3. /\ hasSeenCode' = TRUE
      /\ hasSeenCode => output' = output /\ globals' = globals
      /\ ~hasSeenCode => output' = <<Data(globals)>> /\ globals' = <<>>
  BY <1>1, AccumulatedUnseen, LowerNothing DEF Unseen
<1>4. output' # <<>> /\ output'[1] = Data(<<1>>) /\ Open'
  <2>1. CASE hasSeenCode
    BY <1>2, <1>3, <2>1 DEF Accumulated, DataOut, Open, FirstSequenceNumber
  <2>2. CASE ~hasSeenCode
    <3>1. globals = <<1>>
      BY <1>2, <2>2 DEF Accumulated, DataWaits, FirstSequenceNumber
    <3>2. output' = <<Data(<<1>>)>> /\ globals' = <<>>
      BY <1>3, <2>2, <3>1
    <3>3. Len(output') = 1 /\ output'[1] = Data(<<1>>) /\ output' # <<>>
      BY <3>2
    <3>4. \A i \in 2 .. Len(output') : output'[i].kind = "code"
      BY <3>3
    <3>5. globals' = [i \in 1 .. Len(output') - 1 |-> output'[i + 1].seq]
      <4> DEFINE g == [i \in 1 .. 0 |-> output'[i + 1].seq]
      <4>1. g \in Seq({}) /\ Len(g) = 0
        OBVIOUS
      <4>2. g = <<>>
        <5> HIDE DEF g
        <5>1. <<>> \in Seq({}) /\ Len(<<>>) = 0
          BY EmptySeq
        <5>2. \A i \in 1 .. Len(g) : g[i] = <<>>[i]
          BY <4>1
        <5>3. QED
          BY <4>1, <5>1, <5>2, SeqEqual
      <4>3. Len(output') - 1 = 0
        BY <3>3
      <4>4. QED
        BY <3>2, <4>2, <4>3
    <3>6. QED
      BY <3>3, <3>4, <3>5 DEF Open
  <2>3. QED
    BY <2>1, <2>2
<1>5. DataOut'
  BY <1>1, <1>2, <1>4 DEF DataOut, FirstSequenceNumber
<1>6. QED
  BY <1>3, <1>5 DEF Accumulated

LEMMA FinishAccumulated ==
  ASSUME TypeInv, Phases, Items, Journey, Accumulated, Finish,
         Held' = Held, Popped' = Popped
  PROVE  Accumulated'
<1>1. mainPc = "finish" /\ mainPc' = "done" /\ hasSeenCode' = hasSeenCode /\ parseStatus' = parseStatus
  BY DEF Finish
<1>2. hasSeenCode
  BY <1>1, NoDataYet
<1>3. DataOut /\ Open
  BY <1>1, <1>2 DEF Accumulated, DataOut
<1>4. output' # <<>> /\ output'[1] = output[1] /\ IF parseStatus = "none" THEN Closed' ELSE Open'
  <2>1. CASE parseStatus # "none"
    BY <1>3, <2>1 DEF Finish, DataOut, Open
  <2>2. CASE parseStatus = "none"
    <3>1. output' = Append(output, Data(globals)) /\ globals' = <<>>
      BY <2>2 DEF Finish
    <3>2. QED
      BY <1>3, <2>2, <3>1, CloseUp DEF DataOut
  <2>3. QED
    BY <2>1, <2>2
<1>5. DataOut'
  BY <1>1, <1>3, <1>4 DEF DataOut
<1>6. QED
  BY <1>1, <1>2, <1>5 DEF Accumulated

LEMMA EmitsAccumulated ==
  ASSUME TypeInv, Phases, Items, Journey, Accumulated, NEW i \in Nat, Emits(i)
  PROVE  Accumulated'
<1> DEFINE q == em.pending[i].seq
<1>1. /\ q \in Held /\ Held' = Held \ {q} /\ Popped' = Popped
      /\ q \in SeqNumbers /\ q \in 1 .. Popped /\ Popped \in Nat
      /\ em.pending[i] = ItemOf(q)
      /\ em.pending[i].kind = "GlobalInits" <=> q = 1
      /\ em.pending[i].kind = "Code" <=> q >= 2 /\ outcome[FnOf(q)] = "ok"
  <2>1. em.pending[i] = ItemOf(q) /\ q \in SeqNumbers
    BY EmitsHeld
  <2>2. /\ em.pending[i].kind = "GlobalInits" <=> q = 1
        /\ em.pending[i].kind = "Code" <=> q >= 2 /\ outcome[FnOf(q)] = "ok"
    BY <2>1, KindOf
  <2>3. QED
    BY <2>1, <2>2, EmitsHeld, Typed
<1>2. /\ UNCHANGED <<flags, mainPc, parseStatus, emPc>> /\ emPc = "emit" /\ mainPc # "done"
      /\ q >= 2 /\ Threaded => 1 \notin Held
      /\ \/ em.pending[i].kind = "Nop" /\ UNCHANGED outVars
         \/ /\ em.pending[i].kind = "GlobalInits"
            /\ globals' = Append(globals, q) /\ UNCHANGED <<hasSeenCode, output>>
         \/ /\ em.pending[i].kind = "Code"
            /\ LowerGlobalsIfNoCodeHasBeenSeen(<<q>>, <<Text(q)>>)
  BY EmitterAtWork, InitializersFirst DEF Emits, mainVars, statusVars
<1> HIDE DEF q
<1>3. Threaded' <=> Threaded
  BY <1>2 DEF Threaded, Sequential
<1>4. CASE em.pending[i].kind = "Nop"
  <2>1. UNCHANGED outVars /\ q # 1
    BY <1>1, <1>2, <1>4
  <2>2. 1 \in Held' <=> 1 \in Held
    BY <1>1, <2>1
  <2>3. CASE hasSeenCode
    BY <1>1, <1>2, <2>1, <2>2, <2>3 DEF Accumulated, DataOut, FirstSequenceNumber, Open, outVars
  <2>4. CASE ~hasSeenCode
    BY <1>1, <1>2, <1>3, <2>1, <2>2, <2>4 DEF Accumulated, DataWaits, FirstSequenceNumber, outVars, Threaded
  <2>5. QED
    BY <2>3, <2>4
<1>5. CASE em.pending[i].kind = "GlobalInits"
  <2>1. q = 1 /\ globals' = Append(globals, 1) /\ UNCHANGED <<hasSeenCode, output>>
    BY <1>1, <1>2, <1>5
  <2>2. ~hasSeenCode /\ globals = <<>>
    BY <1>1, <2>1 DEF Accumulated, DataOut, DataWaits, FirstSequenceNumber
  <2>3. globals' = <<1>> /\ 1 \notin Held' /\ Popped' # 0
    BY <1>1, <2>1, <2>2, ShortSequences
  <2>4. QED
    BY <1>1, <1>2, <1>3, <2>1, <2>2, <2>3 DEF Accumulated, DataWaits, FirstSequenceNumber, Threaded
<1>6. CASE em.pending[i].kind = "Code"
  <2>1. q >= 2 /\ LowerGlobalsIfNoCodeHasBeenSeen(<<q>>, <<Text(q)>>)
    BY <1>1, <1>2, <1>6
  <2>2. /\ hasSeenCode' = TRUE
        /\ hasSeenCode => output' = Append(output, Text(q)) /\ globals' = Append(globals, q)
        /\ ~hasSeenCode => output' = <<Data(globals), Text(q)>> /\ globals' = <<q>>
    BY <1>1, <2>1, AccumulatedUnseen, LowerCode DEF Unseen
  <2>3. 1 \notin Held' /\ Popped' >= 1
    <3>1. CASE hasSeenCode
      BY <1>1, <3>1 DEF Accumulated, DataOut, FirstSequenceNumber
    <3>2. CASE ~hasSeenCode
      <4>1. Threaded
        BY <1>1, <2>1, <3>2 DEF Accumulated, DataWaits, Threaded
      <4>2. QED
        BY <1>1, <1>2, <2>1, <4>1
    <3>3. QED
      BY <3>1, <3>2
  <2>4. output' # <<>> /\ output'[1] = Data(<<1>>) /\ Open'
    <3>1. CASE hasSeenCode
      <4>1. DataOut /\ Open
        BY <1>2, <3>1 DEF Accumulated, DataOut
      <4>2. Open' /\ output' # <<>> /\ output'[1] = output[1]
        BY <1>1, <2>2, <3>1, <4>1, OpenGrows DEF DataOut
      <4>3. QED
        BY <4>1, <4>2 DEF DataOut, FirstSequenceNumber
    <3>2. CASE ~hasSeenCode
      <4>1. globals = <<1>>
        <5>1. Threaded
          BY <1>1, <2>1, <3>2 DEF Accumulated, DataWaits, Threaded
        <5>2. 1 \notin Held /\ Popped # 0
          BY <1>1, <1>2, <2>1, <5>1
        <5>3. QED
          BY <3>2, <5>2 DEF Accumulated, DataWaits, FirstSequenceNumber
      <4>2. output' = <<Data(<<1>>), Text(q)>> /\ globals' = <<q>>
        BY <2>2, <3>2, <4>1
      <4>3. /\ Len(output') = 2 /\ output'[1] = Data(<<1>>) /\ output'[2] = Text(q) /\ output' # <<>>
            /\ Text(q).kind = "code" /\ Text(q).seq = q
        BY <4>2 DEF Text
      <4>4. \A j \in 2 .. Len(output') : output'[j].kind = "code"
        BY <4>3
      <4>5. globals' = [j \in 1 .. Len(output') - 1 |-> output'[j + 1].seq]
        <5> DEFINE g == [j \in 1 .. 1 |-> output'[j + 1].seq]
        <5>1. g[1] = q
          BY <4>3
        <5>2. g \in Seq({q}) /\ Len(g) = 1
          BY <5>1
        <5>3. <<q>> \in Seq({q}) /\ Len(<<q>>) = 1 /\ <<q>>[1] = q
          OBVIOUS
        <5> HIDE DEF g
        <5>4. \A j \in 1 .. 1 : g[j] = <<q>>[j]
          BY <5>1, <5>3
        <5>5. g = <<q>>
          BY <5>2, <5>3, <5>4, SeqEqual
        <5>6. Len(output') - 1 = 1
          BY <4>3
        <5>7. QED
          BY <4>2, <5>5, <5>6 DEF g
      <4>6. QED
        BY <4>3, <4>4, <4>5 DEF Open
    <3>3. QED
      BY <3>1, <3>2
  <2>5. DataOut'
    BY <1>2, <2>3, <2>4 DEF DataOut, FirstSequenceNumber
  <2>6. QED
    BY <2>2, <2>5 DEF Accumulated
<1>7. QED
  BY <1>2, <1>4, <1>5, <1>6

LEMMA NextAccumulated ==
  ASSUME TypeInv, Phases, Items, Journey, Accumulated, [Next]_vars
  PROVE  Accumulated'
BY HeldMoves, InstallAccumulated, TakeAccumulated, QuietAccumulated, EndAccumulated, FinishAccumulated,
   EmitsAccumulated

(***************************************************************************)
(* The emitter takes nothing before what belongs in front of it.           *)
(***************************************************************************)
ToCome == {q \in 2 .. NumFunctions + 1 : q \in Held \/ q > Popped}

LEMMA HeldFromStart ==
  ASSUME TypeInv, Items, Threaded, Journey
  PROVE  \A q \in ToCome : q >= em.start
<1>1. /\ em.start \in Nat /\ em.end \in Nat /\ em.start <= em.end /\ Popped \in Nat
      /\ em.end <= Popped + 1
      /\ \A j \in DOMAIN em.pending : em.pending[j].seq = j /\ j >= em.start
      /\ \A q \in Working \cup Queued : q >= em.end
  BY Typed DEF Journey, Reordering
<1>2. ASSUME NEW q \in ToCome PROVE q >= em.start
  <2>1. q \in Nat /\ (q \in Held \/ q > Popped)
    BY SeqNumbersAre DEF ToCome
  <2>2. CASE q > Popped
    BY <1>1, <2>1, <2>2
  <2>3. CASE q \in Working \cup Queued
    BY <1>1, <2>1, <2>3
  <2>4. CASE q \in Parked
    BY <1>1, <2>4 DEF Parked
  <2>5. QED
    BY <2>1, <2>2, <2>3, <2>4 DEF Held
<1>3. QED
  BY <1>2

LEMMA WindowFirst ==
  ASSUME TypeInv, Items, Journey, NEW i \in Nat, Emits(i),
         em.pending[i].seq \in Held, em.pending[i].seq \in 2 .. Popped, NEW q \in ToCome
  PROVE  WindowOf(em.pending[i].seq) <= WindowOf(q)
<1> DEFINE s == em.pending[i].seq
<1>1. /\ q \in Nat /\ q >= 2 /\ s \in Nat /\ s >= 2 /\ s <= Popped /\ Popped \in Nat
      /\ q \in Held \/ q > Popped
  BY SeqNumbersAre, Typed DEF ToCome
<1>2. /\ i \in Window /\ i \in DOMAIN em.pending /\ (Shuffle \/ \A j \in Window : i <= j)
      /\ em.start <= i /\ i < em.end /\ em.start \in Nat /\ em.end \in Nat
      /\ emPc = "emit"
  BY Typed DEF Emits, MayEmit, Window
<1>3. ASSUME Threaded
      PROVE  /\ s = i
             /\ \A j \in DOMAIN em.pending : em.pending[j].seq = j /\ j >= em.start
             /\ \A r \in Working \cup Queued : r >= em.end
  BY <1>2, <1>3 DEF Journey, Reordering
<1>4. CASE Sequential
  <2>1. \A r \in Held : r = Popped
    BY <1>4 DEF Journey, NestedCalls, Threaded
  <2>2. s <= q
    BY <1>1, <2>1
  <2>3. ~Shuffle
    BY <1>4 DEF Shuffle, Threaded
  <2>4. QED
    BY <2>2, <2>3 DEF WindowOf
<1>5. CASE Threaded /\ ~Shuffle
  <2>1. s = i /\ \A j \in Window : i <= j
    BY <1>2, <1>3, <1>5
  <2>2. q \in Working \cup Queued => s <= q
    BY <1>1, <1>2, <1>3, <1>5
  <2>3. q \in Parked => s <= q
    <3>1. ASSUME q \in Parked PROVE s <= q
      <4>1. q \in DOMAIN em.pending /\ q >= em.start
        BY <1>3, <1>5, <3>1 DEF Parked
      <4>2. q < em.end => q \in Window
        BY <4>1 DEF Window
      <4>3. QED
        BY <1>1, <1>2, <2>1, <4>2
    <3>2. QED
      BY <3>1
  <2>4. s <= q
    BY <1>1, <2>2, <2>3 DEF Held
  <2>5. QED
    BY <1>5, <2>4 DEF WindowOf
<1>6. CASE Threaded /\ Shuffle
  <2> DEFINE w == ShuffleWindowSize
             a == em.start - 2
  <2>1. em.start >= 2
    BY <1>1, <1>6, InitializersFirst
  <2>2. w \in Nat \ {0}
    BY SomeFlags DEF TypeInv, TypeOK
  <2>3. a % w = 0 /\ em.end - em.start <= w /\ a \in Nat
    BY <1>2, <1>6, <2>1 DEF Journey, Windows
  <2>4. s = i /\ q >= em.start
    BY <1>3, <1>6, HeldFromStart
  <2>5. s - 2 \in Nat /\ q - 2 \in Nat /\ a <= s - 2 /\ s - 2 < a + w /\ a <= q - 2
    BY <1>1, <1>2, <2>1, <2>2, <2>3, <2>4
  <2> HIDE DEF a, w, s
  <2>6. (s - 2) - ((s - 2) % w) = a
    BY <2>2, <2>3, <2>5, RoundDown
  <2>7. a <= (q - 2) - ((q - 2) % w)
    <3>1. a - (a % w) <= (q - 2) - ((q - 2) % w)
      BY <2>2, <2>3, <2>5, RoundDown
    <3>2. a - (a % w) = a
      BY <2>3
    <3>3. QED
      BY <3>1, <3>2
  <2>8. /\ WindowOf(s) = (s - 2) - ((s - 2) % w)
        /\ WindowOf(q) = (q - 2) - ((q - 2) % w)
    <3>1. ASSUME NEW r \in Nat, r >= 2 PROVE FnOf(r) - 1 = r - 2
      BY <3>1 DEF FnOf, FirstSequenceNumber
    <3>2. FnOf(s) - 1 = s - 2 /\ FnOf(q) - 1 = q - 2
      BY <1>1, <3>1
    <3>3. QED
      BY <1>6, <3>2 DEF WindowOf, w
  <2>9. QED
    BY <2>6, <2>7, <2>8 DEF s
<1>7. QED
  BY <1>4, <1>5, <1>6 DEF Threaded

LEMMA ToComeShrinks ==
  ASSUME TypeInv, Items
  PROVE  /\ SameCodeMoves => ToCome' \subseteq ToCome
         /\ \A n, i \in Nat : NewCodeMoves(n, i) => ToCome' \subseteq ToCome
<1>1. Popped \in Nat /\ \A q \in Held : q \in 1 .. Popped
  BY Typed, HeldBelow
<1>2. ASSUME NEW q \in 2 .. NumFunctions + 1 PROVE q \in Nat /\ q >= 2
  BY SeqNumbersAre
<1>3. ASSUME SameCodeMoves, NEW q \in ToCome' PROVE q \in ToCome
  <2>1. q \in 2 .. NumFunctions + 1 /\ (q \in Held' \/ q > Popped')
    BY <1>3 DEF ToCome
  <2>2. q \in Nat /\ q >= 2
    BY <1>2, <2>1
  <2>3. q \in Held \/ q > Popped
    BY <1>1, <1>3, <2>1, <2>2 DEF SameCodeMoves
  <2>4. QED
    BY <2>1, <2>3 DEF ToCome
<1>4. ASSUME NEW n \in Nat, NEW i \in Nat, NewCodeMoves(n, i) PROVE ToCome' \subseteq ToCome
  BY <1>4 DEF NewCodeMoves, ToCome
<1>5. QED
  BY <1>3, <1>4

LEMMA NextInOrder ==
  ASSUME TypeInv, Phases, Items, Journey, Unseen, Account, InOrder, [Next]_vars
  PROVE  InOrder'
<1>0. \A x : WindowOf(x)' = WindowOf(x)
  BY InputStays DEF WindowOf, Shuffle, ShuffleWindowSize, Threaded, Sequential, FnOf, FirstSequenceNumber
<1>1. /\ InOrder <=>
           /\ \A i \in CodePieces : \A q \in ToCome : WindowOf(output[i].seq) <= WindowOf(q)
           /\ \A i, j \in CodePieces :
                i < j => output[i].seq # output[j].seq /\ WindowOf(output[i].seq) <= WindowOf(output[j].seq)
      /\ InOrder' <=>
           /\ \A i \in CodePieces' : \A q \in ToCome' : WindowOf(output'[i].seq) <= WindowOf(q)
           /\ \A i, j \in CodePieces' :
                i < j => output'[i].seq # output'[j].seq /\ WindowOf(output'[i].seq) <= WindowOf(output'[j].seq)
  BY <1>0 DEF InOrder, Behind, ToCome
<1>2. CASE SameCode /\ SameCodeMoves
  <2>1. ToCome' \subseteq ToCome
    BY <1>2, ToComeShrinks
  <2>2. CodePieces' = CodePieces /\ \A i \in CodePieces : output'[i] = output[i]
    BY <1>2 DEF SameCode
  <2>3. QED
    BY <1>1, <2>1, <2>2
<1>3. ASSUME NEW n \in Nat, NEW k \in Nat, NewCodeMoves(n, k) PROVE InOrder'
  <2> DEFINE s == em.pending[k].seq
  <2>1. /\ Emits(k) /\ s \in Held /\ s \in 2 .. Popped /\ s \in SeqNumbers
        /\ CodePieces' = CodePieces \cup {n}
        /\ \A i \in CodePieces : i < n /\ output'[i] = output[i]
        /\ output'[n].seq = s
    BY <1>3 DEF NewCodeMoves, NewCode
  <2>2. \A q \in ToCome : WindowOf(s) <= WindowOf(q)
    BY <2>1, WindowFirst
  <2>3. s \in ToCome
    <3>1. s >= 2 /\ s \in 1 .. NumFunctions + 1
      BY <2>1, SeqNumbersAre, Typed
    <3>2. s \in 2 .. NumFunctions + 1
      BY <3>1, SeqNumbersAre
    <3>3. QED
      BY <2>1, <3>2 DEF ToCome
  <2>4. ASSUME NEW i \in CodePieces PROVE output[i].seq # s
    <3>1. output[i].seq \in SeqNumbers
      BY OutputTyped
    <3>2. output[i].seq \in Emitted
      BY <3>1 DEF Emitted
    <3>3. QED
      BY <2>1, <3>1, <3>2 DEF Account
  <2>5. ToCome' \subseteq ToCome
    BY <1>3, ToComeShrinks
  <2> HIDE DEF s
  <2>6. \A i \in CodePieces : i \in Nat
    BY OutputTyped
  <2>7. \A i \in CodePieces' : \A q \in ToCome' : WindowOf(output'[i].seq) <= WindowOf(q)
    BY <1>1, <2>1, <2>2, <2>5
  <2>8. ASSUME NEW i \in CodePieces', NEW j \in CodePieces', i < j
        PROVE  output'[i].seq # output'[j].seq /\ WindowOf(output'[i].seq) <= WindowOf(output'[j].seq)
    <3>1. i \in CodePieces
      BY <2>1, <2>6, <2>8
    <3>2. CASE j \in CodePieces
      BY <1>1, <2>1, <2>8, <3>1, <3>2
    <3>3. CASE j = n
      BY <1>1, <2>1, <2>3, <2>4, <3>1, <3>3
    <3>4. QED
      BY <2>1, <3>2, <3>3
  <2>9. QED
    BY <1>1, <2>7, <2>8
<1>4. QED
  BY <1>2, <1>3, CodeMoves

(***************************************************************************)
(* The parser's errors.                                                    *)
(***************************************************************************)
LEMMA ReadIs ==
  ASSUME TypeInv
  PROVE  /\ nextFn \in 1 .. NumFunctions + 1 /\ NumFunctions \in Nat /\ Functions = 1 .. NumFunctions
         /\ mainPc = "push" => ReadSoFar = 1 .. nextFn /\ nextFn \in Functions
         /\ mainPc # "push" => ReadSoFar = 1 .. nextFn - 1
         /\ parseStatus \in Statuses /\ blockFailed \in BOOLEAN
BY PipelineAssumption DEF TypeInv, TypeOK, Numbering, ReadSoFar, Functions

LEMMA MainReadErrors ==
  ASSUME TypeInv, ReadErrors, MainStep
  PROVE  ReadErrors'
<1>0. /\ nextFn \in 1 .. NumFunctions + 1 /\ NumFunctions \in Nat /\ Functions = 1 .. NumFunctions
      /\ mainPc = "push" => ReadSoFar = 1 .. nextFn /\ nextFn \in Functions
      /\ mainPc # "push" => ReadSoFar = 1 .. nextFn - 1
      /\ mainPc' = "push" => ReadSoFar' = 1 .. nextFn'
      /\ mainPc' # "push" => ReadSoFar' = 1 .. nextFn' - 1
      /\ parseStatus \in Statuses /\ blockFailed \in BOOLEAN
      /\ Functions' = Functions
  BY ReadIs DEF ReadSoFar, Functions
<1>1. UNCHANGED <<flags, outcome>>
  BY DEF MainStep, InstallGlobals, ReadFunctionBlock, SkipBlockFailed, PushFunction, EndOfModule,
         WaitFirst, WaitAgain, JoinTranslators, JoinEmitter, LeaveModule, Finish
<1>2. CASE InstallGlobals
  <2>1. /\ mainPc = "install" /\ mainPc' = "parse"
        /\ UNCHANGED <<nextFn, blockFailed, parseStatus>>
    BY <1>2 DEF InstallGlobals, statusVars
  <2>2. ReadSoFar' = ReadSoFar
    BY <1>0, <2>1
  <2>3. QED
    BY <1>0, <1>1, <2>1, <2>2 DEF ReadErrors
<1>3. CASE ReadFunctionBlock
  <2>1. /\ mainPc = "parse" /\ mainPc' = "push" /\ nextFn \in Functions
        /\ ~(flags.parallel /\ outcome[nextFn] = "badBlock")
        /\ UNCHANGED <<nextFn, blockFailed>>
        /\ \/ parseStatus' = parseStatus
           \/ outcome[nextFn] = "badParse" /\ parseStatus' = Assign(parseStatus, "Bitcode")
    BY <1>3 DEF ReadFunctionBlock
  <2>2. ReadSoFar' = ReadSoFar \cup {nextFn}
    BY <1>0, <2>1
  <2>3. outcome[nextFn] # "badBlock"
    BY <2>1 DEF ReadErrors
  <2>4. ~blockFailed
    BY <2>1 DEF ReadErrors
  <2>5. parseStatus' # "none" =>
          parseStatus' = "Bitcode" /\ (blockFailed' \/ \E n \in ReadSoFar' : outcome[n] = "badParse")
    BY <2>1, <2>2 DEF ReadErrors, Assign
  <2>6. QED
    BY <1>0, <1>1, <2>1, <2>2, <2>3, <2>4, <2>5 DEF ReadErrors
<1>4. CASE SkipBlockFailed
  <2>1. /\ mainPc = "parse" /\ mainPc' = "exitBlock" /\ nextFn \in Functions
        /\ outcome[nextFn] = "badBlock" /\ blockFailed' = TRUE
        /\ UNCHANGED <<nextFn, parseStatus>>
    BY <1>4 DEF SkipBlockFailed, statusVars
  <2>2. ReadSoFar' = ReadSoFar
    BY <1>0, <2>1
  <2>3. QED
    BY <1>0, <1>1, <2>1, <2>2 DEF ReadErrors
<1>5. CASE PushFunction
  <2>1. /\ mainPc = "push" /\ mainPc' = "parse" /\ nextFn' = nextFn + 1
        /\ UNCHANGED <<blockFailed, parseStatus>>
    BY <1>5 DEF PushFunction, statusVars
  <2>2. ReadSoFar' = ReadSoFar
    BY <1>0, <2>1
  <2>3. QED
    BY <1>0, <1>1, <2>1, <2>2 DEF ReadErrors
<1>6. CASE EndOfModule
  <2>1. /\ mainPc = "parse" /\ mainPc' = "exitBlock" /\ nextFn > NumFunctions
        /\ UNCHANGED <<nextFn, blockFailed, parseStatus>>
    BY <1>6 DEF EndOfModule, statusVars
  <2>2. ReadSoFar' = ReadSoFar /\ nextFn = NumFunctions + 1
    BY <1>0, <2>1
  <2>3. QED
    BY <1>0, <1>1, <2>1, <2>2 DEF ReadErrors
<1>7. CASE WaitFirst \/ WaitAgain \/ JoinTranslators \/ JoinEmitter \/ Finish
  <2>1. /\ mainPc \notin {"install", "parse", "push"} /\ mainPc' \notin {"install", "parse", "push"}
        /\ mainPc' \in {"compiler", "finish", "done"} => mainPc \in {"compiler", "finish", "done"}
        /\ UNCHANGED <<nextFn, blockFailed, parseStatus>>
    BY <1>7 DEF WaitFirst, WaitAgain, JoinTranslators, JoinEmitter, Finish, AfterWait, statusVars
  <2>2. ReadSoFar' = ReadSoFar
    BY <1>0, <2>1
  <2>3. QED
    BY <1>0, <1>1, <2>1, <2>2 DEF ReadErrors
<1>8. CASE LeaveModule
  <2>1. /\ mainPc = "exited" /\ mainPc' = "compiler"
        /\ parseStatus' = IF blockFailed THEN Assign(parseStatus, "Bitcode") ELSE parseStatus
        /\ UNCHANGED <<nextFn, blockFailed>>
    BY <1>8 DEF LeaveModule
  <2>2. ReadSoFar' = ReadSoFar
    BY <1>0, <2>1
  <2>3. /\ parseStatus' # "none" =>
             parseStatus' = "Bitcode" /\ (blockFailed' \/ \E n \in ReadSoFar' : outcome[n] = "badParse")
        /\ blockFailed' => parseStatus' = "Bitcode"
    BY <2>1, <2>2 DEF ReadErrors, Assign
  <2>4. QED
    BY <1>0, <1>1, <2>1, <2>2, <2>3 DEF ReadErrors
<1>9. QED
  BY <1>2, <1>3, <1>4, <1>5, <1>6, <1>7, <1>8 DEF MainStep

LEMMA NextReadErrors ==
  ASSUME TypeInv, Items, ReadErrors, [Next]_vars
  PROVE  ReadErrors'
<1>0. /\ nextFn \in 1 .. NumFunctions + 1 /\ NumFunctions \in Nat /\ Functions = 1 .. NumFunctions
      /\ mainPc = "push" => ReadSoFar = 1 .. nextFn
      /\ mainPc # "push" => ReadSoFar = 1 .. nextFn - 1
  BY ReadIs
<1>1. UNCHANGED <<flags, outcome>>
  BY InputStays
<1>2. ASSUME UNCHANGED <<mainPc, nextFn, blockFailed, parseStatus>> PROVE ReadErrors'
  <2>1. ReadSoFar' = ReadSoFar
    BY <1>2 DEF ReadSoFar
  <2>2. QED
    BY <1>1, <1>2, <2>1 DEF ReadErrors
<1>3. ASSUME NEW t \in Threads, GetParsedCfg(t) PROVE ReadErrors'
  <2>1. /\ UNCHANGED <<mainPc, nextFn, blockFailed>> /\ trPc[t] = "parse"
        /\ \/ parseStatus' = parseStatus
           \/ outcome[FnOf(trSeq[t])] = "badParse" /\ parseStatus' = Assign(parseStatus, "Bitcode")
    BY <1>3 DEF GetParsedCfg, mainVars
  <2>2. ReadSoFar' = ReadSoFar
    BY <2>1 DEF ReadSoFar
  <2>3. FnOf(trSeq[t]) \in ReadSoFar
    <3>1. trSeq[t] \in 2 .. Popped
      BY <2>1 DEF Items, Active
    <3>2. Popped \in Nat /\ Popped <= nextFn
      BY <1>0, Typed DEF Popped
    <3>3. FnOf(trSeq[t]) \in 1 .. nextFn - 1
      BY <1>0, <3>1, <3>2 DEF FnOf, FirstSequenceNumber
    <3>4. QED
      BY <1>0, <3>3
  <2>4. parseStatus' # "none" =>
          parseStatus' = "Bitcode" /\ (blockFailed' \/ \E n \in ReadSoFar' : outcome[n] = "badParse")
    BY <2>1, <2>2, <2>3 DEF ReadErrors, Assign
  <2>5. parseStatus = "Bitcode" => parseStatus' = "Bitcode"
    BY <2>1 DEF Assign
  <2>6. QED
    BY <1>1, <2>1, <2>2, <2>4, <2>5 DEF ReadErrors
<1>4. ASSUME NEW t \in Threads, PopFunction(t) \/ Translate(t) \/ PushResult(t) PROVE ReadErrors'
  BY <1>2, <1>4 DEF PopFunction, Translate, PushResult, mainVars, statusVars
<1>5. CASE EmitterStep
  BY <1>2, <1>5 DEF EmitterStep, FetchItem, TakePending, FetchNothing, EmitItem, NextWindow, EndOfItems,
                mainVars, statusVars
<1>6. CASE UNCHANGED vars
  BY <1>2, <1>6 DEF vars, mainVars, statusVars
<1>7. QED
  BY <1>3, <1>4, <1>5, <1>6, MainReadErrors DEF Next, Terminated, TranslatorStep, Threads

(***************************************************************************)
(* The translators' errors.                                                *)
(***************************************************************************)
Busy(t) == trPc[t] \in {"parse", "translate"}
Verdict == ctxStatus = IF SomeRejected THEN "Translation" ELSE "none"

LEMMA VerdictStays ==
  ASSUME UNCHANGED <<outcome, ctxStatus>>, Verdict,
         SomeRejected' <=> SomeRejected
  PROVE  Verdict'
BY DEF Verdict

LEMMA SameRejections ==
  ASSUME UNCHANGED outcome, Untranslated' = Untranslated, Popped' = Popped
  PROVE  SomeRejected' <=> SomeRejected
BY DEF SomeRejected, Rejected, FnOf, FirstSequenceNumber

LEMMA SameBusy ==
  ASSUME \A t \in Threads : (Busy(t)' <=> Busy(t)) /\ (Busy(t) => trSeq'[t] = trSeq[t])
  PROVE  Untranslated' = Untranslated
BY DEF Untranslated, Busy, Threads, SeqNumbers, FirstSequenceNumber

LEMMA PopVerdict ==
  ASSUME TypeInv, Items, Verdict, NEW t \in Threads, PopFunction(t)
  PROVE  Verdict'
<1>0. /\ UNCHANGED <<outcome, ctxStatus, mainPc, nextFn>> /\ Popped \in Nat
      /\ trPc \in [Threads -> {"idle", "pop", "parse", "translate", "push", "exited"}]
      /\ trSeq \in [Threads -> 0 .. NumFunctions + 1]
  BY Typed DEF PopFunction, mainVars, statusVars, TypeInv, TypeOK, Threads
<1>1. CASE optQ # <<>>
  <2>1. /\ ~Active(t) /\ Active(t)' /\ trSeq'[t] = Popped + 1
        /\ \A u \in Threads \ {t} : trSeq'[u] = trSeq[u]
        /\ Popped' = Popped + 1 /\ Popped >= 1 /\ Popped + 1 \in SeqNumbers
    BY <1>1, TakeFunctionMoves
  <2>2. trPc' = [trPc EXCEPT ![t] = IF flags.parallel THEN "parse" ELSE "translate"]
    BY <1>1 DEF PopFunction, OptQ!TakeHead, OptQ!TakeNothing
  <2>3. Busy(t)' /\ ~Busy(t) /\ \A u \in Threads \ {t} : Busy(u)' <=> Busy(u)
    BY <1>0, <2>1, <2>2 DEF Busy, Active
  <2>4. Untranslated' = Untranslated \cup {Popped + 1}
    BY <1>0, <2>1, <2>3 DEF Untranslated, Busy, Threads, SeqNumbers, FirstSequenceNumber
  <2>5. \A q : Rejected(q)' <=> Rejected(q)
    BY <1>0 DEF Rejected, FnOf, FirstSequenceNumber
  <2>6. 2 .. Popped' = (2 .. Popped) \cup {Popped + 1}
    BY <1>0, <2>1
  <2>7. Popped + 1 \notin 2 .. Popped
    BY <1>0
  <2>8. SomeRejected' <=> SomeRejected
    BY <2>4, <2>5, <2>6, <2>7 DEF SomeRejected
  <2>9. QED
    BY <1>0, <2>8, VerdictStays
<1>2. CASE optQ = <<>>
  <2>1. /\ optQ' = optQ /\ trSeq' = trSeq
        /\ trPc' = [trPc EXCEPT ![t] = IF Sequential THEN "idle" ELSE "exited"]
        /\ trPc[t] = "pop"
    BY <1>2 DEF PopFunction, OptQ!TakeHead, OptQ!TakeNothing
  <2>2. \A u \in Threads : Busy(u)' <=> Busy(u)
    BY <1>0, <2>1 DEF Busy
  <2>3. Untranslated' = Untranslated
    BY <2>1, <2>2, SameBusy
  <2>4. Popped' = Popped
    BY <1>0, <2>1 DEF Popped
  <2>5. QED
    BY <1>0, <2>3, <2>4, SameRejections, VerdictStays
<1>3. QED
  BY <1>1, <1>2

LEMMA TranslateVerdict ==
  ASSUME TypeInv, Items, Verdict, NEW t \in Threads, Translate(t)
  PROVE  Verdict'
<1>0. /\ UNCHANGED <<outcome, mainPc, nextFn, optQ, trSeq>>
      /\ trPc[t] = "translate" /\ trPc' = [trPc EXCEPT ![t] = "push"]
      /\ ctxStatus' = IF Rejected(trSeq[t]) THEN Assign(ctxStatus, "Translation") ELSE ctxStatus
      /\ trPc \in [Threads -> {"idle", "pop", "parse", "translate", "push", "exited"}]
  BY DEF Translate, mainVars, queueVars, TypeInv, TypeOK, Threads
<1>1. Popped' = Popped
  BY <1>0 DEF Popped
<1>2. Busy(t) /\ ~Busy(t)' /\ \A u \in Threads \ {t} : Busy(u)' <=> Busy(u)
  BY <1>0 DEF Busy
<1>3. \A u \in Threads : Busy(u) /\ trSeq[u] = trSeq[t] => u = t
  BY <1>0 DEF Items, Busy, Active
<1>4. trSeq[t] \in 2 .. Popped /\ Active(t)
  BY <1>0 DEF Items, Active
<1>5. Untranslated' = Untranslated \ {trSeq[t]}
  BY <1>0, <1>2, <1>3 DEF Untranslated, Busy, Threads, SeqNumbers, FirstSequenceNumber
<1>6. \A q : Rejected(q)' <=> Rejected(q)
  BY <1>0 DEF Rejected, FnOf, FirstSequenceNumber
<1>7. SomeRejected' <=> SomeRejected \/ Rejected(trSeq[t])
  <2>1. SomeRejected' <=> \E q \in 2 .. Popped : (q \notin Untranslated \/ q = trSeq[t]) /\ Rejected(q)
    BY <1>1, <1>5, <1>6 DEF SomeRejected
  <2>2. QED
    BY <1>4, <2>1 DEF SomeRejected
<1>8. QED
  BY <1>0, <1>7 DEF Verdict, Assign

LEMMA OtherVerdict ==
  ASSUME TypeInv, Phases, Items, Journey, Verdict, [Next]_vars, ~Finish,
         \A t \in Threads : ~PopFunction(t) /\ ~Translate(t)
  PROVE  Verdict'
<1>0. /\ trPc \in [Threads -> {"idle", "pop", "parse", "translate", "push", "exited"}]
      /\ Main \in Threads /\ UNCHANGED outcome
  BY InputStays DEF TypeInv, TypeOK, Threads
<1>1. ASSUME UNCHANGED <<trPc, trSeq, mainPc, nextFn, optQ, ctxStatus>> PROVE Verdict'
  <2>1. Untranslated' = Untranslated
    BY <1>1, SameBusy DEF Busy
  <2>2. Popped' = Popped
    BY <1>1 DEF Popped
  <2>3. QED
    BY <1>0, <1>1, <2>1, <2>2, SameRejections, VerdictStays
<1>2. CASE InstallGlobals
  <2>1. UNCHANGED <<trPc, trSeq, ctxStatus>>
    BY <1>2 DEF InstallGlobals, trVars, statusVars
  <2>2. Popped = 0 /\ Popped' = 1
    BY <1>2, InstallGlobalsMoves
  <2>3. ~SomeRejected /\ ~SomeRejected'
    BY <2>2 DEF SomeRejected
  <2>4. QED
    BY <1>0, <2>1, <2>3, VerdictStays
<1>3. CASE PushFunction
  <2>1. UNCHANGED <<trSeq, ctxStatus>> /\ Popped' = Popped
    BY <1>3, PushFunctionMoves DEF PushFunction, statusVars
  <2>2. \A t \in Threads : Busy(t)' <=> Busy(t)
    <3>1. mainPc = "push" /\ trPc' = IF Sequential THEN [trPc EXCEPT ![Main] = "pop"] ELSE trPc
      BY <1>3 DEF PushFunction, OptQueueBlockingPush
    <3>2. Sequential => trPc[Main] = "idle"
      BY <3>1 DEF Journey, NestedCalls, Threaded
    <3>3. QED
      BY <1>0, <3>1, <3>2 DEF Busy
  <2>3. QED
    BY <1>0, <2>1, <2>2, SameBusy, SameRejections, VerdictStays
<1>4. ASSUME ReadFunctionBlock \/ SkipBlockFailed \/ EndOfModule \/ WaitFirst \/ WaitAgain
             \/ JoinTranslators \/ JoinEmitter \/ LeaveModule
      PROVE  Verdict'
  <2>1. /\ UNCHANGED <<trPc, trSeq, ctxStatus, nextFn, optQ>>
        /\ mainPc # "install" /\ mainPc' # "install"
    BY <1>4 DEF ReadFunctionBlock, SkipBlockFailed, EndOfModule, WaitFirst, WaitAgain, AfterWait,
                JoinTranslators, JoinEmitter, LeaveModule, trVars, statusVars, queueVars, OptQ!NotifyEnd
  <2>2. Untranslated' = Untranslated
    BY <2>1, SameBusy DEF Busy
  <2>3. Popped' = Popped
    BY <2>1 DEF Popped
  <2>4. QED
    BY <1>0, <2>1, <2>2, <2>3, SameRejections, VerdictStays
<1>5. ASSUME NEW t \in Threads, GetParsedCfg(t) \/ PushResult(t) PROVE Verdict'
  <2>1. /\ UNCHANGED <<trSeq, ctxStatus, mainPc, nextFn, optQ>>
        /\ \/ trPc[t] = "parse" /\ trPc' = [trPc EXCEPT ![t] = "translate"]
           \/ trPc[t] = "push" /\ trPc' = [trPc EXCEPT ![t] = "pop"]
    BY <1>5 DEF GetParsedCfg, PushResult, mainVars, queueVars, statusVars
  <2>2. \A u \in Threads : Busy(u)' <=> Busy(u)
    BY <1>0, <2>1 DEF Busy
  <2>3. Popped' = Popped
    BY <2>1 DEF Popped
  <2>4. QED
    BY <1>0, <2>1, <2>2, <2>3, SameBusy, SameRejections, VerdictStays
<1>6. CASE EmitterStep
  BY <1>1, <1>6 DEF EmitterStep, FetchItem, TakePending, FetchNothing, EmitItem, NextWindow, EndOfItems,
                mainVars, statusVars, trVars, queueVars
<1>7. CASE UNCHANGED vars
  BY <1>1, <1>7 DEF vars, mainVars, statusVars, trVars, queueVars
<1>8. QED
  BY <1>2, <1>3, <1>4, <1>5, <1>6, <1>7 DEF Next, Terminated, TranslatorStep, MainStep, Threads

LEMMA NextRejections ==
  ASSUME TypeInv, Phases, Items, Journey, Rejections, [Next]_vars
  PROVE  Rejections'
<1>1. SUFFICES ASSUME mainPc' # "done" PROVE Verdict'
  BY DEF Rejections, Verdict
<1>2. ~Finish
  BY <1>1 DEF Finish
<1>3. Verdict
  BY <1>1, <1>2, StageMoves DEF Rejections, Verdict
<1>4. QED
  BY <1>2, <1>3, PopVerdict, TranslateVerdict, OtherVerdict

LEMMA AllTranslated ==
  ASSUME TypeInv, Phases, Journey, mainPc \in {"exited", "compiler", "finish", "done"}
  PROVE  optQ = <<>> /\ \A t \in Threads : trPc[t] \in {"idle", "exited"}
<1>1. CASE Threaded
  BY <1>1, WhenEnded DEF Phases, Waiting
<1>2. CASE Sequential
  <2>1. trPc[Main] = "idle" /\ optQ = <<>>
    BY <1>2 DEF Journey, NestedCalls, Threaded
  <2>2. QED
    BY <1>2, <2>1 DEF Phases, Sequential
<1>3. QED
  BY <1>1, <1>2 DEF Threaded

LEMMA AllRead ==
  ASSUME TypeInv, ReadErrors, mainPc \in {"finish", "done"}
  PROVE  Read = 1 .. nextFn - 1 /\ (blockFailed <=> Read # Functions)
<1>1. /\ nextFn \in 1 .. NumFunctions + 1 /\ NumFunctions \in Nat /\ Functions = 1 .. NumFunctions
      /\ ReadSoFar = 1 .. nextFn - 1
      /\ \A n \in 1 .. nextFn - 1 : outcome[n] # "badBlock"
      /\ blockFailed => nextFn \in 1 .. NumFunctions /\ outcome[nextFn] = "badBlock"
      /\ ~blockFailed => nextFn = NumFunctions + 1
  BY ReadIs DEF ReadErrors
<1>2. ASSUME NEW n \in Functions PROVE n \in Read <=> n \in 1 .. nextFn - 1
  <2>1. n \in Nat
    BY <1>1
  <2>2. CASE n <= nextFn - 1
    BY <1>1, <2>1, <2>2 DEF Read
  <2>3. CASE n > nextFn - 1
    <3>1. blockFailed /\ nextFn \in 1 .. n
      BY <1>1, <2>1, <2>3
    <3>2. outcome[nextFn] = "badBlock"
      BY <1>1, <3>1
    <3>3. n \notin Read
      BY <3>1, <3>2 DEF Read
    <3>4. QED
      BY <1>1, <2>1, <2>3, <3>3
  <2>4. QED
    BY <1>1, <2>1, <2>2, <2>3
<1>3. Read = 1 .. nextFn - 1
  <2>1. Read \subseteq Functions /\ 1 .. nextFn - 1 \subseteq Functions
    BY <1>1 DEF Read
  <2>2. QED
    BY <1>2, <2>1
<1>4. blockFailed <=> Read # Functions
  <2>1. blockFailed => nextFn \in Functions /\ nextFn \notin 1 .. nextFn - 1
    BY <1>1
  <2>2. ~blockFailed => 1 .. nextFn - 1 = Functions
    BY <1>1
  <2>3. QED
    BY <1>3, <2>1, <2>2
<1>5. QED
  BY <1>3, <1>4

LEMMA FinishStatus ==
  ASSUME TypeInv, Phases, Journey, Errors, Finish
  PROVE  StatusIsDeterministic'
<1>0. /\ mainPc = "finish" /\ UNCHANGED outcome
      /\ parseStatus # "none" => ctxStatus' = Assign(ctxStatus, parseStatus)
      /\ parseStatus = "none" => ctxStatus' = ctxStatus
  BY DEF Finish
<1>1. optQ = <<>> /\ \A t \in Threads : trPc[t] \in {"idle", "exited"}
  BY <1>0, AllTranslated
<1>2. Read = 1 .. nextFn - 1 /\ (blockFailed <=> Read # Functions) /\ ReadSoFar = 1 .. nextFn - 1
      /\ nextFn \in Nat /\ nextFn >= 1
  BY <1>0, AllRead, ReadIs DEF Errors
<1>3. Popped = nextFn
  BY <1>0, <1>1, <1>2 DEF Popped
<1>4. Untranslated = {}
  BY <1>1 DEF Untranslated
<1>5. SomeRejected <=> \E n \in Read : outcome[n] \in {"badTranslate", "badParse"}
  <2>1. SomeRejected <=> \E q \in 2 .. nextFn : outcome[q - 1] \in {"badTranslate", "badParse"}
    BY <1>3, <1>4 DEF SomeRejected, Rejected, FnOf, FirstSequenceNumber
  <2>2. ASSUME NEW n \in 1 .. nextFn - 1, outcome[n] \in {"badTranslate", "badParse"}
        PROVE  \E q \in 2 .. nextFn : outcome[q - 1] \in {"badTranslate", "badParse"}
    <3>1. n + 1 \in 2 .. nextFn /\ (n + 1) - 1 = n
      BY <1>2
    <3>2. QED
      BY <2>2, <3>1
  <2>3. \A q \in 2 .. nextFn : q - 1 \in 1 .. nextFn - 1
    BY <1>2
  <2>4. QED
    BY <1>2, <2>1, <2>2, <2>3
<1>6. ctxStatus = IF SomeRejected THEN "Translation" ELSE "none"
  BY <1>0 DEF Errors, Rejections
<1>7. /\ parseStatus # "none" => parseStatus = "Bitcode"
      /\ parseStatus # "none" => blockFailed \/ SomeRejected
      /\ blockFailed => parseStatus = "Bitcode"
  BY <1>0, <1>2, <1>5 DEF Errors, ReadErrors
<1>8. ctxStatus' = IF SomeRejected THEN "Translation" ELSE IF blockFailed THEN "Bitcode" ELSE "none"
  BY <1>0, <1>6, <1>7 DEF Assign
<1>9. Read' = Read /\ Functions' = Functions
  BY <1>0 DEF Read, Functions
<1>10. QED
  BY <1>0, <1>2, <1>5, <1>8, <1>9 DEF StatusIsDeterministic

LEMMA NextStatus ==
  ASSUME TypeInv, Phases, Journey, Errors, StatusIsDeterministic, [Next]_vars
  PROVE  StatusIsDeterministic'
<1>1. CASE Finish
  BY <1>1, FinishStatus
<1>2. CASE ~Finish
  <2>1. mainPc' = "done" <=> mainPc = "done"
    BY <1>2, StageMoves
  <2>2. SUFFICES ASSUME mainPc = "done" PROVE ctxStatus' = ctxStatus
    BY <2>1, InputStays DEF StatusIsDeterministic, Read, Functions
  <2>3. \A t \in Threads : ~Translate(t)
    BY <2>2, AllTranslated DEF Translate
  <2>4. ~MainStep
    BY <2>2 DEF MainStep, InstallGlobals, ReadFunctionBlock, SkipBlockFailed, PushFunction, EndOfModule,
                WaitFirst, WaitAgain, JoinTranslators, JoinEmitter, LeaveModule, Finish
  <2>5. ASSUME NEW t \in Threads, PopFunction(t) \/ GetParsedCfg(t) \/ PushResult(t) PROVE ctxStatus' = ctxStatus
    BY <2>5 DEF PopFunction, GetParsedCfg, PushResult, statusVars
  <2>6. EmitterStep \/ UNCHANGED vars => ctxStatus' = ctxStatus
    BY DEF EmitterStep, FetchItem, TakePending, FetchNothing, EmitItem, NextWindow, EndOfItems, vars, statusVars
  <2>7. QED
    BY <2>3, <2>4, <2>5, <2>6 DEF Next, Terminated, TranslatorStep, Threads
<1>3. QED
  BY <1>1, <1>2

-----------------------------------------------------------------------------
(***************************************************************************)
(* The inductive invariant.                                                *)
(***************************************************************************)
LEMMA InitIInv == ASSUME Init, FlagStartsFalse PROVE IInv
<1>1. /\ optQ = <<>> /\ emitQ = <<>> /\ mainPc = "install" /\ nextFn = 1 /\ em = EmitterLocals
      /\ output = <<>> /\ globals = <<>> /\ hasSeenCode = FALSE /\ blockFailed = FALSE
      /\ parseStatus = "none" /\ ctxStatus = "none"
      /\ \A t \in Threads : trPc[t] \in {"idle", "pop"}
      /\ outcome \in [Functions -> IF flags.parallel THEN Outcomes ELSE Outcomes \ {"badBlock"}]
  BY DEF Init, Threads
<1>2. TypeInv /\ Phases /\ Items
  BY InitTypeInv, InitPhases, InitItems
<1>3. Popped = 0 /\ Held = {}
  <2>1. DOMAIN emitQ = {} /\ DOMAIN em.pending = {}
    BY <1>1, EmitterLocalsFacts
  <2>2. QED
    BY <1>1, <2>1 DEF Popped, Held, Working, Queued, Parked, Active
<1>4. Journey
  BY InitReordering, InitWindows, InitNestedCalls DEF Journey, Shuffle, Threaded
<1>5. CodePieces = {}
  <2>1. DOMAIN output = {}
    BY <1>1
  <2>2. QED
    BY <2>1 DEF CodePieces
<1>6. Account /\ InOrder
  <2>1. \A q : ~Translatable(q)
    BY <1>3 DEF Translatable
  <2>2. QED
    BY <1>5, <2>1 DEF Account, InOrder, Emitted
<1>7. Accumulated
  BY <1>1, <1>3 DEF Accumulated, DataWaits
<1>8. Errors
  <2>1. ReadSoFar = {} /\ (2 .. Popped) = {}
    BY <1>1, <1>3 DEF ReadSoFar
  <2>2. flags.parallel \/ \A n \in Functions : outcome[n] # "badBlock"
    BY <1>1
  <2>3. QED
    BY <1>1, <2>1, <2>2 DEF Errors, ReadErrors, Rejections, SomeRejected
<1>9. StatusIsDeterministic
  BY <1>1 DEF StatusIsDeterministic
<1>10. QED
  BY <1>2, <1>4, <1>6, <1>7, <1>8, <1>9 DEF IInv, Safe

LEMMA NextIInv == ASSUME IInv, [Next]_vars PROVE IInv'
<1>1. /\ TypeInv /\ Phases /\ Items /\ Journey /\ Account /\ Accumulated /\ InOrder /\ Errors
      /\ StatusIsDeterministic /\ Unseen
  BY AccumulatedUnseen DEF IInv, Safe
<1>2. TypeInv' /\ Phases' /\ Items' /\ Journey'
  BY <1>1, NextTypeInv, NextPhases, NextItems, NextJourney
<1>3. Account' /\ Accumulated' /\ InOrder'
  BY <1>1, NextAccount, NextAccumulated, NextInOrder
<1>4. Errors' /\ StatusIsDeterministic'
  BY <1>1, NextReadErrors, NextRejections, NextStatus DEF Errors
<1>5. QED
  BY <1>2, <1>3, <1>4 DEF IInv, Safe

(***************************************************************************)
(* Every reachable state satisfies the inductive invariant, provided that  *)
(* WaitForWorkerThreadsCalled starts as false.                             *)
(***************************************************************************)
THEOREM Invariance == ASSUME FlagStartsFalse PROVE Spec => []IInv
<1>1. Init => IInv
  BY InitIInv
<1>2. IInv /\ [Next]_vars => IInv'
  BY NextIInv
<1>3. QED
  BY <1>1, <1>2, PTL DEF Spec

-----------------------------------------------------------------------------
(***************************************************************************)
(* A work item refers to the ModuleParser until its function is parsed.    *)
(* waitForWorkerThreads() in ExitBlock, whose translators are joined once  *)
(* OptQ is drained, keeps the parser alive that long.                      *)
(***************************************************************************)
THEOREM ParserOutlivesItemsCorrect == ASSUME FlagStartsFalse PROVE Spec => []ParserOutlivesItems
<1>1. IInv => ParserOutlivesItems
  <2>1. SUFFICES ASSUME IInv, ~parserAlive
                 PROVE  optQ = <<>> /\ \A t \in Workers \cup {Main} : trPc[t] # "parse"
    BY DEF ParserOutlivesItems
  <2>2. TypeInv /\ Phases /\ Journey /\ mainPc \in {"compiler", "finish", "done"}
    BY <2>1 DEF IInv, Safe, Phases
  <2>3. optQ = <<>> /\ \A t \in Threads : trPc[t] \in {"idle", "exited"}
    BY <2>2, AllTranslated
  <2>4. QED
    BY <2>3 DEF Threads
<1>2. QED
  BY <1>1, Invariance, PTL

(***************************************************************************)
(* Compiler::run uses DataLowering only when the emitter has been joined   *)
(* (IceGlobalContext.h:499).                                               *)
(***************************************************************************)
THEOREM DataLoweringCorrect == ASSUME FlagStartsFalse PROVE Spec => []DataLoweringSingleThread
<1>1. IInv => DataLoweringSingleThread
  <2>1. SUFFICES ASSUME IInv, mainPc \in {"finish", "done"} PROVE emPc \in {"idle", "exited"}
    BY DEF DataLoweringSingleThread
  <2>2. TypeInv /\ Phases /\ Journey
    BY <2>1 DEF IInv, Safe
  <2>3. emPc \notin {"fetch", "emit"}
    BY <2>1, <2>2, EmitterAtWork
  <2>4. QED
    BY <2>2, <2>3 DEF TypeInv, TypeOK
<1>2. QED
  BY <1>1, Invariance, PTL

LEMMA CodeIsEmittable ==
  ASSUME IInv, NEW i \in CodePieces
  PROVE  output[i].seq \in Emitted /\ output[i].seq \in Emittable
<1> DEFINE q == output[i].seq
<1>1. TypeInv /\ Account /\ ReadErrors
  BY DEF IInv, Safe, Errors
<1>2. q \in SeqNumbers
  BY <1>1, OutputTyped
<1>3. q \in Emitted
  BY <1>2 DEF Emitted
<1> HIDE DEF q
<1>4. q \in 2 .. Popped /\ outcome[FnOf(q)] = "ok"
  BY <1>1, <1>2, <1>3 DEF Account, Translatable
<1>5. /\ nextFn \in 1 .. NumFunctions + 1 /\ NumFunctions \in Nat /\ Functions = 1 .. NumFunctions
      /\ 1 .. nextFn - 1 \subseteq ReadSoFar /\ Popped \in Nat /\ Popped <= nextFn
  BY <1>1, ReadIs, Typed DEF Popped
<1>6. q - 1 \in 1 .. nextFn - 1 /\ q - 1 \in Functions /\ FnOf(q) = q - 1 /\ q = (q - 1) + 1
  BY <1>4, <1>5 DEF FnOf, FirstSequenceNumber
<1>7. q - 1 \in Read
  <2>1. \A k \in 1 .. q - 1 : k \in ReadSoFar
    BY <1>5, <1>6
  <2>2. QED
    BY <1>1, <1>6, <2>1 DEF ReadErrors, Read
<1>8. q = SeqOf(q - 1)
  BY <1>6 DEF SeqOf, FirstSequenceNumber
<1>9. q \in Emittable
  BY <1>4, <1>6, <1>7, <1>8 DEF Emittable
<1>10. QED
  BY <1>3, <1>9 DEF q

(***************************************************************************)
(* The output is deterministic: data first, then each translated function  *)
(* once, in input order up to the shuffling inside a window, whatever the  *)
(* translators' speed and however many there are.                          *)
(***************************************************************************)
THEOREM EmittedInOrderCorrect == ASSUME FlagStartsFalse PROVE Spec => []EmittedInOrder
<1>1. IInv => EmittedInOrder
  <2>1. SUFFICES ASSUME IInv PROVE EmittedInOrder
    OBVIOUS
  <2>2. Accumulated /\ InOrder
    BY <2>1 DEF IInv, Safe
  <2>3. output # <<>> => output[1] = Data(<<FirstSequenceNumber>>)
    BY <2>2 DEF Accumulated, DataOut, DataWaits
  <2>4. \A i \in CodePieces : output[i].seq \in Emittable
    BY <2>1, CodeIsEmittable
  <2>5. QED
    BY <2>2, <2>3, <2>4 DEF EmittedInOrder, InOrder
<1>2. QED
  BY <1>1, Invariance, PTL

LEMMA NothingHeldWhenDone ==
  ASSUME TypeInv, Phases, Journey, mainPc = "done"
  PROVE  Held = {}
<1>1. Working = {}
  BY AllTranslated DEF Working, Active
<1>2. emPc \in {"idle", "exited"}
  BY EmitterAtWork DEF TypeInv, TypeOK
<1>3. emitQ = <<>> /\ DOMAIN em.pending = {}
  <2>1. CASE Threaded
    <3>1. emPc = "exited"
      BY <1>2, <2>1 DEF Phases
    <3>2. QED
      BY <2>1, <3>1 DEF Journey, Reordering
  <2>2. CASE Sequential
    BY <1>2, <2>2 DEF Journey, NestedCalls, Threaded
  <2>3. QED
    BY <2>1, <2>2 DEF Threaded
<1>4. QED
  BY <1>1, <1>3 DEF Held, Queued, Parked

(***************************************************************************)
(* Nothing is lost: when run() ends, every function that was read and      *)
(* could be translated is in the output, with its data when the module     *)
(* parsed.                                                                 *)
(***************************************************************************)
THEOREM EverythingEmittedCorrect == ASSUME FlagStartsFalse PROVE Spec => []EverythingEmitted
<1>1. IInv => EverythingEmitted
  <2>1. SUFFICES ASSUME IInv, mainPc = "done"
                 PROVE  /\ {output[i].seq : i \in CodePieces} = Emittable
                        /\ parseStatus = "none" =>
                             /\ output[Len(output)] = Data([i \in 1 .. Len(output) - 2 |-> output[i + 1].seq])
                             /\ globals = <<>>
    BY DEF EverythingEmitted
  <2>2. TypeInv /\ Phases /\ Journey /\ Account /\ Accumulated /\ ReadErrors
    BY <2>1 DEF IInv, Safe, Errors
  <2>3. DataOut
    BY <2>1, <2>2, NoDataYet DEF Accumulated
  <2>4. Held = {} /\ optQ = <<>> /\ Read = 1 .. nextFn - 1
    BY <2>1, <2>2, NothingHeldWhenDone, AllTranslated, AllRead
  <2>5. /\ nextFn \in 1 .. NumFunctions + 1 /\ NumFunctions \in Nat /\ Popped = nextFn
    BY <2>1, <2>2, <2>4, ReadIs DEF Popped
  <2>6. ASSUME NEW q \in Emittable PROVE \E i \in CodePieces : output[i].seq = q
    <3>1. PICK n \in Read : outcome[n] = "ok" /\ q = n + 1
      BY DEF Emittable, SeqOf, FirstSequenceNumber
    <3>2. q \in 2 .. Popped /\ q \in SeqNumbers /\ FnOf(q) = n
      BY <2>4, <2>5, <3>1, SeqNumbersAre DEF FnOf, FirstSequenceNumber
    <3>3. q \in Emitted
      BY <2>2, <2>4, <3>1, <3>2 DEF Account, Translatable
    <3>4. QED
      BY <3>3 DEF Emitted
  <2>7. \A i \in CodePieces : output[i].seq \in Emittable
    BY <2>1, CodeIsEmittable
  <2>8. {output[i].seq : i \in CodePieces} = Emittable
    BY <2>6, <2>7
  <2>9. parseStatus = "none" => Closed
    BY <2>1, <2>3 DEF DataOut
  <2>10. QED
    BY <2>8, <2>9 DEF Closed
<1>2. QED
  BY <1>1, Invariance, PTL

(***************************************************************************)
(* The exit status depends on the input alone: a translation error, if     *)
(* there is one, is assigned before the parser's verdict.                  *)
(***************************************************************************)
THEOREM StatusCorrect == ASSUME FlagStartsFalse PROVE Spec => []StatusIsDeterministic
<1>1. IInv => StatusIsDeterministic
  BY DEF IInv, Safe
<1>2. QED
  BY <1>1, Invariance, PTL

=============================================================================
