------------------------ MODULE TranslationPipeline ------------------------
(***************************************************************************)
(* How a module flows through the translator: the main thread parses it    *)
(* and numbers its pieces, translator threads turn functions into code,    *)
(* and one emitter thread puts everything back into order.  The threads    *)
(* meet in two work queues, OptQ and EmitQ (instances of WorkQueue), and   *)
(* at the end in waitForWorkerThreads().  With no worker threads the same  *)
(* functions run nested inside the pushes of the main thread.              *)
(*                                                                         *)
(* Sources: IceGlobalContext.{h,cpp}, IceTranslator.{h,cpp},               *)
(* PNaClTranslator.cpp (ModuleParser, CfgParserWorkItem, translate()),     *)
(* IceCompiler.cpp (Compiler::run).                                        *)
(***************************************************************************)
EXTENDS Naturals, Sequences, FiniteSets

CONSTANTS NumFunctions,   \* bound: function blocks in the input
          Workers,        \* threads that can be translation threads
          Main,           \* the main thread, which parses
          FlagChoices,    \* the command lines considered
          Outcomes,       \* what can become of a function block
          MaxOptQSize,    \* slots of OptQ's array
          EmitQSize,      \* slots of EmitQ's array
          WaitCalledAtStart  \* values WaitForWorkerThreadsCalled may start with

Functions == 1 .. NumFunctions

(***************************************************************************)
(* The outcomes of a function block: translated, excluded by               *)
(* -translate-only, rejected by the translator, rejected by the parser, or *)
(* so truncated that the parser of a parallel parse cannot skip it.        *)
(***************************************************************************)
AllOutcomes == {"ok", "excluded", "badTranslate", "badParse", "badBlock"}

ASSUME PipelineAssumption ==
  /\ NumFunctions \in Nat
  /\ IsFiniteSet(Workers)
  /\ Main \notin Workers
  /\ Outcomes \subseteq AllOutcomes
  /\ MaxOptQSize \in Nat \ {0}
  /\ EmitQSize \in Nat \ {0}
  /\ WaitCalledAtStart \subseteq BOOLEAN
  /\ \A f \in FlagChoices :
       /\ f.workers \subseteq Workers
       /\ f.parallel \in BOOLEAN
       /\ f.parallel => f.workers # {}
       /\ f.reorder \in BOOLEAN
       /\ f.window \in Nat

VARIABLES
  flags,        \* the parsed command line
  outcome,      \* what becomes of each function block of this input
  mainPc,       \* where the main thread is
  nextFn,       \* the next function block to read
  nextSeq,      \* Translator::NextSequenceNumber
  blockFailed,  \* ParseBlock returned true
  parserAlive,  \* the ModuleParser of the module block exists
  waitCalled,   \* WaitForWorkerThreadsCalled
  optQ,         \* functions to translate: their sequence numbers
  optEnded,     \* OptQ's IsEnded
  emitQ,        \* items to emit
  emitEnded,    \* EmitQ's IsEnded
  trPc,         \* where each translator thread (or nested call) is
  trSeq,        \* the function each one works on
  emPc,         \* where the emitter (or nested call of emitItems) is
  em,           \* the local variables of emitItems()
  globals,      \* Globals: declaration lists waiting to be lowered
  hasSeenCode,  \* HasSeenCode
  output,       \* what DataLowering and the object writer have produced
  parseStatus,  \* Translator::ErrorStatus
  ctxStatus     \* GlobalContext::ErrorStatus

mainVars == <<mainPc, nextFn, nextSeq, blockFailed, parserAlive, waitCalled>>
queueVars == <<optQ, optEnded, emitQ, emitEnded>>
trVars == <<trPc, trSeq>>
emVars == <<emPc, em>>
outVars == <<globals, hasSeenCode, output>>
statusVars == <<parseStatus, ctxStatus>>
vars == <<flags, outcome, mainVars, queueVars, trVars, emVars, outVars, statusVars>>

OptQ == INSTANCE WorkQueue WITH
  Item <- Nat, Consumer <- Workers, NoItem <- Main,
  items <- optQ, ended <- optEnded, got <- trSeq
EmitQ == INSTANCE WorkQueue WITH
  Item <- Nat, Consumer <- {Main}, NoItem <- Main,
  items <- emitQ, ended <- emitEnded, got <- em

Sequential == flags.workers = {}
Threaded == ~Sequential

(***************************************************************************)
(* Sequence numbers: the global initializers get the first, function block *)
(* n the n-th after it.                                                    *)
(***************************************************************************)
FirstSequenceNumber == 1
FnOf(seq) == seq - FirstSequenceNumber
SeqOf(fn) == fn + FirstSequenceNumber

GlobalInits(seq) == [seq |-> seq, kind |-> "GlobalInits"]
Nop(seq) == [seq |-> seq, kind |-> "Nop"]
Code(seq) == [seq |-> seq, kind |-> "Code"]  \* WI_Asm or WI_Cfg
NoItem == [seq |-> 0, kind |-> "none"]

AssignAlways(status, code) == code  \* faulty: a later error replaces the first
Assign(status, code) == IF status = "none" THEN code ELSE status

(***************************************************************************)
(* lowerGlobals() writes out everything accumulated so far, and once only. *)
(***************************************************************************)
Data(list) == [kind |-> "data", list |-> list]
Text(seq) == [kind |-> "code", seq |-> seq]

EmitterLocals ==
  [pending |-> <<>>, desired |-> FirstSequenceNumber, start |-> FirstSequenceNumber,
   end |-> FirstSequenceNumber, queueEmpty |-> FALSE]

-----------------------------------------------------------------------------
(***************************************************************************)
(* startWorkerThreads() has run: the workers and the emitter are inside    *)
(* their loops, or there are none.                                         *)
(***************************************************************************)
Init ==
  /\ flags \in FlagChoices
  /\ outcome \in [Functions -> IF flags.parallel THEN Outcomes ELSE Outcomes \ {"badBlock"}]
  /\ mainPc = "install"
  /\ nextFn = 1
  /\ nextSeq = FirstSequenceNumber
  /\ blockFailed = FALSE
  /\ parserAlive = TRUE
  /\ waitCalled \in WaitCalledAtStart
  /\ optQ = <<>> /\ optEnded = FALSE
  /\ emitQ = <<>> /\ emitEnded = FALSE
  /\ trPc = [t \in Workers \cup {Main} |-> IF t \in flags.workers THEN "pop" ELSE "idle"]
  /\ trSeq = [t \in Workers \cup {Main} |-> 0]
  /\ emPc = IF Sequential THEN "idle" ELSE "fetch"
  /\ em = EmitterLocals
  /\ globals = <<>>
  /\ hasSeenCode = FALSE
  /\ output = <<>>
  /\ parseStatus = "none"
  /\ ctxStatus = "none"

(***************************************************************************)
(* Without workers, emitQueueBlockingPush() calls emitItems() and          *)
(* optQueueBlockingPush() calls translateFunctions(): the caller goes on   *)
(* when the nested loop has found its queue empty.                         *)
(***************************************************************************)
NestedEmitterReturned == Sequential => emPc = "idle"
NestedCallsReturned == NestedEmitterReturned /\ (Sequential => trPc[Main] = "idle")

EmitQueueBlockingPush(item) ==
  /\ EmitQ!Push(item, EmitQSize, Sequential)
  /\ IF Sequential
     THEN emPc' = "fetch" /\ em' = EmitterLocals
     ELSE UNCHANGED emVars

OptQSize ==
  IF flags.parallel \/ MaxOptQSize < Cardinality(flags.workers)
  THEN MaxOptQSize
  ELSE Cardinality(flags.workers)

OptQueueBlockingPush(seq) ==
  /\ OptQ!Push(seq, OptQSize, Sequential)
  /\ IF Sequential
     THEN trPc' = [trPc EXCEPT ![Main] = "pop"]
     ELSE UNCHANGED trPc

-----------------------------------------------------------------------------
(***************************************************************************)
(* The main thread.  installGlobalNamesAndGlobalVarInitializers() runs     *)
(* once, before the first function block or at the end of a module that    *)
(* has none.                                                               *)
(***************************************************************************)
InstallGlobals ==
  /\ mainPc = "install"
  /\ EmitQueueBlockingPush(GlobalInits(nextSeq))
  /\ nextSeq' = nextSeq + 1
  /\ mainPc' = "parse"
  /\ UNCHANGED <<flags, outcome, nextFn, blockFailed, parserAlive, waitCalled,
                 optQ, optEnded, trVars, outVars, statusVars>>

(***************************************************************************)
(* A function block takes a sequence number, is parsed or (in a parallel   *)
(* parse) skipped, and is then pushed.  A parse error sets the             *)
(* translator's status and marks the function; the parse goes on, with     *)
(* error recovery allowed.                                                 *)
(***************************************************************************)
ReadFunctionBlock ==
  /\ mainPc = "parse"
  /\ NestedCallsReturned
  /\ nextFn \in Functions
  /\ ~(flags.parallel /\ outcome[nextFn] = "badBlock")
  /\ nextSeq' = nextSeq + 1
  /\ parseStatus' = IF ~flags.parallel /\ outcome[nextFn] = "badParse"
                    THEN Assign(parseStatus, "Bitcode")
                    ELSE parseStatus
  /\ mainPc' = "push"
  /\ UNCHANGED <<flags, outcome, nextFn, blockFailed, parserAlive, waitCalled,
                 queueVars, trVars, emVars, outVars, ctxStatus>>

(***************************************************************************)
(* SkipBlock() failed: the sequence number is used up, nothing is pushed,  *)
(* and no further block is read.                                           *)
(***************************************************************************)
SkipBlockFailedAtOnce ==  \* faulty: leaves the module without ExitBlock()
  /\ mainPc = "parse"
  /\ nextFn \in Functions
  /\ flags.parallel
  /\ outcome[nextFn] = "badBlock"
  /\ nextSeq' = nextSeq + 1
  /\ blockFailed' = TRUE
  /\ mainPc' = "exited"
  /\ UNCHANGED <<flags, outcome, nextFn, parserAlive, waitCalled,
                 queueVars, trVars, emVars, outVars, statusVars>>

SkipBlockFailed ==
  /\ mainPc = "parse"
  /\ nextFn \in Functions
  /\ flags.parallel
  /\ outcome[nextFn] = "badBlock"
  /\ nextSeq' = nextSeq + 1
  /\ blockFailed' = TRUE
  /\ mainPc' = "exitBlock"
  /\ UNCHANGED <<flags, outcome, nextFn, parserAlive, waitCalled,
                 queueVars, trVars, emVars, outVars, statusVars>>

PushFunction ==
  /\ mainPc = "push"
  /\ OptQueueBlockingPush(nextSeq - 1)
  /\ nextFn' = nextFn + 1
  /\ mainPc' = "parse"
  /\ UNCHANGED <<flags, outcome, nextSeq, blockFailed, parserAlive, waitCalled,
                 emitQ, emitEnded, trSeq, emVars, outVars, statusVars>>

EndOfModule ==
  /\ mainPc = "parse"
  /\ NestedCallsReturned
  /\ nextFn > NumFunctions
  /\ mainPc' = "exitBlock"
  /\ UNCHANGED <<flags, outcome, nextFn, nextSeq, blockFailed, parserAlive, waitCalled,
                 queueVars, trVars, emVars, outVars, statusVars>>

(***************************************************************************)
(* waitForWorkerThreads() is called by ModuleParser::ExitBlock, whether or *)
(* not the block parsed, and again by Compiler::run.  The first call ends  *)
(* OptQ, joins the translators, ends EmitQ and joins the emitter; later    *)
(* calls return at once.                                                   *)
(***************************************************************************)
AfterWait(caller) == IF caller = "exitBlock" THEN "exited" ELSE "finish"

WaitAgain ==
  /\ mainPc \in {"exitBlock", "compiler"}
  /\ waitCalled
  /\ mainPc' = AfterWait(mainPc)
  /\ UNCHANGED <<flags, outcome, nextFn, nextSeq, blockFailed, parserAlive, waitCalled,
                 queueVars, trVars, emVars, outVars, statusVars>>

WaitFirst ==
  /\ mainPc = "exitBlock"
  /\ ~waitCalled
  /\ waitCalled' = TRUE
  /\ OptQ!NotifyEnd
  /\ mainPc' = "joinTranslators"
  /\ UNCHANGED <<flags, outcome, nextFn, nextSeq, blockFailed, parserAlive,
                 emitQ, emitEnded, trVars, emVars, outVars, statusVars>>

TranslatorsJoined == \A t \in flags.workers : trPc[t] = "exited"
EmitterJoinForgotten == TRUE  \* faulty: returns while the emitter still runs
EmitterJoined == Threaded => emPc = "exited"

JoinTranslators ==
  /\ mainPc = "joinTranslators"
  /\ TranslatorsJoined
  /\ EmitQ!NotifyEnd
  /\ mainPc' = "joinEmitter"
  /\ UNCHANGED <<flags, outcome, nextFn, nextSeq, blockFailed, parserAlive, waitCalled,
                 optQ, optEnded, trVars, emVars, outVars, statusVars>>

JoinEmitter ==
  /\ mainPc = "joinEmitter"
  /\ EmitterJoined
  /\ mainPc' = AfterWait("exitBlock")
  /\ UNCHANGED <<flags, outcome, nextFn, nextSeq, blockFailed, parserAlive, waitCalled,
                 queueVars, trVars, emVars, outVars, statusVars>>

(***************************************************************************)
(* The ModuleParser goes out of scope; translate() records a failed parse. *)
(***************************************************************************)
LeaveModule ==
  /\ mainPc = "exited"
  /\ parserAlive' = FALSE
  /\ parseStatus' = IF blockFailed THEN Assign(parseStatus, "Bitcode") ELSE parseStatus
  /\ mainPc' = "compiler"
  /\ UNCHANGED <<flags, outcome, nextFn, nextSeq, blockFailed, waitCalled,
                 queueVars, trVars, emVars, outVars, ctxStatus>>

(***************************************************************************)
(* The end of Compiler::run.                                               *)
(***************************************************************************)
Finish ==
  /\ mainPc = "finish"
  /\ IF parseStatus # "none"
     THEN /\ ctxStatus' = Assign(ctxStatus, parseStatus)
          /\ UNCHANGED <<globals, output>>
     ELSE /\ output' = Append(output, Data(globals))
          /\ globals' = <<>>
          /\ UNCHANGED ctxStatus
  /\ mainPc' = "done"
  /\ UNCHANGED <<flags, outcome, nextFn, nextSeq, blockFailed, parserAlive, waitCalled,
                 queueVars, trVars, emVars, hasSeenCode, parseStatus>>

-----------------------------------------------------------------------------
(***************************************************************************)
(* translateFunctions(): pop, parse the function if that was left to the   *)
(* translator, translate, push the result, until there is no more work.    *)
(***************************************************************************)
PopFunction(t) ==
  /\ trPc[t] = "pop"
  /\ NestedEmitterReturned
  /\ \/ /\ OptQ!TakeHead
        /\ trSeq' = [trSeq EXCEPT ![t] = Head(optQ)]
        /\ trPc' = [trPc EXCEPT ![t] = IF flags.parallel THEN "parse" ELSE "translate"]
     \/ /\ OptQ!TakeNothing(Sequential)
        /\ trPc' = [trPc EXCEPT ![t] = IF Sequential THEN "idle" ELSE "exited"]
        /\ UNCHANGED trSeq
  /\ UNCHANGED <<flags, outcome, mainVars, emitQ, emitEnded, emVars, outVars, statusVars>>

(***************************************************************************)
(* getParsedCfg() of a CfgParserWorkItem runs the FunctionParser on the    *)
(* copied bits; it uses the ModuleParser throughout.                       *)
(***************************************************************************)
GetParsedCfg(t) ==
  /\ trPc[t] = "parse"
  /\ parseStatus' = IF outcome[FnOf(trSeq[t])] = "badParse"
                    THEN Assign(parseStatus, "Bitcode")
                    ELSE parseStatus
  /\ trPc' = [trPc EXCEPT ![t] = "translate"]
  /\ UNCHANGED <<flags, outcome, mainVars, queueVars, trSeq, emVars, outVars, ctxStatus>>

(***************************************************************************)
(* A function that was rejected or excluded leaves a placeholder, so that  *)
(* the emitter finds every sequence number.                                *)
(***************************************************************************)
Rejected(seq) == outcome[FnOf(seq)] \in {"badTranslate", "badParse"}
ResultItem(seq) == IF outcome[FnOf(seq)] = "ok" THEN Code(seq) ELSE Nop(seq)

Translate(t) ==
  /\ trPc[t] = "translate"
  /\ ctxStatus' = IF Rejected(trSeq[t]) THEN Assign(ctxStatus, "Translation") ELSE ctxStatus
  /\ trPc' = [trPc EXCEPT ![t] = "push"]
  /\ UNCHANGED <<flags, outcome, mainVars, queueVars, trSeq, emVars, outVars, parseStatus>>

PushResult(t) ==
  /\ trPc[t] = "push"
  /\ EmitQueueBlockingPush(ResultItem(trSeq[t]))
  /\ trPc' = [trPc EXCEPT ![t] = "pop"]
  /\ UNCHANGED <<flags, outcome, mainVars, optQ, optEnded, trSeq, outVars, statusVars>>

-----------------------------------------------------------------------------
(***************************************************************************)
(* emitItems(): collect items until the desired one is there, and emit a   *)
(* window of them, possibly shuffled.                                      *)
(***************************************************************************)
Shuffle == Threaded /\ flags.reorder
ShuffleWindowSize == IF flags.window > 1 THEN flags.window ELSE 1
HaveDesired == em.desired \in DOMAIN em.pending
Keep(index, item) ==
  [i \in DOMAIN em.pending \cup {index} |-> IF i = index THEN item ELSE em.pending[i]]

(***************************************************************************)
(* The desired item is in hand: advance, and emit unless the window of a   *)
(* shuffle is still growing.                                               *)
(***************************************************************************)
Growing(item) ==
  Shuffle /\ em.end + 1 - em.start < ShuffleWindowSize /\ item.kind # "GlobalInits"

Advance(item, pending) ==
  /\ em' = [em EXCEPT !.pending = pending, !.desired = @ + 1, !.end = @ + 1]
  /\ emPc' = IF Growing(item) THEN "fetch" ELSE "emit"

FetchItemAsItComes ==  \* faulty: emits items in the order they arrive
  /\ emPc = "fetch"
  /\ ~HaveDesired
  /\ EmitQ!TakeHead
  /\ Advance(Head(emitQ), Keep(em.desired, Head(emitQ)))
  /\ UNCHANGED <<flags, outcome, mainVars, optQ, optEnded, trVars, outVars, statusVars>>

FetchItem ==
  /\ emPc = "fetch"
  /\ ~HaveDesired
  /\ EmitQ!TakeHead
  /\ LET item == Head(emitQ) IN
       IF Threaded /\ item.seq # em.desired
       THEN /\ em' = [em EXCEPT !.pending = Keep(item.seq, item)]
            /\ UNCHANGED emPc
       ELSE Advance(item, Keep(em.desired, item))
  /\ UNCHANGED <<flags, outcome, mainVars, optQ, optEnded, trVars, outVars, statusVars>>

TakePending ==
  /\ emPc = "fetch"
  /\ HaveDesired
  /\ Advance(em.pending[em.desired], em.pending)
  /\ UNCHANGED <<flags, outcome, mainVars, queueVars, trVars, outVars, statusVars>>

FetchNothingAndLeave ==  \* faulty: the window that was still growing is dropped
  /\ emPc = "fetch"
  /\ ~HaveDesired
  /\ EmitQ!TakeNothing(Sequential)
  /\ em' = [em EXCEPT !.queueEmpty = TRUE, !.pending = <<>>]
  /\ emPc' = "emit"
  /\ UNCHANGED <<flags, outcome, mainVars, optQ, optEnded, trVars, outVars, statusVars>>

FetchNothingAndRetry ==  \* faulty: the end of the queue is taken for a late item
  /\ emPc = "fetch"
  /\ ~HaveDesired
  /\ EmitQ!TakeNothing(Sequential)
  /\ emPc' = "emit"
  /\ UNCHANGED <<flags, outcome, mainVars, optQ, optEnded, trVars, em, outVars, statusVars>>

FetchNothing ==
  /\ emPc = "fetch"
  /\ ~HaveDesired
  /\ EmitQ!TakeNothing(Sequential)
  /\ em' = [em EXCEPT !.queueEmpty = TRUE]
  /\ emPc' = "emit"
  /\ UNCHANGED <<flags, outcome, mainVars, optQ, optEnded, trVars, outVars, statusVars>>

(***************************************************************************)
(* The window holds the indices from start to end.  RandomShuffle()        *)
(* permutes its items and the loop takes them by index, which is to take   *)
(* any of them next.                                                       *)
(***************************************************************************)
Window == {i \in DOMAIN em.pending : em.start <= i /\ i < em.end}
MayEmit(i) == i \in Window /\ (Shuffle \/ \A j \in Window : i <= j)
Without(i) == [j \in DOMAIN em.pending \ {i} |-> em.pending[j]]

LowerGlobalsIfNoCodeHasBeenSeen(more, pieces) ==
  /\ output' = (IF hasSeenCode THEN output ELSE Append(output, Data(globals))) \o pieces
  /\ globals' = (IF hasSeenCode THEN globals ELSE <<>>) \o more
  /\ hasSeenCode' = TRUE

EmitItem ==
  /\ emPc = "emit"
  /\ \E i \in DOMAIN em.pending :
       LET item == em.pending[i] IN
       /\ MayEmit(i)
       /\ em' = [em EXCEPT !.pending = Without(i)]
       /\ CASE item.kind = "Nop" -> UNCHANGED outVars
            [] item.kind = "GlobalInits" ->
                 /\ globals' = Append(globals, item.seq)
                 /\ UNCHANGED <<hasSeenCode, output>>
            [] item.kind = "Code" ->
                 LowerGlobalsIfNoCodeHasBeenSeen(<<item.seq>>, <<Text(item.seq)>>)
  /\ UNCHANGED <<flags, outcome, mainVars, queueVars, trVars, emPc, statusVars>>

NextWindow ==
  /\ emPc = "emit"
  /\ Window = {}
  /\ ~em.queueEmpty
  /\ em' = [em EXCEPT !.start = em.end]
  /\ emPc' = "fetch"
  /\ UNCHANGED <<flags, outcome, mainVars, queueVars, trVars, outVars, statusVars>>

EndOfItems ==
  /\ emPc = "emit"
  /\ Window = {}
  /\ em.queueEmpty
  /\ LowerGlobalsIfNoCodeHasBeenSeen(<<>>, <<>>)
  /\ emPc' = IF Sequential THEN "idle" ELSE "exited"
  /\ UNCHANGED <<flags, outcome, mainVars, queueVars, trVars, em, statusVars>>

-----------------------------------------------------------------------------
Terminated == mainPc = "done" /\ UNCHANGED vars

MainStep ==
  \/ InstallGlobals
  \/ ReadFunctionBlock
  \/ SkipBlockFailed
  \/ PushFunction
  \/ EndOfModule
  \/ WaitFirst
  \/ WaitAgain
  \/ JoinTranslators
  \/ JoinEmitter
  \/ LeaveModule
  \/ Finish
TranslatorStep(t) == PopFunction(t) \/ GetParsedCfg(t) \/ Translate(t) \/ PushResult(t)
EmitterStep == FetchItem \/ TakePending \/ FetchNothing \/ EmitItem \/ NextWindow \/ EndOfItems

Next ==
  \/ MainStep
  \/ \E t \in Workers \cup {Main} : TranslatorStep(t)
  \/ EmitterStep
  \/ Terminated

Spec == Init /\ [][Next]_vars

(***************************************************************************)
(* Threads keep running.  A push or a pop that blocks is woken when it can *)
(* proceed: module BoundedProducerConsumerQueue shows the queue to lose no *)
(* wakeup.                                                                 *)
(***************************************************************************)
FairSpec ==
  /\ Spec
  /\ WF_vars(MainStep)
  /\ \A t \in Workers \cup {Main} : WF_vars(TranslatorStep(t))
  /\ WF_vars(EmitterStep)

-----------------------------------------------------------------------------
(***************************************************************************)
(* Types.                                                                  *)
(***************************************************************************)
Statuses == {"none", "Translation", "Bitcode"}
SeqNumbers == FirstSequenceNumber .. NumFunctions + 1
ItemSet == [seq : SeqNumbers, kind : {"GlobalInits", "Nop", "Code"}]

TypeOK ==
  /\ flags \in FlagChoices
  /\ outcome \in [Functions -> Outcomes]
  /\ mainPc \in {"install", "parse", "push", "exitBlock", "joinTranslators", "joinEmitter",
                 "exited", "compiler", "finish", "done"}
  /\ nextFn \in 1 .. NumFunctions + 1
  /\ nextSeq \in 1 .. NumFunctions + 2
  /\ blockFailed \in BOOLEAN
  /\ parserAlive \in BOOLEAN
  /\ waitCalled \in BOOLEAN
  /\ optQ \in Seq(SeqNumbers)
  /\ Threaded => Len(optQ) <= OptQSize
  /\ optEnded \in BOOLEAN
  /\ emitQ \in Seq(ItemSet)
  /\ Threaded => Len(emitQ) <= EmitQSize
  /\ emitEnded \in BOOLEAN
  /\ trPc \in [Workers \cup {Main} -> {"idle", "pop", "parse", "translate", "push", "exited"}]
  /\ trSeq \in [Workers \cup {Main} -> 0 .. NumFunctions + 1]
  /\ emPc \in {"idle", "fetch", "emit", "exited"}
  /\ \A i \in DOMAIN em.pending : em.pending[i] \in ItemSet
  /\ em.start <= em.end /\ em.end = em.desired
  /\ hasSeenCode \in BOOLEAN
  /\ parseStatus \in Statuses
  /\ ctxStatus \in Statuses

(***************************************************************************)
(* The functions that are read before the parse stops.                     *)
(***************************************************************************)
Read == {n \in Functions : \A k \in 1 .. n : outcome[k] # "badBlock"}
Emittable == {SeqOf(n) : n \in {k \in Read : outcome[k] = "ok"}}

CodePieces == {i \in DOMAIN output : output[i].kind = "code"}

(***************************************************************************)
(* The window of a sequence number.  It depends on the number alone, never *)
(* on which thread was faster.                                             *)
(***************************************************************************)
WindowOf(seq) == IF Shuffle THEN FnOf(seq) - 1 - ((FnOf(seq) - 1) % ShuffleWindowSize) ELSE seq

(***************************************************************************)
(* The output is deterministic: the global data comes first, then each     *)
(* translated function once, in input order up to the shuffling inside a   *)
(* window, whatever the interleaving of translators and emitter.           *)
(***************************************************************************)
EmittedInOrder ==
  /\ output # <<>> => output[1] = Data(<<FirstSequenceNumber>>)
  /\ \A i, j \in CodePieces :
       i < j => /\ output[i].seq # output[j].seq
                /\ WindowOf(output[i].seq) <= WindowOf(output[j].seq)
  /\ \A i \in CodePieces : output[i].seq \in Emittable

(***************************************************************************)
(* Nothing is lost: at the end every translated function has been emitted, *)
(* and its data with it when the module parsed.                            *)
(***************************************************************************)
EverythingEmitted ==
  mainPc = "done" =>
    /\ {output[i].seq : i \in CodePieces} = Emittable
    /\ parseStatus = "none" =>
         /\ output[Len(output)] = Data([i \in 1 .. Len(output) - 2 |-> output[i + 1].seq])
         /\ globals = <<>>

(***************************************************************************)
(* The exit status does not depend on the interleaving either: the first   *)
(* error assigned to an ErrorCode stays, and a translation error always    *)
(* comes before the parser's verdict.                                      *)
(***************************************************************************)
StatusIsDeterministic ==
  mainPc = "done" =>
    ctxStatus = IF \E n \in Read : outcome[n] \in {"badTranslate", "badParse"}
                THEN "Translation"
                ELSE IF Read # Functions THEN "Bitcode" ELSE "none"

(***************************************************************************)
(* Work items point to the ModuleParser on the main thread's stack, so it  *)
(* outlives every one of them, also when the parse fails half-way.         *)
(***************************************************************************)
ParserOutlivesItems ==
  ~parserAlive => optQ = <<>> /\ \A t \in Workers \cup {Main} : trPc[t] # "parse"

(***************************************************************************)
(* "DataLowering is only ever used by a single thread at a time (either in *)
(* emitItems(), or in IceCompiler::run before the compilation is over.)"   *)
(* (IceGlobalContext.h:499)                                                *)
(***************************************************************************)
DataLoweringSingleThread ==
  mainPc \in {"finish", "done"} => emPc \in {"idle", "exited"}

(***************************************************************************)
(* The compilation ends although the main thread, the translators and the  *)
(* emitter block on each other's queues.                                   *)
(***************************************************************************)
CompilationEnds == <>(mainPc = "done")

=============================================================================
