---------------------- MODULE BrowserCompileServerProofs ----------------------
(***************************************************************************)
(* Proofs about the compile server, for any number of translators and      *)
(* functions and any sizes of the queues.                                  *)
(*                                                                         *)
(* That a success is a whole output needs an account of where the          *)
(* functions are (Counted), which is exact as long as nobody fails, and of *)
(* the order in which the threads end (Starting, Closing, Drained): only   *)
(* then the last counts are zero.                                          *)
(***************************************************************************)
EXTENDS BrowserCompileServer, FiniteSetTheorems, TLAPS

One(condition) == IF condition THEN 1 ELSE 0

(***************************************************************************)
(* Where the functions are that have been read: in the hands of the        *)
(* parser, in OptQ, with a translator, in EmitQ, with the emitter or in    *)
(* the output.  Those missing were lost by a thread that failed.           *)
(***************************************************************************)
Busy == {t \in Translators : translator[t] \in {"translate", "push"}}
Count == One(parser = "push") + optQ + Cardinality(Busy) + emitQ + One(emitter = "emit") + emitted
NobodyFails ==
  /\ parser \notin Ends
  /\ emitter \notin Ends
  /\ \A t \in Translators : translator[t] \notin Ends
Counted == Count <= got /\ (NobodyFails => Count = got)

(***************************************************************************)
(* The threads start in order.                                             *)
(***************************************************************************)
Starting ==
  /\ server = "init" => parser = "none"
  /\ parser \in {"none", "start"} => emitter = "none" /\ \A t \in Translators : translator[t] = "none"
  /\ emitter = "none" => parser \in {"none", "start"}

(***************************************************************************)
(* The queues are closed in order, each when nothing comes any more, and   *)
(* the threads are joined in order.                                        *)
(***************************************************************************)
Gone == {"exited", "dead"}
Closing ==
  /\ optEnded => parser \in {"joinTranslators", "joinEmitter", "next", "lower", "ended"} \cup Ends
  /\ emitEnded => /\ parser \in {"joinEmitter", "next", "lower", "ended"} \cup Ends
                  /\ \A t \in Translators : translator[t] \in Gone
  /\ parser = "joinEmitter" => emitEnded
  /\ parser \in {"next", "lower", "ended"} => emitEnded /\ emitter \in Gone

(***************************************************************************)
(* A worker leaves its loop only when its queue is closed and empty.       *)
(***************************************************************************)
Drained ==
  /\ (\E t \in Translators : translator[t] = "exited") => optQ = 0 /\ optEnded
  /\ emitter = "exited" => emitQ = 0 /\ emitEnded

(***************************************************************************)
(* Behind the parse, the whole module has been read, or the parse has      *)
(* failed, or the context has an error.  translate() notes a failure when  *)
(* the threads have been joined, and run() passes it on to the context.    *)
(* Who is dead has set HadError.                                           *)
(***************************************************************************)
Noted ==
  /\ parser \in {"wait", "joinTranslators", "joinEmitter", "next", "lower", "ended"} =>
       got = NumFunctions \/ parseFailed \/ status
  /\ ~flags.buildOnRead => parser \in {"none", "start"} \/ status
  /\ parser \in {"lower", "ended"} /\ parseFailed => parseStatus \/ status
  /\ parser = "ended" /\ parseStatus => status
  /\ parser \in {"signal", "dead"} => HadError
  /\ emitter \in {"signal", "dead"} => HadError
  /\ \A t \in Translators : translator[t] \in {"signal", "dead"} => HadError

IInv ==
  TypeOK /\ Counted /\ Starting /\ Closing /\ Drained /\ Noted /\ ErrorsAreReported

-----------------------------------------------------------------------------
(***************************************************************************)
(* Counting the translators that have a function in hand.                  *)
(***************************************************************************)
LEMMA BusyCount == IsFiniteSet(Busy) /\ Cardinality(Busy) \in Nat
<1>1. IsFiniteSet(Translators) /\ Busy \subseteq Translators
  BY ServerAssumption DEF Busy
<1>2. IsFiniteSet(Busy)
  BY <1>1, FS_Subset
<1>3. QED
  BY <1>2, FS_CardinalityType

LEMMA NobodyBusy ==
  ASSUME \A t \in Translators : translator[t] \notin {"translate", "push"}
  PROVE  Cardinality(Busy) = 0
<1>1. Busy = {}
  BY DEF Busy
<1>2. QED
  BY <1>1, FS_EmptySet

LEMMA BusyJoins ==
  ASSUME TypeOK, NEW t \in Translators, NEW pc \in {"translate", "push"},
         translator[t] \notin {"translate", "push"},
         translator' = [translator EXCEPT ![t] = pc]
  PROVE  Cardinality(Busy') = Cardinality(Busy) + 1
<1>1. Busy' = Busy \cup {t} /\ t \notin Busy
  BY DEF Busy, TypeOK
<1>2. QED
  BY <1>1, BusyCount, FS_AddElement

LEMMA BusyLeaves ==
  ASSUME TypeOK, NEW t \in Translators, NEW pc,
         pc \notin {"translate", "push"},
         translator[t] \in {"translate", "push"},
         translator' = [translator EXCEPT ![t] = pc]
  PROVE  Cardinality(Busy') = Cardinality(Busy) - 1
<1>1. Busy' = Busy \ {t} /\ t \in Busy
  BY DEF Busy, TypeOK
<1>2. QED
  BY <1>1, BusyCount, FS_RemoveElement

LEMMA BusyStays ==
  ASSUME TypeOK, NEW t \in Translators, NEW pc,
         translator[t] \in {"translate", "push"} <=> pc \in {"translate", "push"},
         translator' = [translator EXCEPT ![t] = pc]
  PROVE  Cardinality(Busy') = Cardinality(Busy)
<1>1. Busy' = Busy
  BY DEF Busy, TypeOK
<1>2. QED
  BY <1>1

-----------------------------------------------------------------------------
(***************************************************************************)
(* What does not concern the workers leaves the account as it is.          *)
(***************************************************************************)
accounts == <<flags, parse, queues, translator, emitter, emitted, errors>>

LEMMA AccountsUnchanged ==
  ASSUME IInv, UNCHANGED accounts, HadError => HadError'
  PROVE  Counted' /\ Closing' /\ Drained' /\ Noted'
<1> USE DEF IInv, accounts, parse, queues, errors
<1>1. Busy' = Busy
  BY DEF Busy
<1>2. Counted'
  BY <1>1 DEF Counted, Count, NobodyFails
<1>3. Closing' /\ Drained'
  BY DEF Closing, Drained
<1>4. Noted'
  BY DEF Noted
<1>5. QED
  BY <1>2, <1>3, <1>4

(***************************************************************************)
(* Once a success has been answered, every thread has ended.               *)
(***************************************************************************)
LEMMA SuccessStays ==
  ASSUME IInv, UNCHANGED answer,
         answer = "ok" => UNCHANGED <<emitted, parser, emitter, translator>>
  PROVE  ErrorsAreReported'
BY DEF IInv, ErrorsAreReported
-----------------------------------------------------------------------------
LEMMA InitInv == Init => IInv
<1> SUFFICES ASSUME Init
             PROVE  IInv
  OBVIOUS
<1> USE DEF Init
<1>1. TypeOK
  <2>1. translator \in [Translators -> {"none", "pop", "translate", "push", "exited"} \cup Ends]
    OBVIOUS
  <2>2. /\ offered \in 0 .. NumPieces /\ buffer \in 0 .. BufferSize /\ got \in 0 .. NumFunctions
        /\ optQ \in 0 .. OptQSize /\ emitQ \in 0 .. EmitQSize /\ emitted \in 0 .. NumFunctions
    BY ServerAssumption
  <2>3. /\ Done \in BOOLEAN /\ HadError \in BOOLEAN /\ status \in BOOLEAN /\ parseStatus \in BOOLEAN
        /\ parseFailed \in BOOLEAN /\ optEnded \in BOOLEAN /\ emitEnded \in BOOLEAN
    OBVIOUS
  <2>4. QED
    BY <2>1, <2>2, <2>3, Zenon DEF TypeOK
<1>2. Cardinality(Busy) = 0
  BY NobodyBusy
<1>3. Counted
  BY <1>2 DEF Counted, Count, One
<1>4. Starting /\ Closing /\ Drained /\ Noted
  BY DEF Starting, Closing, Drained, Noted, Ends, Gone
<1>5. QED
  BY <1>1, <1>3, <1>4 DEF IInv, ErrorsAreReported

-----------------------------------------------------------------------------
(***************************************************************************)
(* The server thread.                                                      *)
(***************************************************************************)
LEMMA OnInitInv == ASSUME IInv, OnInit PROVE IInv'
<1> USE DEF OnInit, stream, errors, queues
<1>1. TypeOK'
  BY DEF IInv, TypeOK
<1>2. emitter = "none" /\ \A t \in Translators : translator[t] = "none"
  BY DEF IInv, Starting
<1>3. parser = "none" /\ parser' = "start"
  BY DEF IInv, Starting
<1>4. Busy' = Busy
  BY DEF Busy
<1>5. Counted'
  BY <1>3, <1>4 DEF IInv, Counted, Count, NobodyFails, Ends, One
<1>6. Starting' /\ Closing' /\ Drained' /\ Noted'
  BY <1>2, <1>3 DEF IInv, Starting, Closing, Drained, Noted, Ends
<1>7. ErrorsAreReported'
  BY <1>3 DEF IInv, ErrorsAreReported
<1>8. QED
  BY <1>1, <1>5, <1>6, <1>7 DEF IInv

LEMMA OnDataInv == ASSUME IInv, OnData PROVE IInv'
<1> USE DEF OnData, errors, parse, queues
<1>1. TypeOK'
  BY ServerAssumption DEF IInv, TypeOK, queues, errors
<1>2. Starting'
  BY DEF IInv, Starting
<1>3. Counted' /\ Closing' /\ Drained' /\ Noted'
  BY AccountsUnchanged DEF accounts, parse
<1>4. ErrorsAreReported'
  BY SuccessStays
<1>5. QED
  BY <1>1, <1>2, <1>3, <1>4 DEF IInv

LEMMA PutBytesInv == ASSUME IInv, PutBytes PROVE IInv'
<1> USE DEF PutBytes, AfterCall, errors, parse, queues
<1>1. TypeOK'
  BY ServerAssumption DEF IInv, TypeOK, HasRoom, queues, errors
<1>2. Starting'
  BY DEF IInv, Starting
<1>3. Counted' /\ Closing' /\ Drained' /\ Noted'
  BY AccountsUnchanged DEF accounts, parse
<1>4. ErrorsAreReported'
  BY SuccessStays
<1>5. QED
  BY <1>1, <1>2, <1>3, <1>4 DEF IInv

LEMMA OnEndInv == ASSUME IInv, OnEnd PROVE IInv'
<1> USE DEF OnEnd, stream, errors, parse, queues
<1>1. TypeOK'
  BY DEF IInv, TypeOK, queues, errors
<1>2. Starting'
  BY DEF IInv, TypeOK, Starting
<1>3. Counted' /\ Closing' /\ Drained' /\ Noted'
  BY AccountsUnchanged DEF accounts, parse
<1>4. ErrorsAreReported'
  BY SuccessStays
<1>5. QED
  BY <1>1, <1>2, <1>3, <1>4 DEF IInv

LEMMA EndInputStreamInv == ASSUME IInv, EndInputStream PROVE IInv'
<1> USE DEF EndInputStream, AfterCall, errors, parse, queues
<1>1. TypeOK'
  BY DEF IInv, TypeOK, queues, errors
<1>2. Starting'
  BY DEF IInv, TypeOK, Starting
<1>3. Counted' /\ Closing' /\ Drained' /\ Noted'
  BY AccountsUnchanged DEF accounts, parse
<1>4. ErrorsAreReported'
  BY SuccessStays
<1>5. QED
  BY <1>1, <1>2, <1>3, <1>4 DEF IInv

(***************************************************************************)
(* The answer.  Without an error, no thread is dead, so all have drained   *)
(* their queues, and every function is in the output.                      *)
(***************************************************************************)
LEMMA WaitForCompileThreadInv == ASSUME IInv, WaitForCompileThread PROVE IInv'
<1> USE DEF WaitForCompileThread, stream, errors, parse, queues
<1>1. TypeOK'
  BY DEF IInv, TypeOK, queues, errors, Answer
<1>2. Starting'
  BY DEF IInv, TypeOK, Starting
<1>3. Counted' /\ Closing' /\ Drained' /\ Noted'
  BY AccountsUnchanged DEF accounts, parse
<1>4. ErrorsAreReported'
  <2> SUFFICES ASSUME answer' = "ok"
               PROVE  /\ emitted = NumFunctions
                      /\ parser = "ended"
                      /\ emitter = "exited"
                      /\ \A t \in Translators : translator[t] = "exited"
    BY DEF ErrorsAreReported
  <2>1. ~HadError /\ ~status
    BY DEF Answer
  <2>2. parser = "ended" /\ ~parseStatus
    BY <2>1 DEF IInv, Noted
  <2>3. emitter = "exited" /\ \A t \in Translators : translator[t] = "exited"
    BY <2>1, <2>2 DEF IInv, Closing, Noted, Gone
  <2>4. optQ = 0 /\ emitQ = 0
    BY <2>3, ServerAssumption DEF IInv, Drained
  <2>5. Cardinality(Busy) = 0
    BY <2>3, NobodyBusy
  <2>6. Count = got
    BY <2>2, <2>3 DEF IInv, Counted, NobodyFails, Ends
  <2>7. got = NumFunctions
    BY <2>1, <2>2 DEF IInv, Noted
  <2>8. QED
    BY <2>2, <2>3, <2>4, <2>5, <2>6, <2>7 DEF Count, One, IInv, TypeOK
<1>5. QED
  BY <1>1, <1>2, <1>3, <1>4 DEF IInv

-----------------------------------------------------------------------------
(***************************************************************************)
(* The compile thread.                                                     *)
(***************************************************************************)
LEMMA StartWorkerThreadsInv == ASSUME IInv, StartWorkerThreads PROVE IInv'
<1> USE DEF StartWorkerThreads, stream, queues
<1>1. TypeOK'
  BY DEF IInv, TypeOK
<1>2. Cardinality(Busy) = 0 /\ Cardinality(Busy') = 0
  BY FS_EmptySet, NobodyBusy DEF IInv, Starting, Busy
<1>3. emitter = "none"
  BY DEF IInv, Starting
<1>4. Counted'
  BY <1>2, <1>3 DEF IInv, TypeOK, Counted, Count, NobodyFails, Starting, Ends, One
<1>5. ~optEnded /\ ~emitEnded
  BY DEF IInv, Closing, Ends
<1>6. Starting' /\ Closing' /\ Drained' /\ Noted'
  BY <1>5 DEF IInv, Starting, Closing, Drained, Noted, Ends
<1>7. ErrorsAreReported'
  BY DEF IInv, ErrorsAreReported
<1>8. QED
  BY <1>1, <1>4, <1>6, <1>7 DEF IInv

LEMMA ReadFunctionInv == ASSUME IInv, ReadFunction PROVE IInv'
<1>0. /\ got' \in 0 .. NumFunctions /\ buffer' \in 0 .. BufferSize
      /\ parser = "read"
      /\ \/ parser' = "push" /\ got' = got + 1 /\ parseFailed' = parseFailed
         \/ parser' \in {"skip", "fatal"} /\ got' = got
         \/ parser' = "wait" /\ got' = got /\ parseFailed'
  <2>1. /\ buffer > 0 /\ buffer' = buffer - 1
        /\ got < NumFunctions
        /\ \/ parser' = "push" /\ got' = got + 1 /\ parseFailed' = parseFailed
           \/ parser' \in {"skip", "fatal"} /\ got' = got
           \/ parser' = "wait" /\ got' = got /\ parseFailed'
    BY DEF ReadFunction, ErrorAt, FatalError, ParseFails
  <2>2. got' \in 0 .. NumFunctions
    BY <2>1, ServerAssumption DEF IInv, TypeOK
  <2>3. buffer' \in 0 .. BufferSize
    BY <2>1, ServerAssumption DEF IInv, TypeOK
  <2>4. QED
    BY <2>1, <2>2, <2>3 DEF ReadFunction
<1>1. TypeOK'
  <2>1. parseStatus' \in BOOLEAN /\ parseFailed' \in BOOLEAN
    BY DEF ReadFunction, ErrorAt, FatalError, ParseFails, ErrorMayBeNoted, IInv, TypeOK
  <2>2. QED
    BY <1>0, <2>1 DEF ReadFunction, queues, IInv, TypeOK, Ends
<1>2. UNCHANGED <<flags, server, optQ, optEnded, translator, emitQ, emitEnded, emitter, emitted, HadError,
                  status, answer>>
  BY DEF ReadFunction, queues
<1>3. Starting'
  BY <1>0, <1>2 DEF IInv, TypeOK, Starting, Ends
<1>4. Busy' = Busy /\ Cardinality(Busy) \in Nat
  BY <1>2, BusyCount DEF Busy
<1>5. Counted'
  <2>1. CASE parser' = "push"
    BY <1>0, <1>2, <1>4, <2>1 DEF IInv, TypeOK, Counted, Count, NobodyFails, Ends, One
  <2>2. CASE parser' # "push"
    BY <1>0, <1>2, <1>4, <2>2 DEF IInv, TypeOK, Counted, Count, NobodyFails, Ends, One
  <2>3. QED
    BY <2>1, <2>2
<1>6. Closing' /\ Drained'
  BY <1>0, <1>2 DEF IInv, Closing, Drained, Ends
<1>7. Noted'
  BY <1>0, <1>2 DEF IInv, Noted
<1>8. ErrorsAreReported'
  BY <1>0, <1>2 DEF IInv, ErrorsAreReported
<1>9. QED
  BY <1>1, <1>3, <1>5, <1>6, <1>7, <1>8 DEF IInv

LEMMA SkipBlockInv == ASSUME IInv, SkipBlock PROVE IInv'
<1>0. buffer' \in 0 .. BufferSize
  <2>1. buffer' = buffer \/ (buffer > 0 /\ buffer' = buffer - 1)
    BY DEF SkipBlock
  <2>2. QED
    BY <2>1, ServerAssumption DEF IInv, TypeOK
<1> USE DEF SkipBlock, ParseFails, errors, queues
<1>1. TypeOK'
  <2>1. parseFailed' \in BOOLEAN
    BY DEF IInv, TypeOK
  <2>2. parser' \in {"skip", "wait"}
    OBVIOUS
  <2>3. QED
    BY <1>0, <2>1, <2>2 DEF IInv, TypeOK
<1>2. Starting'
  BY DEF IInv, TypeOK, Starting, Ends
<1>3. Busy' = Busy /\ Cardinality(Busy) \in Nat
  BY BusyCount DEF Busy
<1>4. Counted'
  BY <1>3 DEF IInv, TypeOK, Counted, Count, NobodyFails, Ends, One
<1>5. Closing' /\ Drained' /\ Noted'
  BY DEF IInv, TypeOK, Closing, Drained, Noted, Ends
<1>6. ErrorsAreReported'
  BY DEF IInv, ErrorsAreReported
<1>7. QED
  BY <1>1, <1>2, <1>4, <1>5, <1>6 DEF IInv

LEMMA ReadEndInv == ASSUME IInv, ReadEnd PROVE IInv'
<1> USE DEF ReadEnd, ErrorAt, FatalError, ParseFails, ErrorMayBeNoted, stream, queues
<1>1. TypeOK'
  <2>1. parseStatus' \in BOOLEAN /\ parseFailed' \in BOOLEAN
    BY DEF IInv, TypeOK
  <2>2. parser' \in {"wait", "fatal"}
    OBVIOUS
  <2>3. QED
    BY <2>1, <2>2 DEF IInv, TypeOK, Ends
<1>2. Starting'
  BY DEF IInv, TypeOK, Starting, Ends
<1>3. Busy' = Busy /\ Cardinality(Busy) \in Nat
  BY BusyCount DEF Busy
<1>4. Counted'
  BY <1>3 DEF IInv, TypeOK, Counted, Count, NobodyFails, Ends, One
<1>5. Closing' /\ Drained' /\ Noted'
  BY DEF IInv, TypeOK, Closing, Drained, Noted, Ends
<1>6. ErrorsAreReported'
  BY DEF IInv, ErrorsAreReported
<1>7. QED
  BY <1>1, <1>2, <1>4, <1>5, <1>6 DEF IInv

LEMMA OptQueueBlockingPushInv == ASSUME IInv, OptQueueBlockingPush PROVE IInv'
<1> USE DEF OptQueueBlockingPush, stream, errors
<1>1. TypeOK'
  BY ServerAssumption DEF IInv, TypeOK
<1>2. Starting'
  BY DEF IInv, Starting
<1>3. Busy' = Busy /\ Cardinality(Busy) \in Nat
  BY BusyCount DEF Busy
<1>4. Counted'
  BY <1>3 DEF IInv, TypeOK, Counted, Count, NobodyFails, Ends, One
<1>5. ~optEnded
  BY DEF IInv, Closing, Ends
<1>6. Closing' /\ Drained' /\ Noted'
  BY <1>5 DEF IInv, Closing, Drained, Noted, Ends
<1>7. ErrorsAreReported'
  BY DEF IInv, ErrorsAreReported
<1>8. QED
  BY <1>1, <1>2, <1>4, <1>6, <1>7 DEF IInv

LEMMA WaitForWorkerThreadsInv == ASSUME IInv, WaitForWorkerThreads PROVE IInv'
<1> USE DEF WaitForWorkerThreads, stream, errors
<1>1. TypeOK'
  <2>1. optEnded' \in BOOLEAN /\ emitEnded' \in BOOLEAN
    BY DEF IInv, TypeOK
  <2>2. parser' \in {"joinTranslators", "joinEmitter", "next", "lower"}
    OBVIOUS
  <2>3. QED
    BY <2>1, <2>2 DEF IInv, TypeOK
<1>2. Starting'
  BY DEF IInv, Starting
<1>3. Busy' = Busy /\ Cardinality(Busy) \in Nat
  BY BusyCount DEF Busy
<1>4. Counted'
  BY <1>3 DEF IInv, TypeOK, Counted, Count, NobodyFails, Ends, One
<1>5. Closing' /\ Drained' /\ Noted'
  <2>1. CASE parser = "wait"
    BY <2>1 DEF IInv, Closing, Drained, Noted, Ends, Gone
  <2>2. CASE parser = "joinTranslators"
    BY <2>2 DEF IInv, Closing, Drained, Noted, Ends, Gone
  <2>3. CASE parser = "joinEmitter"
    <3>1. /\ parser' \in {"next", "lower"} /\ emitter \in Gone
          /\ UNCHANGED <<optEnded, emitEnded>>
      BY <2>3 DEF Gone
    <3>2. Closing' /\ Drained'
      BY <2>3, <3>1 DEF IInv, Closing, Drained, Ends, Gone
    <3>3. Noted'
      BY <2>3, <3>1 DEF IInv, Noted
    <3>4. QED
      BY <3>2, <3>3
  <2>4. QED
    BY <2>1, <2>2, <2>3
<1>6. ErrorsAreReported'
  BY DEF IInv, ErrorsAreReported
<1>7. QED
  BY <1>1, <1>2, <1>4, <1>5, <1>6 DEF IInv

LEMMA TranslatedInv == ASSUME IInv, Translated PROVE IInv'
<1>0. buffer' \in 0 .. BufferSize
  <2>1. buffer' = buffer \/ (buffer > 0 /\ buffer' = buffer - 1)
    BY DEF Translated
  <2>2. QED
    BY <2>1, ServerAssumption DEF IInv, TypeOK
<1> USE DEF Translated, TranslateReturns, FatalError, ErrorMayBeNoted, queues
<1>1. TypeOK'
  <2>1. parseStatus' \in BOOLEAN /\ InputStream' \in {"live", "freed"}
    BY DEF IInv, TypeOK
  <2>2. parser' \in {"next", "lower", "fatal"}
    OBVIOUS
  <2>3. QED
    BY <1>0, <2>1, <2>2 DEF IInv, TypeOK, Ends
<1>2. Starting'
  BY DEF IInv, TypeOK, Starting, Ends
<1>3. Busy' = Busy /\ Cardinality(Busy) \in Nat
  BY BusyCount DEF Busy
<1>4. Counted'
  BY <1>3 DEF IInv, TypeOK, Counted, Count, NobodyFails, Ends, One
<1>5. Closing' /\ Drained' /\ Noted'
  BY DEF IInv, TypeOK, Closing, Drained, Noted, Ends
<1>6. ErrorsAreReported'
  BY DEF IInv, ErrorsAreReported
<1>7. QED
  BY <1>1, <1>2, <1>4, <1>5, <1>6 DEF IInv

LEMMA RunEndsInv == ASSUME IInv, RunEnds PROVE IInv'
<1> USE DEF RunEnds, queues
<1>1. TypeOK'
  BY DEF IInv, TypeOK, Ends
<1>2. Starting'
  BY DEF IInv, Starting, Ends
<1>3. Busy' = Busy /\ Cardinality(Busy) \in Nat
  BY BusyCount DEF Busy
<1>4. Counted'
  BY <1>3 DEF IInv, TypeOK, Counted, Count, NobodyFails, Ends, One
<1>5. Closing' /\ Drained' /\ Noted'
  BY DEF IInv, Closing, Drained, Noted, Ends
<1>6. ErrorsAreReported'
  BY DEF IInv, ErrorsAreReported
<1>7. QED
  BY <1>1, <1>2, <1>4, <1>5, <1>6 DEF IInv

-----------------------------------------------------------------------------
(***************************************************************************)
(* The workers.                                                            *)
(***************************************************************************)
LEMMA OptQueueBlockingPopInv ==
  ASSUME IInv, NEW t \in Translators, OptQueueBlockingPop(t) PROVE IInv'
<1> USE DEF OptQueueBlockingPop, stream, errors, parse
<1>1. TypeOK'
  <2>1. optQ' \in 0 .. OptQSize
    BY ServerAssumption DEF IInv, TypeOK
  <2>2. translator' \in [Translators -> {"none", "pop", "translate", "push", "exited"} \cup Ends]
    BY DEF IInv, TypeOK
  <2>3. QED
    BY <2>1, <2>2 DEF IInv, TypeOK
<1>2. Starting'
  BY DEF IInv, TypeOK, Starting
<1>3. Cardinality(Busy) \in Nat
  BY BusyCount
<1>4. Counted'
  <2>1. CASE optQ > 0
    <3>1. translator' = [translator EXCEPT ![t] = "translate"] /\ optQ' = optQ - 1
      BY <2>1 DEF IInv, TypeOK
    <3>2. Cardinality(Busy') = Cardinality(Busy) + 1
      BY <3>1, BusyJoins DEF IInv
    <3>3. NobodyFails' => NobodyFails
      BY <3>1 DEF IInv, TypeOK, NobodyFails, Ends
    <3>4. QED
      BY <1>3, <3>1, <3>2, <3>3 DEF IInv, TypeOK, Counted, Count, One
  <2>2. CASE ~(optQ > 0)
    <3>1. translator' = [translator EXCEPT ![t] = "exited"] /\ optQ' = optQ
      BY <2>2 DEF IInv, TypeOK
    <3>2. Cardinality(Busy') = Cardinality(Busy)
      BY <3>1, BusyStays DEF IInv
    <3>3. NobodyFails' => NobodyFails
      BY <3>1 DEF IInv, TypeOK, NobodyFails, Ends
    <3>4. QED
      BY <1>3, <3>1, <3>2, <3>3 DEF IInv, TypeOK, Counted, Count, One
  <2>3. QED
    BY <2>1, <2>2
<1>5. Closing' /\ Noted'
  BY DEF IInv, TypeOK, Closing, Noted, Gone
<1>6. Drained'
  BY DEF IInv, TypeOK, Drained
<1>7. ErrorsAreReported'
  BY DEF IInv, TypeOK, ErrorsAreReported
<1>8. QED
  BY <1>1, <1>2, <1>4, <1>5, <1>6, <1>7 DEF IInv

LEMMA TranslateInv == ASSUME IInv, NEW t \in Translators, Translate(t) PROVE IInv'
<1> USE DEF Translate, stream, parse, queues, errors
<1>1. TypeOK'
  <2>1. translator' \in [Translators -> {"none", "pop", "translate", "push", "exited"} \cup Ends]
    BY DEF IInv, TypeOK, Ends
  <2>2. status' \in BOOLEAN
    BY DEF IInv, TypeOK
  <2>3. parseStatus' \in BOOLEAN
    BY DEF IInv, TypeOK
  <2>4. QED
    BY <2>1, <2>2, <2>3 DEF IInv, TypeOK
<1>2. Starting'
  BY DEF IInv, TypeOK, Starting
<1>3. Cardinality(Busy) \in Nat
  BY BusyCount
<1>4. Counted'
  <2>1. CASE translator' = [translator EXCEPT ![t] = "push"]
    <3>1. Cardinality(Busy') = Cardinality(Busy)
      BY <2>1, BusyStays DEF IInv
    <3>2. NobodyFails' => NobodyFails
      BY <2>1 DEF IInv, TypeOK, NobodyFails, Ends
    <3>3. QED
      BY <1>3, <3>1, <3>2 DEF IInv, TypeOK, Counted, Count, One
  <2>2. CASE translator' = [translator EXCEPT ![t] = "fatal"]
    <3>1. Cardinality(Busy') = Cardinality(Busy) - 1
      BY <2>2, BusyLeaves DEF IInv
    <3>2. ~NobodyFails'
      BY <2>2 DEF IInv, TypeOK, NobodyFails, Ends
    <3>3. QED
      BY <1>3, <3>1, <3>2 DEF IInv, TypeOK, Counted, Count, One
  <2>3. QED
    BY <2>1, <2>2
<1>5. ~emitEnded
  BY DEF IInv, Closing, Gone
<1>6. Closing' /\ Drained' /\ Noted'
  <2>1. Closing' /\ Drained'
    BY <1>5 DEF IInv, TypeOK, Closing, Drained
  <2>2. parser = "ended" => FALSE
    BY <1>5 DEF IInv, Closing
  <2>3. status => status'
    OBVIOUS
  <2>4. parseStatus => parseStatus'
    OBVIOUS
  <2>5. Noted'
    BY <2>2, <2>3, <2>4 DEF IInv, TypeOK, Noted
  <2>6. QED
    BY <2>1, <2>5
<1>7. ErrorsAreReported'
  BY DEF IInv, ErrorsAreReported
<1>8. QED
  BY <1>1, <1>2, <1>4, <1>6, <1>7 DEF IInv

LEMMA EmitQueueBlockingPushInv ==
  ASSUME IInv, NEW t \in Translators, EmitQueueBlockingPush(t) PROVE IInv'
<1> USE DEF EmitQueueBlockingPush, stream, errors, parse
<1>1. TypeOK'
  BY ServerAssumption DEF IInv, TypeOK
<1>2. Starting'
  BY DEF IInv, TypeOK, Starting
<1>3. Cardinality(Busy) \in Nat /\ Cardinality(Busy') = Cardinality(Busy) - 1
  BY BusyCount, BusyLeaves DEF IInv
<1>4. NobodyFails' => NobodyFails
  BY DEF IInv, TypeOK, NobodyFails, Ends
<1>5. Counted'
  BY <1>3, <1>4 DEF IInv, TypeOK, Counted, Count, One
<1>6. ~emitEnded
  BY DEF IInv, Closing, Gone
<1>7. Closing' /\ Drained' /\ Noted'
  BY <1>6 DEF IInv, TypeOK, Closing, Drained, Noted
<1>8. ErrorsAreReported'
  BY DEF IInv, ErrorsAreReported
<1>9. QED
  BY <1>1, <1>2, <1>5, <1>7, <1>8 DEF IInv

LEMMA EmitQueueBlockingPopInv == ASSUME IInv, EmitQueueBlockingPop PROVE IInv'
<1> USE DEF EmitQueueBlockingPop, stream, errors, parse
<1>1. TypeOK'
  <2>1. emitQ' \in 0 .. EmitQSize /\ emitter' \in {"emit", "exited"}
    BY ServerAssumption DEF IInv, TypeOK
  <2>2. QED
    BY <2>1 DEF IInv, TypeOK
<1>2. Starting'
  BY DEF IInv, Starting
<1>3. Busy' = Busy /\ Cardinality(Busy) \in Nat
  BY BusyCount DEF Busy
<1>4. Counted'
  BY <1>3 DEF IInv, TypeOK, Counted, Count, NobodyFails, Ends, One
<1>5. Closing' /\ Drained' /\ Noted'
  BY DEF IInv, Closing, Drained, Noted, Gone
<1>6. ErrorsAreReported'
  BY DEF IInv, ErrorsAreReported
<1>7. QED
  BY <1>1, <1>2, <1>4, <1>5, <1>6 DEF IInv

LEMMA EmitInv == ASSUME IInv, Emit PROVE IInv'
<1> USE DEF Emit, stream, errors, parse, queues
<1>1. Busy' = Busy /\ Cardinality(Busy) \in Nat
  BY BusyCount DEF Busy
<1>2. emitted + 1 <= got
  BY <1>1 DEF IInv, TypeOK, Counted, Count, One
<1>3. TypeOK'
  BY <1>2, ServerAssumption DEF IInv, TypeOK, Ends
<1>4. Starting'
  BY DEF IInv, Starting, Ends
<1>5. Counted'
  BY <1>1 DEF IInv, TypeOK, Counted, Count, NobodyFails, Ends, One
<1>6. Closing' /\ Drained' /\ Noted'
  BY DEF IInv, Closing, Drained, Noted, Gone
<1>7. ErrorsAreReported'
  BY DEF IInv, ErrorsAreReported
<1>8. QED
  BY <1>3, <1>4, <1>5, <1>6, <1>7 DEF IInv

-----------------------------------------------------------------------------
(***************************************************************************)
(* A fatal error.  Whoever has one ends up in Ends for good, so Counted    *)
(* asks for no more than before.                                           *)
(***************************************************************************)
LEMMA FailsInv ==
  ASSUME IInv, NEW pc, Fails(pc),
         UNCHANGED <<flags, offered, buffer, InputStream, EmitStream, errors, parseFailed, got, queues, emitted, answer>>
  PROVE  /\ server' \in {server, "lost"}
         /\ Done' \in BOOLEAN /\ HadError' \in BOOLEAN
         /\ HadError => HadError'
         /\ pc = "fatal" => HadError'
         /\ pc \in {"fatal", "signal"}
<1> USE DEF Fails, AfterCall
<1>1. server' \in {server, "lost"} /\ pc \in {"fatal", "signal"}
  OBVIOUS
<1>2. /\ Done' \in BOOLEAN /\ HadError' \in BOOLEAN
      /\ HadError => HadError'
      /\ pc = "fatal" => HadError'
  BY DEF IInv, TypeOK
<1>3. QED
  BY <1>1, <1>2

LEMMA SetFatalErrorInv == ASSUME IInv, SetFatalError PROVE IInv'
<1> USE DEF SetFatalError, queues, errors
<1>0. Cardinality(Busy) \in Nat
  BY BusyCount
<1>1. CASE Fails(parser) /\ parser' = AfterError(parser) /\ UNCHANGED <<translator, emitter>>
  <2>1. /\ server' \in {server, "lost"} /\ Done' \in BOOLEAN /\ HadError' \in BOOLEAN
        /\ HadError => HadError'
        /\ parser = "fatal" => HadError'
        /\ parser \in {"fatal", "signal"}
    BY <1>1, FailsInv
  <2>2. parser' \in {"signal", "dead"} /\ HadError'
    BY <1>1, <2>1 DEF AfterError, IInv, Noted
  <2>3. TypeOK'
    BY <1>1, <2>1, <2>2 DEF IInv, TypeOK, Ends
  <2>4. Busy' = Busy
    BY <1>1 DEF Busy
  <2>5. Counted'
    BY <1>0, <1>1, <2>1, <2>2, <2>4 DEF IInv, TypeOK, Counted, Count, NobodyFails, Ends, One
  <2>6. Starting' /\ Closing' /\ Drained' /\ Noted'
    BY <1>1, <2>1, <2>2 DEF IInv, Starting, Closing, Drained, Noted, Ends
  <2>7. ErrorsAreReported'
    BY <1>1, <2>1 DEF IInv, ErrorsAreReported
  <2>8. QED
    BY <2>1, <2>3, <2>5, <2>6, <2>7 DEF IInv
<1>2. CASE Fails(emitter) /\ emitter' = AfterError(emitter) /\ UNCHANGED <<parser, translator>>
  <2>1. /\ server' \in {server, "lost"} /\ Done' \in BOOLEAN /\ HadError' \in BOOLEAN
        /\ HadError => HadError'
        /\ emitter = "fatal" => HadError'
        /\ emitter \in {"fatal", "signal"}
    BY <1>2, FailsInv
  <2>2. emitter' \in {"signal", "dead"} /\ HadError'
    BY <1>2, <2>1 DEF AfterError, IInv, Noted
  <2>3. TypeOK'
    BY <1>2, <2>1, <2>2 DEF IInv, TypeOK, Ends
  <2>4. Busy' = Busy
    BY <1>2 DEF Busy
  <2>5. Counted'
    BY <1>0, <1>2, <2>1, <2>2, <2>4 DEF IInv, TypeOK, Counted, Count, NobodyFails, Ends, One
  <2>6. Starting' /\ Closing' /\ Drained' /\ Noted'
    BY <1>2, <2>1, <2>2 DEF IInv, Starting, Closing, Drained, Noted, Ends, Gone
  <2>7. ErrorsAreReported'
    BY <1>2, <2>1 DEF IInv, ErrorsAreReported
  <2>8. QED
    BY <2>1, <2>3, <2>5, <2>6, <2>7 DEF IInv
<1>3. ASSUME NEW t \in Translators, Fails(translator[t]),
             translator' = [translator EXCEPT ![t] = AfterError(translator[t])],
             UNCHANGED <<parser, emitter>>
      PROVE  IInv'
  <2>1. /\ server' \in {server, "lost"} /\ Done' \in BOOLEAN /\ HadError' \in BOOLEAN
        /\ HadError => HadError'
        /\ translator[t] = "fatal" => HadError'
        /\ translator[t] \in {"fatal", "signal"}
    BY <1>3, FailsInv
  <2>2. PICK pc \in {"signal", "dead"} : translator' = [translator EXCEPT ![t] = pc]
    BY <1>3, <2>1 DEF AfterError
  <2>3. HadError'
    BY <2>1 DEF IInv, Noted
  <2>4. TypeOK'
    <3>1. translator' \in [Translators -> {"none", "pop", "translate", "push", "exited"} \cup Ends]
      BY <2>2 DEF IInv, TypeOK, Ends
    <3>2. QED
      BY <1>3, <2>1, <3>1 DEF IInv, TypeOK
  <2>5. Cardinality(Busy') = Cardinality(Busy)
    BY <2>1, <2>2, BusyStays DEF IInv
  <2>6. ~NobodyFails'
    BY <2>2 DEF IInv, TypeOK, NobodyFails, Ends
  <2>7. Counted'
    BY <1>0, <1>3, <2>5, <2>6 DEF IInv, TypeOK, Counted, Count, One
  <2>8. Starting'
    BY <1>3, <2>1, <2>2 DEF IInv, TypeOK, Starting
  <2>9. Closing' /\ Drained'
    BY <1>3, <2>1, <2>2 DEF IInv, TypeOK, Closing, Drained, Gone
  <2>10. Noted'
    BY <1>3, <2>2, <2>3 DEF IInv, TypeOK, Noted
  <2>11. ErrorsAreReported'
    BY <1>3, <2>1 DEF IInv, ErrorsAreReported
  <2>12. QED
    BY <2>1, <2>4, <2>7, <2>8, <2>9, <2>10, <2>11 DEF IInv
<1>4. QED
  BY <1>1, <1>2, <1>3

-----------------------------------------------------------------------------
LEMMA StutterInv == ASSUME IInv, UNCHANGED vars PROVE IInv'
<1> USE DEF vars, stream
<1>1. TypeOK' /\ Starting'
  BY DEF IInv, TypeOK, Starting, errors, parse, queues
<1>2. Counted' /\ Closing' /\ Drained' /\ Noted'
  BY AccountsUnchanged DEF accounts, parse
<1>3. ErrorsAreReported'
  BY SuccessStays DEF parse
<1>4. QED
  BY <1>1, <1>2, <1>3 DEF IInv

(***************************************************************************)
(* The invariant holds in every state of every instance.                   *)
(***************************************************************************)
THEOREM Invariance == Spec => []IInv
<1>1. ASSUME IInv, [Next]_vars
      PROVE  IInv'
  <2>1. CASE Server
    BY <1>1, <2>1, OnInitInv, OnDataInv, PutBytesInv, OnEndInv, EndInputStreamInv,
       WaitForCompileThreadInv DEF Server
  <2>2. CASE CompileThread
    BY <1>1, <2>2, StartWorkerThreadsInv, ReadFunctionInv, SkipBlockInv, ReadEndInv,
       OptQueueBlockingPushInv, WaitForWorkerThreadsInv, TranslatedInv, RunEndsInv DEF CompileThread
  <2>3. CASE \E t \in Translators : Translator(t)
    BY <1>1, <2>3, OptQueueBlockingPopInv, TranslateInv, EmitQueueBlockingPushInv DEF Translator
  <2>4. CASE Emitter
    BY <1>1, <2>4, EmitQueueBlockingPopInv, EmitInv DEF Emitter
  <2>5. CASE SetFatalError
    BY <1>1, <2>5, SetFatalErrorInv
  <2>6. CASE Terminated \/ UNCHANGED vars
    BY <1>1, <2>6, StutterInv DEF Terminated
  <2>7. QED
    BY <1>1, <2>1, <2>2, <2>3, <2>4, <2>5, <2>6 DEF Next
<1>2. QED
  BY InitInv, <1>1, PTL DEF Spec

(***************************************************************************)
(* Every variable has its type: no queue and no buffer ever holds more     *)
(* than it has room for, and no more functions are emitted than were read, *)
(* although this bound is in no guard of the emitter.                      *)
(***************************************************************************)
THEOREM TypeCorrect == Spec => []TypeOK
<1>1. IInv => TypeOK
  BY DEF IInv
<1>2. QED
  BY <1>1, Invariance, PTL

(***************************************************************************)
(* onEndCallback() reports success only for a complete output written by   *)
(* threads that all ended regularly, however many translators there are    *)
(* and whichever of them fail when.                                        *)
(***************************************************************************)
THEOREM ErrorsAreReportedCorrect == Spec => []ErrorsAreReported
<1>1. IInv => ErrorsAreReported
  BY DEF IInv
<1>2. QED
  BY <1>1, Invariance, PTL

-----------------------------------------------------------------------------
(***************************************************************************)
(* The output is deleted when the compile thread has ended or died, and    *)
(* from then on that thread does nothing.                                  *)
(***************************************************************************)
OutInv == EmitStream = "freed" => parser \in {"ended", "dead"}

LEMMA OutInvStep == ASSUME IInv, OutInv, [Next]_vars PROVE OutInv'
<1>1. CASE OnInit
  BY <1>1 DEF OutInv, OnInit, IInv, Starting
<1>2. CASE WaitForCompileThread
  BY <1>2 DEF OutInv, WaitForCompileThread, parse
<1>3. CASE OnData \/ PutBytes \/ OnEnd \/ EndInputStream
  BY <1>3 DEF OutInv, OnData, PutBytes, OnEnd, EndInputStream, parse
<1>4. CASE CompileThread
  <2>1. EmitStream' = EmitStream /\ parser \notin {"ended", "dead"}
    BY <1>4 DEF CompileThread, StartWorkerThreads, ReadFunction, SkipBlock, ReadEnd,
                OptQueueBlockingPush, WaitForWorkerThreads, Translated, RunEnds
  <2>2. QED
    BY <2>1 DEF OutInv
<1>5. CASE (\E t \in Translators : Translator(t)) \/ Emitter
  BY <1>5 DEF OutInv, Translator, Emitter, OptQueueBlockingPop, Translate, EmitQueueBlockingPush,
              EmitQueueBlockingPop, Emit, parse
<1>6. CASE SetFatalError
  <2>1. EmitStream' = EmitStream
    BY <1>6 DEF SetFatalError
  <2>2. parser' = parser \/ parser \notin {"ended", "dead"}
    BY <1>6 DEF SetFatalError, Fails
  <2>3. QED
    BY <2>1, <2>2 DEF OutInv
<1>7. CASE Terminated \/ UNCHANGED vars
  BY <1>7 DEF OutInv, Terminated, vars, parse
<1>8. QED
  BY <1>1, <1>2, <1>3, <1>4, <1>5, <1>6, <1>7 DEF Next, Server

(***************************************************************************)
(* When waitForCompileThread() has deleted the output, no emitter is about *)
(* to write to it, except one that a dying compile thread did not join: a  *)
(* compile thread that ends has waited for the emitter in ExitBlock().     *)
(***************************************************************************)
THEOREM OutputOutlivesEmitterCorrect == Spec => []OutputOutlivesEmitter
<1>1. Init => OutInv
  BY DEF Init, OutInv
<1>2. IInv /\ OutInv /\ [Next]_vars => OutInv'
  BY OutInvStep
<1>3. IInv /\ OutInv => OutputOutlivesEmitter
  BY DEF IInv, Closing, Gone, OutInv, OutputOutlivesEmitter
<1>4. QED
  BY <1>1, <1>2, <1>3, Invariance, PTL DEF Spec
=============================================================================
