------------------------- MODULE BrowserCompileServer -------------------------
(***************************************************************************)
(* BrowserCompileServer: one thread answers the callbacks of the browser,  *)
(* which brings the bitcode in pieces and asks for the result; a compile   *)
(* thread parses, and hands functions to translators and these to the      *)
(* emitter.  A fatal error ends the thread it happens in and no other.     *)
(*                                                                         *)
(* A piece of input is a function; the last function's also ends the       *)
(* module, and more pieces may follow it.  The queues between the threads  *)
(* are numbers of entries here: their order is TranslationPipeline's       *)
(* matter, what they lock is that of BoundedProducerConsumerQueue.         *)
(***************************************************************************)
EXTENDS Integers, FiniteSets

CONSTANTS Translators,   \* the translation threads
          NumFunctions,  \* functions of the module
          NumPieces,     \* bound: pieces the browser delivers
          BufferSize,    \* pieces that fit into the QueueStreamer
          OptQSize,      \* MaxSize of OptQ
          EmitQSize,     \* MaxSize of EmitQ
          Flags          \* flags considered: [recovery |-> -allow-error-recovery,
                         \*                    buildOnRead |-> -build-on-read]

ASSUME ServerAssumption ==
  /\ IsFiniteSet(Translators) /\ Translators # {}
  /\ NumFunctions \in Nat \ {0}
  /\ NumPieces \in Nat
  /\ BufferSize \in Nat \ {0}
  /\ OptQSize \in Nat \ {0}
  /\ EmitQSize \in Nat \ {0}
  /\ Flags \subseteq [recovery : BOOLEAN, buildOnRead : BOOLEAN]

VARIABLES flags,
          server,       \* what the server thread is doing
          offered,      \* pieces for which onDataCallback() was called
          buffer,       \* pieces in the QueueStreamer
          Done,         \* its flag Done
          InputStream,  \* the QueueStreamer itself: "live", or "freed" by the compiler
          EmitStream,   \* the output: "live", or "freed" by the server
          HadError,     \* a fatal error has been handled
          status,       \* an error is in Ctx->getErrorStatus()
          parseStatus,  \* an error is in Translator->getErrorStatus()
          parser,       \* what the compile thread is doing
          parseFailed,  \* the parse of the module returned true
          got,          \* functions read
          optQ, optEnded,
          translator,   \* what each translator is doing
          emitQ, emitEnded,
          emitter,      \* what the emitter is doing
          emitted,      \* functions in the output
          answer        \* of onEndCallback()

stream == <<offered, buffer, Done, InputStream>>
errors == <<status, parseStatus>>
parse == <<parser, parseFailed, got>>
queues == <<optQ, optEnded, emitQ, emitEnded>>
vars == <<flags, server, stream, EmitStream, HadError, errors, parse, queues, translator,
          emitter, emitted, answer>>

Init ==
  /\ flags \in Flags
  /\ server = "init"
  /\ offered = 0
  /\ buffer = 0
  /\ Done = FALSE
  /\ InputStream = "live"
  /\ EmitStream = "live"
  /\ HadError = FALSE
  /\ status = FALSE
  /\ parseStatus = FALSE
  /\ parser = "none"
  /\ parseFailed = FALSE
  /\ got = 0
  /\ optQ = 0 /\ optEnded = FALSE
  /\ translator = [t \in Translators |-> "none"]
  /\ emitQ = 0 /\ emitEnded = FALSE
  /\ emitter = "none"
  /\ emitted = 0
  /\ answer = "none"

-----------------------------------------------------------------------------
(***************************************************************************)
(* The server thread.  A call on a freed stream may have no effect, or may *)
(* end or hang the process: server becomes "lost".                         *)
(***************************************************************************)
AfterCall(pc) == IF InputStream = "live" THEN {pc} ELSE {pc, "lost"}

OnInit ==
  /\ server = "init"
  /\ server' = "idle"
  /\ parser' = "start"
  /\ UNCHANGED <<flags, stream, EmitStream, HadError, errors, parseFailed, got, queues, translator,
                 emitter, emitted, answer>>

OnData ==
  /\ server = "idle"
  /\ offered < NumPieces
  /\ offered' = offered + 1
  /\ server' = IF HadError THEN "idle" ELSE "put"
  /\ UNCHANGED <<flags, buffer, Done, InputStream, EmitStream, HadError, errors, parse, queues,
                 translator, emitter, emitted, answer>>

HasRoomOffByOne == buffer <= BufferSize  \* faulty
HasRoom == buffer < BufferSize
PutBytes ==
  /\ server = "put"
  /\ Done \/ InputStream = "freed" \/ HasRoom
  /\ buffer' = IF Done \/ InputStream = "freed" THEN buffer ELSE buffer + 1
  /\ server' \in AfterCall("idle")
  /\ UNCHANGED <<flags, offered, Done, InputStream, EmitStream, HadError, errors, parse, queues,
                 translator, emitter, emitted, answer>>

OnEnd ==
  /\ server = "idle"
  /\ server' = "end"
  /\ UNCHANGED <<flags, stream, EmitStream, HadError, errors, parse, queues, translator, emitter,
                 emitted, answer>>

EndInputStream ==
  /\ server = "end"
  /\ Done' = TRUE
  /\ server' \in AfterCall("join")
  /\ UNCHANGED <<flags, offered, buffer, InputStream, EmitStream, HadError, errors, parse, queues,
                 translator, emitter, emitted, answer>>

AnswerByStatus == IF status THEN "error" ELSE "ok"  \* faulty: fatal errors are not looked at
Answer == IF HadError \/ status THEN "error" ELSE "ok"
WaitForCompileThread ==
  /\ server = "join"
  /\ parser \in {"ended", "dead"}
  /\ EmitStream' = "freed"
  /\ server' = "answered"
  /\ answer' = Answer
  /\ UNCHANGED <<flags, stream, HadError, errors, parse, queues, translator, emitter, emitted>>

-----------------------------------------------------------------------------
(***************************************************************************)
(* The compile thread: Compiler::run().  The stream belongs to the reader  *)
(* of PNaClTranslator::translate(), and to run() if there is none.         *)
(***************************************************************************)
StartWorkerThreads ==
  /\ parser = "start"
  /\ translator' = [t \in Translators |-> "pop"]
  /\ emitter' = "pop"
  /\ parser' = IF flags.buildOnRead THEN "read" ELSE "wait"
  /\ status' = ~flags.buildOnRead
  /\ UNCHANGED <<flags, server, stream, EmitStream, HadError, parseStatus, parseFailed, got, queues,
                 emitted, answer>>

(***************************************************************************)
(* Errors of the parse.  With -allow-error-recovery most are noted only,   *)
(* and what has met one goes on or makes the parse return true; without    *)
(* they are fatal, as those of the level Fatal and those of the lowering   *)
(* of globals always are.  An input that ends inside a block to be skipped *)
(* makes the parse return true and notes nothing.                          *)
(***************************************************************************)
ErrorMayBeNoted == parseStatus' \in {parseStatus, parseStatus \/ flags.recovery}
FatalError == parser' = "fatal" /\ parseStatus' \in {parseStatus, TRUE}
ParseFails == parser' = "wait" /\ parseFailed' = TRUE
ErrorAt ==
  \/ FatalError /\ UNCHANGED parseFailed
  \/ flags.recovery /\ parseStatus' = TRUE /\ ParseFails

ReadFunction ==
  /\ parser = "read" /\ got < NumFunctions
  /\ buffer > 0
  /\ buffer' = buffer - 1
  /\ \/ parser' = "push" /\ got' = got + 1 /\ ErrorMayBeNoted /\ UNCHANGED parseFailed
     \/ ErrorAt /\ UNCHANGED got
     \/ parser' = "skip" /\ UNCHANGED <<got, parseFailed, parseStatus>>
  /\ UNCHANGED <<flags, server, offered, Done, InputStream, EmitStream, HadError, status, queues, translator,
                 emitter, emitted, answer>>
SkipBlock ==
  /\ parser = "skip"
  /\ \/ buffer > 0 /\ buffer' = buffer - 1 /\ UNCHANGED <<parser, parseFailed>>
     \/ buffer = 0 /\ Done /\ ParseFails /\ UNCHANGED buffer
  /\ UNCHANGED <<flags, server, offered, Done, InputStream, EmitStream, HadError, errors, got, queues,
                 translator, emitter, emitted, answer>>
ReadEnd ==
  /\ parser = "read"
  /\ \/ got = NumFunctions
        /\ \/ parser' = "wait" /\ ErrorMayBeNoted /\ UNCHANGED parseFailed
           \/ ErrorAt
     \/ got < NumFunctions /\ buffer = 0 /\ Done
        /\ \/ ErrorAt
           \/ ParseFails /\ UNCHANGED parseStatus
  /\ UNCHANGED <<flags, server, stream, EmitStream, HadError, status, got, queues, translator, emitter,
                 emitted, answer>>

OptQueueBlockingPush ==
  /\ parser = "push"
  /\ optQ < OptQSize
  /\ optQ' = optQ + 1
  /\ parser' = "read"
  /\ UNCHANGED <<flags, server, stream, EmitStream, HadError, errors, parseFailed, got, optEnded, emitQ,
                 emitEnded, translator, emitter, emitted, answer>>

(***************************************************************************)
(* ModuleParser::ExitBlock(): the threads are joined inside the parse,     *)
(* whether it has failed or not, and the stream is alive meanwhile.        *)
(***************************************************************************)
WaitForWorkerThreads ==
  /\ \/ parser = "wait" /\ parser' = "joinTranslators"
        /\ optEnded' = TRUE /\ UNCHANGED emitEnded
     \/ parser = "joinTranslators" /\ parser' = "joinEmitter"
        /\ emitEnded' = TRUE /\ UNCHANGED optEnded
        /\ \A t \in Translators : translator[t] \in {"exited", "dead"}
     \/ parser = "joinEmitter" /\ emitter \in {"exited", "dead"}
        /\ parser' = (IF flags.buildOnRead THEN "next" ELSE "lower")
        /\ UNCHANGED <<optEnded, emitEnded>>
  /\ UNCHANGED <<flags, server, stream, EmitStream, HadError, errors, parseFailed, got, optQ, emitQ,
                 translator, emitter, emitted, answer>>

(***************************************************************************)
(* The rest of translate(): the input is read to its end unless the parse  *)
(* failed, and the reader deletes the stream.                              *)
(***************************************************************************)
TranslateReturns == parser' = "lower" /\ InputStream' = "freed"
Translated ==
  /\ parser = "next"
  /\ \/ parseFailed
        /\ TranslateReturns /\ parseStatus' = TRUE /\ UNCHANGED buffer
     \/ ~parseFailed /\ buffer > 0 /\ buffer' = buffer - 1
        /\ \/ ErrorMayBeNoted /\ UNCHANGED <<parser, InputStream>>
           \/ FatalError /\ UNCHANGED InputStream
           \/ flags.recovery /\ parseStatus' = TRUE /\ TranslateReturns
     \/ ~parseFailed /\ buffer = 0 /\ Done /\ UNCHANGED <<buffer, parseStatus>>
        /\ \/ TranslateReturns
           \/ parser' = "fatal" /\ UNCHANGED InputStream
  /\ UNCHANGED <<flags, server, offered, Done, EmitStream, HadError, status, parseFailed, got, queues,
                 translator, emitter, emitted, answer>>

RunEnds ==
  /\ parser = "lower"
  /\ status' = (status \/ parseStatus)
  /\ \/ parser' = "ended" /\ InputStream' = "freed"
     \/ parser' = "fatal" /\ flags.buildOnRead /\ ~parseStatus /\ UNCHANGED InputStream
  /\ UNCHANGED <<flags, server, offered, buffer, Done, EmitStream, HadError, parseStatus, parseFailed, got,
                 queues, translator, emitter, emitted, answer>>

-----------------------------------------------------------------------------
(***************************************************************************)
(* The workers.                                                            *)
(***************************************************************************)
OptQueueBlockingPop(t) ==
  /\ translator[t] = "pop"
  /\ \/ optQ > 0 /\ optQ' = optQ - 1 /\ translator' = [translator EXCEPT ![t] = "translate"]
     \/ optQ = 0 /\ optEnded /\ UNCHANGED optQ /\ translator' = [translator EXCEPT ![t] = "exited"]
  /\ UNCHANGED <<flags, server, stream, EmitStream, HadError, errors, parse, optEnded, emitQ,
                 emitEnded, emitter, emitted, answer>>
Translate(t) ==
  /\ translator[t] = "translate"
  /\ \/ translator' = [translator EXCEPT ![t] = "push"] /\ UNCHANGED errors
     \/ /\ translator' = [translator EXCEPT ![t] = "push"]
        /\ status' = TRUE
        /\ parseStatus' \in {parseStatus, parseStatus \/ flags.recovery}
     \/ /\ translator' = [translator EXCEPT ![t] = "fatal"]
        /\ parseStatus' \in {parseStatus, TRUE}
        /\ UNCHANGED status
  /\ UNCHANGED <<flags, server, stream, EmitStream, HadError, parse, queues, emitter, emitted, answer>>
EmitQueueBlockingPush(t) ==
  /\ translator[t] = "push"
  /\ emitQ < EmitQSize
  /\ emitQ' = emitQ + 1
  /\ translator' = [translator EXCEPT ![t] = "pop"]
  /\ UNCHANGED <<flags, server, stream, EmitStream, HadError, errors, parse, optQ, optEnded,
                 emitEnded, emitter, emitted, answer>>

EmitQueueBlockingPop ==
  /\ emitter = "pop"
  /\ \/ emitQ > 0 /\ emitQ' = emitQ - 1 /\ emitter' = "emit"
     \/ emitQ = 0 /\ emitEnded /\ UNCHANGED emitQ /\ emitter' = "exited"
  /\ UNCHANGED <<flags, server, stream, EmitStream, HadError, errors, parse, optQ, optEnded,
                 emitEnded, translator, emitted, answer>>
Emit ==
  /\ emitter = "emit"
  /\ \/ emitter' = "pop" /\ emitted' = emitted + 1
     \/ emitter' = "fatal" /\ UNCHANGED emitted
  /\ UNCHANGED <<flags, server, stream, EmitStream, HadError, errors, parse, queues, translator, answer>>

-----------------------------------------------------------------------------
(***************************************************************************)
(* fatalErrorHandler(): two steps, and the thread exits.                   *)
(***************************************************************************)
AfterError(pc) == IF pc = "fatal" THEN "signal" ELSE "dead"
FailsSilently(pc) ==  \* faulty: the stream is not ended
  \/ pc = "fatal" /\ HadError' = TRUE /\ UNCHANGED <<Done, server>>
  \/ pc = "signal" /\ UNCHANGED <<Done, HadError, server>>
Fails(pc) ==
  \/ pc = "fatal" /\ HadError' = TRUE /\ UNCHANGED <<Done, server>>
  \/ pc = "signal" /\ Done' = TRUE /\ server' \in AfterCall(server) /\ UNCHANGED HadError
SetFatalError ==
  /\ \/ Fails(parser) /\ parser' = AfterError(parser) /\ UNCHANGED <<translator, emitter>>
     \/ Fails(emitter) /\ emitter' = AfterError(emitter) /\ UNCHANGED <<parser, translator>>
     \/ \E t \in Translators :
          /\ Fails(translator[t])
          /\ translator' = [translator EXCEPT ![t] = AfterError(translator[t])]
          /\ UNCHANGED <<parser, emitter>>
  /\ UNCHANGED <<flags, offered, buffer, InputStream, EmitStream, errors, parseFailed, got, queues,
                 emitted, answer>>

-----------------------------------------------------------------------------
Server == OnInit \/ OnData \/ PutBytes \/ OnEnd \/ EndInputStream \/ WaitForCompileThread
CompileThread ==
  \/ StartWorkerThreads \/ ReadFunction \/ SkipBlock \/ ReadEnd \/ OptQueueBlockingPush
  \/ WaitForWorkerThreads \/ Translated \/ RunEnds
Translator(t) == OptQueueBlockingPop(t) \/ Translate(t) \/ EmitQueueBlockingPush(t)
Emitter == EmitQueueBlockingPop \/ Emit

Terminated == server \in {"answered", "lost"} /\ UNCHANGED vars

Next ==
  \/ Server
  \/ CompileThread
  \/ \E t \in Translators : Translator(t)
  \/ Emitter
  \/ SetFatalError
  \/ Terminated

(***************************************************************************)
(* Every thread is scheduled, and the browser asks for the result some     *)
(* time.                                                                   *)
(***************************************************************************)
Spec == Init /\ [][Next]_vars
FairSpec ==
  /\ Spec
  /\ WF_vars(Server)
  /\ WF_vars(CompileThread)
  /\ \A t \in Translators : WF_vars(Translator(t))
  /\ WF_vars(Emitter)
  /\ WF_vars(SetFatalError)

-----------------------------------------------------------------------------
(***************************************************************************)
(* Types, and how full the buffers get.                                    *)
(***************************************************************************)
Ends == {"fatal", "signal", "dead"}
TypeOK ==
  /\ flags \in Flags
  /\ server \in {"init", "idle", "put", "end", "join", "answered", "lost"}
  /\ offered \in 0 .. NumPieces
  /\ buffer \in 0 .. BufferSize
  /\ Done \in BOOLEAN
  /\ InputStream \in {"live", "freed"}
  /\ EmitStream \in {"live", "freed"}
  /\ HadError \in BOOLEAN
  /\ status \in BOOLEAN /\ parseStatus \in BOOLEAN
  /\ parser \in {"none", "start", "read", "push", "skip", "wait", "joinTranslators", "joinEmitter", "next",
                "lower", "ended"} \cup Ends
  /\ parseFailed \in BOOLEAN
  /\ got \in 0 .. NumFunctions
  /\ optQ \in 0 .. OptQSize /\ optEnded \in BOOLEAN
  /\ translator \in [Translators -> {"none", "pop", "translate", "push", "exited"} \cup Ends]
  /\ emitQ \in 0 .. EmitQSize /\ emitEnded \in BOOLEAN
  /\ emitter \in {"none", "pop", "emit", "exited"} \cup Ends
  /\ emitted \in 0 .. NumFunctions
  /\ answer \in {"none", "ok", "error"}

(***************************************************************************)
(* No error is hidden: if onEndCallback() reports success, every function  *)
(* of the module is in the output and no thread has died, although errors  *)
(* happen in any thread, at any time, and are noted in two places.         *)
(***************************************************************************)
ErrorsAreReported ==
  answer = "ok" =>
    /\ emitted = NumFunctions
    /\ parser = "ended"
    /\ emitter = "exited"
    /\ \A t \in Translators : translator[t] = "exited"

(***************************************************************************)
(* The server thread stays "alive in order to respond with the error       *)
(* message" (fatalErrorHandler): every callback returns, whatever thread   *)
(* dies in the meantime.  Without any error no call on a freed stream gets *)
(* in its way, and it waits for ever only for a thread that pushes into a  *)
(* full queue whose readers are all dead.                                  *)
(***************************************************************************)
LostByError == server = "lost" /\ (HadError \/ status \/ parseStatus)
NobodyPops ==
  \/ emitQ = EmitQSize /\ emitter = "dead" /\ \E t \in Translators : translator[t] = "push"
  \/ optQ = OptQSize /\ parser = "push" /\ \A t \in Translators : translator[t] = "dead"
CallbacksReturn ==
  /\ server = "put" ~> server = "idle" \/ LostByError
  /\ server = "join" ~> server = "answered" \/ LostByError \/ NobodyPops

(***************************************************************************)
(* "The compiler owns the actual reference so the server must be careful   *)
(* not to access after the compiler is done" (InputStream).                *)
(***************************************************************************)
Signalling == {t \in Translators : translator[t] = "signal"}
InputStreamOutlivesUsers ==
  server \in {"put", "end"} \/ parser = "signal" \/ emitter = "signal" \/ Signalling # {}
    => InputStream = "live"

(***************************************************************************)
(* waitForCompileThread() deletes the output.  The emitter still writes to *)
(* it then only if the compile thread has died, and so joined nobody.  The *)
(* other threads, says fatalErrorHandler(), "either get stuck waiting on   *)
(* input from a previous stage, or also call report_fatal_error".          *)
(***************************************************************************)
OutputOutlivesEmitter == emitter = "emit" /\ EmitStream = "freed" => parser = "dead"
=============================================================================
