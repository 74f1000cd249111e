------------------- MODULE BoundedProducerConsumerQueue -------------------
(***************************************************************************)
(* The work queue of src/src/IceThreading.h: a circular array guarded by   *)
(* one mutex, with two condition variables.  Every access to the shared    *)
(* fields happens under the mutex, so the code between lock and unlock (or *)
(* wait) is one action; notify_one() and notify_all() are called after the *)
(* unlock and are actions of their own.  A thread that is woken takes the  *)
(* mutex again and re-evaluates the predicate, and it may be woken for no  *)
(* reason.  This is the concurrent use, with Sequential = false; the       *)
(* single-threaded use is in module TranslationPipeline.                   *)
(***************************************************************************)
EXTENDS Integers, Sequences, FiniteSets

CONSTANTS Producers,             \* threads that call blockingPush()
          Consumers,             \* threads that loop on blockingPop()
          PushesPerProducer,     \* bound: entries each producer adds
          MaxStaticSize,         \* template argument: slots of the array
          MaxSizeArg,            \* constructor argument
          NotifyWhenDownToSize,  \* argument of every blockingPop()
          NoItem                 \* a null unique_ptr

ASSUME QueueAssumption ==
  /\ PushesPerProducer \in Nat
  /\ MaxStaticSize \in Nat \ {0}
  /\ MaxSizeArg \in Nat \ {0}
  /\ NotifyWhenDownToSize \in Nat \ {0}
  /\ Producers \cap Consumers = {}
  /\ Consumers # {}
  /\ IsFiniteSet(Producers)
  /\ IsFiniteSet(Consumers)
  /\ NoItem \notin Producers \X Nat

VARIABLES WorkItems,  \* the circular array
          Front,      \* index of the oldest entry
          Back,       \* index of the next free slot
          IsEnded,    \* set by notifyEnd()
          pc,         \* where each thread is
          sent,       \* entries each producer has pushed so far
          got,        \* what each consumer's last blockingPop() returned
          endPc       \* how far the thread that calls notifyEnd() is

vars == <<WorkItems, Front, Back, IsEnded, pc, sent, got, endPc>>

MaxSize == IF MaxSizeArg < MaxStaticSize THEN MaxSizeArg ELSE MaxStaticSize
size == Back - Front
empty == Front = Back
SlotMaskTooShort(i) == i % (MaxStaticSize \div 2)  \* faulty: one mask bit lost
Slot(i) == i % MaxStaticSize
HasRoomOffByOne == size <= MaxSize                 \* faulty: admits one too many
HasRoom == size < MaxSize

Items == Producers \X (1 .. PushesPerProducer)
Threads == Producers \cup Consumers
ProducerPc == {"push", "waitShrunk", "wokenShrunk", "notifyGrew"}
ConsumerPc == {"pop", "waitGrew", "wokenGrew", "notifyShrunk", "exited"}

At(S, places) == {t \in S : pc[t] \in places}

-----------------------------------------------------------------------------
Init ==
  /\ WorkItems = [i \in 0 .. MaxStaticSize - 1 |-> NoItem]
  /\ Front = 0
  /\ Back = 0
  /\ IsEnded = FALSE
  /\ pc = [t \in Threads |-> IF t \in Producers THEN "push" ELSE "pop"]
  /\ sent = [p \in Producers |-> 0]
  /\ got = [c \in Consumers |-> NoItem]
  /\ endPc = "open"

(***************************************************************************)
(* blockingPush(): wait on Shrunk until there is room, then store the      *)
(* entry; afterwards, with the mutex released, notify one consumer.        *)
(***************************************************************************)
WantsToPush(p) ==
  \/ pc[p] = "push" /\ sent[p] < PushesPerProducer
  \/ pc[p] = "wokenShrunk"

BlockingPush(p) ==
  /\ WantsToPush(p)
  /\ HasRoom
  /\ WorkItems' = [WorkItems EXCEPT ![Slot(Back)] = <<p, sent[p] + 1>>]
  /\ Back' = Back + 1
  /\ sent' = [sent EXCEPT ![p] = @ + 1]
  /\ pc' = [pc EXCEPT ![p] = "notifyGrew"]
  /\ UNCHANGED <<Front, IsEnded, got, endPc>>

WaitForShrunk(p) ==
  /\ WantsToPush(p)
  /\ ~HasRoom
  /\ pc' = [pc EXCEPT ![p] = "waitShrunk"]
  /\ UNCHANGED <<WorkItems, Front, Back, IsEnded, sent, got, endPc>>

(***************************************************************************)
(* cv.notify_one(): wakes one of the waiting threads, if there is one.     *)
(***************************************************************************)
NotifyOne(t, after, waiters, woken) ==
  IF waiters = {}
  THEN pc' = [pc EXCEPT ![t] = after]
  ELSE \E w \in waiters : pc' = [pc EXCEPT ![t] = after, ![w] = woken]

NotifyGrewForgotten(p) ==  \* faulty: returns without notifying
  /\ pc[p] = "notifyGrew"
  /\ pc' = [pc EXCEPT ![p] = "push"]
  /\ UNCHANGED <<WorkItems, Front, Back, IsEnded, sent, got, endPc>>

NotifyGrew(p) ==
  /\ pc[p] = "notifyGrew"
  /\ NotifyOne(p, "push", At(Consumers, {"waitGrew"}), "wokenGrew")
  /\ UNCHANGED <<WorkItems, Front, Back, IsEnded, sent, got, endPc>>

(***************************************************************************)
(* blockingPop(): wait on GrewOrEnded until there is an entry or no more   *)
(* can come, then take the oldest entry or nothing.  A producer is         *)
(* notified only when the queue has shrunk below NotifyWhenDownToSize.     *)
(***************************************************************************)
WantsToPop(c) == pc[c] \in {"pop", "wokenGrew"}
ShouldNotifyProducer == size - 1 < NotifyWhenDownToSize /\ ~IsEnded

BlockingPop(c) ==
  /\ WantsToPop(c)
  /\ ~empty
  /\ got' = [got EXCEPT ![c] = WorkItems[Slot(Front)]]
  /\ WorkItems' = [WorkItems EXCEPT ![Slot(Front)] = NoItem]
  /\ Front' = Front + 1
  /\ pc' = [pc EXCEPT ![c] = IF ShouldNotifyProducer THEN "notifyShrunk" ELSE "pop"]
  /\ UNCHANGED <<Back, IsEnded, sent, endPc>>

PopNullWithoutDraining(c) ==  \* faulty: the end overtakes queued entries
  /\ WantsToPop(c)
  /\ IsEnded
  /\ got' = [got EXCEPT ![c] = NoItem]
  /\ pc' = [pc EXCEPT ![c] = "exited"]
  /\ UNCHANGED <<WorkItems, Front, Back, IsEnded, sent, endPc>>

BlockingPopNull(c) ==
  /\ WantsToPop(c)
  /\ empty
  /\ IsEnded
  /\ got' = [got EXCEPT ![c] = NoItem]
  /\ pc' = [pc EXCEPT ![c] = "exited"]
  /\ UNCHANGED <<WorkItems, Front, Back, IsEnded, sent, endPc>>

WaitForGrew(c) ==  \* faulty: the wait predicate forgets IsEnded
  /\ WantsToPop(c)
  /\ empty
  /\ pc' = [pc EXCEPT ![c] = "waitGrew"]
  /\ UNCHANGED <<WorkItems, Front, Back, IsEnded, sent, got, endPc>>

WaitForGrewOrEnded(c) ==
  /\ WantsToPop(c)
  /\ empty
  /\ ~IsEnded
  /\ pc' = [pc EXCEPT ![c] = "waitGrew"]
  /\ UNCHANGED <<WorkItems, Front, Back, IsEnded, sent, got, endPc>>

NotifyShrunk(c) ==
  /\ pc[c] = "notifyShrunk"
  /\ NotifyOne(c, "pop", At(Producers, {"waitShrunk"}), "wokenShrunk")
  /\ UNCHANGED <<WorkItems, Front, Back, IsEnded, sent, got, endPc>>

(***************************************************************************)
(* notifyEnd().  Its callers (waitForWorkerThreads, for both queues) call  *)
(* it when every producer has returned from its last blockingPush().       *)
(***************************************************************************)
ProducersDone ==
  \A p \in Producers : pc[p] = "push" /\ sent[p] = PushesPerProducer

SetEnded ==
  /\ endPc = "open"
  /\ ProducersDone
  /\ IsEnded' = TRUE
  /\ endPc' = "notify"
  /\ UNCHANGED <<WorkItems, Front, Back, pc, sent, got>>

NotifyOneEnded ==  \* faulty: notify_one() where notify_all() is needed
  /\ endPc = "notify"
  /\ LET sleepers == At(Consumers, {"waitGrew"}) IN
       IF sleepers = {}
       THEN UNCHANGED pc
       ELSE \E w \in sleepers : pc' = [pc EXCEPT ![w] = "wokenGrew"]
  /\ endPc' = "returned"
  /\ UNCHANGED <<WorkItems, Front, Back, IsEnded, sent, got>>

NotifyAllEnded ==
  /\ endPc = "notify"
  /\ pc' = [t \in Threads |-> IF pc[t] = "waitGrew" THEN "wokenGrew" ELSE pc[t]]
  /\ endPc' = "returned"
  /\ UNCHANGED <<WorkItems, Front, Back, IsEnded, sent, got>>

(***************************************************************************)
(* std::condition_variable::wait may return without a notification.        *)
(***************************************************************************)
SpuriousWakeup(t) ==
  /\ pc[t] \in {"waitShrunk", "waitGrew"}
  /\ pc' = [pc EXCEPT ![t] = IF @ = "waitShrunk" THEN "wokenShrunk" ELSE "wokenGrew"]
  /\ UNCHANGED <<WorkItems, Front, Back, IsEnded, sent, got, endPc>>

AllDone ==
  /\ ProducersDone
  /\ endPc = "returned"
  /\ \A c \in Consumers : pc[c] = "exited"

Terminated == AllDone /\ UNCHANGED vars

-----------------------------------------------------------------------------
ProducerStep(p) == BlockingPush(p) \/ WaitForShrunk(p) \/ NotifyGrew(p)
ConsumerStep(c) ==
  \/ BlockingPop(c)
  \/ BlockingPopNull(c)
  \/ WaitForGrewOrEnded(c)
  \/ NotifyShrunk(c)
EnderStep == SetEnded \/ NotifyAllEnded

Next ==
  \/ \E p \in Producers : ProducerStep(p)
  \/ \E c \in Consumers : ConsumerStep(c)
  \/ EnderStep
  \/ \E t \in Threads : SpuriousWakeup(t)
  \/ Terminated

Spec == Init /\ [][Next]_vars

(***************************************************************************)
(* Each thread keeps running: a thread that is not blocked in wait()       *)
(* eventually takes its next step.  Spurious wakeups are never relied on.  *)
(***************************************************************************)
Fairness ==
  /\ \A p \in Producers : WF_vars(ProducerStep(p))
  /\ \A c \in Consumers : WF_vars(ConsumerStep(c))
  /\ WF_vars(EnderStep)

FairSpec == Spec /\ Fairness

-----------------------------------------------------------------------------
(***************************************************************************)
(* Types, and the array: Back runs ahead of Front by at most MaxSize.      *)
(***************************************************************************)
TypeOK ==
  /\ WorkItems \in [0 .. MaxStaticSize - 1 -> Items \cup {NoItem}]
  /\ Front \in Nat
  /\ Back \in Nat
  /\ IsEnded \in BOOLEAN
  /\ pc \in [Threads -> ProducerPc \cup ConsumerPc]
  /\ \A p \in Producers : pc[p] \in ProducerPc
  /\ \A c \in Consumers : pc[c] \in ConsumerPc
  /\ sent \in [Producers -> 0 .. PushesPerProducer]
  /\ got \in [Consumers -> Items \cup {NoItem}]
  /\ endPc \in {"open", "notify", "returned"}
  /\ Front <= Back
  /\ Back - Front <= MaxSize

(***************************************************************************)
(* No wakeup on GrewOrEnded is lost: when there is an entry (or the end    *)
(* was signalled) and consumers sleep, somebody is still going to look: an *)
(* awake consumer or a producer about to notify, and for the end the       *)
(* thread that is about to notify all of them.                             *)
(***************************************************************************)
NoLostGrew ==
  /\ ~empty =>
       \/ At(Consumers, {"waitGrew"}) # Consumers
       \/ At(Producers, {"notifyGrew"}) # {}
  /\ IsEnded /\ At(Consumers, {"waitGrew"}) # {} => endPc = "notify"

(***************************************************************************)
(* The threads never end up all asleep: whenever some producer or consumer *)
(* sleeps, some thread (the caller of notifyEnd included) can take a step. *)
(***************************************************************************)
Asleep(t) ==
  \/ pc[t] \in {"waitShrunk", "waitGrew", "exited"}
  \/ pc[t] = "push" /\ sent[t] = PushesPerProducer
EnderIdle == endPc = "returned" \/ (endPc = "open" /\ ~ProducersDone)
NoDeadlock == (\A t \in Threads : Asleep(t)) /\ EnderIdle => AllDone

(***************************************************************************)
(* A consumer leaves its loop only when no entry is left and none can      *)
(* come: blockingPop() never returns nullptr while work remains.           *)
(***************************************************************************)
ExitOnlyWhenDrained ==
  (\E c \in Consumers : pc[c] = "exited") => IsEnded /\ empty /\ ProducersDone

(***************************************************************************)
(* The circular array behaves as the sequence of module WorkQueue: entries *)
(* come out in the order they went in, each exactly once.                  *)
(***************************************************************************)
Contents == [i \in 1 .. size |-> WorkItems[Slot(Front + i - 1)]]
Queue == INSTANCE WorkQueue WITH
  Item <- Items, Consumer <- Consumers, NoItem <- NoItem,
  items <- Contents, ended <- IsEnded, got <- got
ImplementsWorkQueue == Queue!Init /\ [][Queue!Next(MaxSize)]_(Queue!queueVars)

(***************************************************************************)
(* Every entry is pushed and popped and every thread finishes, although    *)
(* producers and consumers block on each other.                            *)
(***************************************************************************)
EverythingDrains == <>AllDone

=============================================================================
