---------------- MODULE BoundedProducerConsumerQueueProofs ----------------
(***************************************************************************)
(* Proofs about the work queue, for any number of producers, consumers and *)
(* entries, any array size and any notification threshold.                 *)
(*                                                                         *)
(* NoDeadlock is not inductive.  Its proof needs to know who will wake a   *)
(* sleeper: NoLostGrew for consumers and SomebodyWillShrink for producers, *)
(* together with what the end of the queue means (EndMeansDone) and with   *)
(* the fact that a sleeping producer still has an entry in hand.           *)
(***************************************************************************)
EXTENDS BoundedProducerConsumerQueue, SequenceTheorems, TLAPS

(***************************************************************************)
(* A producer inside blockingPush() has not used up its entries.           *)
(***************************************************************************)
EntryInHand ==
  \A p \in Producers :
    pc[p] \in {"waitShrunk", "wokenShrunk"} => sent[p] < PushesPerProducer

TypeInv == TypeOK /\ EntryInHand

(***************************************************************************)
(* notifyEnd() has happened exactly when its caller is past the first      *)
(* half, and only after the producers were done.                           *)
(***************************************************************************)
EndMeansDone ==
  /\ IsEnded <=> endPc # "open"
  /\ IsEnded => ProducersDone

(***************************************************************************)
(* While a producer sleeps beside an empty queue, a consumer is about to   *)
(* notify one or a producer is already awake.                              *)
(***************************************************************************)
SomebodyWillShrink ==
  (\E p \in Producers : pc[p] = "waitShrunk") /\ empty =>
    \/ \E c \in Consumers : pc[c] = "notifyShrunk"
    \/ \E p \in Producers : pc[p] = "wokenShrunk"

IInv == TypeInv /\ EndMeansDone /\ SomebodyWillShrink /\ NoLostGrew /\ ExitOnlyWhenDrained

-----------------------------------------------------------------------------
(***************************************************************************)
(* An index of the circular array is in range.                             *)
(***************************************************************************)
LEMMA SlotInRange ==
  ASSUME NEW i \in Nat
  PROVE  Slot(i) \in 0 .. MaxStaticSize - 1
BY QueueAssumption, SMT DEF Slot

(***************************************************************************)
(* Fewer than MaxStaticSize apart, two indices have different slots.       *)
(***************************************************************************)
LEMMA SlotsDistinct ==
  ASSUME NEW i \in Nat, NEW j \in Nat, i < j, j - i < MaxStaticSize
  PROVE  Slot(i) # Slot(j)
<1> DEFINE M == MaxStaticSize
           a == i \div M
           b == j \div M
<1>1. M \in Nat \ {0}
  BY QueueAssumption
<1>2. /\ i = M * a + (i % M)
      /\ j = M * b + (j % M)
      /\ a \in Int
      /\ b \in Int
  BY <1>1, SMT
<1>3. SUFFICES ASSUME i % M = j % M
               PROVE  FALSE
  BY DEF Slot
<1> HIDE DEF M, a, b
<1>4. j - i = M * (b - a)
  BY <1>1, <1>2, <1>3, SMT
<1>5. CASE b - a >= 1
  <2>1. M * (b - a) >= M
    BY <1>1, <1>2, <1>5, SMT
  <2>2. QED
    BY <1>1, <1>4, <2>1 DEF M
<1>6. CASE b - a <= 0
  <2>1. M * (b - a) <= 0
    BY <1>1, <1>2, <1>6, SMT
  <2>2. QED
    BY <1>4, <2>1
<1>7. QED
  BY <1>2, <1>5, <1>6

(***************************************************************************)
(* The room a push needs exists in the array.                              *)
(***************************************************************************)
LEMMA MaxSizeBounds ==
  /\ MaxSize \in Nat
  /\ MaxSize >= 1
  /\ MaxSize <= MaxStaticSize
BY QueueAssumption DEF MaxSize

-----------------------------------------------------------------------------
(***************************************************************************)
(* Type correctness, one lemma per action.                                 *)
(***************************************************************************)
LEMMA InitType == Init => TypeInv
<1> SUFFICES ASSUME Init
             PROVE  TypeInv
  OBVIOUS
<1> USE DEF Init
<1>1. /\ pc \in [Threads -> ProducerPc \cup ConsumerPc]
      /\ \A p \in Producers : pc[p] \in ProducerPc
      /\ \A c \in Consumers : pc[c] \in ConsumerPc
  BY QueueAssumption DEF Threads, ProducerPc, ConsumerPc
<1>2. /\ Front <= Back
      /\ Back - Front <= MaxSize
  BY MaxSizeBounds
<1>3. /\ WorkItems \in [0 .. MaxStaticSize - 1 -> Items \cup {NoItem}]
      /\ sent \in [Producers -> 0 .. PushesPerProducer]
      /\ got \in [Consumers -> Items \cup {NoItem}]
  BY QueueAssumption
<1>4. EntryInHand
  BY DEF EntryInHand, Threads
<1>5. QED
  BY <1>1, <1>2, <1>3, <1>4 DEF TypeInv, TypeOK

LEMMA BlockingPushType ==
  ASSUME TypeInv, NEW p \in Producers, BlockingPush(p)
  PROVE  TypeInv'
<1> USE DEF TypeInv, TypeOK, BlockingPush, WantsToPush
<1>1. sent[p] \in 0 .. PushesPerProducer /\ sent[p] < PushesPerProducer
  BY DEF EntryInHand
<1>2. <<p, sent[p] + 1>> \in Items
  BY <1>1, QueueAssumption DEF Items
<1>3. WorkItems' \in [0 .. MaxStaticSize - 1 -> Items \cup {NoItem}]
  BY <1>2
<1>4. sent' \in [Producers -> 0 .. PushesPerProducer]
  BY <1>1, QueueAssumption
<1>5. /\ Front' \in Nat
      /\ Back' \in Nat
      /\ Front' <= Back'
      /\ Back' - Front' <= MaxSize
  BY MaxSizeBounds DEF HasRoom, size
<1>6. /\ pc' \in [Threads -> ProducerPc \cup ConsumerPc]
      /\ \A q \in Producers : pc'[q] \in ProducerPc
      /\ \A c \in Consumers : pc'[c] \in ConsumerPc
  BY QueueAssumption DEF Threads, ProducerPc, ConsumerPc
<1>7. EntryInHand'
  BY <1>1, QueueAssumption DEF EntryInHand, Threads
<1>8. QED
  BY <1>3, <1>4, <1>5, <1>6, <1>7

LEMMA BlockingPopType ==
  ASSUME TypeInv, NEW c \in Consumers, BlockingPop(c)
  PROVE  TypeInv'
<1> USE DEF TypeInv, TypeOK, BlockingPop, WantsToPop
<1>1. Slot(Front) \in 0 .. MaxStaticSize - 1
  BY SlotInRange
<1>2. /\ got' \in [Consumers -> Items \cup {NoItem}]
      /\ WorkItems' \in [0 .. MaxStaticSize - 1 -> Items \cup {NoItem}]
  BY <1>1
<1>3. /\ Front' \in Nat
      /\ Front' <= Back'
      /\ Back' - Front' <= MaxSize
  BY MaxSizeBounds DEF empty
<1>4. /\ pc' \in [Threads -> ProducerPc \cup ConsumerPc]
      /\ \A p \in Producers : pc'[p] \in ProducerPc
      /\ \A d \in Consumers : pc'[d] \in ConsumerPc
  BY QueueAssumption DEF Threads, ProducerPc, ConsumerPc
<1>5. EntryInHand'
  BY QueueAssumption DEF EntryInHand, Threads, ConsumerPc
<1>6. QED
  BY <1>2, <1>3, <1>4, <1>5

(***************************************************************************)
(* The remaining steps of a thread change pc only, and never move a        *)
(* producer without an entry in hand into blockingPush().                  *)
(***************************************************************************)
LEMMA ProducerWaitType ==
  ASSUME TypeInv, NEW p \in Producers, WaitForShrunk(p)
  PROVE  TypeInv'
BY QueueAssumption
   DEF TypeInv, TypeOK, EntryInHand, WaitForShrunk, WantsToPush, Threads, ProducerPc, ConsumerPc

LEMMA NotifyGrewType ==
  ASSUME TypeInv, NEW p \in Producers, NotifyGrew(p)
  PROVE  TypeInv'
<1> USE QueueAssumption
    DEF TypeInv, TypeOK, EntryInHand, NotifyGrew, NotifyOne, At, Threads, ProducerPc, ConsumerPc
<1>1. CASE At(Consumers, {"waitGrew"}) = {}
  BY <1>1
<1>2. CASE At(Consumers, {"waitGrew"}) # {}
  <2>1. PICK w \in At(Consumers, {"waitGrew"}) :
          pc' = [pc EXCEPT ![p] = "push", ![w] = "wokenGrew"]
    BY <1>2
  <2>2. QED
    BY <2>1
<1>3. QED
  BY <1>1, <1>2

LEMMA NotifyShrunkType ==
  ASSUME TypeInv, NEW c \in Consumers, NotifyShrunk(c)
  PROVE  TypeInv'
<1> USE QueueAssumption
    DEF TypeInv, TypeOK, EntryInHand, NotifyShrunk, NotifyOne, At, Threads, ProducerPc, ConsumerPc
<1>1. CASE At(Producers, {"waitShrunk"}) = {}
  BY <1>1
<1>2. CASE At(Producers, {"waitShrunk"}) # {}
  <2>1. PICK w \in At(Producers, {"waitShrunk"}) :
          pc' = [pc EXCEPT ![c] = "pop", ![w] = "wokenShrunk"]
    BY <1>2
  <2>2. QED
    BY <2>1
<1>3. QED
  BY <1>1, <1>2

LEMMA ConsumerIdleType ==
  ASSUME TypeInv, NEW c \in Consumers, BlockingPopNull(c) \/ WaitForGrewOrEnded(c)
  PROVE  TypeInv'
BY QueueAssumption
   DEF TypeInv, TypeOK, EntryInHand, BlockingPopNull, WaitForGrewOrEnded, WantsToPop,
       Threads, ProducerPc, ConsumerPc

LEMMA EnderType ==
  ASSUME TypeInv, EnderStep
  PROVE  TypeInv'
<1> USE DEF TypeInv, TypeOK, EntryInHand
<1>1. CASE SetEnded
  BY <1>1 DEF SetEnded
<1>2. CASE NotifyAllEnded
  BY <1>2, QueueAssumption DEF NotifyAllEnded, Threads, ProducerPc, ConsumerPc
<1>3. QED
  BY <1>1, <1>2 DEF EnderStep

LEMMA SpuriousWakeupType ==
  ASSUME TypeInv, NEW t \in Threads, SpuriousWakeup(t)
  PROVE  TypeInv'
BY QueueAssumption
   DEF TypeInv, TypeOK, EntryInHand, SpuriousWakeup, Threads, ProducerPc, ConsumerPc

LEMMA NextType == TypeInv /\ [Next]_vars => TypeInv'
<1> SUFFICES ASSUME TypeInv, [Next]_vars
             PROVE  TypeInv'
  OBVIOUS
<1>1. ASSUME NEW p \in Producers, ProducerStep(p)
      PROVE  TypeInv'
  BY <1>1, BlockingPushType, ProducerWaitType, NotifyGrewType DEF ProducerStep
<1>2. ASSUME NEW c \in Consumers, ConsumerStep(c)
      PROVE  TypeInv'
  BY <1>2, BlockingPopType, ConsumerIdleType, NotifyShrunkType DEF ConsumerStep
<1>3. CASE UNCHANGED vars
  BY <1>3 DEF vars, TypeInv, TypeOK, EntryInHand
<1>4. QED
  BY <1>1, <1>2, <1>3, EnderType, SpuriousWakeupType DEF Next, Terminated

(***************************************************************************)
(* The queue stays within its array and every thread at a place it can be. *)
(***************************************************************************)
THEOREM TypeCorrect == Spec => []TypeOK
<1>1. Spec => []TypeInv
  BY InitType, NextType, PTL DEF Spec
<1>2. TypeInv => TypeOK
  BY DEF TypeInv
<1>3. QED
  BY <1>1, <1>2, PTL

-----------------------------------------------------------------------------
(***************************************************************************)
(* The remaining parts of IInv, one lemma per kind of step.                *)
(***************************************************************************)
Coordination == EndMeansDone /\ SomebodyWillShrink /\ NoLostGrew /\ ExitOnlyWhenDrained

LEMMA InitCoordination == Init => Coordination
BY QueueAssumption
   DEF Init, Coordination, EndMeansDone, SomebodyWillShrink, NoLostGrew, ExitOnlyWhenDrained,
       empty, At, Threads

(***************************************************************************)
(* A push leaves a notification of a consumer behind, and cannot happen    *)
(* after the end because the producer still has an entry in hand.          *)
(***************************************************************************)
LEMMA BlockingPushCoordination ==
  ASSUME TypeInv, Coordination, NEW p \in Producers, BlockingPush(p)
  PROVE  Coordination'
<1> USE QueueAssumption
    DEF TypeInv, TypeOK, Coordination, BlockingPush, WantsToPush, Threads
<1>1. ~ProducersDone
  BY DEF EntryInHand, ProducersDone
<1>2. ~IsEnded /\ EndMeansDone'
  BY <1>1 DEF EndMeansDone
<1>3. ~empty'
  BY DEF empty
<1>4. SomebodyWillShrink'
  BY <1>3 DEF SomebodyWillShrink
<1>5. pc'[p] = "notifyGrew"
  OBVIOUS
<1>6. NoLostGrew'
  BY <1>2, <1>5 DEF NoLostGrew, At
<1>7. \A c \in Consumers : pc'[c] = pc[c]
  OBVIOUS
<1>8. ExitOnlyWhenDrained'
  BY <1>2, <1>7 DEF ExitOnlyWhenDrained
<1>9. QED
  BY <1>2, <1>4, <1>6, <1>8

(***************************************************************************)
(* A producer goes to sleep only beside a full, hence non-empty, queue.    *)
(***************************************************************************)
LEMMA WaitForShrunkCoordination ==
  ASSUME TypeInv, Coordination, NEW p \in Producers, WaitForShrunk(p)
  PROVE  Coordination'
<1> USE QueueAssumption
    DEF TypeInv, TypeOK, Coordination, WaitForShrunk, WantsToPush, Threads
<1>1. ~ProducersDone
  BY DEF EntryInHand, ProducersDone
<1>2. ~IsEnded /\ EndMeansDone'
  BY <1>1 DEF EndMeansDone
<1>3. ~empty'
  BY MaxSizeBounds DEF empty, HasRoom, size
<1>4. SomebodyWillShrink'
  BY <1>3 DEF SomebodyWillShrink
<1>5. At(Consumers, {"waitGrew"})' = At(Consumers, {"waitGrew"})
  BY DEF At
<1>6. At(Producers, {"notifyGrew"})' = At(Producers, {"notifyGrew"})
  BY DEF At
<1>7. NoLostGrew'
  BY <1>2, <1>5, <1>6 DEF NoLostGrew, empty
<1>8. \A c \in Consumers : pc'[c] = pc[c]
  OBVIOUS
<1>9. ExitOnlyWhenDrained'
  BY <1>2, <1>8 DEF ExitOnlyWhenDrained
<1>10. QED
  BY <1>2, <1>4, <1>7, <1>9

(***************************************************************************)
(* After NotifyGrew some consumer is awake, whether it was woken or not.   *)
(***************************************************************************)
LEMMA NotifyGrewCoordination ==
  ASSUME TypeInv, Coordination, NEW p \in Producers, NotifyGrew(p)
  PROVE  Coordination'
<1> USE QueueAssumption DEF TypeInv, TypeOK, Coordination, NotifyGrew, Threads
<1>1. ~ProducersDone /\ ~IsEnded
  BY DEF ProducersDone, EndMeansDone
<1>2. EndMeansDone'
  BY <1>1 DEF EndMeansDone
<1>3. \A c \in Consumers : pc[c] # "exited"
  BY <1>1 DEF ExitOnlyWhenDrained
<1>4. /\ \E c \in Consumers : pc'[c] # "waitGrew"
      /\ \A c \in Consumers : pc'[c] = pc[c] \/ (pc[c] = "waitGrew" /\ pc'[c] = "wokenGrew")
      /\ pc'[p] = "push"
      /\ \A q \in Producers : q = p \/ pc'[q] = pc[q]
  <2>1. CASE At(Consumers, {"waitGrew"}) = {}
    BY <2>1 DEF NotifyOne, At
  <2>2. CASE At(Consumers, {"waitGrew"}) # {}
    <3>1. PICK w \in At(Consumers, {"waitGrew"}) :
            pc' = [pc EXCEPT ![p] = "push", ![w] = "wokenGrew"]
      BY <2>2 DEF NotifyOne
    <3>2. QED
      BY <3>1 DEF At
  <2>3. QED
    BY <2>1, <2>2
<1>5. SomebodyWillShrink'
  BY <1>4 DEF SomebodyWillShrink, empty
<1>6. NoLostGrew'
  BY <1>1, <1>4 DEF NoLostGrew, At
<1>7. ExitOnlyWhenDrained'
  BY <1>3, <1>4 DEF ExitOnlyWhenDrained
<1>8. QED
  BY <1>2, <1>5, <1>6, <1>7

(***************************************************************************)
(* A consumer that empties the queue beside a sleeping producer is below   *)
(* the notification threshold, so it goes on to notify.                    *)
(***************************************************************************)
LEMMA BlockingPopCoordination ==
  ASSUME TypeInv, Coordination, NEW c \in Consumers, BlockingPop(c)
  PROVE  Coordination'
<1> USE QueueAssumption
    DEF TypeInv, TypeOK, Coordination, BlockingPop, WantsToPop, Threads
<1>1. \A p \in Producers : pc'[p] = pc[p]
  OBVIOUS
<1>2. EndMeansDone'
  BY <1>1 DEF EndMeansDone, ProducersDone
<1>3. pc'[c] \in {"pop", "notifyShrunk"}
  OBVIOUS
<1>4. NoLostGrew'
  <2>1. At(Consumers, {"waitGrew"})' \subseteq At(Consumers, {"waitGrew"})
    BY <1>3 DEF At
  <2>2. c \notin At(Consumers, {"waitGrew"})'
    BY <1>3 DEF At
  <2>3. QED
    BY <2>1, <2>2 DEF NoLostGrew
<1>5. SomebodyWillShrink'
  <2>1. SUFFICES ASSUME NEW p \in Producers, pc[p] = "waitShrunk", empty'
                 PROVE  pc'[c] = "notifyShrunk"
    BY <1>1 DEF SomebodyWillShrink
  <2>2. ~IsEnded
    BY <2>1 DEF EndMeansDone, ProducersDone
  <2>3. size - 1 = 0
    BY <2>1 DEF empty, size
  <2>4. QED
    BY <2>2, <2>3 DEF ShouldNotifyProducer
<1>6. ExitOnlyWhenDrained'
  <2>1. \A d \in Consumers : pc[d] # "exited"
    BY DEF ExitOnlyWhenDrained
  <2>2. QED
    BY <1>3, <2>1 DEF ExitOnlyWhenDrained
<1>7. QED
  BY <1>2, <1>4, <1>5, <1>6

(***************************************************************************)
(* A consumer sleeps on GrewOrEnded only beside an empty, open queue, and  *)
(* leaves only when the queue is empty and closed.                         *)
(***************************************************************************)
LEMMA ConsumerIdleCoordination ==
  ASSUME TypeInv, Coordination, NEW c \in Consumers,
         BlockingPopNull(c) \/ WaitForGrewOrEnded(c)
  PROVE  Coordination'
<1> USE QueueAssumption
    DEF TypeInv, TypeOK, Coordination, BlockingPopNull, WaitForGrewOrEnded, WantsToPop, Threads
<1>1. /\ \A p \in Producers : pc'[p] = pc[p]
      /\ \A d \in Consumers : d = c \/ pc'[d] = pc[d]
      /\ pc[c] # "notifyShrunk"
      /\ empty /\ empty'
  BY DEF empty
<1>2. EndMeansDone'
  BY <1>1 DEF EndMeansDone, ProducersDone
<1>3. SomebodyWillShrink'
  BY <1>1 DEF SomebodyWillShrink
<1>4. NoLostGrew'
  BY <1>1 DEF NoLostGrew, At
<1>5. ExitOnlyWhenDrained'
  BY <1>1, <1>2 DEF ExitOnlyWhenDrained, EndMeansDone
<1>6. QED
  BY <1>2, <1>3, <1>4, <1>5

(***************************************************************************)
(* NotifyShrunk either leaves a woken producer or no sleeping one.         *)
(***************************************************************************)
LEMMA NotifyShrunkCoordination ==
  ASSUME TypeInv, Coordination, NEW c \in Consumers, NotifyShrunk(c)
  PROVE  Coordination'
<1> USE QueueAssumption DEF TypeInv, TypeOK, Coordination, NotifyShrunk, Threads
<1>1. /\ pc'[c] = "pop"
      /\ \A d \in Consumers : d = c \/ pc'[d] = pc[d]
      /\ \A p \in Producers :
           pc'[p] = pc[p] \/ (pc[p] = "waitShrunk" /\ pc'[p] = "wokenShrunk")
      /\ \/ \A p \in Producers : pc'[p] # "waitShrunk"
         \/ \E p \in Producers : pc'[p] = "wokenShrunk"
  <2>1. CASE At(Producers, {"waitShrunk"}) = {}
    BY <2>1 DEF NotifyOne, At
  <2>2. CASE At(Producers, {"waitShrunk"}) # {}
    <3>1. PICK w \in At(Producers, {"waitShrunk"}) :
            pc' = [pc EXCEPT ![c] = "pop", ![w] = "wokenShrunk"]
      BY <2>2 DEF NotifyOne
    <3>2. QED
      BY <3>1 DEF At
  <2>3. QED
    BY <2>1, <2>2
<1>2. IsEnded => \A p \in Producers : pc'[p] = pc[p]
  BY <1>1 DEF EndMeansDone, ProducersDone
<1>3. EndMeansDone'
  BY <1>2 DEF EndMeansDone, ProducersDone
<1>4. SomebodyWillShrink'
  BY <1>1 DEF SomebodyWillShrink
<1>5. NoLostGrew'
  BY <1>1 DEF NoLostGrew, At, empty
<1>6. ExitOnlyWhenDrained'
  BY <1>1, <1>2 DEF ExitOnlyWhenDrained, ProducersDone, empty
<1>7. QED
  BY <1>3, <1>4, <1>5, <1>6

LEMMA EnderCoordination ==
  ASSUME TypeInv, Coordination, EnderStep
  PROVE  Coordination'
<1> USE QueueAssumption DEF TypeInv, TypeOK, Coordination, Threads
<1>1. CASE SetEnded
  BY <1>1 DEF SetEnded, EndMeansDone, ProducersDone, SomebodyWillShrink, NoLostGrew,
              ExitOnlyWhenDrained, At, empty
<1>2. CASE NotifyAllEnded
  <2> USE <1>2 DEF NotifyAllEnded
  <2>1. /\ \A p \in Producers : pc'[p] = pc[p]
        /\ \A c \in Consumers : pc'[c] # "waitGrew"
        /\ \A c \in Consumers : pc'[c] = pc[c] \/ pc'[c] = "wokenGrew"
        /\ \A c \in Consumers : pc[c] = "notifyShrunk" => pc'[c] = "notifyShrunk"
        /\ UNCHANGED <<Front, Back, IsEnded, sent>>
    BY DEF ProducerPc
  <2>2. EndMeansDone'
    BY <2>1 DEF EndMeansDone, ProducersDone
  <2>3. SomebodyWillShrink'
    BY <2>1 DEF SomebodyWillShrink, empty
  <2>4. NoLostGrew'
    BY <2>1 DEF NoLostGrew, At
  <2>5. ExitOnlyWhenDrained'
    BY <2>1 DEF ExitOnlyWhenDrained, ProducersDone, empty
  <2>6. QED
    BY <2>2, <2>3, <2>4, <2>5
<1>3. QED
  BY <1>1, <1>2 DEF EnderStep

LEMMA SpuriousWakeupCoordination ==
  ASSUME TypeInv, Coordination, NEW t \in Threads, SpuriousWakeup(t)
  PROVE  Coordination'
<1> USE QueueAssumption DEF TypeInv, TypeOK, Coordination, SpuriousWakeup, Threads
<1>1. /\ \A u \in Threads : u = t \/ pc'[u] = pc[u]
      /\ \/ pc[t] = "waitShrunk" /\ pc'[t] = "wokenShrunk"
         \/ pc[t] = "waitGrew" /\ pc'[t] = "wokenGrew"
      /\ UNCHANGED <<Front, Back, IsEnded, sent, endPc>>
  OBVIOUS
<1>2. EndMeansDone'
  BY <1>1 DEF EndMeansDone, ProducersDone
<1>3. SomebodyWillShrink'
  BY <1>1 DEF SomebodyWillShrink, ProducerPc, ConsumerPc, empty
<1>4. NoLostGrew'
  BY <1>1 DEF NoLostGrew, At, empty
<1>5. ExitOnlyWhenDrained'
  BY <1>1 DEF ExitOnlyWhenDrained, ProducersDone, empty
<1>6. QED
  BY <1>2, <1>3, <1>4, <1>5

LEMMA NextCoordination == TypeInv /\ Coordination /\ [Next]_vars => Coordination'
<1> SUFFICES ASSUME TypeInv, Coordination, [Next]_vars
             PROVE  Coordination'
  OBVIOUS
<1>1. ASSUME NEW p \in Producers, ProducerStep(p)
      PROVE  Coordination'
  BY <1>1, BlockingPushCoordination, WaitForShrunkCoordination, NotifyGrewCoordination
     DEF ProducerStep
<1>2. ASSUME NEW c \in Consumers, ConsumerStep(c)
      PROVE  Coordination'
  BY <1>2, BlockingPopCoordination, ConsumerIdleCoordination, NotifyShrunkCoordination
     DEF ConsumerStep
<1>3. CASE UNCHANGED vars
  BY <1>3 DEF vars, Coordination, EndMeansDone, ProducersDone, SomebodyWillShrink, NoLostGrew,
              ExitOnlyWhenDrained, At, empty
<1>4. QED
  BY <1>1, <1>2, <1>3, EnderCoordination, SpuriousWakeupCoordination DEF Next, Terminated

LEMMA Inductive == Spec => []IInv
<1>1. Init => TypeInv /\ Coordination
  BY InitType, InitCoordination
<1>2. TypeInv /\ Coordination /\ [Next]_vars => (TypeInv /\ Coordination)'
  BY NextType, NextCoordination
<1>3. TypeInv /\ Coordination => IInv
  BY DEF IInv, Coordination
<1>4. QED
  BY <1>1, <1>2, <1>3, PTL DEF Spec

-----------------------------------------------------------------------------
(***************************************************************************)
(* No entry and no end of queue is left with every consumer asleep.        *)
(***************************************************************************)
THEOREM NoLostGrewCorrect == Spec => []NoLostGrew
<1>1. IInv => NoLostGrew
  BY DEF IInv
<1>2. QED
  BY <1>1, Inductive, PTL

(***************************************************************************)
(* blockingPop() returns nullptr only when no entry remains or can come.   *)
(***************************************************************************)
THEOREM ExitOnlyWhenDrainedCorrect == Spec => []ExitOnlyWhenDrained
<1>1. IInv => ExitOnlyWhenDrained
  BY DEF IInv
<1>2. QED
  BY <1>1, Inductive, PTL

(***************************************************************************)
(* Producers and consumers never all sleep with work left to do.           *)
(***************************************************************************)
LEMMA IInvNoDeadlock == IInv => NoDeadlock
<1> SUFFICES ASSUME IInv, \A t \in Threads : Asleep(t), EnderIdle
             PROVE  AllDone
  BY DEF NoDeadlock
<1> USE DEF IInv, TypeInv, TypeOK, Threads
<1>1. /\ \A p \in Producers :
           pc[p] = "waitShrunk" \/ (pc[p] = "push" /\ sent[p] = PushesPerProducer)
      /\ \A c \in Consumers : pc[c] \in {"waitGrew", "exited"}
  BY DEF Asleep, ProducerPc, ConsumerPc
<1>2. CASE endPc = "returned"
  <2>1. IsEnded /\ ProducersDone
    BY <1>2 DEF EndMeansDone
  <2>2. \A c \in Consumers : pc[c] # "waitGrew"
    BY <1>2, <2>1 DEF NoLostGrew, At
  <2>3. QED
    BY <1>1, <1>2, <2>1, <2>2 DEF AllDone
<1>3. CASE endPc = "open" /\ ~ProducersDone
  <2>1. \E p \in Producers : pc[p] = "waitShrunk"
    BY <1>1, <1>3 DEF ProducersDone
  <2>2. \A c \in Consumers : pc[c] = "waitGrew"
    BY <1>1, <1>3 DEF ExitOnlyWhenDrained
  <2>3. empty
    BY <1>1, <2>2 DEF NoLostGrew, At
  <2>4. FALSE
    BY <1>1, <2>1, <2>2, <2>3 DEF SomebodyWillShrink
  <2>5. QED
    BY <2>4
<1>4. QED
  BY <1>2, <1>3 DEF EnderIdle

THEOREM NoDeadlockCorrect == Spec => []NoDeadlock
BY IInvNoDeadlock, Inductive, PTL

-----------------------------------------------------------------------------
(***************************************************************************)
(* The circular array as a sequence.                                       *)
(***************************************************************************)
LEMMA ContentsSeq ==
  ASSUME TypeOK
  PROVE  /\ Contents \in Seq(Items \cup {NoItem})
         /\ Len(Contents) = size
         /\ size \in Nat
         /\ \A i \in 1 .. size : Contents[i] = WorkItems[Slot(Front + i - 1)]
<1>1. size \in Nat
  BY DEF TypeOK, size
<1>2. \A i \in 1 .. size : WorkItems[Slot(Front + i - 1)] \in Items \cup {NoItem}
  <2>1. SUFFICES ASSUME NEW i \in 1 .. size
                 PROVE  WorkItems[Slot(Front + i - 1)] \in Items \cup {NoItem}
    OBVIOUS
  <2>2. Front + i - 1 \in Nat
    BY <1>1 DEF TypeOK
  <2>3. QED
    BY <2>2, SlotInRange DEF TypeOK
<1>3. QED
  BY <1>1, <1>2 DEF Contents

(***************************************************************************)
(* Storing at Back appends: the slot was none of the occupied ones.        *)
(***************************************************************************)
LEMMA PushAppends ==
  ASSUME TypeInv, TypeInv', NEW p \in Producers, BlockingPush(p)
  PROVE  Contents' = Append(Contents, <<p, sent[p] + 1>>)
<1> DEFINE x == <<p, sent[p] + 1>>
<1>1. /\ Contents \in Seq(Items \cup {NoItem})
      /\ Len(Contents) = size
      /\ size \in Nat
      /\ \A i \in 1 .. size : Contents[i] = WorkItems[Slot(Front + i - 1)]
  BY ContentsSeq DEF TypeInv
<1>2. size' = size + 1 /\ size < MaxStaticSize
  BY MaxSizeBounds, QueueAssumption DEF BlockingPush, HasRoom, size, TypeInv, TypeOK
<1>3. Contents' = [i \in 1 .. size + 1 |-> WorkItems'[Slot(Front + i - 1)]]
  BY <1>2 DEF Contents, BlockingPush, Slot
<1>4. \A i \in 1 .. size : WorkItems'[Slot(Front + i - 1)] = Contents[i]
  <2>1. SUFFICES ASSUME NEW i \in 1 .. size
                 PROVE  WorkItems'[Slot(Front + i - 1)] = Contents[i]
    OBVIOUS
  <2> /\ Front \in Nat
      /\ Back \in Nat
      /\ Back = Front + size
    BY DEF size, TypeInv, TypeOK
  <2>2. /\ Front + i - 1 \in Nat
        /\ Front + i - 1 < Back
        /\ Back - (Front + i - 1) < MaxStaticSize
    BY <1>1, <1>2, QueueAssumption
  <2>3. Slot(Front + i - 1) # Slot(Back)
    BY <2>2, SlotsDistinct
  <2>4. Slot(Front + i - 1) \in 0 .. MaxStaticSize - 1
    BY <2>2, SlotInRange
  <2>5. QED
    BY <1>1, <2>3, <2>4 DEF BlockingPush, TypeInv, TypeOK
<1>5. WorkItems'[Slot(Front + (size + 1) - 1)] = x
  <2>1. Front + (size + 1) - 1 = Back
    BY DEF size, TypeInv, TypeOK
  <2>2. QED
    BY <2>1, SlotInRange DEF BlockingPush, TypeInv, TypeOK
<1>6. Append(Contents, x) = [i \in 1 .. size + 1 |-> IF i = size + 1 THEN x ELSE Contents[i]]
  BY <1>1
<1>7. \A i \in 1 .. size + 1 :
        WorkItems'[Slot(Front + i - 1)] = IF i = size + 1 THEN x ELSE Contents[i]
  BY <1>1, <1>4, <1>5
<1>8. QED
  BY <1>3, <1>6, <1>7

(***************************************************************************)
(* Taking at Front removes the oldest entry and disturbs no other.         *)
(***************************************************************************)
LEMMA PopTakesHead ==
  ASSUME TypeInv, TypeInv', NEW c \in Consumers, BlockingPop(c)
  PROVE  /\ Contents # <<>>
         /\ WorkItems[Slot(Front)] = Head(Contents)
         /\ Contents' = Tail(Contents)
<1>1. /\ Contents \in Seq(Items \cup {NoItem})
      /\ Len(Contents) = size
      /\ size \in Nat
      /\ \A i \in 1 .. size : Contents[i] = WorkItems[Slot(Front + i - 1)]
  BY ContentsSeq DEF TypeInv
<1>2. /\ size >= 1
      /\ size <= MaxStaticSize
      /\ size' = size - 1
  BY MaxSizeBounds, QueueAssumption DEF BlockingPop, empty, size, TypeInv, TypeOK
<1>3. Contents # <<>> /\ Head(Contents) = Contents[1]
  BY <1>1, <1>2
<1>4. Contents[1] = WorkItems[Slot(Front)]
  <2>1. 1 \in 1 .. size /\ Front + 1 - 1 = Front
    BY <1>1, <1>2 DEF TypeInv, TypeOK
  <2>2. QED
    BY <1>1, <2>1
<1>5. Contents' = [i \in 1 .. size - 1 |-> WorkItems'[Slot((Front + 1) + i - 1)]]
  BY <1>2 DEF Contents, BlockingPop, Slot
<1>6. \A i \in 1 .. size - 1 : WorkItems'[Slot((Front + 1) + i - 1)] = Contents[i + 1]
  <2>1. SUFFICES ASSUME NEW i \in 1 .. size - 1
                 PROVE  WorkItems'[Slot((Front + 1) + i - 1)] = Contents[i + 1]
    OBVIOUS
  <2>2. /\ i + 1 \in 1 .. size
        /\ (Front + 1) + i - 1 = Front + (i + 1) - 1
        /\ Front + (i + 1) - 1 \in Nat
        /\ Front \in Nat
        /\ Front < Front + (i + 1) - 1
        /\ Front + (i + 1) - 1 - Front < MaxStaticSize
    BY <1>1, <1>2, QueueAssumption DEF TypeInv, TypeOK
  <2>3. Slot(Front) # Slot(Front + (i + 1) - 1)
    BY <2>2, SlotsDistinct
  <2>4. Slot(Front + (i + 1) - 1) \in 0 .. MaxStaticSize - 1
    BY <2>2, SlotInRange
  <2>5. WorkItems'[Slot(Front + (i + 1) - 1)] = WorkItems[Slot(Front + (i + 1) - 1)]
    BY <2>3, <2>4 DEF BlockingPop, TypeInv, TypeOK
  <2>6. QED
    BY <1>1, <2>2, <2>5
<1>7. Tail(Contents) = [i \in 1 .. Len(Contents) - 1 |-> Contents[i + 1]]
  <2>1. /\ Tail(Contents) \in Seq(Items \cup {NoItem})
        /\ Len(Tail(Contents)) = Len(Contents) - 1
        /\ \A i \in 1 .. Len(Tail(Contents)) : Tail(Contents)[i] = Contents[i + 1]
    BY <1>1, <1>3, HeadTailProperties
  <2>2. Tail(Contents) \in [1 .. Len(Tail(Contents)) -> Items \cup {NoItem}]
    BY <2>1, LenProperties
  <2>3. QED
    BY <2>1, <2>2
<1>8. QED
  BY <1>1, <1>3, <1>4, <1>5, <1>6, <1>7

(***************************************************************************)
(* Steps that leave the array alone leave the sequence alone.              *)
(***************************************************************************)
LEMMA ContentsUnchanged ==
  ASSUME UNCHANGED <<WorkItems, Front, Back>>
  PROVE  Contents' = Contents
BY DEF Contents, size, Slot

-----------------------------------------------------------------------------
LEMMA InitRefines == Init => Queue!Init
<1> SUFFICES ASSUME Init
             PROVE  Queue!Init
  OBVIOUS
<1>1. size = 0
  BY DEF Init, size
<1>2. Contents = <<>>
  BY <1>1 DEF Contents
<1>3. QED
  BY <1>2 DEF Init, Queue!Init

(***************************************************************************)
(* Every step of the implementation is a push, a pop, the closing, or      *)
(* invisible.                                                              *)
(***************************************************************************)
LEMMA StepRefines ==
  ASSUME IInv, TypeInv', [Next]_vars
  PROVE  [Queue!Next(MaxSize)]_(Queue!queueVars)
<1> USE DEF Queue!queueVars
<1> TypeInv
  BY DEF IInv
<1>1. ASSUME NEW p \in Producers, BlockingPush(p)
      PROVE  Queue!Next(MaxSize)
  <2>1. ~IsEnded
    BY <1>1, QueueAssumption
       DEF IInv, TypeInv, TypeOK, EntryInHand, EndMeansDone, ProducersDone, BlockingPush, WantsToPush
  <2>2. Contents' = Append(Contents, <<p, sent[p] + 1>>)
    BY <1>1, PushAppends
  <2>3. Len(Contents) < MaxSize
    BY <1>1, ContentsSeq DEF TypeInv, BlockingPush, HasRoom
  <2>4. <<p, sent[p] + 1>> \in Items
    BY <1>1, QueueAssumption
       DEF TypeInv, TypeOK, EntryInHand, Items, BlockingPush, WantsToPush
  <2>5. Queue!PushOpen(<<p, sent[p] + 1>>, MaxSize)
    BY <1>1, <2>1, <2>2, <2>3 DEF Queue!PushOpen, Queue!Push, Queue!MayPush, BlockingPush
  <2>6. QED
    BY <2>4, <2>5 DEF Queue!Next
<1>2. ASSUME NEW c \in Consumers, BlockingPop(c)
      PROVE  Queue!Next(MaxSize)
  <2>1. Queue!Pop(c)
    BY <1>2, PopTakesHead DEF Queue!Pop, Queue!TakeHead, BlockingPop
  <2>2. QED
    BY <2>1 DEF Queue!Next
<1>3. ASSUME NEW c \in Consumers, BlockingPopNull(c)
      PROVE  Queue!Next(MaxSize)
  <2>1. size = 0
    BY <1>3 DEF BlockingPopNull, empty, size, TypeInv, TypeOK
  <2>2. Contents = <<>>
    BY <2>1 DEF Contents
  <2>3. Queue!Pop(c)
    BY <1>3, <2>2, ContentsUnchanged
       DEF Queue!Pop, Queue!TakeNothing, Queue!MayPop, BlockingPopNull
  <2>4. QED
    BY <2>3 DEF Queue!Next
<1>4. CASE SetEnded
  BY <1>4, ContentsUnchanged DEF Queue!Next, Queue!Close, Queue!NotifyEnd, SetEnded
<1>5. ASSUME UNCHANGED <<WorkItems, Front, Back, IsEnded, got>>
      PROVE  UNCHANGED Queue!queueVars
  BY <1>5, ContentsUnchanged
<1>6. ASSUME NEW p \in Producers, WaitForShrunk(p) \/ NotifyGrew(p)
      PROVE  UNCHANGED Queue!queueVars
  BY <1>5, <1>6 DEF WaitForShrunk, NotifyGrew
<1>7. ASSUME NEW c \in Consumers, WaitForGrewOrEnded(c) \/ NotifyShrunk(c)
      PROVE  UNCHANGED Queue!queueVars
  BY <1>5, <1>7 DEF WaitForGrewOrEnded, NotifyShrunk
<1>8. ASSUME NotifyAllEnded \/ (\E t \in Threads : SpuriousWakeup(t)) \/ UNCHANGED vars
      PROVE  UNCHANGED Queue!queueVars
  BY <1>5, <1>8 DEF NotifyAllEnded, SpuriousWakeup, vars
<1>9. QED
  BY <1>1, <1>2, <1>3, <1>4, <1>6, <1>7, <1>8
     DEF Next, ProducerStep, ConsumerStep, EnderStep, Terminated

(***************************************************************************)
(* The circular array with its condition variables is a closable FIFO.     *)
(***************************************************************************)
THEOREM QueueRefinement == Spec => ImplementsWorkQueue
<1>1. IInv => TypeInv
  BY DEF IInv
<1>2. IInv /\ TypeInv' /\ [Next]_vars => [Queue!Next(MaxSize)]_(Queue!queueVars)
  BY StepRefines
<1>3. QED
  BY <1>1, <1>2, InitRefines, Inductive, PTL DEF Spec, ImplementsWorkQueue
=============================================================================
