----------------------------- MODULE WorkQueue -----------------------------
(***************************************************************************)
(* What BoundedProducerConsumerQueue promises to its users: a first-in     *)
(* first-out queue that can be closed.  A pop returns the oldest entry, or *)
(* NoItem (nullptr) once the queue is closed and drained.  Locks,          *)
(* condition variables and the circular array do not appear here; they are *)
(* in module BoundedProducerConsumerQueue, which implements this one.      *)
(* Module TranslationPipeline is built from two instances of it.           *)
(***************************************************************************)
EXTENDS Naturals, Sequences

CONSTANTS Item,      \* the work items that can be queued
          Consumer,  \* the threads that pop
          NoItem     \* the null unique_ptr

VARIABLES items,     \* the queued entries, oldest first
          ended,     \* notifyEnd() has been called
          got        \* what each consumer's last pop returned

queueVars == <<items, ended, got>>

(***************************************************************************)
(* The predicates the two wait() calls block on.                           *)
(***************************************************************************)
MayPushOneMore(maxSize, sequential) == Len(items) <= maxSize \/ sequential  \* faulty
MayPush(maxSize, sequential) == Len(items) < maxSize \/ sequential
MayPop(sequential) == ended \/ items # <<>> \/ sequential

Push(x, maxSize, sequential) ==
  /\ MayPush(maxSize, sequential)
  /\ items' = Append(items, x)
  /\ UNCHANGED ended

(***************************************************************************)
(* The two outcomes of a pop: the oldest entry, or nothing.                *)
(***************************************************************************)
TakeHead ==
  /\ items # <<>>
  /\ items' = Tail(items)
  /\ UNCHANGED ended

TakeNothing(sequential) ==
  /\ MayPop(sequential)
  /\ items = <<>>
  /\ UNCHANGED <<items, ended>>

NotifyEnd ==
  /\ ended' = TRUE
  /\ UNCHANGED items

-----------------------------------------------------------------------------
(***************************************************************************)
(* The queue on its own, used concurrently: entries are only added while   *)
(* it is open and only up to maxSize.                                      *)
(***************************************************************************)
Init ==
  /\ items = <<>>
  /\ ended = FALSE
  /\ got = [c \in Consumer |-> NoItem]

PushOpen(x, maxSize) ==
  /\ ~ended
  /\ Push(x, maxSize, FALSE)
  /\ UNCHANGED got

Pop(c) ==
  \/ TakeHead /\ got' = [got EXCEPT ![c] = Head(items)]
  \/ TakeNothing(FALSE) /\ got' = [got EXCEPT ![c] = NoItem]

Close ==
  /\ NotifyEnd
  /\ UNCHANGED got

Next(maxSize) ==
  \/ \E x \in Item : PushOpen(x, maxSize)
  \/ \E c \in Consumer : Pop(c)
  \/ Close
=============================================================================
