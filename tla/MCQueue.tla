------------------------------ MODULE MCQueue ------------------------------
(***************************************************************************)
(* Small instances of the work queue for TLC: threads are model values,    *)
(* and the threads of one kind are interchangeable.                        *)
(***************************************************************************)
EXTENDS BoundedProducerConsumerQueue, TLC

ThreadSymmetry == Permutations(Producers) \cup Permutations(Consumers)
=============================================================================
