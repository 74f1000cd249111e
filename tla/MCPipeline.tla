---------------------------- MODULE MCPipeline ----------------------------
(***************************************************************************)
(* Small instances of the pipeline.  The command lines range over no       *)
(* worker, one and two workers, parsing in the main thread or in parallel, *)
(* and no shuffling or shuffling by two.                                   *)
(***************************************************************************)
EXTENDS TranslationPipeline

CONSTANTS w1, w2

CommandLine(workers, parallel, reorder) ==
  [workers |-> workers, parallel |-> parallel, reorder |-> reorder, window |-> 2]

AllCommandLines ==
  {CommandLine({}, FALSE, FALSE), CommandLine({}, FALSE, TRUE),
   CommandLine({w1}, FALSE, FALSE),
   CommandLine({w1, w2}, FALSE, FALSE), CommandLine({w1, w2}, TRUE, FALSE),
   CommandLine({w1, w2}, TRUE, TRUE)}
ParallelOnly == {CommandLine({w1, w2}, TRUE, FALSE)}
=============================================================================
