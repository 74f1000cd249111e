CONSTANTS
  w1 = w1
  w2 = w2
  Workers = {w1, w2}
  Main = Main
  NumFunctions = 2
  FlagChoices <- ParallelOnly
  Outcomes = {"ok"}
  MaxOptQSize = 2
  EmitQSize = 1
  WaitCalledAtStart = {FALSE, TRUE}
SPECIFICATION Spec
INVARIANTS
  DataLoweringSingleThread
