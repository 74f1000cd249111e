CONSTANTS
  d1 = d1
  d2 = d2
  d3 = d3
  s = s
  a = a
  b = b
  c = c
  Variables <- AllVariables
  NumPhis = 3
  Dest <- Dests
  Widths <- AllWidths
  Units = {a, b, c}
  Registers <- AllRegisters
  NumEdges = 1
  Const = Const
SPECIFICATION FairSpec
INVARIANTS
  TypeOK
  ParallelCopy
  NumPredIsExact
PROPERTIES
  LoweringEnds
