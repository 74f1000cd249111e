CONSTANTS
  a = a
  b = b
  x = x
  y = y
  p = p
  q = q
  t = t
  None = None
  Variables <- AllVariables
  Functions <- InOrder
SPECIFICATION FairSpec
INVARIANTS
  TypeOK
  NothingNeededIsDeleted
  ExactWithoutLoops
  InterferenceIsSeen
PROPERTIES
  LivenessEnds
