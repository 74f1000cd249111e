SPECIFICATION FairSpec
CONSTANTS
  a = a
  b = b
  x = x
  y = y
  p = p
  q = q
  t = t
  e = e
  None = None
  UnitA = UnitA
  UnitB = UnitB
  Variables <- AllVariables
  Registers <- ThreeRegisters
  CallerSave <- AandAB
  Functions <- AllFunctions
INVARIANTS
  TypeOK
  ValuesKept
  NoInterference
  RegUsesExact
  RequirementsMet
PROPERTIES
  RegNumIsFinal
  AllocationEnds
