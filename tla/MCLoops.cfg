SPECIFICATION Spec
CONSTANTS
  x = x
  y = y
  z = z
  No = No
  None <- No
  Functions <- AllFunctions
INVARIANTS
  TypeOK
  NestDepthIsExact
  SSAFormIsKept
