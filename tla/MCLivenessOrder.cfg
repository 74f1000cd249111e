CONSTANTS
  a = a
  b = b
  x = x
  y = y
  p = p
  q = q
  t = t
  None = None
  Variables <- AllVariables
  Functions <- AnyOrder
SPECIFICATION Spec
INVARIANTS
  NothingNeededIsDeleted
