SPECIFICATION FairSpec
CONSTANTS
  t1 = t1
  t2 = t2
  Translators <- TwoTranslators
  NumFunctions = 2
  NumPieces = 2
  BufferSize = 1
  OptQSize = 2
  EmitQSize = 2
  Flags <- DefaultFlags
INVARIANTS
  InputStreamOutlivesUsers
