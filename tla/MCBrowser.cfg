SPECIFICATION FairSpec
CONSTANTS
  t1 = t1
  t2 = t2
  Translators <- TwoTranslators
  NumFunctions = 4
  NumPieces = 5
  BufferSize = 1
  OptQSize = 1
  EmitQSize = 1
  Flags <- AllFlags
INVARIANTS
  TypeOK
  ErrorsAreReported
PROPERTIES
  CallbacksReturn
\* The threads really may be stuck: see CallbacksReturn.
CHECK_DEADLOCK FALSE
