CONSTANTS
  Functions <- SmallFunctions
  BundleSize = 16
  ShortReach = 24
SPECIFICATION Spec
INVARIANTS
  TypeOK
  RegionsFit
  ReturnPointsAreAligned
  EmittedOnce
  EffectsMatchText
