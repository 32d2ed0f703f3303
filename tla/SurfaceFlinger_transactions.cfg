SPECIFICATION SurfaceFlingerSpec
CONSTANTS
  Sizes <- TwoSizes
  Crops <- OneValue
  Zs <- TwoValues
  Alphas <- TwoValues
  InitialSize = 1
  InitialCrop = 0
  InitialZ = 0
  InitialAlpha = 0
  None = None
  Threads = {t1, t2}
  Layers = {a, b}
  FirstLayer = a
  Calls <- MCCalls
  FrameKinds <- MCFrameKinds
  MaxEvents = 3
  Captures = TRUE
  Timeouts = TRUE
  t1 = t1
  t2 = t2
  a = a
  b = b
INVARIANTS
  WorkIsComing
  FramesAreTracked
  PicturesAreConsistent
PROPERTIES
  WaitersAreServed
  WorkIsDone
CHECK_DEADLOCK FALSE
