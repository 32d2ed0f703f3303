SPECIFICATION ThreadsSpec
CONSTANTS
  Connections = {c1, c2}
  Paced = {c2}
  OneShotClient = c1
  Rates = {0, 1, 2}
  TubeSize = 1
  CountModulus = 2
  MaxPending = 1
  MIN_RESYNC_SAMPLES_FOR_UPDATE = 2
  MAX_RESYNC_SAMPLES = 3
  MAX_RESYNC_SAMPLES_WITHOUT_PRESENT = 2
  a1 = a1
  Apps = {a1}
  SurfaceIds = {s1, s2}
  OwnerOf <- Owners
INVARIANTS
  NoLostWakeup
  OnlyWhenAvailable
  HardwareFollows
  GoneIsGone
PROPERTIES
  OneShotSpec
  RequestsAnswered
  SourceReleased
  VsyncGoesOff
  OrphansAreRemoved
