SPECIFICATION MCSpec
CONSTANTS
  NUM_BUFFER_SLOTS = 3
  UINT32_MAX = 99
  Buffers = {b1, b2, b3}
  NoBuffer = NoBuffer
  small = small
  large = large
  Sizes = {small}
  SizeOf <- Sized
  LargeBuffers = {}
  Apis = {cpu}
  NO_CONNECTED_API = NoApi
  Producers = {p1, p2}
  AsyncModes = {TRUE}
  Timestamps = {1}
  AutoTimestamps = {TRUE}
  BufferCounts = {}
  ControlledByApp = {TRUE}
  ProducerAttaches = FALSE
  Preallocates = FALSE
  AllocationFails = FALSE
  ConcurrentDisconnect = FALSE
  ReattachQueued = FALSE
  MaxFrames = 3
  ExpectedPresents = {0}
  MAX_REASONABLE_NSEC = 10
  DefaultMaxCounts = {3}
  MaxAcquiredCounts = {2}
  ConsumerAttaches = FALSE
  ConsumerLeaves = TRUE
  Contexts = {c1}
  NoContext = NoContext
  EglFails = TRUE
  MaxItemFrames = 2
  Threads = {t1, t2}
  LockFails = TRUE
INVARIANTS
  ImagesAreHeld
  LockedIsHeld
SYMMETRY Symmetry
CHECK_DEADLOCK FALSE
