SPECIFICATION CbSpec
CONSTANTS
  NUM_BUFFER_SLOTS = 3
  UINT32_MAX = 99
  Buffers = {b1, b2, b3}
  NoBuffer = NoBuffer
  small = small
  large = large
  Sizes = {small, large}
  SizeOf <- Sized
  LargeBuffers = {b3}
  Apis = {cpu}
  NO_CONNECTED_API = NoApi
  Producers = {p1, p2}
  AsyncModes = {TRUE}
  Timestamps = {1}
  AutoTimestamps = {TRUE}
  BufferCounts = {}
  ControlledByApp = {TRUE}
  ProducerAttaches = FALSE
  Preallocates = TRUE
  AllocationFails = TRUE
  ConcurrentDisconnect = FALSE
  ReattachQueued = FALSE
  MaxFrames = 2
  ExpectedPresents = {0}
  MAX_REASONABLE_NSEC = 10
  DefaultMaxCounts = {3}
  MaxAcquiredCounts = {2}
  ConsumerAttaches = FALSE
  ConsumerLeaves = TRUE
INVARIANTS
  CacheServesTheUser
PROPERTIES
  StreamSpec
SYMMETRY Symmetry
CHECK_DEADLOCK FALSE
