SPECIFICATION Spec
CONSTANTS
  NUM_BUFFER_SLOTS = 3
  UINT32_MAX = 99
  Buffers = {b1, b2, b3, b4}
  NoBuffer = NoBuffer
  small = small
  large = large
  Sizes = {small}
  SizeOf <- Sized
  LargeBuffers = {}
  Apis = {cpu}
  NO_CONNECTED_API = NoApi
  Producers = {p1}
  AsyncModes = {FALSE}
  Timestamps = {5, 30}
  AutoTimestamps = {FALSE}
  BufferCounts = {0, 3}
  ControlledByApp = {FALSE}
  ProducerAttaches = FALSE
  Preallocates = FALSE
  AllocationFails = FALSE
  ConcurrentDisconnect = FALSE
  ReattachQueued = FALSE
  MaxFrames = 2
  ExpectedPresents = {0, 6}
  MAX_REASONABLE_NSEC = 10
  DefaultMaxCounts = {}
  MaxAcquiredCounts = {}
  ConsumerAttaches = FALSE
  ConsumerLeaves = TRUE
INVARIANTS
  SlotsHaveHolders
  BuffersAreKnown
SYMMETRY Symmetry
CHECK_DEADLOCK FALSE
