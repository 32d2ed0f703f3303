SPECIFICATION Spec
CONSTANTS
  NUM_BUFFER_SLOTS = 3
  UINT32_MAX = 99
  Buffers = {b1, b2}
  NoBuffer = NoBuffer
  small = small
  large = large
  Sizes = {small}
  SizeOf <- Sized
  LargeBuffers = {}
  Apis = {cpu}
  NO_CONNECTED_API = NoApi
  Producers = {p1}
  AsyncModes = {FALSE}
  Timestamps = {1}
  AutoTimestamps = {TRUE}
  BufferCounts = {}
  ControlledByApp = {FALSE}
  ProducerAttaches = TRUE
  Preallocates = FALSE
  AllocationFails = FALSE
  ConcurrentDisconnect = FALSE
  ReattachQueued = FALSE
  MaxFrames = 2
  ExpectedPresents = {0}
  MAX_REASONABLE_NSEC = 10
  DefaultMaxCounts = {}
  MaxAcquiredCounts = {}
  ConsumerAttaches = TRUE
  ConsumerLeaves = FALSE
INVARIANTS
  TrackedItemsAreQueued
PROPERTIES
  SlotLifeCycle
SYMMETRY Symmetry
CHECK_DEADLOCK FALSE
