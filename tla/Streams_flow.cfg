SPECIFICATION StreamsSpec
CONSTANTS
  VIDEO_SHARE_FRAME_COUNT = 2
  Hooks = {q1}
  bufsize = 3
  FrameSizes = {0, 1}
  ConnectFails = TRUE
  SendFails = TRUE
  MaxResets = 1
  MaxFrames = 2
  Buffers = {b1, b2, b3}
  NoBuffer = NoBuffer
  o1 = o1
  o2 = o2
  Outputs <- OutputList
  Slots = {1, 2}
  NoSlot = 0
  MAX_OUTSTANDING_BUFFERS = 2
  MaxInputFrames = 3
INVARIANTS
  NoTornFrame
  OutputsAreDone
PROPERTIES
  FramesArriveWhole
  PipelineGoesOn
  StalledFramesGoOn
