SPECIFICATION PartsSpec
CONSTANTS
  p = p
  e1 = e1
  e2 = e2
  v1 = v1
  v2 = v2
  s1 = s1
  s2 = s2
  Primary = p
  Externals = {e1, e2}
  Virtuals = {v1}
  Order <- OrderOfOneVirtual
  Stacks = {s1, s2}
  NoStack = NoStack
  OfferedViews <- Views
  AwayViews = {}
  FirstView <- PrimaryView
  DefaultView <- OtherView
  Surfaces = {"small", "big"}
  SmallSurfaces = {"small"}
  MaxHwcDisplays = 3
  MaxConfigs = 1
  None = None
  MaxDisplayEvents = 3
  NumSlots = 3
  SinkSlots = 2
  ScratchSlots = 1
  Buffers = {1, 2, 3, 4, 5, 6}
  NoBuffer = NoBuffer
  Clients = {t1, t2}
  Layers = {l1}
  Displays = {d1}
  Values = {0, 1}
  MaxOpens = 3
  MaxSets = 2
  Called = {"IGraphicBufferProducer", "IGraphicBufferConsumer", "ISurfaceComposer", "ISurfaceComposerClient", "IDisplayEventConnection", "IGraphicBufferAlloc", "Sensors", "IVideoShare"}
  Widths = {FALSE}
  app = app
  sf = sf
  Listeners = {app, sf}
  PhaseOf <- PhasesOfListeners
  Models <- ModelsOfDisplay
  StartTime = 10
  EndTime = 22
  bufsize = 4
  SIZE_T = 8
  Counts = {1, 2, 3}
  MaxBytes = 20
INVARIANT EmptiedDisplaysGoBlank
CHECK_DEADLOCK FALSE
