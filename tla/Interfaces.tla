----------------------------- MODULE Interfaces -----------------------------
(***************************************************************************)
(* The Binder interfaces of libgui and of the VideoShare service: what the *)
(* proxy (Bp) of each method writes into the parcel and reads from the     *)
(* reply, and what the stub (Bn) reads from the parcel and writes into the *)
(* reply.  The two sides are written by hand, in different places, and     *)
(* nothing in a parcel says what its items mean.                           *)
(*                                                                         *)
(* An item has the type it is written with and the argument or result it   *)
(* is the value of.  What a call passes depends on c: c.some, optional     *)
(* arguments and results are there; c.ok, the method succeeds; c.wide, a   *)
(* 64-bit value does not fit in 32.  The interface token that each parcel  *)
(* starts with is left out, and so is the import of a buffer failing.      *)
(***************************************************************************)
EXTENDS Naturals, SequencesExt

Item(type, n) == <<[type |-> type, of |-> n]>>
Items(type, names) == [i \in DOMAIN names |-> [type |-> type, of |-> names[i]]]
Int32(n) == Item("int32", n)
Int32s(names) == Items("int32", names)
Long(n) == Item("int64", n)
Float(n) == Item("float", n)
Str(n) == Item("string", n)
Binder(n) == Item("binder", n)
Flat(n) == Item("flattened", n)    \* size, descriptors and bytes of an object
Raw(n) == Item("inplace", n)       \* the bytes of a struct
Handle(n) == Item("handle", n)     \* file descriptors
Optional(given, items) == IF given THEN items ELSE << >>
Flagged(flag, given, items) == Int32(flag) \o Optional(given, items)

(* A proxy returns the error of transact, ignores it, or does not wait.    *)
Asks(sends, gets) == [sends |-> sends, gets |-> gets, checked |-> TRUE, oneway |-> FALSE]
Trusts(sends, gets) == [sends |-> sends, gets |-> gets, checked |-> FALSE, oneway |-> FALSE]
Posts(sends) == [sends |-> sends, gets |-> << >>, checked |-> FALSE, oneway |-> TRUE]
Serves(reads, replies) == [reads |-> reads, replies |-> replies]
Result == Int32("result")

-----------------------------------------------------------------------------
(* Objects that write themselves: BufferItem in two versions (the consumer *)
(* interface's and the listener's), QueueBufferInput, Sensor, LayerState.  *)
QueueBufferInputFlattened ==
  Items("pod", <<"timestamp", "isAutoTimestamp", "crop", "scalingMode",
                 "transform", "stickyTransform", "async">>) \o Flat("fence")

QueueBufferInputUnflattened ==
  Items("pod", <<"timestamp", "isAutoTimestamp", "crop", "scalingMode",
                 "transform", "stickyTransform", "async">>) \o Flat("fence")

ConsumerItemFlattened(c) ==
  Flagged("flags", c.some, Flat("mGraphicBuffer")) \o Flat("mFence") \o
  Items("pod", <<"mCrop", "mTransform", "mScalingMode", "mTimestamp",
                 "mIsAutoTimestamp", "mFrameNumber", "mBuf", "mIsDroppable",
                 "mAcquireCalled", "mTransformToDisplayInverse">>)

ConsumerItemUnflattened(c) ==
  Flagged("flags", c.some, Flat("mGraphicBuffer")) \o Flat("mFence") \o
  Items("pod", <<"mCrop", "mTransform", "mScalingMode", "mTimestamp",
                 "mIsAutoTimestamp", "mFrameNumber", "mBuf", "mIsDroppable",
                 "mAcquireCalled", "mTransformToDisplayInverse">>)

BufferItemParts(c) ==
  Flagged("flags", c.some, Flat("mGraphicBuffer")) \o Flat("mFence") \o
  Items("pod", <<"mCrop", "mTransform", "mScalingMode", "mTimestamp",
                 "mIsAutoTimestamp", "mFrameNumber", "mSlot", "mIsDroppable",
                 "mAcquireCalled", "mTransformToDisplayInverse">>)

PodSize == 16 + 4 + 4 + 8 + 1 + 8 + 4 + 1 + 1 + 1
BufferSize == 52                   \* of a buffer whose handle is one descriptor
BufferItemSize(c) == 4 + (IF c.some THEN BufferSize ELSE 0) + 4 + PodSize
BufferItemFds(c) == IF c.some THEN 2 ELSE 1

(* flatten compares the number of descriptors with the size, and writes    *)
(* nothing when it is less.                                                *)
BufferItemFlattened(c) ==
  IF BufferItemFds(c) < BufferItemSize(c)
  THEN [i \in DOMAIN BufferItemParts(c) |->
          [BufferItemParts(c)[i] EXCEPT !.of = "unwritten"]]
  ELSE BufferItemParts(c)

SensorFlattened ==
  Items("string8", <<"mName", "mVendor">>) \o
  Items("pod", <<"mVersion", "mHandle", "mType", "mMinValue", "mMaxValue",
                 "mResolution", "mPower", "mMinDelay",
                 "mFifoReservedEventCount", "mFifoMaxEventCount">>) \o
  Items("string8", <<"mStringType", "mRequiredPermission">>) \o
  Items("pod", <<"mMaxDelay", "mFlags">>)

SensorUnflattened ==
  Items("string8", <<"mName", "mVendor">>) \o
  Items("pod", <<"mVersion", "mHandle", "mType", "mMinValue", "mMaxValue",
                 "mResolution", "mPower", "mMinDelay",
                 "mFifoReservedEventCount", "mFifoMaxEventCount">>) \o
  Items("string8", <<"mStringType", "mRequiredPermission">>) \o
  Items("pod", <<"mMaxDelay", "mFlags">>)

ComposerStateWritten ==
  Binder("client") \o Binder("surface") \o Int32("what") \o
  Items("float", <<"x", "y">>) \o Int32s(<<"z", "w", "h", "layerStack">>) \o
  Float("alpha") \o Int32s(<<"flags", "mask">>) \o Raw("matrix") \o
  Items("flattened", <<"crop", "transparentRegion">>)

(* Mutant: the flags and their mask in the wrong order.                    *)
MaskReadFirst ==
  Binder("client") \o Binder("surface") \o Int32("what") \o
  Items("float", <<"x", "y">>) \o Int32s(<<"z", "w", "h", "layerStack">>) \o
  Float("alpha") \o Int32s(<<"mask", "flags">>) \o Raw("matrix") \o
  Items("flattened", <<"crop", "transparentRegion">>)

ComposerStateRead ==
  Binder("client") \o Binder("surface") \o Int32("what") \o
  Items("float", <<"x", "y">>) \o Int32s(<<"z", "w", "h", "layerStack">>) \o
  Float("alpha") \o Int32s(<<"flags", "mask">>) \o Raw("matrix") \o
  Items("flattened", <<"crop", "transparentRegion">>)

DisplayStateWritten ==
  Items("binder", <<"token", "surface">>) \o
  Int32s(<<"what", "layerStack", "orientation">>) \o
  Items("flattened", <<"viewport", "frame">>) \o Int32s(<<"width", "height">>)

DisplayStateRead ==
  Items("binder", <<"token", "surface">>) \o
  Int32s(<<"what", "layerStack", "orientation">>) \o
  Items("flattened", <<"viewport", "frame">>) \o Int32s(<<"width", "height">>)

-----------------------------------------------------------------------------
(* IGraphicBufferProducer.                                                 *)
BpProducerBuffers(c) == [
  requestBuffer |-> Asks(Int32("bufferIdx"),
    Flagged("nonNull", c.some, Flat("buffer")) \o Result),
  setBufferCount |-> Asks(Int32("bufferCount"), Result),
  dequeueBuffer |-> Asks(Int32s(<<"async", "w", "h", "format", "usage">>),
    Int32("buf") \o Flagged("nonNull", c.some, Flat("fence")) \o Result),
  detachBuffer |-> Asks(Int32("slot"), Result),
  detachNextBuffer |-> Asks(<< >>,
    Result \o Optional(c.ok, Flagged("nonNull", c.some, Flat("buffer")) \o
                             Flagged("nonNull", c.some, Flat("fence")))),
  producerAttachBuffer |-> Asks(Flat("buffer"), Int32("slot") \o Result),
  queueBuffer |-> Asks(Int32("buf") \o QueueBufferInputFlattened,
                       Raw("output") \o Result)]

BpProducerControls(c) == [
  cancelBuffer |-> Trusts(Int32("buf") \o Flat("fence"), << >>),
  query |-> Asks(Int32("what"), Int32("value") \o Result),
  connect |-> Asks(Flagged("hasListener", c.some, Binder("listener")) \o
                   Int32s(<<"api", "producerControlledByApp">>),
                   Raw("output") \o Result),
  disconnect |-> Asks(Int32("api"), Result),
  setSidebandStream |-> Asks(Flagged("hasStream", c.some, Handle("stream")), Result),
  allocateBuffers |-> Trusts(Int32s(<<"async", "width", "height", "format", "usage">>), << >>),
  getConsumerName |-> Trusts(<< >>, Str("name")),
  setVideoHookFlag |-> Trusts(Int32("flag"), << >>),
  producerSetSlaveIp |-> Trusts(Str("ip"), << >>),
  producerSetScreenSplit |-> Trusts(Int32("split"), << >>),
  setSlaveIpNum |-> Trusts(Int32("num"), << >>)]

(* Mutant: the stub answers in the order of the other methods.             *)
DetachedFirst(c) ==
  Flagged("nonNull", c.some, Flat("buffer")) \o
  Flagged("nonNull", c.some, Flat("fence")) \o Result

DetachedReply(c) ==
  Result \o Optional(c.ok, Flagged("nonNull", c.some, Flat("buffer")) \o
                           Flagged("nonNull", c.some, Flat("fence")))

BnProducerBuffers(c) == [
  requestBuffer |-> Serves(Int32("bufferIdx"),
    Flagged("nonNull", c.some, Flat("buffer")) \o Result),
  setBufferCount |-> Serves(Int32("bufferCount"), Result),
  dequeueBuffer |-> Serves(Int32s(<<"async", "w", "h", "format", "usage">>),
    Int32("buf") \o Flagged("nonNull", c.some, Flat("fence")) \o Result),
  detachBuffer |-> Serves(Int32("slot"), Result),
  detachNextBuffer |-> Serves(<< >>, DetachedReply(c)),
  producerAttachBuffer |-> Serves(Flat("buffer"), Int32("slot") \o Result),
  queueBuffer |-> Serves(Int32("buf") \o QueueBufferInputUnflattened,
                         Raw("output") \o Result)]

BnProducerControls(c) == [
  cancelBuffer |-> Serves(Int32("buf") \o Flat("fence"), << >>),
  query |-> Serves(Int32("what"), Int32("value") \o Result),
  connect |-> Serves(Flagged("hasListener", c.some, Binder("listener")) \o
                     Int32s(<<"api", "producerControlledByApp">>),
                     Raw("output") \o Result),
  disconnect |-> Serves(Int32("api"), Result),
  setSidebandStream |-> Serves(Flagged("hasStream", c.some, Handle("stream")), Result),
  allocateBuffers |-> Serves(Int32s(<<"async", "width", "height", "format", "usage">>), << >>),
  getConsumerName |-> Serves(<< >>, Str("name")),
  setVideoHookFlag |-> Serves(Int32("flag"), << >>),
  producerSetSlaveIp |-> Serves(Str("ip"), << >>),
  producerSetScreenSplit |-> Serves(Int32("split"), << >>),
  setSlaveIpNum |-> Serves(Int32("num"), << >>)]

-----------------------------------------------------------------------------
(* IGraphicBufferConsumer.  Its stub does not know GET_SIDEBAND_STREAM; its *)
(* proxy of dump drops the string it reads.                                *)
BpConsumerBuffers(c) == [
  acquireBuffer |-> Asks(Long("presentWhen"), ConsumerItemUnflattened(c) \o Result),
  consumerDetachBuffer |-> Asks(Int32("slot"), Result),
  consumerAttachBuffer |-> Asks(Flat("buffer"), Int32("slot") \o Result),
  releaseBuffer |-> Asks(Int32("buf") \o Long("frameNumber") \o Flat("releaseFence"), Result),
  consumerConnect |-> Asks(Binder("consumer") \o Int32("controlledByApp"), Result),
  consumerDisconnect |-> Asks(<< >>, Result),
  getReleasedBuffers |-> Asks(<< >>, Long("slotMask") \o Result)]

BpConsumerSettings(c) == [
  setDefaultBufferSize |-> Asks(Int32s(<<"w", "h">>), Result),
  setDefaultMaxBufferCount |-> Asks(Int32("bufferCount"), Result),
  disableAsyncBuffer |-> Asks(<< >>, Result),
  setMaxAcquiredBufferCount |-> Asks(Int32("maxAcquiredBuffers"), Result),
  setConsumerName |-> Trusts(Str("name"), << >>),
  setDefaultBufferFormat |-> Asks(Int32("defaultFormat"), Result),
  setConsumerUsageBits |-> Asks(Int32("usage"), Result),
  setTransformHint |-> Asks(Int32("hint"), Result),
  getSidebandStream |-> Asks(<< >>, Flagged("hasStream", c.some, Handle("stream"))),
  dump |-> Trusts(Str("result") \o Str("prefix"), << >>)]

BnGraphicBufferConsumer(c) == [
  acquireBuffer |-> Serves(Long("presentWhen"), ConsumerItemFlattened(c) \o Result),
  consumerDetachBuffer |-> Serves(Int32("slot"), Result),
  consumerAttachBuffer |-> Serves(Flat("buffer"), Int32("slot") \o Result),
  releaseBuffer |-> Serves(Int32("buf") \o Long("frameNumber") \o Flat("releaseFence"), Result),
  consumerConnect |-> Serves(Binder("consumer") \o Int32("controlledByApp"), Result),
  consumerDisconnect |-> Serves(<< >>, Result),
  getReleasedBuffers |-> Serves(<< >>, Long("slotMask") \o Result),
  setDefaultBufferSize |-> Serves(Int32s(<<"w", "h">>), Result),
  setDefaultMaxBufferCount |-> Serves(Int32("bufferCount"), Result),
  disableAsyncBuffer |-> Serves(<< >>, Result),
  setMaxAcquiredBufferCount |-> Serves(Int32("maxAcquiredBuffers"), Result),
  setConsumerName |-> Serves(Str("name"), << >>),
  setDefaultBufferFormat |-> Serves(Int32("defaultFormat"), Result),
  setConsumerUsageBits |-> Serves(Int32("usage"), Result),
  setTransformHint |-> Serves(Int32("hint"), Result),
  dump |-> Serves(Str("result") \o Str("prefix"), Str("dump"))]
-----------------------------------------------------------------------------
(* ISurfaceComposer and ISurfaceComposerClient.  The stub answers nothing  *)
(* to setScreenSplit and setSlaveNum, whose proxies read a result.         *)
StatesWritten(c) ==
  Flagged("count", c.some, ComposerStateWritten) \o
  Flagged("displayCount", c.some, DisplayStateWritten) \o Int32("transactionFlags")

StatesRead(c) ==
  Flagged("count", c.some, ComposerStateRead) \o
  Flagged("displayCount", c.some, DisplayStateRead) \o Int32("transactionFlags")

BpComposerScreen(c) == [
  createConnection |-> Trusts(<< >>, Binder("client")),
  createGraphicBufferAlloc |-> Trusts(<< >>, Binder("alloc")),
  setTransactionState |-> Trusts(StatesWritten(c), << >>),
  bootFinished |-> Trusts(<< >>, << >>),
  captureScreen |-> Trusts(Binder("display") \o Binder("producer") \o
    Flat("sourceCrop") \o Int32s(<<"reqWidth", "reqHeight", "minLayerZ",
      "maxLayerZ", "useIdentityTransform", "rotation">>), Result),
  authenticateSurfaceTexture |-> Asks(Binder("bufferProducer"), Result),
  createDisplayEventConnection |-> Asks(<< >>, Binder("connection")),
  createDisplay |-> Trusts(Str("displayName") \o Int32("secure"), Binder("display"))]

BpComposerDisplays(c) == [
  destroyDisplay |-> Trusts(Binder("display"), << >>),
  getBuiltInDisplay |-> Trusts(Int32("id"), Binder("display")),
  setPowerMode |-> Trusts(Binder("display") \o Int32("mode"), << >>),
  getDisplayConfigs |-> Trusts(Binder("display"),
    Result \o Optional(c.ok, Flagged("numConfigs", c.some, Raw("config")))),
  getDisplayStats |-> Trusts(Binder("display"),
    Result \o Optional(c.ok, Raw("stats"))),
  getActiveConfig |-> Trusts(Binder("display"), Int32("id")),
  setActiveConfig |-> Trusts(Binder("display") \o Int32("id"), Result),
  clearAnimationFrameStats |-> Trusts(<< >>, Result),
  getAnimationFrameStats |-> Trusts(<< >>, Flat("outStats") \o Result),
  setVideoHook |-> Trusts(Int32("flag"), Result),
  initVideoShareClient |-> Trusts(<< >>, Result),
  setSlaveIp |-> Trusts(Str("ip"), Result),
  setScreenSplit |-> Trusts(Int32("split"), Result),
  setSlaveNum |-> Trusts(Int32("num"), Result)]

BnComposerScreen(c) == [
  createConnection |-> Serves(<< >>, Binder("client")),
  createGraphicBufferAlloc |-> Serves(<< >>, Binder("alloc")),
  setTransactionState |-> Serves(StatesRead(c), << >>),
  bootFinished |-> Serves(<< >>, << >>),
  captureScreen |-> Serves(Binder("display") \o Binder("producer") \o
    Flat("sourceCrop") \o Int32s(<<"reqWidth", "reqHeight", "minLayerZ",
      "maxLayerZ", "useIdentityTransform", "rotation">>), Result),
  authenticateSurfaceTexture |-> Serves(Binder("bufferProducer"), Result),
  createDisplayEventConnection |-> Serves(<< >>, Binder("connection")),
  createDisplay |-> Serves(Str("displayName") \o Int32("secure"), Binder("display"))]

BnComposerDisplays(c) == [
  destroyDisplay |-> Serves(Binder("display"), << >>),
  getBuiltInDisplay |-> Serves(Int32("id"), Binder("display")),
  setPowerMode |-> Serves(Binder("display") \o Int32("mode"), << >>),
  getDisplayConfigs |-> Serves(Binder("display"),
    Result \o Optional(c.ok, Flagged("numConfigs", c.some, Raw("config")))),
  getDisplayStats |-> Serves(Binder("display"),
    Result \o Optional(c.ok, Raw("stats"))),
  getActiveConfig |-> Serves(Binder("display"), Int32("id")),
  setActiveConfig |-> Serves(Binder("display") \o Int32("id"), Result),
  clearAnimationFrameStats |-> Serves(<< >>, Result),
  getAnimationFrameStats |-> Serves(<< >>, Flat("outStats") \o Result),
  setVideoHook |-> Serves(Int32("flag"), Result),
  initVideoShareClient |-> Serves(<< >>, Result),
  setSlaveIp |-> Serves(Str("ip"), Result),
  setScreenSplit |-> Serves(Int32("split"), << >>),
  setSlaveNum |-> Serves(Int32("num"), << >>)]

(* Codes that SurfaceFlinger serves to permitted callers only.             *)
NeedsPermission ==
  {"createConnection", "createDisplay", "setTransactionState", "bootFinished",
   "clearAnimationFrameStats", "getAnimationFrameStats", "setPowerMode",
   "captureScreen"}

(* Their implementations always return NO_ERROR.                           *)
AlwaysSucceeds ==
  {"setVideoHook", "initVideoShareClient", "setSlaveIp", "setScreenSplit", "setSlaveNum"}

BpComposerClient == [
  createSurface |-> Trusts(Str("name") \o Int32s(<<"w", "h", "format", "flags">>),
    Binder("handle") \o Binder("gbp") \o Result),
  destroySurface |-> Trusts(Binder("handle"), Result),
  clearLayerFrameStats |-> Trusts(Binder("handle"), Result),
  getLayerFrameStats |-> Trusts(Binder("handle"), Flat("outStats") \o Result)]

BnComposerClient == [
  createSurface |-> Serves(Str("name") \o Int32s(<<"w", "h", "format", "flags">>),
    Binder("handle") \o Binder("gbp") \o Result),
  destroySurface |-> Serves(Binder("handle"), Result),
  clearLayerFrameStats |-> Serves(Binder("handle"), Result),
  getLayerFrameStats |-> Serves(Binder("handle"), Flat("outStats") \o Result)]

-----------------------------------------------------------------------------
(* The small interfaces.  createGraphicBuffer's error is that of reading   *)
(* the buffer, if the transaction failed; SET_EVENT_RATE keeps an int of   *)
(* the period it reads.                                                    *)
BpListeners(c) == [
  onFrameAvailable |-> Posts(BufferItemFlattened(c)),
  onBuffersReleased |-> Posts(<< >>),
  onSidebandStreamChanged |-> Posts(<< >>),
  onBufferReleased |-> Posts(<< >>)]

BnListeners(c) == [
  onFrameAvailable |-> Serves(BufferItemParts(c), << >>),
  onBuffersReleased |-> Serves(<< >>, << >>),
  onSidebandStreamChanged |-> Serves(<< >>, << >>),
  onBufferReleased |-> Serves(<< >>, << >>)]

BpEventConnection == [
  getDataChannel |-> Trusts(<< >>, Handle("channel")),
  setVsyncRate |-> Trusts(Int32("count"), << >>),
  requestNextVsync |-> Posts(<< >>)]

BnEventConnection == [
  getDataChannel |-> Serves(<< >>, Handle("channel")),
  setVsyncRate |-> Serves(Int32("count"), << >>),
  requestNextVsync |-> Serves(<< >>, << >>)]

BpGraphicBufferAlloc(c) == [
  createGraphicBuffer |-> Asks(Int32s(<<"w", "h", "format", "usage">>),
    Result \o Optional(c.ok, Flat("buffer")))]

BnGraphicBufferAlloc(c) == [
  createGraphicBuffer |-> Serves(Int32s(<<"w", "h", "format", "usage">>),
    Result \o Optional(c.ok, Flat("buffer") \o Binder("bufferReference")))]

BpSensorServer(c) == [
  getSensorList |-> Trusts(<< >>, Flagged("n", c.some, SensorUnflattened)),
  createSensorEventConnection |-> Trusts(<< >>, Binder("connection"))]

BnSensorServer(c) == [
  getSensorList |-> Serves(<< >>, Flagged("n", c.some, SensorFlattened)),
  createSensorEventConnection |-> Serves(<< >>, Binder("connection"))]

BpSensorEventConnection == [
  getSensorChannel |-> Trusts(<< >>, Handle("channel")),
  enableDisable |-> Trusts(Int32s(<<"handle", "enabled">>) \o
    Items("int64", <<"samplingPeriodNs", "maxBatchReportLatencyNs">>) \o
    Int32("reservedFlags"), Result),
  setEventRate |-> Trusts(Int32("handle") \o Long("ns"), Result),
  flush |-> Trusts(<< >>, Result)]

BnSensorEventConnection(c) == [
  getSensorChannel |-> Serves(<< >>, Handle("channel")),
  enableDisable |-> Serves(Int32s(<<"handle", "enabled">>) \o
    Items("int64", <<"samplingPeriodNs", "maxBatchReportLatencyNs">>) \o
    Int32("reservedFlags"), Result),
  setEventRate |-> Serves(Int32("handle") \o
    Item(IF c.wide THEN "low half" ELSE "int64", "ns"), Result),
  flush |-> Serves(<< >>, Result)]

(* InitParam's result is that of the transaction itself.                   *)
BpVideoShare == [
  video_share_test |-> Trusts(Int32("num"), Int32("answer")),
  InitParam |-> Asks(Binder("callback") \o Int32("framesize"), Binder("buffer")),
  signalNewData |-> Trusts(Int32s(<<"index", "width", "height">>), << >>),
  signalBufferFull |-> Trusts(<< >>, << >>),
  setUpSlaveIp |-> Trusts(Str("ip"), Result),
  resetSendFlag |-> Trusts(<< >>, << >>),
  setUpSlaveNum |-> Trusts(Int32("num"), << >>),
  video_share_test_cb |-> Trusts(Int32("num"), << >>)]

BnVideoShare == [
  video_share_test |-> Serves(Int32("num"), Int32("answer")),
  InitParam |-> Serves(Binder("callback") \o Int32("framesize"), Binder("buffer")),
  signalNewData |-> Serves(Int32s(<<"index", "width", "height">>), << >>),
  signalBufferFull |-> Serves(<< >>, << >>),
  setUpSlaveIp |-> Serves(Str("ip"), Result),
  resetSendFlag |-> Serves(<< >>, << >>),
  setUpSlaveNum |-> Serves(Int32("num"), << >>),
  video_share_test_cb |-> Serves(Int32("num"), << >>)]
=============================================================================
