# A verification of libgui, SurfaceFlinger and the videoshare pipeline

This directory holds TLA+ models of `frameworks/native` as changed for
mediasharehost: Android 5.0's libgui and SurfaceFlinger, with a video hook in
`BufferQueueProducer::queueBuffer` and a service that compresses the hooked
frames and sends them to a slave device. TLC checks the models on small
instances; TLAPS proves theorems about them for every value of their constants.
Paths below are relative to the source tree.

    tlasany BufferQueue.tla                                  # parse
    tlc -workers 2 -config BufferQueue_blocking.cfg MCBufferQueue.tla
    tlapm BufferQueueProofs.tla                              # check the proofs

`PROJECT.json` lists the components, the runs, the source lines of each
definition, the hazards with the properties that watch them, and the theorems.

## 1. The system

### 1.1 Components

| Component | State | Operations | Talks to |
|---|---|---|---|
| BufferQueueCore (`libs/gui/BufferQueueCore.cpp`) | 64 slots, the FIFO `mQueue`, limits, connection flags, one mutex, two conditions | the `*Locked` helpers | shared by the next two |
| BufferQueueProducer | callback tickets, the video hook | dequeue, request, queue, cancel, detach, attach, setBufferCount, connect, disconnect, allocateBuffers | consumer's listener; VideoShare |
| BufferQueueConsumer | (the core's) | acquire, release, detach, attach, connect, disconnect, limits | producer's listener |
| Surface (`libs/gui/Surface.cpp`) | the slot-to-buffer mirror | ANativeWindow calls | BufferQueueProducer, over binder |
| ConsumerBase | a slot-to-buffer cache | acquireBufferLocked, releaseBufferLocked, onBuffersReleased, abandon | BufferQueueConsumer; called by the producer's thread |
| GLConsumer, FramebufferSurface, SurfaceFlingerConsumer | the current image and its context, EGL images of the slots | updateTexImage, releaseTexImage, attach and detach of a context, nextBuffer | ConsumerBase; GL |
| CpuConsumer, BufferItemConsumer | the locked buffers and their number | lockNextBuffer, unlockBuffer, acquireBuffer, releaseBuffer | ConsumerBase; threads of a client |
| StreamSplitter | buffers in flight with the outputs that still hold them | onFrameAvailable, onBufferReleasedByOutput, binderDied | one consumer and several producers |
| VideoShare (`libs/videoshare/`) | shared frame slots, index pool, ring buffer, socket, two threads | InitParam, setUpSlaveIp, setUpSlaveNum, signalNewData, signalBufferFull, resetSendFlag | the hook; the slave device |
| SurfaceFlinger main thread | current and drawing state, transaction flags | onMessageReceived, handleTransaction, handlePageFlip, composition, screenshots | layers, displays, EventThread, the hook's control |
| Layer | its two states, queued items | onFrameAvailable, latchBuffer, doTransaction | a BufferQueue's consumer side |
| Clients, handles and MonitoredProducers | the layers of a connection, the list of producers | createLayer, onLayerRemoved, onLayerDestroyed, signalDelayedRemoval | SurfaceFlinger; the binder driver |
| EventThread (`services/surfaceflinger/`), two of them | connections with their counts, the vsync and the events to send | requestNextVsync, setVsyncRate, onVSyncEvent, onHotplugReceived, onScreenAcquired and Released, the thread | clients by BitTube; DispSync as its source |
| DispSync | a model (period, phase) of the display's vsync, listeners, samples of hardware vsyncs and present fences | add and remove listeners, addPresentFence, addResyncSample, the thread | EventThreads; SurfaceFlinger, which feeds it |
| Hardware vsync: SurfaceFlinger's flags, EventControlThread, HWComposer | enabled, available, what the hardware was told | enable, disable, resync, power mode, onVSyncReceived | DispSync; the hardware |
| MessageQueue | an event mask, the looper | invalidate, refresh, postMessage, cb_eventReceiver | the second EventThread; the main thread |
| Displays: DisplayDevice, HWComposer | tokens with their states, devices, hardware ids, work lists, configs | create, destroy, hotplug, power mode, commit, refresh | clients; the hardware |
| VirtualDisplaySurface | the frame in progress, the two queues, the output buffer | beginFrame .. onFrameCommitted, the driver's dequeue and queue | the sink and a scratch BufferQueue; HWComposer |
| Composer (`SurfaceComposerClient.cpp`) | a global transaction | open, setters, close | SurfaceFlinger |
| Binder interfaces of libgui and VideoShare | none | proxies and stubs | everything above, across processes |
| Sensor client library | receive buffer | read, acknowledge | a BitTube |

The hard parts are these. A BufferQueue has a producer with several threads, a
consumer and death notifications, and unlocks in the middle of three of its
calls. A slot's buffer is cached on both sides, by processes that learn of
changes late. The queue can be emptied of buffers while frames are queued and
acquired. The video hook runs inside `queueBuffer` with the queue locked and
shares memory without a lock with a thread that waits for another one. EventThread
sends events unlocked while its clients come and go, and invents vsyncs that
race with real ones. Whether hardware vsync is on is decided by two threads,
each on an answer it got before an unlock, carried out by a third, and
overruled by the one that switches the display. SurfaceFlinger keeps each state
twice, lets clients change one while the main thread draws the other, and lets
some of them wait for it, with a timeout. Displays are compared, state against
state, long after they were made and unplugged. A surface goes when its owner
says so, or its handle, or its connection, from different threads, and a late
transaction brings it back.

### 1.2 What makes a component correct

* BufferQueue: a slot has one owner; what is queued is delivered, in order,
  once; no buffer is in two hands; no slot is lost; a thread that waits is woken;
  both mirrors of `mSlots` are right when they are used.
* ConsumerBase and its heirs: the cache holds the buffer whenever the queue sends
  NULL; no producer writes what is shown, read or locked; nothing else is kept.
* StreamSplitter: a buffer goes back once, after all outputs; nobody is stalled
  for good; an abandoned splitter leaves its input alone.
* VideoShare: frames are whole, in order and framed in the ring; the hook
  returns; no frame is stranded by a lost signal; stopping is safe.
* EventThread: each request for a vsync is answered once, and none unasked; the
  source is let go when idle.
* DispSync: each listener is called once in a period, and none is overslept.
* Hardware vsync: on only while the display is; off when nobody needs it; what was
  decided reaches the hardware.
* MessageQueue: no message is lost, and none is handled twice.
* SurfaceFlinger and Layer: a transaction is applied whole; a synchronous one
  returns after it is applied; a resized layer is drawn with a buffer of its size;
  every frame is latched in the end.
* Displays: devices, hardware ids and work lists fit the drawing state; what
  screens show is current; the hardware writes the buffer that is queued.
* Clients of SurfaceFlinger: a transaction travels in one piece; a surface nobody
  holds is removed for good; a proxy and its stub read what the other has written.

## 2. The modules

    FrameStream  (abstract)                         DataBuffer
         ^ implemented by                               ^ abstracted to its fill level
    BufferQueueCore <- BufferQueueProducer <- BufferQueueConsumer <- BufferQueue
                                                                         ^
                       VideoShare (the hook of one queue)           ConsumerBase
    VsyncClient  (abstract)                                          ^        ^
         ^ implemented by                                    GLConsumer   CpuConsumer
    EventThread  <- called by -  DispSync  <- sampled by -  HardwareVsync
         ^ asked by
    MessageQueue, Layer  <-  SurfaceFlinger  <- sent to by -  Composer
    Surfaces   Displays   VirtualDisplaySurface   StreamSplitter
    Interfaces <- RemoteCalls

    MCBufferQueue, MCConsumerBase, MCConsumers, MCSurfaceFlinger      instances for TLC
    MCParts, MCThreads, MCStreams                                     ... of several parts
    BufferQueueProofs <- BufferOwnershipProofs <- ConsumersProofs     theorems
    SurfaceFlingerProofs                                              theorems
    StreamsProofs, ThreadsProofs, PartsProofs                         ... of several parts
    SequenceFacts                                                     lemmas

An arrow `<-` is EXTENDS, from the module that is extended; "called by" and the like
is a call in the code whose effect the called module has as an action of its own.

**BufferQueueCore** has the shared state under the names of the source and the
`*Locked` helpers as operators. A critical section of `mMutex` is one step.
Pixels, fences, crop and EGL objects are left out. A buffer is a model value;
`SizeOf` stands for its width, height, format and usage. `acquired` is not in
the code: it is the set of handles the consumer has got and not released.

**BufferQueueProducer** has one action per call. `call[p]` says which call
thread `p` is inside of, for the calls that unlock: a wait in
`mDequeueCondition` (`waiting`, then `woken`), `createGraphicBuffer` in
`dequeueBuffer` and `allocateBuffers` (`allocating`, `preallocating`), the time
between unlock and the listener call in `queueBuffer` (`callback`), and the
callback of `setBufferCount` and `disconnect` (`buffersReleased`). Surface is
included as far as its mirror goes: `requestBuffer` is what it does with the
answer of `dequeueBuffer`. `waitForFreeSlotThenRelock` is one turn of the
loop in the code, on the slots that are left after trimming. An error return
without an effect is a step that changes nothing and is left out, unless the
call has already changed something (trimmed slots, flags).

**BufferQueueConsumer** has the consumer's calls. `acquireBuffer` says in one
formula which `n` frames are dropped instead of looping. `ReleaseAnswer` is
the return value of `releaseBuffer`, `ReleaseSlot` its effect; ConsumerBase
uses both.

**BufferQueue** composes them and states the properties. **FrameStream** is what
a client may think a BufferQueue is: a FIFO of numbered frames.

**ConsumerBase** adds the consumer-side slot cache. `onBuffersReleased`
replaces the empty callback of BufferQueue; `acquireBufferLocked` wraps
`acquireBuffer` and puts the cached buffer in place of NULL.

**GLConsumer** has the consumers that keep one buffer current until they have the
next. `updating` is the handle between acquire and release of the old one: both are
under ConsumerBase's mutex, but the queue is free in between. Whether it is a
GLConsumer or a FramebufferSurface is part of the initial state, as they differ in
what happens to the old buffer. **CpuConsumer** has those that hand buffers out;
`checked` are the threads between the check of the limit and the lock.

**StreamSplitter** has one input and several outputs, each as the state of its slots:
`attachBuffer` to an output takes the oldest FREE slot, as in BufferQueueProducer, and
replaces what is in it. Binder deaths are told some time after they happen
(`deaths`). An output can be `alive`, abandoned by its consumer, or `dead` with its process: the one that is
abandoned answers NO_INIT, which the splitter expects; the one that is dead answers DEAD_OBJECT until
`binderDied` has come, and that is fatal (`StreamSplitter.cpp:158-162`, `173-177`, `196-202`). What is fatal in the
code stops the model, in `fatal`.

**VideoShare** has the hook and the two service threads, by their place in
their loops. The BufferQueue is represented by its hook alone, which is
sound because the hook runs with the queue locked and reads only the frame it
was given. `getVideoShare` sets `mSocketFd` and then `setUpSlaveIp` may block in `connect`, with the queue
locked (`connecting`); the two threads start one after the other (`starting`). `resetSendFlag` may come at any
time once a queue knows the service, before the threads run too; `Thread::run` forgets what was asked of a
thread before, and `exitLost` is the history of such a request. `planes` are the buffers it frees without a
lock. The ring is a fill level and the sequence of headers; **DataBuffer**
shows that the ring really returns the bytes in the order written.

**EventThread** has the calls of its clients, of the main thread and of the
vsync source, and the thread by its place in `waitForEvent` and `threadLoop`. One
turn of the loop in `waitForEvent` is a step, as `mLock` is held from one wait to the
next; sending to one connection is a step of its own. The timeout is an action that is
enabled whenever the thread waits with one: how long it is makes no difference
to what may happen. The first `gatherCallbackInvocations` and the later
`onVSyncEvent` are all that is left of DispSync, so that a vsync can arrive from
a source that has been released. **VsyncClient** is what a client that asks for one
vsync at a time may think of all this.

**DispSync** has the thread with its listeners, event times in integers, and time as a
bounded clock. Which model comes out of `updateModelLocked` is left open.
**HardwareVsync** has the decision whether hardware vsync is needed, with DispSync's
sample counters but any error and any period; SurfaceFlinger's two flags,
EventControlThread, and what HWComposer has told the hardware. Both builds (with and
without present fences) and both kinds of device (with and without a hardware
composer) are initial states.

**MessageQueue** is operators on the mask and the looper that other actions use as
conjuncts: a vsync that is asked for arrives some time later and becomes one INVALIDATE.
**Layer** is a record and functions of it: current and drawing state, what
`doTransaction` and `latchBuffer` make of them, and `acquired`, `mQueueItems` and
`mQueuedFrames` for a frame's way. **SurfaceFlinger** puts them together: client threads that
send transactions and wait in `mTransactionCV`, producers, and the main thread by
its place in a message. `queueBuffer` and the two halves of `onFrameAvailable` are three steps, as
`mQueuedFrames` is counted without the lock. A transaction for a layer that has been removed, and even abandoned,
lists it again, so that the lists of layers are not disjoint.

**Surfaces** has the life of a surface: SurfaceControl with its references, Client, Layer,
handle and MonitoredProducer. `released` are the references the driver has still to tell of. The application is
given the binder that MonitoredProducer wraps (`MonitoredProducer.cpp:113-115`), so that MonitoredProducer
itself dies with the Layer whatever the application holds. `setLayer` is a transaction with a new z or layer
stack, which lists the layer, also one that was removed before (`SurfaceFlinger.cpp:2231-2234`, `2269-2272`);
`relisted` is the history of that.
**Displays** has the tokens in both states, devices, HWComposer's data for each hardware id,
hotplug from the hardware's thread, and a refresh in the stages rebuilt, prepared, done. Layers move between
stacks (`setLayerStack`); a view may lie off the bounds of its device (`AwayViews`), where the dirty region,
filled with those bounds and then projected, is empty; and clients may set a surface for a built-in display, too: it
is ignored, but the device is made anew, without configs for the external display, and of the primary one that is fatal
(`aborted`). `missed` is history: a change of what is to be seen on a display that was not added to its dirty region.
**VirtualDisplaySurface** is the state machine of `mDbgState` with the driver and the consumer
around it. **Composer** has the transaction a process collects, thread by thread, and what of it
is in flight.

**Interfaces** has each binder method as four sequences: what the proxy writes, what the stub
reads, what the stub answers, what the proxy reads of it. **RemoteCalls** walks one call through
them, value by value, past the end of the parcel if it must, with a service that may die before,
while and after the method runs.

The modules **MCParts**, **MCThreads** and **MCStreams** put several parts side by side that share no
state: `part` says in the initial state which of them acts, so that each behaviour is one of one
part. Their states are the sum of those of the parts, not the product.

Operators commented as mutants are slips the code could have made. Nothing in a
specification uses them; each is there to show that some property would notice.

## 3. What is checked

Runs that pass, with two workers:

| Run | Instance | States | Question |
|---|---|---|---|
| BufferQueue_blocking | 3 slots, 4 buffers, 2 frames, a consumer that defers, drops and leaves | 490k | ownership of slots and buffers, the client's mirror |
| BufferQueue_threads | 2 threads, 3 buffers, no symmetry | 168k | lost wakeups, order of callbacks, liveness |
| BufferQueue_attach | 2 buffers, both sides attach | 886k | detach and attach |
| ConsumerBase_cache | 2 asynchronous threads, allocateBuffers, failing allocations, 3 buffers of 2 sizes | 407k | the consumer's cache; the FIFO |
| Consumers_hold | both kinds of consumer on one queue, 3 buffers, EGL and gralloc may fail | 439k | what is shown, read and locked is held |
| Streams_flow | 2 shared slots, ring of 3, 2 frames that are told apart, 1 reset; splitter with 3 buffers, 2 outputs, 3 frames | 480k | VideoShare and resetSendFlag; StreamSplitter |
| Threads_callbacks | 2 clients and tubes of 1; sample limits of 2 and 3; 2 surfaces of one application | 118k | EventThread, hardware vsync, removal of surfaces |
| SurfaceFlinger_transactions | 2 clients, 2 layers, 3 calls or frames, screenshots, timeouts | 273k | transactions, page flips, waiting clients |
| Parts_calls | 2 external and 2 virtual tokens, 2 layer stacks, 4 views, 1 of them away; 3 slots and 6 buffers; 2 threads; every call; 2 listeners; ring of 4 | 2.4M | displays, virtual display surface, Composer, binder calls, DispSync, the ring |

Deadlock is checked where an end means that something waits for ever: in Streams_flow,
in Threads_callbacks, and in the violation run of StreamSplitter. In the other runs a bound (frames, calls,
time) ends a behaviour; there the liveness properties and `NobodyWaitsInVain` look
for those who wait. `AtBound` in MCThreads and MCStreams stutters for the part that is bounded.

The properties, many of them conjunctions of parts that have names of their own:

* `SlotsHaveHolders` (`QueuedSlotsHaveItems`, `AcquiredSlotsHaveHandles`,
  `DequeuedSlotsHaveOwners`) and `TrackedItemsAreQueued`: an item, a handle or a client
  stands behind each slot that is not FREE, and what the queue does to a slot on the word of
  `stillTracking` alone is done to the right owner.
* `SlotLifeCycle`: the diagram of `include/gui/BufferSlot.h:54-91`.
* `BuffersAreKnown` (`MirrorAgrees`, `ExclusiveBuffers`, `RequestedSlotsHaveBuffers`): the client
  draws into the buffer that will be queued, `queueBuffer` meets no NULL, and no buffer is with both sides.
* `StreamSpec`, `NotifiedInOrder`: FrameStream is implemented; callbacks come in order.
* `NobodyWaitsInVain` (`SleepersMustSleep`: each step that lets a sleeper go on wakes it;
  `SleepersAwaitConsumer`: nobody waits for himself), `CallsGoOn` (`WaitersReturn`, `CallbacksRun`).
* `CacheServesTheUser` (`UsesQueuedBuffer`, `AcquiredSlotsAreReleasable`): ConsumerBase gives its user the
  buffer that was queued and can give back what it took.
* `ImagesAreHeld` (`CurrentIsHeld`, `OneImageIsHeld`), `LockedIsHeld`: what is shown, read or locked is ACQUIRED
  wherever the queue knows it, and one image at most is kept.
* `NoTornFrame`, `FramesArriveWhole` (`SentInOrder`, `CompressesIntoPlanes`, `ReadableSlotsArePending`,
  `RingHoldsWholeFrames`), `PipelineGoesOn` (`HooksReturn`, `PublishedAreConsumed`) for
  VideoShare. A reset that comes before the compressor runs is lost (`exitLost`): after it, order and planes are
  not claimed, while whole frames, pending slots and the ring are. `PipelineGoesOn` excepts the reset that stops the
  transmitter alone (`TransmitterAloneStopped`). `RingIsAFifo` (`ReadsNextBytes`, `SpacesAgree`) for the ring.
* `OutputsAreDone`, `StalledFramesGoOn` for StreamSplitter; the latter excepts what is fatal and an output that has
  disconnected but lives.
* `NoLostWakeup`, `OneShotSpec` (EventThread implements VsyncClient for its one-shot
  client), `RequestsAnswered`, `SourceReleased` for EventThread.
* `EventsAreOnTime` (`NoOversleep`, `CalledOncePerPeriod`) for DispSync.
* `OnlyWhenAvailable`, `HardwareFollows`, `VsyncGoesOff` (`OffStaysOff`, `SavesPower`) for hardware vsync.
* `GoneIsGone` (`RemovedOnce`, `NoneSlipsAway`, `ProducersAreKnown`), `OrphansAreRemoved`: a surface is removed and
  abandoned once, unless a late transaction listed it again; no layer leaves without being abandoned; its producer
  is known as long as the layer lives; and what nobody holds goes for good, listed again or not, and its
  producer is forgotten.
* `WorkIsComing`: whatever is to be done has a message or a vsync under way. `FramesAreTracked`: counter,
  tracker and queue of a layer agree, step by step. `PicturesAreConsistent` (`DrawnAtItsSize`,
  `RegionsAreFresh`, `ScreenshotsAreCurrent`), `WaitersAreServed` (`ReturnsCommitted`,
  `AnimationsTakeTurns`), `WorkIsDone` (`TransactionsAreCommitted`, `FramesAreLatched`).
* `DevicesAreBacked` (`DevicesMatchDrawingState`, `IdsAreInUse`, `OutputsHaveLists`), `ScreensShowTheState`
  (`ScreensAreCurrent`, `HintsAreCurrent`) for displays, except for a virtual one that missed a change: one accounted to
  another display of the stack, of a layer that went to another stack, or with the viewport off the bounds; `BuffersAreBalanced`, `HardwareHasTheOutput` for the
  surface of a virtual one.
* `TransactionsAreWhole`, `ComposedInOrder` for Composer: what arrives at SurfaceFlinger does what the calls would
  have done one by one.
* `ParcelsAreUnderstood` (`ArgumentsArrive`, `ResultsArrive`), `SuccessMeansDone` for every remote call.

### 3.1 Bounds

Three slots are enough for one buffer in each of the three hands besides FREE,
and for a slot beyond a lowered maximum; four slots allow
`mMaxAcquiredBufferCount = 2`. One buffer more than slots lets a slot be
reallocated while its old buffer is still queued or acquired, which is where
stale items and handles come from. `MaxFrames` bounds the frames of a behaviour,
not the calls: dequeue, cancel, disconnect and reconnect go on without a
bound. Two or three frames fill the queue, replace its front and let a slot be
used twice. Two producer threads are enough for one to wait while the other
acts. In the ring of 3, the header takes 1 and a frame 1 (0 when compression
fails), so that one frame fits with its header and the compressor waits for room for the second. Frames are told
apart up to two, an earlier and a later one; the others count as the later. `UINT32_MAX` is any number above the frame
numbers of the instance. `MaxItemFrames` is lower for the consumers that hand buffers
out, whose threads multiply the states; two frames are one that is locked and one that comes while it is.

EventThread's vsync counter matters modulo the rates only, so it is kept modulo
2; a tube of one event is full after one, and two clients are enough for one
to be served while the other is not. DispSync's clock covers three periods, so
that the model can move between two events of a listener. The sample limits of
HardwareVsync are 2, 3 and 2 in place of 3, 32 and 12: each is reached and passed.

StreamSplitter keeps `MAX_OUTSTANDING_BUFFERS` at the code's 2: the third buffer is the
one that stalls the input. Two surfaces of one application, one that outlives the other, are all that
removal can tell apart. In SurfaceFlinger, `MaxEvents = 3` counts what comes from outside (transactions,
frames, screenshots): three are a resize, the frame for it and a client that waits or asks for a
picture in between. `MaxDisplayEvents = 4` lets a display be made, changed,
unplugged and made again, all between two commits or spread over several; two tokens
of the external display tell a replaced one from the one before. Two stacks are the one a layer leaves and the
one it goes to, and one view away next to one that is not tells when the dirty region is lost. In Composer three
opens are two nested ones and an unmatched close. RemoteCalls needs no bound: each method is called once, with
all combinations of optional arguments and of success.

Symmetry permutes buffers of one size and the producer threads, contexts and threads of a consumer; the liveness
runs do without it.

### 3.2 Fairness

`FairSpec` of BufferQueue: a thread inside a call goes on (the kernel schedules
it and the lock is fair enough for a thread that is always ready); a listening
consumer acquires what is queued, and releases when it holds more than
`mMaxAcquiredBufferCount`, as GLConsumer::updateTexImage does, one buffer late.
Nothing makes a client call. VideoShare: both threads run, and a
hook that has begun goes on, its `connect` too, if only with ETIMEDOUT. `PublishedAreConsumed` also assumes that frames
keep coming (`Playing`): without it the last frame can stay behind, since
a signal sent while a thread is not yet waiting is lost.

EventThread: its thread runs, a wait with a timeout ends, and DispSync's
thread goes on. No client call is fair, and the screen may stay off.
`RequestsAnswered` is stated for a screen that stays on or calls that stop: with the
screen off, only a timeout brings a vsync, and each call that wakes the thread
starts it anew. Hardware vsync: the main thread finishes what it has
begun, EventControlThread runs, and a display whose vsync is on sends vsyncs. `SavesPower`
is stated for a build with present fences, once nothing is presented and the
display is not turned on any more; without them hardware vsync is kept on for as
long as somebody listens, as the comment in `DispSync.cpp:371` says.

Surfaces: SurfaceFlinger's threads and the binder driver go on (`FlingerNext`); no application ever has to
close anything, or to stop sending transactions, and `OrphansAreRemoved` speaks of those that closed or died:
the driver's release of the handle is what ends a surface that was listed again. StreamSplitter: the
callbacks go on and the driver tells of a death; a consumer of an output releases what it has
acquired or dies, but may disconnect at any time, which `StalledFramesGoOn` excepts. SurfaceFlinger: the main
thread, EventThread's answer, a woken client, a producer inside `queueBuffer` and the clock go on; no client sends
or queues anything, and no timeout is fair, so that `WaitersAreServed` holds without help from the timeout.

MCThreads and MCStreams repeat the fairness of each part for behaviours of that part.

### 3.3 Where the code disagrees with its documentation

Three disagreements have a run that exhibits them:

* `ConsumerBase_attach`: `attachBuffer` of the producer leaves `mAcquireCalled` of
  the slot set although the consumer has not seen the buffer
  (`include/gui/BufferSlot.h:126`), so the consumer is sent NULL and uses the
  buffer it had cached. In the tree attaching producers feed StreamSplitter outputs.
* `StreamSplitter_abandoned`: an abandoned splitter is not to communicate with its input
  (`include/gui/StreamSplitter.h:166`), but `onFrameAvailable` looks at `mIsAbandoned` only after a wait
  (`StreamSplitter.cpp:116-124`). A callback that comes late acquires from an input the splitter has
  disconnected from, and the failure is fatal to the process.
* `Displays_moved`: "When all layers are removed from a display, we'll emit one black frame" (`SurfaceFlinger.cpp:1128`),
  but when the last layer of a virtual display moves to another stack, `computeVisibleRegions` skips it
  (`:1674`), only removal calls `invalidateLayerStack` (`:1598`), and the old picture stays.

The following were met while modelling. Each is a formula of its module; a run of that module
with the formula as its property, and the constants of its passing run except for those named, shows it.

| Formula | Module | What happens |
|---|---|---|
| RemovedAreNotCalled | DispSync | `removeEventListener` promises no more calls (`DispSync.h:119`), but the thread calls what it gathered after unlocking (`DispSync.cpp:140`). EventThread lives with it: `OneShotSpec` is checked with such calls |
| ResyncsWhenTurnedOn | HardwareVsync | the model should be resynchronized whenever the display is turned on (`DispSync.h:90`). HWComposer turns vsync off on the way down (`HWComposer.cpp:780`); if the display is on again before EventControlThread has run, it sees no change, tells the hardware nothing (`EventControlThread.cpp:49`), and no vsync comes although SurfaceFlinger takes it for enabled |
| ChangesAreShown | SurfaceFlinger | a TRANSACTION message commits without a refresh (`SurfaceFlinger.cpp:935-938`, `3200-3205`): a transaction that a screenshot commits early is not shown until something else asks for a refresh, against `:945` |
| ImagesExist | GLConsumer | the comment at `GLConsumer.cpp:390` is about a slot whose buffer comes as NULL because it was acquired before: it has an image. When the queue has freed the current slot and filled it again, `releaseTexImage` (`:275`) names the slot with the buffer it has now, the answer is STALE_BUFFER_SLOT, and the cache forgets the new buffer, which the queue takes for known: it comes as NULL, and there is no image. Before that an update has to fail in EGL |
| LocksFit | CpuConsumer | the limit is checked before `mMutex` is taken (`CpuConsumer.cpp:102`): two threads both pass, and the assertion at `:182` fails |
| DrawsTheOutput | VirtualDisplaySurface | `dequeueBuffer` takes BUFFER_NEEDS_REALLOCATION for itself and answers the driver with what `requestBuffer` returned (`VirtualDisplaySurface.cpp:314-316`), against `IGraphicBufferProducer.h:117-118`: after a change of format the driver draws in the buffer that it had of the slot, and another is queued (`VirtualDisplaySurface.h:48-54`) |
| ConfigsAreKnown | Displays | an external display that is unplugged and plugged in again between two commits: the removal of the old device clears the configs (`HWComposer.cpp:815`) that the new one has just been given, as both have the same hardware id; or clients set a surface for the external display, whose device is then made anew without configs; they are read all the same |
| ProducersStayKnown | Surfaces | `authenticateSurfaceTexture` is to "verify that an IGraphicBufferProducer was created by SurfaceFlinger" (`include/gui/ISurfaceComposer.h:110`), but a MonitoredProducer goes with its Layer and takes the producer off the list (`MonitoredProducer.cpp:28-53`) while a Surface may still queue with it: when the connection is disposed of, layers go that a SurfaceControl still names |
| ArgumentsArrive, `Called = {"Listeners"}` | RemoteCalls | the item passed to `onFrameAvailable` should have all there is to know of the frame (`include/gui/IConsumerListener.h:49`). `BufferItem::flatten` compares the number of descriptors with its size in bytes (`BufferItem.cpp:100`), so that it always fails, and the listener of another process is called without an item |
| ArgumentsArrive, `Called = {"Sensors"}`, `Widths = {TRUE}` | RemoteCalls | `setEventRate` puts 64-bit nanoseconds in an `int32` |

Others, seen in the code and not stated as formulas:

* VideoShare: a reset while `connect` blocks (`VideoShare.cpp:267`, `333-350`) is lost on the threads, which `Thread::run`
  starts afresh. Its index 0 stays in the pool, so that slot 0 is taken out of turn and frames are sent out of order, and the planes
  are freed under a compressor that goes on. Between the starts of the two threads, the transmitter obeys and
  the compressor does not: the ring stays full, and the hook waits for ever with the queue locked. A call
  that overtakes `InitParam` finds no threads.
* StreamSplitter: an output whose process has died answers DEAD_OBJECT, and the splitter's process ends (`StreamSplitter.cpp:162`,
  `177`, `200`), unless `binderDied` came first. `attachBuffer` to an output takes a released slot before `onBufferReleasedByOutput` has detached it; with no slot free it
  answers NO_MEMORY, which is fatal (`StreamSplitter.cpp:200`). A frame stalled after the
  splitter is abandoned, or behind an output that has disconnected but lives, waits for ever.
* Interfaces: the stub of IGraphicBufferConsumer lacks GET_SIDEBAND_STREAM (`IGraphicBufferConsumer.cpp:394`
  has the proxy); SET_SCREEN_SPLIT and SET_SLAVE_NUM of ISurfaceComposer answer nothing; most proxies ignore what
  `transact` answers and report NO_ERROR of a dead service; `dump` of the consumer drops what the stub sends;
  `BitTube::writeToParcel` works once, as it closes its descriptor.
* Composer: two closed transactions may overtake one another between the unlock and the call
  (`SurfaceComposerClient.cpp:208-243`), though each is "committed at once" (`.h:113`). ComposerService may hand
  out a connection whose death it has not heard of.
* Layer: `onFrameReplaced` is never called by BufferQueue's proxy listener (`BufferQueue.cpp:34-55`); a new
  sideband stream is latched only with the next queued frame (`Layer.cpp:1044`); `setLayer` and `setLayerStack` on a layer that has left the list put it back
  (`SurfaceFlinger.cpp:2231-2234`, `2269-2272`): the index they look up is then NAME_NOT_FOUND, which `removeAt` refuses, and `add`
  follows in any case. An abandoned layer is drawn again, with the buffer it had, until its handle goes.
* Displays: a stack shown on two displays gives `contentDirty` to the first of them; the displays of the stack a layer
  leaves are dirtied only where it covered others; a view off the bounds of the device leaves
  no dirty region (`DisplayDevice.cpp:317-325`, `355`, `404`, `454`), and a virtual display is not composed; a surface set for the primary display
  (`SurfaceFlinger.cpp:2177`) ends the process (`HWComposer.cpp:806`); a mode out of range is
  only logged; when `refreshOutputBuffer` fails, HWComposer keeps the output buffer of the frame before (`HWComposer.cpp:749-756`).
* CpuConsumer: a failure to lock leaves the buffer acquired; BufferItemConsumer, when the fence fails to signal, likewise.
* DispSync: after a power-on `addResyncSample` is content
  with the first sample, since `setPeriod` has set a period and the error is 0, so fewer
  samples are taken than `MIN_RESYNC_SAMPLES_FOR_UPDATE` unless a present fence disagrees; an error of the
  hardware in `eventControl` is logged and forgotten (`HWComposer.cpp:541`).
* The video hook's control: `mConsumerName` of a producer is set in `dequeueBuffer` and `connect` only (`BufferQueueProducer.cpp:275`, `:893`), so
  `setVideoHook_l` and `setSlaveIp_l` called by `createLayer` (`SurfaceFlinger.cpp:2320-2332`) never match the
  layer just made; a hook turned on without an ip tries to connect to "", which fails and is not tried again (`VideoShare.cpp:253`); the
  setters walk `mCurrentState` without `mStateLock`, and a `createLayer` that read the flag before may set a hook
  again after it was turned off; `getVideoShare` keeps the service although `InitParam` has failed.

The following hold of the models only with the constants the runs give; each
can be seen by changing the constant named.

| Constant | Fails | Why |
|---|---|---|
| `ConcurrentDisconnect = TRUE` | MirrorAgrees, DequeuedSlotsHaveOwners, QueuedSlotsHaveItems, SleepersAwaitConsumer, AcquiredSlotsAreReleasable | dequeueBuffer writes its slot after the allocation without another look (`BufferQueueProducer.cpp:369-379`) |
| `MaxAcquiredCounts = {2}`, 4 slots | SleepersMustSleep | `setMaxAcquiredBufferCount` raises the maximum and wakes nobody; it is refused while a producer is connected, so that the sleeper has to be in `dequeueBuffer` of a queue nobody is connected to (`BufferQueueConsumer.cpp:473-479`) |
| `AllocationFails = TRUE` | DequeuedSlotsHaveOwners | the slot stays DEQUEUED (`:364`) |
| `AsyncModes = {TRUE, FALSE}` | DeliveredInOrder, StreamSpec | a droppable front is replaced with newer frames behind it (`:751`) |
| `ControlledByApp = {TRUE}`, two threads | SleepersMustSleep | connect changes `mDequeueBufferCannotBlock` without the broadcast `BufferQueueCore.h:101` asks for |
| `BufferCounts = {3}` | SleepersAwaitConsumer | before the first queueBuffer nothing limits dequeued buffers (`:219`) |
| `ReattachQueued = TRUE` | SlotLifeCycle | a buffer still in mQueue can be attached again (`:521`) |
| `ConsumerAttaches = TRUE`, 3 buffers | ExclusiveBuffers | attached buffers all have frame number 0 (`BufferQueueConsumer.cpp:255`) |
| `Preallocates = TRUE`, two threads | FreeSlotsReserved | `mIsAllocating` is to keep producers off FREE slots (`BufferQueueCore.h:241`), but a thread asleep in `waitForFreeSlotThenRelock` takes one when it is woken (`BufferQueueProducer.cpp:262`) |
| `Preallocates = TRUE`, `DefaultMaxCounts = {2, 3}` | MirrorAgrees | RELEASE_ALL_BUFFERS is lost on an error return |
| `FrameSizes` with 3 | HooksReturn | a frame larger than the ring is waited for with the lock held |
| two `Hooks` | NoTornFrame | two queues pick the same slot |

Two assertions of the code are not modelled as they vanish with NDEBUG, and both
can fail: `BufferQueueCore.cpp:156` (the override is checked for a synchronous
producer only) and `BufferQueueProducer.cpp:175` (an ACQUIRED slot beyond the
maximum).

## 4. What is proved

Every theorem is about every value of the constants that satisfies the named assumptions
of the modules (`CoreAssumption`, `ProducerAssumption`, `ConsumerAssumption`,
`VideoAssumption`, `SplitterAssumption`, `RingAssumption`, `EventThreadAssumption`,
`HardwareVsyncAssumption`, `DispSyncAssumption`, `DisplaysAssumption`, `VdsAssumption`,
`LayerAssumption`, `SurfaceFlingerAssumption`, of which the last has that the layers are finitely many), and, where
it says so, some of the restrictions below. `RingAssumption` has the one fact that is not a matter
of types: the size of the ring divides the range of size_t, as 512 KiB does
(`libs/videoshare/VideoShare.cpp:164`).

Each safety theorem is proved from an inductive invariant, which TLC checked on the run of the
property before the proof. The proof modules are one for each part that is proved about:

    SequenceFacts         sequences: what stays of a part, an append, a removal
    BufferQueueProofs     types and the order of frames and callbacks
    BufferOwnershipProofs who owns slots and buffers, and who may sleep, on top of it
    ConsumersProofs       ConsumerBase, GLConsumer, CpuConsumer, on top of that
    SurfaceFlingerProofs  SurfaceFlinger with Layer and MessageQueue
    StreamsProofs         VideoShare, StreamSplitter
    ThreadsProofs         EventThread, HardwareVsync, Surfaces
    PartsProofs           Displays, VirtualDisplaySurface, Composer, DispSync, DataBuffer

### 4.1 BufferQueue

| Theorem | Shows | Restricted to |
|---|---|---|
| TypeCorrect | `Spec => []TypeOK` | - |
| FramesDeliveredInOrder, ImplementsFrameStream | `Spec => DeliveredInOrder`, `Spec => StreamSpec` | NeverMixed |
| FramesNotifiedInOrder | `Spec => NotifiedInOrder` | - |
| ItemsOwnTheirSlots | `Spec => []TrackedItemsAreQueued` | ~ConcurrentDisconnect, ~ReattachQueued |
| SlotsFollowTheirLife | `Spec => SlotLifeCycle` | the same |
| SlotsAreNeverLost | `Spec => []SlotsHaveHolders` | the same, NeverMixed, ~AllocationFails, ~ConsumerAttaches |
| ClientKnowsItsBuffers | `Spec => []BuffersAreKnown` | ~ConcurrentDisconnect, ~ReattachQueued, ~ConsumerAttaches, ~Preallocates, OneThread |
| NoWakeupIsLost | `Spec => []SleepersMustSleep` | NeverDroppable, MaxAcquiredCounts = {} |
| CallsDoNotWaitInVain | `Spec => []NobodyWaitsInVain` | the same, and those of SlotsAreNeverLost, BufferCounts within {0} |

**TypeOK** is inductive. The work is in the record types of slots and calls, one lemma per action.

**The order of frames.** Each step is one of four as far as it is concerned: a frame is queued,
frames are taken from the front, the queue is emptied, or nothing changes. `OrderInv` says that frame
numbers in the queue increase, lie above the last acquired and not above the counter, and that a
droppable item is alone in the queue; the last part makes "replace the front" the same as "replace the
newest" and is what fails when the modes are mixed.

**The order of callbacks.** `TurnsInv`: the tickets of the threads between the unlock and the callback lie
between the current and the next ticket, their frames above the one last told, and of two such threads one
has both the smaller ticket and the smaller frame. So the thread whose turn it is has the oldest frame, although
the threads get there in any order and the queue may be disconnected and connected meanwhile.

**Who owns what** is proved in layers, each inductive given those below.

* `OwnersInv`: a slot a thread has in its hands is DEQUEUED, of no other thread and not the client's; so are
  the client's own; a buffer that waits to be attached is in no slot, item or other thread; items have frame numbers
  of their own; and a tracked item's slot is QUEUED. None of these is inductive without the others: an item can lose its
  slot only to a thread that writes one it does not own.
* `HoldersInv`: no queued item's slot is ACQUIRED, behind a slot's own item there is none of the same slot, and an
  abandoned queue has no slot DEQUEUED or QUEUED. This is what makes "the item that was acquired" and "the slot that
  became ACQUIRED" belong together.
* `HandsInv`: a buffer is in one slot, in one item and in one handle, and where it is in two of these they name
  each other.
* `MirrorInv`: the client remembers the queue's buffer or is about to be told (`MirrorIsFresh`); a thread that
  was told to forget everything finds the client holding nothing (`AllForgotten`); after the queue is abandoned, what the
  client has or may still come to have is nothing the consumer holds (`AbandonedApart`); and slots beyond a
  maximum the client has set are empty (`OverrideIsKept`), which is why lowering it releases nothing that is held.

**Who sleeps.** `SleepInv`: a thread in `mDequeueCondition` asked for a synchronous buffer and, as the queue is now, would not
be let through (`MaySleep`): no slot below the maximum is FREE, or the queue is too long. A step that leaves it asleep
either changes nothing of this or moves slots only between ACQUIRED and FREE beyond the maximum (`Rearranged`, lemma SameMax:
the maximum depends on three limits and on which slots are QUEUED or DEQUEUED). For CallsDoNotWaitInVain `MaySleep` also says
that no slot is DEQUEUED while a thread sleeps: as long as the client sets no number of slots, one that has a buffer is
answered with an error instead. With an empty queue all slots below the maximum are then ACQUIRED, and that is
more than the consumer may keep.

The restrictions are those for which the theorem is false without them, with a counterexample of TLC:

* `ConcurrentDisconnect` and `ReattachQueued`, as in the table of section 3.3: a thread that comes out of its allocation
  writes into a slot that is not its own any more; a buffer that is queued gets a second slot.
* NeverDroppable and MaxAcquiredCounts = {}: the rows of section 3.3 for two threads and for four slots. A queue that is
  always droppable has nobody asleep, so that mixing the modes is all that is left out.
* BufferCounts within {0}: before the first frame a client may take all slots it has asked for.
* NeverMixed: the item that replaces a droppable front may be of another slot, and the front's slot is freed while an
  item behind it is its own.
* `AllocationFails`: the slot stays DEQUEUED and nobody has it.
* `ConsumerAttaches`: `attachBuffer` of the consumer takes a FREE slot that a stale item in the queue names, and gives
  what it attaches the frame number 0, twice.
* OneThread: RELEASE_ALL_BUFFERS is an answer to one thread, which clears what another has just been given.
* `Preallocates`: a FREE slot that `allocateBuffers` has filled again is one the client is not told of.

The instances of the runs satisfy them: `BufferQueue_blocking` is one of SlotsAreNeverLost and
ClientKnowsItsBuffers, `BufferQueue_attach`, where both sides attach, of ItemsOwnTheirSlots and SlotsFollowTheirLife,
`BufferQueue_threads` of NoWakeupIsLost and CallsDoNotWaitInVain.

### 4.2 The consumers of a BufferQueue

| Theorem | Shows |
|---|---|
| CacheNeverFailsTheUser | `CbSpec => []CacheServesTheUser` |
| CacheImplementsFrameStream | `CbSpec => StreamSpec` |
| LockedBuffersAreHeld | `CpuSpec => []LockedIsHeld` |
| CurrentImageIsHeldAlone | `GlSpec => [](CurrentIsHeld /\ OneIsHeld)` |
| WhatIsUsedIsHeld | `MCSpec => [](ImagesAreHeld /\ LockedIsHeld)` |

All are restricted to SurfacesProduce: NeverMixed, ~ProducerAttaches, ~ConcurrentDisconnect, ~ReattachQueued, the modes under
a Surface that is not disconnected in the middle of a call. Nothing is asked of `allocateBuffers`, of failing allocations, of the
number of producer threads, contexts or threads of the consumer. The first is false with ProducerAttaches (run `ConsumerBase_attach`) and with
ConcurrentDisconnect (section 3.3); NeverMixed is inherited from the
invariants of the queue below, which need it; TLC has found no violation of these properties with mixed modes in two million and one million states, short of
a complete run, so that it is open whether they hold without.

**What is kept of the queue.** `BaseInv` is OrderInv, OwnersInv and HandsInv of section 4.1. A consumer drops a handle without a
`releaseBuffer` when its cache has lost the slot, so that not every step of it is one of BufferQueue's `Next`, and the three are shown again for the steps
a consumer adds: giving up handles, with or without a release, keeps them (GivingUpKeepsBase), provided a slot that is freed
was not of a handle that is kept.

**The promise of the cache.** The queue sends a buffer once, with `mAcquireCalled`. `PromisesInv` says what makes that safe: nobody is
asleep in `attachBuffer` (`NobodyAttaches`); an item that comes as NULL, and a slot whose next one will, has its buffer in the cache (`CacheInv`);
and since the cache has one place for a slot, the items of a slot come in the order in which they count on it (`ArrivalInv`). `onBuffersReleased`
clears what `getReleasedBuffers` says, and a slot the mask does not name is one whose promise stands. A FramebufferSurface may lose a slot from the cache while it is
ACQUIRED (see `ImagesExist` in section 3.3), which is why `PromisesInv` is stated for a cache that is lossy or not.

**What the users have.** `UsersInv`: a handle with a buffer is one the queue has given, and of a frame of its own. `CpuInv` adds that what is locked
is such a handle. `GlInv` adds, for the image: the current handle and the next are different handles (`ShownInv`); of the slots that are ACQUIRED and
in the cache one is current and the other is about to be (`KeptInv`), which is "nothing else is kept" in the middle of
an update; what GL reads is a handle, and not the one that was taken just now (`ReadInv`).
The runs `ConsumerBase_cache` and `Consumers_hold` are instances.

### 4.3 The video pipeline

* **FramesAreWhole**: `Spec => []NoTornFrame` with one hook, for any number of slots, any ring, any
  frames and any reset, also one while `connect` blocks. `OwnershipInv` adds who may write each slot: what the hook is
  copying into is can_write, what the compressor works on is can_read, and a
  can_read slot holds a whole frame.
* **CapturedArriveWhole**: `VideoSpec => FramesArriveWhole` with one hook, under the same generality; order and planes, as the property
  says, unless a reset was asked for before the compressor ran. `ShareInv` follows a
  frame through its stations: the hook, the pool, the compressor's hands, the ring, the transmitter's hands. Until the
  threads are asked to stop (`Asked`: the compressor is, or its request was lost), a slot that can be read is in exactly one of the first three
  (`PlacesInv`), and the planes are freed only after that (`StopInv`). A compressor that runs on after a lost request still
  has every readable slot before it (`PendingInv`, as long as nothing is asked of it again), and until `connect` has returned neither thread runs (`OffInv`). The bytes in the ring are those of the frames with a header, less what is still to
  be written of the last, plus what is still to be read of the first (`BytesInv`; a function gives the byte at which each frame
  ends, where a sum would need recursion). And between any two stations there is a number that the frames in front of it do not
  exceed and those behind it reach (`SequenceInv`, until `exitLost`), so that each hand-over keeps the order. Two hooks break it as they break NoTornFrame.
* **BuffersComeBackReleased**: `SplitSpec => []OutputsAreDone`, for any outputs. `SplitInv` counts: the releases
  counted of a buffer and the outputs that hold it or are still to be given it (`Busy`) are together no more than the
  outputs. A dead output holds nothing, and no output has a buffer twice, so that each counts once, whether it
  releases, dies or lets `attachBuffer` replace the slot.
* **RingStaysAFifo**: `RingSpec => []RingIsAFifo`. `RingInv`: the pointers are the counts of bytes modulo the range of size_t, and
  each byte that is written and not yet read is in the cell of its number modulo the size. The proof is
  about remainders: the wrap-around of the pointers keeps the cells because the one modulus divides the other, and bytes less than
  a size apart have different cells.

### 4.4 The threads of SurfaceFlinger

* **TypeCorrect** and **NoWakeupIsLost** (EventThread): `Spec => []TypeOK` and
  `Spec => []NoLostWakeup`, for any clients and rates. Given the types, NoLostWakeup
  is inductive: an action that gives the thread something to do broadcasts; the loop goes
  to sleep only after it has looked; a client that goes, an event that is read and a
  callback that is gathered only take reasons to wake away or leave them alone.
* **RequestsAreAnsweredOnce** (EventThread): `Spec => OneShotSpec`, step by step: a request, an answer put in the tube, an event read,
  a connection lost are the steps of VsyncClient of that name, and all else leaves what the client may see alone. `OneShotInv`: its
  count is 0 or -1 at every moment, and one that is gone has an empty tube. The heart of it is that a vsync sent to a connection resets its count in the
  critical section that selects it, so that an error or a second turn of the loop neither loses the request nor answers it twice.
* **EventsComeOnTime** (DispSync): `DsSpec => EventsAreOnTime`, both halves. `DsInv` adds that a
  thread without a period has not looked yet, or waits for one.
  While it sleeps, whatever makes an event earlier has signalled; after a callback the next event lies at
  least half a period further (`CalledOncePerPeriod`), by the rounding in `computeListenerNextEventTimeLocked`.
* **EnabledOnlyWhenAvailable** (HardwareVsync): `HwSpec => []OnlyWhenAvailable`. `AvailableInv` adds that the display is on while the main thread is about
  to resynchronize, the one place that makes hardware vsync available.
* **ControlFollows** (HardwareVsync): `HwSpec => []HardwareFollows`. `ControlInv` adds
  that a waiting thread's local value is `mVsyncEnabled`, and that the hardware is on
  only if the local value says so; this is where `powerDown` can only turn it off.

### 4.5 Surfaces, displays and transactions

* **RemovedSurfacesStayGone** (Surfaces): `SurfacesSpec => []GoneIsGone`, with transactions that come after the removal. Three ways
  lead to a removal; each lists only what is current (`RemovalListsOnce`), so that a layer is removed twice, or current after it
  was, only if a transaction listed it again. A layer stays in the current state, the list or among the abandoned from its
  creation on (`NoneSlipsAway`), and is destroyed, with its producer, only when the first two have let go of it. `SurfacesInv` adds that what is
  not created is in no set (`FreshIsNowhere`) and that what is created lives until its reply is sent (`CreatedIsAlive`).
* **DevicesStayBacked** (Displays): `DisplaysSpec => []DevicesAreBacked`. `DisplaysInv` follows the external display through the
  hotplug thread (`OneExternal`: at most one is current, and the event on its way fits), relates tokens and hardware ids (`IdsFit`), and states
  `OutputsHaveLists` for every moment and not the commit alone, by way of the flag that will have the lists made (`ListsAreComing`).
  Clients may set a surface for any display; a commit of the primary's ends the model (`abort`).
* **ScreensAreUpToDate** (Displays): `DisplaysSpec => []ScreensShowTheState`. `ScreensInv` is that whatever makes a screen
  out of date leaves something behind: content that is dirty, a dirty region, or visible regions to be computed
  (`StaleIsDirty`), unless the display `missed` it, in one of the three ways of section 3, which ends with the next frame it shows; and that a frame passes a virtual display over only if it was blank and stays so (`RecomposedWhenDirty`).
* **NoBufferIsLost**, **HardwareIsGivenTheOutput** (VirtualDisplaySurface): `VdsSpec => []BuffersAreBalanced` and
  `VdsSpec => []HardwareHasTheOutput`. `VdsInv` says for each state of `mDbgState` what the driver may hold (`DriverInOrder`) and that
  the output is dequeued and known to the hardware from the beginning of the frame (`OutputInOrder`), unless something failed.
* **TransactionsTravelWhole** (Composer): `ComposerSpec => []TransactionsAreWhole`. `ComposerInv`: the nest count is the number of threads with
  an open transaction, so that the one that finds it zero leaves nobody behind; and a collected state that resizes has set
  `mForceSynchronous`.

* **TransactionsAddUp** (Composer): `ComposerSpec => []ComposedInOrder`. The property says of each target and each property or flag that the
  last to speak of it, among what has arrived, what is in flight and what is collected, says what the calls said last (`wanted`). It is nearly inductive: `OrderInv`
  adds the shape of what is sent (`StatesInv`) and `ComposerInv`. A batch that arrives moves the sequence by one and leaves to what was there the words it does not
  speak; a setter speaks last. After batches have overtaken one another (section 3.3) nothing is claimed.

### 4.6 Transactions, page flips and refreshes

Theorems about `SurfaceFlingerSpec`, for any number of layers, clients, frames, messages and calls. `LifeInv`,
on which the others rest, is types and which layers exist: what is drawn and not current waits for its removal, and what is current and not drawn has
a flag set for it (`ListsFit`; a layer listed again is in two lists, or abandoned and drawn), a
layer that does not exist has no past, one that is being created does not exist yet (so that `createLayer` resets nothing),
and what is latched is drawn.

* **FramesStayTracked**: `[]FramesAreTracked`. `FramesInv` counts with the steps in between: the tracker is ahead of the
  counter by the frame that is pushed and not yet counted; the BufferQueue has no more frames than are counted, or coming,
  less the one the main thread has taken and not yet uncounted; and a layer that is being latched has one to uncount.
  The frame that `queueBuffer` replaces stays in the tracker, which is why it is `<=` and not `=`.
* **WorkIsOnItsWay**: `[]WorkIsComing`. `WorkInv`: the mask is the set of kinds in the looper (`MaskFits`); flags, repaints
  and frames have a vsync or a message coming (`FlagsCome`, `RepaintsCome`, `FramesCome`); and a page flip that has something to
  latch ends in a refresh (`FlipsEnd`), the part without which a layer with `mRefreshPending` would not be latched again. A layer abandoned in between may keep
  `mRefreshPending`, which is excepted (`FramesCome`): it gets no buffer any more, also when it is drawn again.
  Everybody but the main thread only adds signals (lemma OthersSignal); the main thread takes one only to follow it (MainSignals).
* **PicturesStayConsistent**: `[]PicturesAreConsistent`. `PicturesInv`: the buffer of a layer fits the drawn
  geometry, or the frame that is about to become its buffer does (`BuffersFit`), which holds because both states always
  have the same `active`; a state that differs is bumped (`BumpsAreKnown`) and regions are as drawn unless one of two
  flags says otherwise (`RegionsFit`); and in front of each screenshot in the looper there is the transaction it needs, unless that
  is committed (`CapturesWait`).
* **WaitersGoOnServed**: `WaitersAreServed`, both action properties. `WaitersInv`: a thread that is woken waits for nothing
  that is not committed, and an animation frame that is neither committed nor given up is pending. A wait that timed out clears
  `mTransactionPending` for all (`SurfaceFlinger.cpp:2160`), but wakes nobody, so the others still wait for the commit.

### 4.7 Only model-checked

* All liveness: beyond the prover.
* `ParcelsAreUnderstood`, `SuccessMeansDone`: statements about finite tables, which TLC goes through completely. A proof
  would be the same enumeration.
* The properties of section 3.3 that fail: they are no theorems. Outside the restrictions of sections 4.1 to 4.3, what the runs and the
  tables of section 3.3 show is all that is known.

## 5. Not modelled

"components" of `PROJECT.json` names what is left out of each part. Left out as a whole:

* NV12 rescale, RenderEngine, Daltonizer and Transform: pixel and matrix arithmetic, and calls of OpenGL. No state that
  other parts rely on.
* Statistics and logging: a ring of frame times that no decision depends on. Start-up: a straight line.
* The control of the video hook by SurfaceFlinger (`SurfaceFlinger.cpp:695-796`): no document says what the setters
  promise, they share their state with no lock, and what was read of them is in section 3.3.
* The middleware path of VideoShare (`setUpSlaveNum`, several slaves): after its accept loop it differs only in the sockets that
  `sendData` writes to.
* SensorEventQueue and SensorManager: their peer, the sensor service, is not in the repository. Of ScreenshotClient the capture itself is in
  SurfaceFlinger and CpuConsumer.
* Permissions, dump, the EGL throttle, the transformation of frames and the floating-point part of DispSync.

## 6. Plan

1. SurfaceFlinger over an abstract map from layers to states that changes at frame boundaries, as a refinement.
2. VideoShare: the middleware path and the hook's control, with two queues.
3. The sensor client library's receive buffer and acknowledgements, against an abstract service.
