----------------------------- MODULE BufferQueue -----------------------------
(***************************************************************************)
(* A BufferQueue: its producer threads and its consumer over the shared    *)
(* state (libs/gui/BufferQueue.cpp, createBufferQueue), and what it        *)
(* promises to both.                                                       *)
(***************************************************************************)
EXTENDS BufferQueueConsumer

Init == CoreInit /\ ProducerInit /\ ConsumerInit

Next ==
  \/ \E p \in Producers : ProducerStep(p) /\ UNCHANGED lastAcquired
  \/ ConsumerStep

Spec == Init /\ [][Next]_vars

(* Scheduling: a thread inside a call goes on; a consumer that listens     *)
(* takes what is queued, and gives back enough to hold no more than        *)
(* mMaxAcquiredBufferCount (GLConsumer keeps its current buffer until it   *)
(* has the next one).  When a client makes a call is up to the client.     *)
InCall(p) ==
  \/ Retry(p) \/ dequeueBufferAllocated(p) \/ requestBuffer(p)
  \/ cancelRefused(p) \/ queueBufferCallback(p) \/ buffersReleasedCallback(p)

Fairness ==
  /\ \A p \in Producers : WF_vars(InCall(p) /\ UNCHANGED lastAcquired)
  /\ WF_vars(mConsumerListener /\ acquireBuffer)
  /\ WF_vars(/\ Cardinality(acquired) > mMaxAcquiredBufferCount
             /\ \E h \in acquired : releaseBuffer(h))

FairSpec == Spec /\ Fairness
-----------------------------------------------------------------------------
TypeOK == CoreTypeOK /\ ProducerTypeOK /\ ConsumerTypeOK

Tracked(i) == stillTracking(mSlots, mQueue[i])

(* A queue item whose buffer is still in its slot owns that slot: it is    *)
(* QUEUED with the item's frame number.  acquireBuffer and the two places  *)
(* that drop an item set the state of a slot on the word of stillTracking  *)
(* alone, so without this they would take a slot from its owner.           *)
TrackedItemsAreQueued ==
  \A i \in 1 .. Len(mQueue) : Tracked(i) =>
    /\ mSlots[mQueue[i].mSlot].mBufferState = "QUEUED"
    /\ mSlots[mQueue[i].mSlot].mFrameNumber = mQueue[i].mFrameNumber

(* No slot is leaked: a QUEUED slot has an item that will free it, an      *)
(* ACQUIRED slot a handle whose release will be accepted, a DEQUEUED slot  *)
(* a client that knows it has it.                                          *)
QueuedSlotsHaveItems ==
  \A s \in SlotsIn(mSlots, {"QUEUED"}) :
    \E i \in 1 .. Len(mQueue) : mQueue[i].mSlot = s /\ Tracked(i)

AcquiredSlotsHaveHandles ==
  \A s \in SlotsIn(mSlots, {"ACQUIRED"}) :
    \E h \in acquired : /\ h.slot = s
                        /\ h.frame = mSlots[s].mFrameNumber
                        /\ h.buffer = mSlots[s].mGraphicBuffer

InFlight(p, s) ==
  call[p].op \in {"allocating", "returned", "refused"} /\ call[p].slot = s

DequeuedSlotsHaveOwners ==
  \A s \in SlotsIn(mSlots, {"DEQUEUED"}) :
    s \in held \/ \E p \in Producers : InFlight(p, s)

(* The buffer the client draws into is the one the queue will hand to the  *)
(* consumer: Surface's mirror of a slot it holds agrees with mSlots.       *)
MirrorAgrees ==
  ~mIsAbandoned => \A s \in held : mirror[s] = mSlots[s].mGraphicBuffer

(* A buffer is never in the producer's hands and in the consumer's at once *)
ExclusiveBuffers ==
  \A s \in held, h \in acquired : mirror[s] # h.buffer

(* No slot is lost: one that is queued has its item, one that is acquired a*)
(* consumer that can release it, one that is dequeued an owner             *)
(* (BufferQueueCore.cpp:184-214, BufferQueueConsumer.cpp:63-212).          *)
SlotsHaveHolders ==
  QueuedSlotsHaveItems /\ AcquiredSlotsHaveHandles /\ DequeuedSlotsHaveOwners

(* queueBuffer never meets a NULL mGraphicBuffer: it reads the width and   *)
(* height of a slot's buffer on the word of mRequestBufferCalled.          *)
RequestedSlotsHaveBuffers ==
  \A s \in SlotsIn(mSlots, {"DEQUEUED"}) :
    mSlots[s].mRequestBufferCalled => mSlots[s].mGraphicBuffer # NoBuffer

(* Producer, queue and consumer agree on the buffers: the client's mirror  *)
(* has the buffer of each slot it dequeued, a slot it has asked for has    *)
(* one, and no buffer is in two hands (Surface.cpp:180-300,                *)
(* BufferQueueProducer.cpp:64-100).                                        *)
BuffersAreKnown == MirrorAgrees /\ ExclusiveBuffers /\ RequestedSlotsHaveBuffers

(* The life cycle BufferSlot.h:54-91 gives a slot, with the two attaches:  *)
(* in particular a buffer the producer has dequeued is never taken from it *)
(* by the consumer, nor the other way round.                               *)
SlotTransitions ==
       {<<"FREE", "DEQUEUED">>, <<"FREE", "ACQUIRED">>}
  \cup {<<"DEQUEUED", "QUEUED">>, <<"QUEUED", "ACQUIRED">>}
  \cup BufferState \X {"FREE"}

SlotLifeCycle ==
  [][\A s \in Slots :
       \/ mSlots'[s].mBufferState = mSlots[s].mBufferState
       \/ <<mSlots[s].mBufferState, mSlots'[s].mBufferState>>
            \in SlotTransitions]_vars

(* Frames reach the consumer, and its listener, in the order queued.       *)
DeliveredInOrder == [][lastAcquired' >= lastAcquired]_vars
NotifiedInOrder == [][notified' >= notified]_vars

(* The queue implements the FIFO of FrameStream: frames are appended, or   *)
(* replace the newest one when the producer may not block; they leave from *)
(* the front, dropped ones included, and none is delivered twice.          *)
Stream ==
  INSTANCE FrameStream WITH
    MayReplace <- AsyncModes # {FALSE} \/ ControlledByApp # {FALSE},
    MayDrop    <- ExpectedPresents # {0},
    pending    <- [i \in 1 .. Len(mQueue) |-> mQueue[i].mFrameNumber],
    produced   <- mFrameCounter,
    delivered  <- lastAcquired

StreamSpec == Stream!StreamSpec

(* No lost wakeup: a connected producer asleep in mDequeueCondition would  *)
(* go back to sleep if it looked again.                                    *)
SleepersMustSleep ==
  \A p \in Producers :
    call[p].op = "waiting" /\ mConnectedApi # NO_CONNECTED_API =>
      LET max == getMaxBufferCountLocked(call[p].req.async)
      IN  /\ ~mIsAbandoned
          /\ MustTryAgain(max) /\ ~WouldBlock(max)

(* No producer waits for itself: while a connected one sleeps, a buffer    *)
(* can come from the consumer, which has a frame to take or holds more     *)
(* than mMaxAcquiredBufferCount buffers and will give one back.            *)
SleepersAwaitConsumer ==
  \A p \in Producers :
    call[p].op = "waiting" /\ mConnectedApi # NO_CONNECTED_API =>
      \/ mQueue # << >>
      \/ Cardinality(SlotsIn(mSlots, {"ACQUIRED"})) > mMaxAcquiredBufferCount

(* No call waits in vain: neither for a wakeup that was lost, nor for the  *)
(* caller itself (BufferQueueProducer.cpp:151-270).                        *)
NobodyWaitsInVain == SleepersMustSleep /\ SleepersAwaitConsumer

(* mIsAllocating keeps the producer's other threads off the FREE slots     *)
(* (BufferQueueCore.h:241-242) until allocateBuffers has filled its own.   *)
FreeSlotsReserved ==
  [][\A s \in SlotsIn(mSlots, {"FREE"}) :
       mIsAllocating /\ mIsAllocating' /\ ~mIsAbandoned'
         => mSlots'[s].mBufferState # "DEQUEUED"]_vars

(* A connected producer that waits for a slot is served or refused in the  *)
(* end.                                                                    *)
WaitersReturn ==
  \A p \in Producers :
    call[p].op = "waiting" /\ mConnectedApi # NO_CONNECTED_API
      ~> call[p].op \notin {"waiting", "woken"}

(* Every queued frame is followed by its listener callback.                *)
CallbacksRun ==
  \A p \in Producers : call[p].op = "callback" ~> call[p].op # "callback"

(* Every call that had to wait, for a slot or for its turn to call the     *)
(* listener, goes on (BufferQueueProducer.cpp:262, 793-806).               *)
CallsGoOn == WaitersReturn /\ CallbacksRun
=============================================================================
