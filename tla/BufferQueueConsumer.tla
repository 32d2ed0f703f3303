------------------------- MODULE BufferQueueConsumer -------------------------
(***************************************************************************)
(* The consumer side of a BufferQueue (libs/gui/BufferQueueConsumer.cpp).  *)
(* One consumer calls it; each call is one critical section of mMutex.     *)
(***************************************************************************)
EXTENDS BufferQueueProducer

CONSTANTS
  ExpectedPresents,    \* values of acquireBuffer's expectedPresent
  MAX_REASONABLE_NSEC, \* one second, in the unit of Timestamps
  DefaultMaxCounts,    \* arguments of setDefaultMaxBufferCount
  MaxAcquiredCounts,   \* arguments of setMaxAcquiredBufferCount
  ConsumerAttaches,    \* may the consumer call attachBuffer/detachBuffer?
  ConsumerLeaves       \* may the consumer disconnect?

ASSUME ConsumerAssumption ==
  /\ ExpectedPresents \subseteq Int
  /\ MAX_REASONABLE_NSEC \in Nat
  /\ DefaultMaxCounts \subseteq Nat
  /\ MaxAcquiredCounts \subseteq Nat

VARIABLE
  lastAcquired         \* history: the frame of the last buffer acquired

ConsumerInit == lastAcquired = 0
ConsumerTypeOK == lastAcquired \in Nat

vars == <<coreVars, producerVars, lastAcquired>>

WakeProducers == call' = Broadcast(call)
clientVars == <<ticketVars, held, mirror>>

TooManyAcquired ==
  Cardinality(SlotsIn(mSlots, {"ACQUIRED"})) >= mMaxAcquiredBufferCount + 1

(* desiredPresent lies within a second before expectedPresent              *)
Timely(item, expected) ==
  /\ item.mTimestamp >= expected - MAX_REASONABLE_NSEC
  /\ item.mTimestamp <= expected

Early(item, expected) ==
  /\ item.mTimestamp > expected
  /\ item.mTimestamp < expected + MAX_REASONABLE_NSEC

(* acquireBuffer drops n items from the front: it goes on while the front  *)
(* has an explicit timestamp and the next item is timely.                  *)
Superseded(i, expected) ==
  /\ expected # 0
  /\ ~mQueue[i].mIsAutoTimestamp
  /\ Timely(mQueue[i + 1], expected)

Drops(n, expected) ==
  /\ \A i \in 1 .. n : Superseded(i, expected)
  /\ n < Len(mQueue) - 1 => ~Superseded(n + 1, expected)

(* Dropped items whose buffer is still in its slot leave that slot FREE.   *)
(* Mutant: their slots are left QUEUED. *)
SlotsWithoutDrop(n) == mSlots

SlotsAfterDrop(n) ==
  [s \in Slots |->
     IF \E i \in 1 .. n : mQueue[i].mSlot = s /\ stillTracking(mSlots, mQueue[i])
     THEN [mSlots[s] EXCEPT !.mBufferState = "FREE"]
     ELSE mSlots[s]]

(* PRESENT_LATER, which leaves the state alone, is the negation of the     *)
(* third conjunct: an item that follows a dropped one is never early.      *)
acquireBuffer ==
  /\ ~TooManyAcquired
  /\ mQueue # << >>
  /\ \E expected \in ExpectedPresents, n \in 0 .. Len(mQueue) - 1 :
       LET front == mQueue[n + 1]
           slots == SlotsAfterDrop(n)
           s     == front.mSlot
       IN  /\ Drops(n, expected)
           /\ expected = 0 \/ ~Early(front, expected)
           /\ mSlots' = IF stillTracking(slots, front)
                        THEN [slots EXCEPT ![s] =
                                [@ EXCEPT !.mAcquireCalled = TRUE,
                                          !.mNeedsCleanupOnRelease = FALSE,
                                          !.mBufferState = "ACQUIRED"]]
                        ELSE slots
           /\ mQueue' = SubSeq(mQueue, n + 2, Len(mQueue))
           /\ acquired' = acquired \cup
                {[slot |-> s, frame |-> front.mFrameNumber,
                  buffer |-> front.mGraphicBuffer]}
           /\ lastAcquired' = front.mFrameNumber
  /\ WakeProducers
  /\ UNCHANGED <<connectionVars, limitVars, mBufferHasBeenQueued, mFrameCounter,
                 mIsAllocating, clientVars>>

detachAcquired(h) ==
  /\ ConsumerAttaches
  /\ ~mIsAbandoned
  /\ mSlots[h.slot].mBufferState = "ACQUIRED"
  /\ mSlots' = freeBufferLocked(mSlots, h.slot)
  /\ acquired' = acquired \ {h}
  /\ WakeProducers
  /\ UNCHANGED <<mQueue, connectionVars, limitVars, mBufferHasBeenQueued,
                 mFrameCounter, mIsAllocating, clientVars, lastAcquired>>

(* The consumer attaches a buffer no slot holds and nobody has queued.     *)
attachAcquired ==
  /\ ConsumerAttaches
  /\ ~TooManyAcquired
  /\ \E s \in Slots, b \in Buffers :
       /\ IsOldest(mSlots, s, SlotsIn(mSlots, {"FREE"}))
       /\ \E size \in Sizes : b \in Fresh(size)
       /\ mSlots' = [mSlots EXCEPT ![s] =
                       [@ EXCEPT !.mGraphicBuffer = b,
                                 !.mBufferState = "ACQUIRED",
                                 !.mAttachedByConsumer = TRUE,
                                 !.mNeedsCleanupOnRelease = FALSE,
                                 !.mFrameNumber = 0,
                                 !.mAcquireCalled = FALSE]]
       /\ acquired' = acquired \cup {[slot |-> s, frame |-> 0, buffer |-> b]}
  /\ UNCHANGED <<mQueue, connectionVars, limitVars, mBufferHasBeenQueued,
                 mFrameCounter, mIsAllocating, producerVars, lastAcquired>>

(* releaseBuffer(slot, frameNumber), as a relation on what it may change.  *)
(* The answers are NO_ERROR, STALE_BUFFER_SLOT and BAD_VALUE.              *)
(* Mutant: the frame number is not compared.                               *)
AnswerForAnyFrame(s, frame) ==
  IF \E i \in 1 .. Len(mQueue) : mQueue[i].mSlot = s THEN "BAD_VALUE"
  ELSE IF mSlots[s].mBufferState = "ACQUIRED" THEN "NO_ERROR"
  ELSE IF mSlots[s].mNeedsCleanupOnRelease THEN "STALE_BUFFER_SLOT"
  ELSE "BAD_VALUE"

ReleaseAnswer(s, frame) ==
  IF mSlots[s].mFrameNumber # frame THEN "STALE_BUFFER_SLOT"
  ELSE IF \E i \in 1 .. Len(mQueue) : mQueue[i].mSlot = s THEN "BAD_VALUE"
  ELSE IF mSlots[s].mBufferState = "ACQUIRED" THEN "NO_ERROR"
  ELSE IF mSlots[s].mNeedsCleanupOnRelease THEN "STALE_BUFFER_SLOT"
  ELSE "BAD_VALUE"

(* Mutant: no broadcast. *)
ReleaseSilently(s, frame) ==
  /\ mSlots' = IF ReleaseAnswer(s, frame) = "NO_ERROR"
               THEN [mSlots EXCEPT ![s].mBufferState = "FREE"]
               ELSE mSlots
  /\ UNCHANGED call

ReleaseSlot(s, frame) ==
  IF ReleaseAnswer(s, frame) = "NO_ERROR"
  THEN /\ mSlots' = [mSlots EXCEPT ![s].mBufferState = "FREE"]
       /\ WakeProducers
  ELSE /\ mSlots' = IF /\ ReleaseAnswer(s, frame) = "STALE_BUFFER_SLOT"
                       /\ mSlots[s].mFrameNumber = frame
                    THEN [mSlots EXCEPT ![s].mNeedsCleanupOnRelease = FALSE]
                    ELSE mSlots
       /\ UNCHANGED call

releaseBuffer(h) ==
  /\ ReleaseSlot(h.slot, h.frame)
  /\ acquired' = acquired \ {h}
  /\ UNCHANGED <<mQueue, connectionVars, limitVars, mBufferHasBeenQueued,
                 mFrameCounter, mIsAllocating, clientVars, lastAcquired>>
-----------------------------------------------------------------------------
consumerConnect ==
  /\ ~mIsAbandoned
  /\ mConsumerListener' = TRUE
  /\ mConsumerControlledByApp' \in ControlledByApp
  /\ UNCHANGED <<mSlots, mQueue, acquired, mIsAbandoned, mConnectedApi,
                 mDequeueBufferCannotBlock, limitVars, mBufferHasBeenQueued,
                 mFrameCounter, mIsAllocating, producerVars, lastAcquired>>

consumerDisconnect ==
  /\ ConsumerLeaves
  /\ mConsumerListener
  /\ mIsAbandoned' = TRUE
  /\ mConsumerListener' = FALSE
  /\ mQueue' = << >>
  /\ freeAllBuffersLocked
  /\ WakeProducers
  /\ UNCHANGED <<acquired, mConsumerControlledByApp, mConnectedApi,
                 mDequeueBufferCannotBlock, limitVars, mFrameCounter,
                 mIsAllocating, clientVars, lastAcquired>>

setDefaultMaxBufferCount ==
  \E count \in DefaultMaxCounts :
    /\ count >= (IF mUseAsyncBuffer THEN 2 ELSE 1)
    /\ count <= NUM_BUFFER_SLOTS
    /\ mDefaultMaxBufferCount' = count
    /\ WakeProducers
    /\ UNCHANGED <<mSlots, mQueue, acquired, connectionVars,
                   mOverrideMaxBufferCount, mMaxAcquiredBufferCount,
                   mUseAsyncBuffer, mDefaultSize, mBufferHasBeenQueued,
                   mFrameCounter, mIsAllocating, clientVars, lastAcquired>>

setMaxAcquiredBufferCount ==
  \E count \in MaxAcquiredCounts :
    /\ count \in 1 .. MAX_MAX_ACQUIRED_BUFFERS
    /\ mConnectedApi = NO_CONNECTED_API
    /\ mMaxAcquiredBufferCount' = count
    /\ UNCHANGED <<mSlots, mQueue, acquired, connectionVars,
                   mOverrideMaxBufferCount, mDefaultMaxBufferCount,
                   mUseAsyncBuffer, mDefaultSize, mBufferHasBeenQueued,
                   mFrameCounter, mIsAllocating, producerVars, lastAcquired>>

disableAsyncBuffer ==
  /\ ~mConsumerListener
  /\ mUseAsyncBuffer' = FALSE
  /\ UNCHANGED <<mSlots, mQueue, acquired, connectionVars,
                 mOverrideMaxBufferCount, mDefaultMaxBufferCount,
                 mMaxAcquiredBufferCount, mDefaultSize, mBufferHasBeenQueued,
                 mFrameCounter, mIsAllocating, producerVars, lastAcquired>>

(* setDefaultBufferSize, setDefaultBufferFormat, setConsumerUsageBits      *)
setDefaultBufferSize ==
  /\ mDefaultSize' \in Sizes
  /\ UNCHANGED <<mSlots, mQueue, acquired, connectionVars,
                 mOverrideMaxBufferCount, mDefaultMaxBufferCount,
                 mMaxAcquiredBufferCount, mUseAsyncBuffer,
                 mBufferHasBeenQueued, mFrameCounter, mIsAllocating,
                 producerVars, lastAcquired>>

ConsumerConfigure ==
  \/ consumerConnect \/ consumerDisconnect
  \/ setDefaultMaxBufferCount \/ setMaxAcquiredBufferCount
  \/ disableAsyncBuffer \/ setDefaultBufferSize

ConsumerStep ==
  \/ acquireBuffer
  \/ \E h \in acquired : releaseBuffer(h) \/ detachAcquired(h)
  \/ attachAcquired
  \/ ConsumerConfigure
=============================================================================
