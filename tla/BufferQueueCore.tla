--------------------------- MODULE BufferQueueCore ---------------------------
(***************************************************************************)
(* The state a BufferQueue's producer and consumer share                   *)
(* (libs/gui/BufferQueueCore.cpp, include/gui/BufferQueueCore.h,           *)
(* BufferSlot.h, BufferItem.h) and the *Locked helpers both sides call     *)
(* while they hold mMutex.  BufferQueueProducer and BufferQueueConsumer    *)
(* add the operations, BufferQueue composes them.                          *)
(*                                                                         *)
(* Every critical section of mMutex is one atomic step.  Pixels, fences,   *)
(* EGL objects, crop and transform are left out.  A buffer is a value of   *)
(* Buffers and stands for its gralloc handle; SizeOf gives the (width,     *)
(* height, format, usage) it was allocated with, as one value.             *)
(***************************************************************************)
EXTENDS Integers, Sequences, FiniteSets

CONSTANTS
  NUM_BUFFER_SLOTS, \* length of mSlots (64 in the code)
  UINT32_MAX,       \* the frame number a freed or fresh slot gets
  Buffers,          \* the buffers the allocator can hand out
  NoBuffer,         \* a NULL sp<GraphicBuffer>
  Sizes,            \* the (width, height, format, usage) a buffer can have
  SizeOf,           \* the size each buffer was allocated with
  Apis,             \* the NATIVE_WINDOW_API_* values connect accepts
  NO_CONNECTED_API

ASSUME CoreAssumption ==
  /\ NUM_BUFFER_SLOTS \in Nat /\ NUM_BUFFER_SLOTS >= 3
  /\ UINT32_MAX \in Nat
  /\ NoBuffer \notin Buffers
  /\ SizeOf \in [Buffers -> Sizes]
  /\ NO_CONNECTED_API \notin Apis

VARIABLES
  mSlots, mQueue,
  acquired,                 \* what the consumer got and has not given back
  mIsAbandoned,
  mConsumerListener,        \* TRUE while it is not NULL
  mConsumerControlledByApp,
  mConnectedApi,
  mOverrideMaxBufferCount, mDefaultMaxBufferCount, mMaxAcquiredBufferCount,
  mUseAsyncBuffer, mDequeueBufferCannotBlock,
  mDefaultSize,             \* mDefaultWidth/Height/Format, mConsumerUsageBits
  mBufferHasBeenQueued,
  mFrameCounter,
  mIsAllocating

connectionVars == <<mIsAbandoned, mConsumerListener, mConsumerControlledByApp,
                    mConnectedApi, mDequeueBufferCannotBlock>>
limitVars == <<mOverrideMaxBufferCount, mDefaultMaxBufferCount,
               mMaxAcquiredBufferCount, mUseAsyncBuffer, mDefaultSize>>
coreVars == <<mSlots, mQueue, acquired, connectionVars, limitVars,
              mBufferHasBeenQueued, mFrameCounter, mIsAllocating>>

Slots == 0 .. NUM_BUFFER_SLOTS - 1
MAX_MAX_ACQUIRED_BUFFERS == NUM_BUFFER_SLOTS - 2

BufferState == {"FREE", "DEQUEUED", "QUEUED", "ACQUIRED"}

BufferSlot ==
  [mBufferState: BufferState, mGraphicBuffer: Buffers \cup {NoBuffer},
   mFrameNumber: Nat, mRequestBufferCalled: BOOLEAN, mAcquireCalled: BOOLEAN,
   mNeedsCleanupOnRelease: BOOLEAN, mAttachedByConsumer: BOOLEAN]

BufferItem ==
  [mSlot: Slots, mGraphicBuffer: Buffers \cup {NoBuffer}, mFrameNumber: Nat,
   mTimestamp: Int, mIsAutoTimestamp: BOOLEAN,
   mIsDroppable: BOOLEAN, mAcquireCalled: BOOLEAN]

(* A buffer in the hands of the consumer, with the slot and the frame      *)
(* number it will name when it releases it                                 *)
Handle == [slot: Slots, frame: Nat, buffer: Buffers \cup {NoBuffer}]

CoreTypeOK ==
  /\ mSlots \in [Slots -> BufferSlot]
  /\ mQueue \in Seq(BufferItem)
  /\ acquired \in SUBSET Handle
  /\ mIsAbandoned \in BOOLEAN
  /\ mConsumerListener \in BOOLEAN
  /\ mConsumerControlledByApp \in BOOLEAN
  /\ mConnectedApi \in Apis \cup {NO_CONNECTED_API}
  /\ mOverrideMaxBufferCount \in 0 .. NUM_BUFFER_SLOTS
  /\ mDefaultMaxBufferCount \in 1 .. NUM_BUFFER_SLOTS
  /\ mMaxAcquiredBufferCount \in 1 .. MAX_MAX_ACQUIRED_BUFFERS
  /\ mUseAsyncBuffer \in BOOLEAN
  /\ mDequeueBufferCannotBlock \in BOOLEAN
  /\ mDefaultSize \in Sizes
  /\ mBufferHasBeenQueued \in BOOLEAN
  /\ mFrameCounter \in Nat
  /\ mIsAllocating \in BOOLEAN

EmptySlot ==
  [mBufferState |-> "FREE", mGraphicBuffer |-> NoBuffer, mFrameNumber |-> 0,
   mRequestBufferCalled |-> FALSE, mAcquireCalled |-> FALSE,
   mNeedsCleanupOnRelease |-> FALSE, mAttachedByConsumer |-> FALSE]

CoreInit ==
  /\ mSlots = [s \in Slots |-> EmptySlot]
  /\ mQueue = << >>
  /\ acquired = {}
  /\ mIsAbandoned = FALSE
  /\ mConsumerListener = FALSE
  /\ mConsumerControlledByApp = FALSE
  /\ mConnectedApi = NO_CONNECTED_API
  /\ mOverrideMaxBufferCount = 0
  /\ mDefaultMaxBufferCount = 2
  /\ mMaxAcquiredBufferCount = 1
  /\ mUseAsyncBuffer = TRUE
  /\ mDequeueBufferCannotBlock = FALSE
  /\ mDefaultSize \in Sizes
  /\ mBufferHasBeenQueued = FALSE
  /\ mFrameCounter = 0
  /\ mIsAllocating = FALSE
-----------------------------------------------------------------------------
SlotsIn(slots, states) == {s \in Slots : slots[s].mBufferState \in states}

getMinUndequeuedBufferCountLocked(async) ==
  IF mUseAsyncBuffer /\ (mDequeueBufferCannotBlock \/ async)
  THEN mMaxAcquiredBufferCount + 1
  ELSE mMaxAcquiredBufferCount

getMinMaxBufferCountLocked(async) ==
  getMinUndequeuedBufferCountLocked(async) + 1

(* The assertion on mOverrideMaxBufferCount (BufferQueueCore.cpp:156) is   *)
(* dropped, as a build with NDEBUG does.                                   *)
BaseMaxBufferCount(async) ==
  IF mOverrideMaxBufferCount # 0 THEN mOverrideMaxBufferCount
  ELSE IF mDefaultMaxBufferCount >= getMinMaxBufferCountLocked(async)
       THEN mDefaultMaxBufferCount
       ELSE getMinMaxBufferCountLocked(async)

(* The base, or more when a dequeued or queued slot lies beyond it.        *)
getMaxBufferCountLocked(async) ==
  LET base == BaseMaxBufferCount(async)
      keep == {s \in SlotsIn(mSlots, {"QUEUED", "DEQUEUED"}) : s >= base}
  IN  IF keep = {} THEN base
      ELSE (CHOOSE s \in keep : \A t \in keep : t <= s) + 1

(* Mutant: the slot keeps its buffer.                                      *)
FreedSlotWithBuffer(slot) ==
  [slot EXCEPT !.mNeedsCleanupOnRelease = @ \/ slot.mBufferState = "ACQUIRED",
               !.mBufferState = "FREE",
               !.mFrameNumber = UINT32_MAX,
               !.mAcquireCalled = FALSE]

FreedSlot(slot) ==
  [slot EXCEPT !.mGraphicBuffer = NoBuffer,
               !.mNeedsCleanupOnRelease = @ \/ slot.mBufferState = "ACQUIRED",
               !.mBufferState = "FREE",
               !.mFrameNumber = UINT32_MAX,
               !.mAcquireCalled = FALSE]

freeBufferLocked(slots, s) == [slots EXCEPT ![s] = FreedSlot(@)]

freeAllBuffersLocked ==
  /\ mBufferHasBeenQueued' = FALSE
  /\ mSlots' = [s \in Slots |-> FreedSlot(mSlots[s])]

(* Mutant: any buffer in the item's slot will do. *)
SlotHasBuffer(slots, item) == slots[item.mSlot].mGraphicBuffer # NoBuffer

stillTracking(slots, item) ==
  slots[item.mSlot].mGraphicBuffer = item.mGraphicBuffer

(* s is the slot the loops that look for "the oldest" end with: the lowest *)
(* frame number, and the lowest index among equals.                        *)
IsOldest(slots, s, candidates) ==
  /\ s \in candidates
  /\ \A t \in candidates :
       \/ slots[s].mFrameNumber < slots[t].mFrameNumber
       \/ slots[s].mFrameNumber = slots[t].mFrameNumber /\ s <= t
=============================================================================
