------------------------- MODULE BufferQueueProducer -------------------------
(***************************************************************************)
(* The producer side of a BufferQueue (libs/gui/BufferQueueProducer.cpp),  *)
(* and the part of its client, Surface (libs/gui/Surface.cpp), that keeps  *)
(* the slot -> buffer mirror.                                              *)
(*                                                                         *)
(* Each member of Producers is a thread executing calls of the interface.  *)
(* call[p] is the call p is inside of, between two critical sections:      *)
(*   idle             none                                                 *)
(*   waiting, woken   waitForFreeSlotThenRelock, in mDequeueCondition.wait,*)
(*                    before and after a broadcast                         *)
(*   allocating       dequeueBuffer, in createGraphicBuffer, unlocked      *)
(*   returned         dequeueBuffer has returned, Surface has not yet      *)
(*                    looked at the flags                                  *)
(*   refused          Surface's requestBuffer failed, it will cancel       *)
(*   callback         queueBuffer, after unlock, before its callback       *)
(*   buffersReleased  setBufferCount or disconnect, before its callback    *)
(*   allocateBuffers  allocateBuffers, about to take the lock again        *)
(*   preallocating    allocateBuffers, allocating, unlocked                *)
(* waitWhileAllocatingLocked is at the start of a call, so a thread that   *)
(* waits there is one whose action is not enabled yet.                     *)
(***************************************************************************)
EXTENDS BufferQueueCore

CONSTANTS
  Producers,
  AsyncModes,            \* values the async argument can take
  Timestamps,            \* values of QueueBufferInput's timestamp
  AutoTimestamps,        \* values of its isAutoTimestamp
  BufferCounts,          \* arguments of setBufferCount
  ControlledByApp,       \* values of the two controlledByApp arguments
  ProducerAttaches,      \* may the client attach and detach buffers, as
                         \* StreamSplitter does and Surface does not?
  Preallocates,          \* may the client call allocateBuffers?
  AllocationFails,       \* may createGraphicBuffer return NULL?
  ConcurrentDisconnect,  \* may disconnect (binderDied) overtake an
                         \* allocating dequeueBuffer?
  ReattachQueued,        \* may a buffer still in mQueue be attached?
  MaxFrames              \* bound: frames queued in a behaviour

ASSUME ProducerAssumption ==
  /\ AsyncModes \subseteq BOOLEAN
  /\ Timestamps \subseteq Int
  /\ AutoTimestamps \subseteq BOOLEAN
  /\ BufferCounts \subseteq Nat
  /\ ControlledByApp \subseteq BOOLEAN
  /\ MaxFrames \in Nat

VARIABLES
  call,
  mNextCallbackTicket, mCurrentCallbackTicket,
  held,      \* slots Surface's user has dequeued and not yet given back
  mirror,    \* Surface.mSlots[].buffer
  notified   \* history: the frame of the last listener callback

producerVars == <<call, mNextCallbackTicket, mCurrentCallbackTicket,
                  held, mirror, notified>>

Idle == [op |-> "idle"]

(* The arguments a waiting dequeueBuffer or attachBuffer keeps; released   *)
(* is the RELEASE_ALL_BUFFERS bit of its return flags so far.              *)
Request ==
  [kind: {"dequeue", "attach"}, async: BOOLEAN, size: Sizes,
   buffer: Buffers \cup {NoBuffer}, released: BOOLEAN]

Call ==
       {Idle, [op |-> "buffersReleased"]}
  \cup [op: {"waiting", "woken"}, req: Request]
  \cup [op: {"allocating"}, slot: Slots, size: Sizes, released: BOOLEAN]
  \cup [op: {"returned"}, slot: Slots, realloc: BOOLEAN, released: BOOLEAN]
  \cup [op: {"refused"}, slot: Slots]
  \cup [op: {"callback"}, ticket: Nat, frame: Nat,
        event: {"available", "replaced", "none"}]
  \cup [op: {"allocateBuffers"}, async: BOOLEAN]
  \cup [op: {"preallocating"}, async: BOOLEAN, slots: SUBSET Slots, size: Sizes]

ProducerTypeOK ==
  /\ call \in [Producers -> Call]
  /\ mNextCallbackTicket \in Nat
  /\ mCurrentCallbackTicket \in Nat
  /\ held \in SUBSET Slots
  /\ mirror \in [Slots -> Buffers \cup {NoBuffer}]
  /\ notified \in Nat

ProducerInit ==
  /\ call = [p \in Producers |-> Idle]
  /\ mNextCallbackTicket = 0
  /\ mCurrentCallbackTicket = 0
  /\ held = {}
  /\ mirror = [s \in Slots |-> NoBuffer]
  /\ notified = 0

NoMirror == [s \in Slots |-> NoBuffer]
ticketVars == <<mNextCallbackTicket, mCurrentCallbackTicket, notified>>

(* mDequeueCondition.broadcast(): every thread asleep in it will look again *)
Broadcast(c) ==
  [p \in Producers |->
     IF c[p].op = "waiting" THEN [op |-> "woken", req |-> c[p].req] ELSE c[p]]

Return(p) == call' = [call EXCEPT ![p] = Idle]
BroadcastAndReturn(p) == call' = [Broadcast(call) EXCEPT ![p] = Idle]

InQueue == {mQueue[i].mGraphicBuffer : i \in 1 .. Len(mQueue)}
InSlots == {mSlots[s].mGraphicBuffer : s \in Slots}

Attaching(b) ==
  \E p \in Producers : call[p].op \in {"waiting", "woken"} /\ call[p].req.buffer = b

(* createGraphicBuffer: a buffer nobody refers to any more *)
Fresh(size) ==
  {b \in Buffers : /\ SizeOf[b] = size
                   /\ b \notin InSlots \cup InQueue
                   /\ ~Attaching(b)
                   /\ \A s \in Slots : mirror[s] # b
                   /\ \A h \in acquired : h.buffer # b}
-----------------------------------------------------------------------------
(* One turn of the loop of waitForFreeSlotThenRelock, on the slots left    *)
(* after those beyond the maximum have been freed.                         *)
BeyondMax(max) ==
  {s \in Slots : s >= max /\ mSlots[s].mGraphicBuffer # NoBuffer}

TrimmedSlots(max) ==
  [s \in Slots |-> IF s \in BeyondMax(max) THEN FreedSlot(mSlots[s])
                                           ELSE mSlots[s]]

Below(max, state) == {s \in SlotsIn(TrimmedSlots(max), {state}) : s < max}

OverrideTooSmall(async, max) ==
  /\ async /\ mOverrideMaxBufferCount # 0
  /\ mOverrideMaxBufferCount < max

TooManyDequeued(async, max) ==
  LET dequeued == Cardinality(Below(max, "DEQUEUED"))
  IN  \/ mOverrideMaxBufferCount = 0 /\ dequeued # 0
      \/ /\ mBufferHasBeenQueued
         /\ max - (dequeued + 1) < getMinUndequeuedBufferCountLocked(async)

MustTryAgain(max) == Below(max, "FREE") = {} \/ Len(mQueue) > max

WouldBlock(max) ==
  /\ mDequeueBufferCannotBlock
  /\ Cardinality(Below(max, "ACQUIRED")) <= mMaxAcquiredBufferCount

(* What dequeueBuffer and attachBuffer do with the slot that was found *)
NeedsReallocation(slot, size) ==
  \/ slot.mGraphicBuffer = NoBuffer
  \/ SizeOf[slot.mGraphicBuffer] # size

(* Mutant: mRequestBufferCalled of a slot that loses its buffer is kept.   *)
DequeueFoundKeepingRequest(p, req, slots, s, released) ==
  LET alloc == NeedsReallocation(slots[s], req.size)
  IN  /\ mSlots' = [slots EXCEPT ![s] =
                      [@ EXCEPT !.mBufferState = "DEQUEUED",
                                !.mGraphicBuffer = IF alloc THEN NoBuffer ELSE @]]
      /\ call' = [call EXCEPT ![p] =
                    IF alloc
                    THEN [op |-> "allocating", slot |-> s, size |-> req.size,
                          released |-> released]
                    ELSE [op |-> "returned", slot |-> s, released |-> released,
                          realloc |-> slots[s].mAttachedByConsumer]]

DequeueFound(p, req, slots, s, released) ==
  IF NeedsReallocation(slots[s], req.size)
  THEN /\ mSlots' = [slots EXCEPT ![s] = [@ EXCEPT !.mBufferState = "DEQUEUED",
                                                   !.mAcquireCalled = FALSE,
                                                   !.mGraphicBuffer = NoBuffer,
                                                   !.mRequestBufferCalled = FALSE]]
       /\ call' = [call EXCEPT ![p] =
                     [op |-> "allocating", slot |-> s, size |-> req.size,
                      released |-> released]]
  ELSE /\ mSlots' = [slots EXCEPT ![s].mBufferState = "DEQUEUED"]
       /\ call' = [call EXCEPT ![p] =
                     [op |-> "returned", slot |-> s, released |-> released,
                      realloc |-> slots[s].mAttachedByConsumer]]

AttachFound(p, req, slots, s, released) ==
  /\ mSlots' = [slots EXCEPT ![s] = [@ EXCEPT !.mGraphicBuffer = req.buffer,
                                              !.mBufferState = "DEQUEUED",
                                              !.mRequestBufferCalled = TRUE]]
  /\ held' = held \cup {s}
  /\ mirror' = [(IF released THEN NoMirror ELSE mirror)
                  EXCEPT ![s] = req.buffer]
  /\ Return(p)

waitForFreeSlotThenRelock(p, req) ==
  LET max      == getMaxBufferCountLocked(req.async)
      slots    == TrimmedSlots(max)
      released == req.released \/ BeyondMax(max) # {}
  IN  /\ \/ /\ mIsAbandoned \/ OverrideTooSmall(req.async, max)
            /\ Return(p)
            /\ UNCHANGED <<mSlots, held, mirror>>
         \/ /\ ~mIsAbandoned /\ ~OverrideTooSmall(req.async, max)
            /\ \/ /\ \/ TooManyDequeued(req.async, max)
                     \/ MustTryAgain(max) /\ WouldBlock(max)
                  /\ mSlots' = slots
                  /\ Return(p)
                  /\ UNCHANGED <<held, mirror>>
               \/ /\ ~TooManyDequeued(req.async, max)
                  /\ MustTryAgain(max) /\ ~WouldBlock(max)
                  /\ mSlots' = slots
                  /\ call' = [call EXCEPT ![p] =
                       [op |-> "waiting",
                        req |-> [req EXCEPT !.released = released]]]
                  /\ UNCHANGED <<held, mirror>>
               \/ /\ ~TooManyDequeued(req.async, max) /\ ~MustTryAgain(max)
                  /\ \E s \in Slots :
                       /\ IsOldest(slots, s, Below(max, "FREE"))
                       /\ \/ /\ req.kind = "dequeue"
                             /\ DequeueFound(p, req, slots, s, released)
                             /\ UNCHANGED <<held, mirror>>
                          \/ /\ req.kind = "attach"
                             /\ AttachFound(p, req, slots, s, released)
      /\ UNCHANGED <<mQueue, acquired, connectionVars, limitVars, mBufferHasBeenQueued,
                     mFrameCounter, mIsAllocating, ticketVars>>

Retry(p) ==
  /\ call[p].op = "woken"
  /\ waitForFreeSlotThenRelock(p, call[p].req)

(* dequeueBuffer up to the point where it unlocks *)
dequeueBuffer(p) ==
  /\ call[p] = Idle
  /\ ~mIsAllocating
  /\ \E async \in AsyncModes, size \in Sizes :
       waitForFreeSlotThenRelock(p,
         [kind |-> "dequeue", async |-> async, size |-> size,
          buffer |-> NoBuffer, released |-> FALSE])

(* ... and, when it has to allocate, from createGraphicBuffer on: the slot *)
(* is written without another look at its state.                           *)
dequeueBufferAllocated(p) ==
  /\ call[p].op = "allocating"
  /\ IF mIsAbandoned
     THEN Return(p) /\ UNCHANGED mSlots
     ELSE \E b \in Fresh(call[p].size) :
            /\ mSlots' = [mSlots EXCEPT ![call[p].slot] =
                            [@ EXCEPT !.mFrameNumber = UINT32_MAX,
                                      !.mGraphicBuffer = b]]
            /\ call' = [call EXCEPT ![p] =
                          [op |-> "returned", slot |-> call[p].slot,
                           released |-> call[p].released, realloc |-> TRUE]]
  /\ UNCHANGED <<mQueue, acquired, connectionVars, limitVars, mBufferHasBeenQueued,
                 mFrameCounter, mIsAllocating, held, mirror, ticketVars>>

dequeueBufferAllocationFailed(p) ==
  /\ AllocationFails
  /\ call[p].op = "allocating"
  /\ Return(p)
  /\ UNCHANGED <<coreVars, held, mirror, ticketVars>>

(* Mutant: the slot stays DEQUEUED. *)
StillDequeued(s) == [mSlots EXCEPT ![s].mFrameNumber = 0]

CancelledSlot(s) ==
  [mSlots EXCEPT ![s] = [@ EXCEPT !.mBufferState = "FREE", !.mFrameNumber = 0]]

(* Surface asks for the buffer when told to or when it has none.           *)
(* Mutant: it does so for only one of the two reasons. *)
AsksWhenTold(answer, mine) == answer.realloc

AsksForBuffer(answer, mine) == answer.realloc \/ mine[answer.slot] = NoBuffer

(* Surface::dequeueBuffer with the answer: it drops its mirror when told   *)
(* to, and requests the buffer.                                            *)
requestBuffer(p) ==
  /\ call[p].op = "returned"
  /\ LET s     == call[p].slot
         mine  == IF call[p].released THEN NoMirror ELSE mirror
         ask   == AsksForBuffer(call[p], mine)
         owned == ~mIsAbandoned /\ mSlots[s].mBufferState = "DEQUEUED"
     IN  \/ /\ ask /\ owned
            /\ mSlots' = [mSlots EXCEPT ![s].mRequestBufferCalled = TRUE]
            /\ mirror' = [mine EXCEPT ![s] = mSlots[s].mGraphicBuffer]
            /\ held' = held \cup {s}
            /\ Return(p)
         \/ /\ ask /\ ~owned
            /\ mirror' = mine
            /\ call' = [call EXCEPT ![p] = [op |-> "refused", slot |-> s]]
            /\ UNCHANGED <<mSlots, held>>
         \/ /\ ~ask
            /\ mirror' = mine
            /\ held' = held \cup {s}
            /\ Return(p)
            /\ UNCHANGED mSlots
  /\ UNCHANGED <<mQueue, acquired, connectionVars, limitVars,
                 mBufferHasBeenQueued, mFrameCounter, mIsAllocating, ticketVars>>

(* ... and its cancelBuffer when requestBuffer has failed *)
cancelRefused(p) ==
  /\ call[p].op = "refused"
  /\ LET s == call[p].slot
     IN  IF ~mIsAbandoned /\ mSlots[s].mBufferState = "DEQUEUED"
         THEN /\ mSlots' = CancelledSlot(s)
              /\ BroadcastAndReturn(p)
         ELSE Return(p) /\ UNCHANGED mSlots
  /\ UNCHANGED <<mQueue, acquired, connectionVars, limitVars,
                 mBufferHasBeenQueued, mFrameCounter, mIsAllocating,
                 held, mirror, ticketVars>>
-----------------------------------------------------------------------------
CanGiveBack(p, s) ==
  /\ call[p] = Idle
  /\ s \in held
  /\ ~mIsAbandoned
  /\ mSlots[s].mBufferState = "DEQUEUED"

(* A queued item replaces a droppable front item, whatever else is queued. *)
ReplacesFront == mQueue # << >> /\ mQueue[1].mIsDroppable

(* mQueue and the slots after `item` is queued.                            *)
Enqueue(slots, item) ==
  IF ReplacesFront
  THEN /\ mQueue' = [mQueue EXCEPT ![1] = item]
       /\ mSlots' = IF stillTracking(slots, mQueue[1])
                    THEN [slots EXCEPT ![mQueue[1].mSlot] =
                            [@ EXCEPT !.mBufferState = "FREE",
                                      !.mFrameNumber = 0]]
                    ELSE slots
  ELSE /\ mQueue' = Append(mQueue, item)
       /\ mSlots' = slots

(* Mutant: the frame number is read before mFrameCounter is incremented.   *)
ItemOfPreviousFrame(s, async, time, auto) ==
  [mSlot |-> s, mGraphicBuffer |-> mSlots[s].mGraphicBuffer,
   mFrameNumber |-> mFrameCounter, mTimestamp |-> time,
   mIsAutoTimestamp |-> auto,
   mIsDroppable |-> mDequeueBufferCannotBlock \/ async,
   mAcquireCalled |-> mSlots[s].mAcquireCalled]

QueuedItem(s, async, time, auto) ==
  [mSlot |-> s, mGraphicBuffer |-> mSlots[s].mGraphicBuffer,
   mFrameNumber |-> mFrameCounter + 1, mTimestamp |-> time,
   mIsAutoTimestamp |-> auto,
   mIsDroppable |-> mDequeueBufferCannotBlock \/ async,
   mAcquireCalled |-> mSlots[s].mAcquireCalled]

CallbackEvent ==
  IF ~mConsumerListener THEN "none"
  ELSE IF ReplacesFront THEN "replaced" ELSE "available"

queueBuffer(p) ==
  \E s \in Slots, async \in AsyncModes, time \in Timestamps,
     auto \in AutoTimestamps :
    /\ CanGiveBack(p, s)
    /\ mFrameCounter < MaxFrames
    /\ ~OverrideTooSmall(async, getMaxBufferCountLocked(async))
    /\ s < getMaxBufferCountLocked(async)
    /\ mSlots[s].mRequestBufferCalled
    /\ mFrameCounter' = mFrameCounter + 1
    /\ Enqueue([mSlots EXCEPT ![s] = [@ EXCEPT !.mBufferState = "QUEUED",
                                               !.mFrameNumber = mFrameCounter + 1]],
               QueuedItem(s, async, time, auto))
    /\ mBufferHasBeenQueued' = TRUE
    /\ mNextCallbackTicket' = mNextCallbackTicket + 1
    /\ call' = [Broadcast(call) EXCEPT ![p] =
                  [op |-> "callback", ticket |-> mNextCallbackTicket,
                   frame |-> mFrameCounter + 1, event |-> CallbackEvent]]
    /\ held' = held \ {s}
    /\ UNCHANGED <<acquired, connectionVars, limitVars, mIsAllocating,
                   mCurrentCallbackTicket, mirror, notified>>

(* The end of queueBuffer: callbacks run in the order tickets were taken.  *)
(* Mutants: without waiting for the ticket's turn; without the next turn.  *)
CallbackOutOfTurn(p) ==
  /\ call[p].op = "callback"
  /\ mCurrentCallbackTicket' = mCurrentCallbackTicket + 1
  /\ notified' = IF call[p].event = "none" THEN notified ELSE call[p].frame
  /\ Return(p)
  /\ UNCHANGED <<coreVars, mNextCallbackTicket, held, mirror>>

CallbackKeepsTurn(p) ==
  /\ call[p].op = "callback"
  /\ call[p].ticket = mCurrentCallbackTicket
  /\ notified' = IF call[p].event = "none" THEN notified ELSE call[p].frame
  /\ Return(p)
  /\ UNCHANGED <<coreVars, mNextCallbackTicket, mCurrentCallbackTicket, held,
                 mirror>>

queueBufferCallback(p) ==
  /\ call[p].op = "callback"
  /\ call[p].ticket = mCurrentCallbackTicket
  /\ mCurrentCallbackTicket' = mCurrentCallbackTicket + 1
  /\ notified' = IF call[p].event = "none" THEN notified ELSE call[p].frame
  /\ Return(p)
  /\ UNCHANGED <<coreVars, mNextCallbackTicket, held, mirror>>

cancelBuffer(p) ==
  \E s \in Slots :
    /\ CanGiveBack(p, s)
    /\ mSlots' = CancelledSlot(s)
    /\ held' = held \ {s}
    /\ BroadcastAndReturn(p)
    /\ UNCHANGED <<mQueue, acquired, connectionVars, limitVars, mBufferHasBeenQueued,
                   mFrameCounter, mIsAllocating, mirror, ticketVars>>

(* A client that detaches a buffer forgets it. *)
detachBuffer(p) ==
  \E s \in Slots :
    /\ ProducerAttaches
    /\ CanGiveBack(p, s)
    /\ mSlots[s].mRequestBufferCalled
    /\ mSlots' = freeBufferLocked(mSlots, s)
    /\ held' = held \ {s}
    /\ mirror' = [mirror EXCEPT ![s] = NoBuffer]
    /\ BroadcastAndReturn(p)
    /\ UNCHANGED <<mQueue, acquired, connectionVars, limitVars, mBufferHasBeenQueued,
                   mFrameCounter, mIsAllocating, ticketVars>>

detachNextBuffer(p) ==
  \E s \in Slots :
    /\ ProducerAttaches
    /\ call[p] = Idle
    /\ ~mIsAllocating
    /\ ~mIsAbandoned
    /\ IsOldest(mSlots, s, {t \in SlotsIn(mSlots, {"FREE"}) :
                              mSlots[t].mGraphicBuffer # NoBuffer})
    /\ mSlots' = freeBufferLocked(mSlots, s)
    /\ mirror' = [mirror EXCEPT ![s] = NoBuffer]
    /\ UNCHANGED <<mQueue, acquired, connectionVars, limitVars, mBufferHasBeenQueued,
                   mFrameCounter, mIsAllocating, call, held, ticketVars>>

(* The client attaches a buffer no slot holds. *)
attachBuffer(p) ==
  /\ ProducerAttaches
  /\ call[p] = Idle
  /\ ~mIsAllocating
  /\ \E b \in Buffers \ InSlots :
       /\ ReattachQueued \/ b \notin InQueue
       /\ ~Attaching(b)
       /\ \A h \in acquired : h.buffer # b
       /\ waitForFreeSlotThenRelock(p,
            [kind |-> "attach", async |-> FALSE, size |-> SizeOf[b],
             buffer |-> b, released |-> FALSE])
-----------------------------------------------------------------------------
NoBufferDequeued == SlotsIn(mSlots, {"DEQUEUED"}) = {}

setBufferCount(p) ==
  \E bufferCount \in BufferCounts :
    /\ call[p] = Idle
    /\ ~mIsAllocating
    /\ ~mIsAbandoned
    /\ bufferCount <= NUM_BUFFER_SLOTS
    /\ NoBufferDequeued
    /\ \/ /\ bufferCount = 0
          /\ BroadcastAndReturn(p)
          /\ UNCHANGED <<mSlots, mBufferHasBeenQueued>>
       \/ /\ bufferCount # 0
          /\ bufferCount >= getMinMaxBufferCountLocked(FALSE)
          /\ freeAllBuffersLocked
          /\ call' = [Broadcast(call) EXCEPT ![p] =
                        IF mConsumerListener THEN [op |-> "buffersReleased"]
                                             ELSE Idle]
    /\ mOverrideMaxBufferCount' = bufferCount
    /\ mirror' = NoMirror
    /\ UNCHANGED <<mQueue, acquired, connectionVars, mDefaultMaxBufferCount,
                   mMaxAcquiredBufferCount, mUseAsyncBuffer, mDefaultSize,
                   mFrameCounter, mIsAllocating, held, ticketVars>>

(* connect; an api outside Apis is refused after the two flags are reset   *)
connect(p) ==
  \E api \in Apis \cup {NO_CONNECTED_API}, byApp \in ControlledByApp :
    /\ call[p] = Idle
    /\ ~mIsAbandoned /\ mConsumerListener
    /\ mConnectedApi = NO_CONNECTED_API
    /\ mConnectedApi' = api
    /\ mBufferHasBeenQueued' = FALSE
    /\ mDequeueBufferCannotBlock' = (mConsumerControlledByApp /\ byApp)
    /\ UNCHANGED <<mSlots, mQueue, acquired, mIsAbandoned, mConsumerListener,
                   mConsumerControlledByApp, limitVars, mFrameCounter,
                   mIsAllocating, producerVars>>

(* disconnect, called by the client or by binderDied                       *)
disconnect(p) ==
  /\ call[p] = Idle
  /\ ~mIsAllocating
  /\ ~mIsAbandoned
  /\ mConnectedApi # NO_CONNECTED_API
  /\ ConcurrentDisconnect \/
       \A q \in Producers : call[q].op \notin {"allocating", "returned"}
  /\ freeAllBuffersLocked
  /\ mConnectedApi' = NO_CONNECTED_API
  /\ held' = {}
  /\ mirror' = NoMirror
  /\ call' = [Broadcast(call) EXCEPT ![p] =
                IF mConsumerListener THEN [op |-> "buffersReleased"] ELSE Idle]
  /\ UNCHANGED <<mQueue, acquired, mIsAbandoned, mConsumerListener,
                 mConsumerControlledByApp, mDequeueBufferCannotBlock,
                 limitVars, mFrameCounter, mIsAllocating, ticketVars>>

(* The listener's onBuffersReleased, outside the lock.  It changes nothing *)
(* here; module ConsumerBase gives it its effect.                          *)
buffersReleasedCallback(p) ==
  /\ call[p].op = "buffersReleased"
  /\ Return(p)
  /\ UNCHANGED <<coreVars, held, mirror, ticketVars>>
-----------------------------------------------------------------------------
(* allocateBuffers.  The first critical section of each turn of its loop   *)
(* picks the lowest slots without a buffer; the second one fills those     *)
(* that are still FREE.                                                    *)
BareSlots == {s \in Slots : mSlots[s].mGraphicBuffer = NoBuffer}
FreeBareSlots == BareSlots \cap SlotsIn(mSlots, {"FREE"})
Missing(async) ==
  getMaxBufferCountLocked(async) - Cardinality(Slots \ BareSlots)
Lowest(n, S) == {s \in S : Cardinality({t \in S : t < s}) < n}

AllocateBuffersTurn(p, async) ==
  /\ ~mIsAllocating
  /\ IF Missing(async) <= 0 \/ Cardinality(FreeBareSlots) < Missing(async)
     THEN Return(p) /\ UNCHANGED mIsAllocating
     ELSE /\ mIsAllocating' = TRUE
          /\ call' = [call EXCEPT ![p] =
                        [op |-> "preallocating", async |-> async,
                         slots |-> Lowest(Missing(async), FreeBareSlots),
                         size |-> mDefaultSize]]
  /\ UNCHANGED <<mSlots, mQueue, acquired, connectionVars, limitVars,
                 mBufferHasBeenQueued, mFrameCounter, held, mirror, ticketVars>>

allocateBuffers(p) ==
  \/ /\ Preallocates
     /\ call[p] = Idle
     /\ \E async \in AsyncModes : AllocateBuffersTurn(p, async)
  \/ /\ call[p].op = "allocateBuffers"
     /\ AllocateBuffersTurn(p, call[p].async)

allocateBuffersAllocated(p) ==
  /\ call[p].op = "preallocating"
  /\ mIsAllocating' = FALSE
  /\ call' = [call EXCEPT ![p] =
                [op |-> "allocateBuffers", async |-> call[p].async]]
  /\ IF mDefaultSize # call[p].size
     THEN UNCHANGED mSlots
     ELSE LET fill == call[p].slots \cap SlotsIn(mSlots, {"FREE"})
          IN  \E new \in [fill -> Fresh(call[p].size)] :
                /\ \A s, t \in fill : new[s] = new[t] => s = t
                /\ mSlots' = [s \in Slots |->
                     IF s \in fill
                     THEN [FreedSlot(mSlots[s]) EXCEPT !.mGraphicBuffer = new[s],
                                                       !.mFrameNumber = 0]
                     ELSE mSlots[s]]
  /\ UNCHANGED <<mQueue, acquired, connectionVars, limitVars, mBufferHasBeenQueued,
                 mFrameCounter, held, mirror, ticketVars>>

allocateBuffersFailed(p) ==
  /\ AllocationFails
  /\ call[p].op = "preallocating"
  /\ mIsAllocating' = FALSE
  /\ Return(p)
  /\ UNCHANGED <<mSlots, mQueue, acquired, connectionVars, limitVars,
                 mBufferHasBeenQueued, mFrameCounter, held, mirror, ticketVars>>

(* Everything but the callback, which module ConsumerBase redefines *)
ProducerCall(p) ==
  \/ Retry(p)
  \/ dequeueBuffer(p) \/ dequeueBufferAllocated(p)
  \/ dequeueBufferAllocationFailed(p) \/ requestBuffer(p) \/ cancelRefused(p)
  \/ queueBuffer(p) \/ queueBufferCallback(p)
  \/ cancelBuffer(p) \/ detachBuffer(p) \/ detachNextBuffer(p)
  \/ attachBuffer(p)
  \/ setBufferCount(p) \/ connect(p) \/ disconnect(p)
  \/ allocateBuffers(p) \/ allocateBuffersAllocated(p) \/ allocateBuffersFailed(p)

ProducerStep(p) == ProducerCall(p) \/ buffersReleasedCallback(p)
=============================================================================
