--------------------------- MODULE ConsumersProofs ---------------------------
(***************************************************************************)
(* Theorems about the consumers of a BufferQueue: ConsumerBase and its     *)
(* cache of buffers, the consumers that keep one image (GLConsumer,        *)
(* FramebufferSurface), and those that hand buffers out (CpuConsumer,      *)
(* BufferItemConsumer), for any number of slots, buffers and threads.      *)
(*                                                                         *)
(* A consumer does not call releaseBuffer for every handle it gives up, so *)
(* its steps are not all steps of BufferQueue's Next. What they keep of    *)
(* the queue is shown first; what the cache promises stands on that.       *)
(***************************************************************************)
EXTENDS MCConsumers, BufferOwnershipProofs

(* The cache has buffer b for slot s, or, where it may, has lost the slot. *)
Caches(s, b, lossy) ==
  \/ cbSlots[s].mGraphicBuffer = b
  \/ lossy /\ cbSlots[s].mGraphicBuffer = NoBuffer

(* Every buffer the queue will send as NULL is in the cache, and so is the *)
(* frame number that an ACQUIRED slot has to be released with.             *)
CacheInv(lossy) ==
  /\ \A s \in Slots : mSlots[s].mAcquireCalled =>
       /\ mSlots[s].mGraphicBuffer # NoBuffer
       /\ Caches(s, mSlots[s].mGraphicBuffer, lossy)
  /\ \A i \in Indices : mQueue[i].mAcquireCalled =>
       Caches(mQueue[i].mSlot, mQueue[i].mGraphicBuffer, lossy)
  /\ \A s \in SlotsIn(mSlots, {"ACQUIRED"}) :
       /\ mSlots[s].mAcquireCalled
       /\ \/ cbSlots[s].mFrameNumber = mSlots[s].mFrameNumber
          \/ lossy /\ cbSlots[s].mGraphicBuffer = NoBuffer

(* The cache has one place for a slot: the items of a slot are acquired    *)
(* before the slot's own buffer counts on it, and an item that counts on   *)
(* it is the first of its slot.                                            *)
ArrivalInv ==
  /\ \A i \in Indices : mSlots[mQueue[i].mSlot].mAcquireCalled => Tracked(i)
  /\ \A i, j \in Indices : i < j /\ (Tracked(i) \/ mQueue[j].mAcquireCalled) =>
       mQueue[j].mSlot # mQueue[i].mSlot
  /\ \A p \in Producers : call[p].op = "allocating" /\ ~mIsAbandoned =>
       ~mSlots[call[p].slot].mAcquireCalled

(* The user of ConsumerBase has what the queue thinks it has.              *)
UserInv == UsesQueuedBuffer /\ AcquiredSlotsHaveHandles

-----------------------------------------------------------------------------
(* What a producer does to the promises of the cache.                      *)

(* The producers are Surfaces: nobody is in attachBuffer.                  *)
NobodyAttaches == \A p \in Producers : Asleep(p) => call[p].req.kind = "dequeue"

(* A slot does not come to be ACQUIRED, nor to have mAcquireCalled set,    *)
(* and with mAcquireCalled it keeps its buffer.                            *)
Sheds(s) ==
  /\ mSlots'[s].mBufferState = "ACQUIRED" =>
       /\ mSlots[s].mBufferState = "ACQUIRED"
       /\ mSlots'[s].mFrameNumber = mSlots[s].mFrameNumber
       /\ mSlots'[s].mGraphicBuffer = mSlots[s].mGraphicBuffer
       /\ mSlots'[s].mAcquireCalled = mSlots[s].mAcquireCalled
  /\ mSlots'[s].mAcquireCalled =>
       mSlots[s].mAcquireCalled /\ mSlots'[s].mGraphicBuffer = mSlots[s].mGraphicBuffer
  /\ \/ mSlots'[s].mGraphicBuffer = mSlots[s].mGraphicBuffer
     \/ mSlots'[s].mGraphicBuffer \notin InQueue

(* A thread that begins to allocate does so for a slot whose next buffer   *)
(* will be sent, and none begins to attach.                                *)
BeginsClean(q) ==
  /\ call'[q].op = "allocating" =>
       call'[q] = call[q] \/ ~mSlots'[call'[q].slot].mAcquireCalled
  /\ Asleep(q)' => call'[q].req.kind = "dequeue"

(* A slot that is the same, or loses its buffer, or only what is not       *)
(* ACQUIRED changes its state, sheds.                                      *)
LEMMA ShedsFacts ==
  ASSUME OwnersInv, NEW s \in Slots,
         \/ mSlots'[s] = mSlots[s]
         \/ /\ mSlots'[s].mBufferState # "ACQUIRED"
            /\ mSlots'[s].mGraphicBuffer = NoBuffer /\ ~mSlots'[s].mAcquireCalled
         \/ /\ \/ mSlots'[s].mBufferState # "ACQUIRED"
               \/ /\ mSlots'[s].mBufferState = mSlots[s].mBufferState
                  /\ mSlots'[s].mFrameNumber = mSlots[s].mFrameNumber
            /\ mSlots'[s].mGraphicBuffer = mSlots[s].mGraphicBuffer
            /\ mSlots'[s].mAcquireCalled = mSlots[s].mAcquireCalled
         \/ /\ mSlots'[s].mBufferState # "ACQUIRED"
            /\ mSlots'[s].mGraphicBuffer \notin InQueue /\ ~mSlots'[s].mAcquireCalled
  PROVE  Sheds(s)
<1>1. NoBuffer \notin InQueue
  BY DEF OwnersInv, ItemsDiffer, InQueue, Indices
<1> QED BY <1>1 DEF Sheds

(* A thread at rest begins nothing.                                        *)
LEMMA RestBeginsClean ==
  ASSUME NobodyAttaches, NEW q \in Producers, Rests(q)
  PROVE  BeginsClean(q)
<1>1. call'[q].op = "allocating" => call'[q] = call[q]
  BY DEF Rests, EndOps
<1>2. Asleep(q)' => Asleep(q) /\ call'[q].req = call[q].req
  BY RestFacts
<1> QED BY <1>1, <1>2 DEF BeginsClean, NobodyAttaches

(* dequeueBuffer, and waking up in it.                                     *)
LEMMA WaitSheds ==
  ASSUME TypeOK, OwnersInv, NobodyAttaches, NEW p \in Producers, NEW req \in Request,
         req.kind = "dequeue", waitForFreeSlotThenRelock(p, req)
  PROVE  (\A s \in Slots : Sheds(s)) /\ \A q \in Producers : BeginsClean(q)
<1>1. PICK slots : slots = TrimmedSlots(getMaxBufferCountLocked(req.async))
  OBVIOUS
<1>2. PICK released : released =
        (req.released \/ BeyondMax(getMaxBufferCountLocked(req.async)) # {})
  OBVIOUS
<1>3. /\ slots \in [Slots -> BufferSlot]
      /\ \A s \in Slots :
           \/ slots[s] = mSlots[s]
           \/ /\ slots[s].mBufferState = "FREE" /\ slots[s].mGraphicBuffer = NoBuffer
              /\ ~slots[s].mAcquireCalled
  BY <1>1, TrimmedFacts DEF TypeOK
<1>4. mSlots' \in {mSlots, slots} => \A s \in Slots : Sheds(s)
  BY <1>3, ShedsFacts
<1>5. Return(p) => \A q \in Producers : BeginsClean(q)
  BY CallRests, RestBeginsClean
<1>6. CASE /\ mSlots' = slots
           /\ call' = [call EXCEPT ![p] = [op |-> "waiting",
                         req |-> [req EXCEPT !.released = released]]]
  <2>1. PICK c : c = [op |-> "waiting", req |-> [req EXCEPT !.released = released]]
    OBVIOUS
  <2>2. c.op = "waiting" /\ c.req.kind = "dequeue"
    BY <2>1 DEF Request
  <2>3. call'[p] = c /\ \A q \in Producers \ {p} : Rests(q)
    BY <1>6, <2>1, CallRests
  <2>4. BeginsClean(p)
    BY <2>2, <2>3 DEF BeginsClean
  <2> QED BY <1>4, <1>6, <2>3, <2>4, RestBeginsClean
<1>7. ASSUME NEW s \in Slots, slots[s].mBufferState = "FREE",
             DequeueFound(p, req, slots, s, released)
      PROVE  (\A t \in Slots : Sheds(t)) /\ \A q \in Producers : BeginsClean(q)
  <2>1. Finds(p, slots, s, released)
    BY <1>3, <1>7, FoundFacts
  <2>2. BeginsClean(p)
    BY <2>1 DEF Finds, BeginsClean, Asleep
  <2>3. \A q \in Producers \ {p} : BeginsClean(q)
    BY <2>1, RestBeginsClean DEF Finds
  <2>4. ASSUME NEW t \in Slots PROVE Sheds(t)
    <3>1. CASE t = s
      BY <1>3, <2>1, <3>1, ShedsFacts DEF Finds
    <3>2. CASE t # s
      BY <1>3, <2>1, <3>2, ShedsFacts DEF Finds
    <3> QED BY <3>1, <3>2
  <2> QED BY <2>2, <2>3, <2>4
<1>8. ASSUME NEW s \in Slots, IsOldest(slots, s, Below(getMaxBufferCountLocked(req.async), "FREE"))
      PROVE  slots[s].mBufferState = "FREE"
  BY <1>1, <1>8 DEF IsOldest, Below, SlotsIn
<1> QED BY <1>1, <1>2, <1>4, <1>5, <1>6, <1>7, <1>8 DEF waitForFreeSlotThenRelock

(* A buffer comes, is asked for and goes back.                             *)
LEMMA HandingSheds ==
  ASSUME TypeOK, OwnersInv, NobodyAttaches, ArrivalInv, NEW p \in Producers,
         \/ dequeueBufferAllocated(p) \/ requestBuffer(p)
         \/ cancelRefused(p) \/ cancelBuffer(p)
  PROVE  (\A s \in Slots : Sheds(s)) /\ \A q \in Producers : BeginsClean(q)
<1>1. UNCHANGED mSlots => \A s \in Slots : Sheds(s)
  BY ShedsFacts
<1>2. Return(p) \/ BroadcastAndReturn(p) => \A q \in Producers : BeginsClean(q)
  BY CallRests, RestBeginsClean
<1>3. ASSUME NEW c, c.op \in {"returned", "refused"}, call' = [call EXCEPT ![p] = c]
      PROVE  \A q \in Producers : BeginsClean(q)
  <2>1. call'[p] = c /\ \A q \in Producers \ {p} : Rests(q)
    BY <1>3, CallRests
  <2>2. BeginsClean(p)
    BY <1>3, <2>1 DEF BeginsClean, Asleep
  <2> QED BY <2>1, <2>2, RestBeginsClean
<1>4. ASSUME NEW s \in Slots, mSlots' = CancelledSlot(s)
      PROVE  \A t \in Slots : Sheds(t)
  <2>1. /\ mSlots'[s].mBufferState = "FREE"
        /\ mSlots'[s].mGraphicBuffer = mSlots[s].mGraphicBuffer
        /\ mSlots'[s].mAcquireCalled = mSlots[s].mAcquireCalled
        /\ \A t \in Slots \ {s} : mSlots'[t] = mSlots[t]
    BY <1>4, TypeFacts DEF CancelledSlot, BufferSlot
  <2> QED BY <2>1, ShedsFacts
<1>5. CASE dequeueBufferAllocated(p)
  <2>1. CASE mIsAbandoned
    BY <1>1, <1>2, <1>5, <2>1 DEF dequeueBufferAllocated
  <2>2. CASE ~mIsAbandoned
    <3>1. PICK s, c : /\ s = call[p].slot
                      /\ c = [op |-> "returned", slot |-> s, released |-> call[p].released,
                              realloc |-> TRUE]
      OBVIOUS
    <3>2. PICK b \in Fresh(call[p].size) :
            /\ call' = [call EXCEPT ![p] = c]
            /\ mSlots' = [mSlots EXCEPT ![s] = [@ EXCEPT !.mFrameNumber = UINT32_MAX,
                                                         !.mGraphicBuffer = b]]
      BY <1>5, <2>2, <3>1 DEF dequeueBufferAllocated
    <3>3. call[p].op = "allocating" /\ s \in Slots
      BY <1>5, <3>1, TypeFacts DEF dequeueBufferAllocated, InHand
    <3>4. mSlots[s].mBufferState = "DEQUEUED" /\ ~mSlots[s].mAcquireCalled
      BY <2>2, <3>1, <3>3 DEF OwnersInv, ThreadsOwn, ThreadOwns, InHand, ArrivalInv
    <3>5. b \notin InQueue
      BY DEF Fresh
    <3>6. /\ mSlots'[s].mBufferState = mSlots[s].mBufferState
          /\ mSlots'[s].mAcquireCalled = mSlots[s].mAcquireCalled
          /\ mSlots'[s].mGraphicBuffer = b
          /\ \A t \in Slots \ {s} : mSlots'[t] = mSlots[t]
      BY <3>2, <3>3, TypeFacts DEF BufferSlot
    <3>7. \A t \in Slots : Sheds(t)
      BY <3>4, <3>5, <3>6, ShedsFacts
    <3>8. c.op = "returned"
      BY <3>1
    <3>9. call'[p] = c /\ \A q \in Producers \ {p} : Rests(q)
      BY <3>1, <3>2, CallRests
    <3>10. BeginsClean(p)
      BY <3>8, <3>9 DEF BeginsClean, Asleep
    <3>11. \A q \in Producers : BeginsClean(q)
      BY <3>9, <3>10, RestBeginsClean
    <3> QED BY <3>7, <3>11
  <2> QED BY <2>1, <2>2
<1>6. CASE requestBuffer(p)
  <2>1. PICK s \in Slots : s = call[p].slot
    BY <1>6, TypeFacts DEF requestBuffer, InHand
  <2>2. mSlots' = [mSlots EXCEPT ![s].mRequestBufferCalled = TRUE] \/ UNCHANGED mSlots
    BY <1>6, <2>1 DEF requestBuffer
  <2>3. ASSUME NEW t \in Slots PROVE Sheds(t)
    <3>1. /\ mSlots'[t].mBufferState = mSlots[t].mBufferState
          /\ mSlots'[t].mFrameNumber = mSlots[t].mFrameNumber
          /\ mSlots'[t].mGraphicBuffer = mSlots[t].mGraphicBuffer
          /\ mSlots'[t].mAcquireCalled = mSlots[t].mAcquireCalled
      BY <2>2, TypeFacts DEF BufferSlot
    <3> QED BY <3>1, ShedsFacts
  <2>4. PICK c : c = [op |-> "refused", slot |-> s]
    OBVIOUS
  <2>5. Return(p) \/ call' = [call EXCEPT ![p] = c]
    BY <1>6, <2>1, <2>4 DEF requestBuffer
  <2>6. c.op = "refused"
    BY <2>4
  <2> QED BY <1>2, <1>3, <2>3, <2>5, <2>6
<1>7. CASE cancelRefused(p)
  <2>1. PICK s \in Slots : s = call[p].slot
    BY <1>7, TypeFacts, CallFields DEF cancelRefused, TypeOK, ProducerTypeOK
  <2>2. /\ mSlots' = CancelledSlot(s) \/ UNCHANGED mSlots
        /\ Return(p) \/ BroadcastAndReturn(p)
    BY <1>7, <2>1 DEF cancelRefused
  <2> QED BY <1>1, <1>2, <1>4, <2>2
<1>8. CASE cancelBuffer(p)
  <2>1. (\E s \in Slots : mSlots' = CancelledSlot(s)) /\ BroadcastAndReturn(p)
    BY <1>8 DEF cancelBuffer
  <2> QED BY <1>2, <1>4, <2>1
<1> QED BY <1>5, <1>6, <1>7, <1>8

(* All buffers are freed, or none is concerned.                            *)
LEMMA FreeingAllSheds ==
  ASSUME TypeOK, OwnersInv, NobodyAttaches, NEW p \in Producers,
         setBufferCount(p) \/ disconnect(p)
  PROVE  (\A s \in Slots : Sheds(s)) /\ \A q \in Producers : BeginsClean(q)
<1>1. PICK c : c = IF mConsumerListener THEN [op |-> "buffersReleased"] ELSE Idle
  OBVIOUS
<1>2. c.op \in EndOps
  BY <1>1 DEF Idle, EndOps
<1>3. BroadcastAndReturn(p) \/ call' = [Broadcast(call) EXCEPT ![p] = c]
  BY <1>1 DEF setBufferCount, disconnect
<1>4. \A q \in Producers : Rests(q)
  BY <1>2, <1>3, CallRests, EndRests
<1>5. freeAllBuffersLocked \/ UNCHANGED mSlots
  BY DEF setBufferCount, disconnect
<1>6. ASSUME freeAllBuffersLocked, NEW s \in Slots
      PROVE  Sheds(s)
  <2>1. mSlots'[s] = FreedSlot(mSlots[s]) /\ mSlots[s] \in BufferSlot
    BY <1>6, TypeFacts DEF freeAllBuffersLocked
  <2>2. /\ mSlots'[s].mBufferState = "FREE" /\ mSlots'[s].mGraphicBuffer = NoBuffer
        /\ ~mSlots'[s].mAcquireCalled
    BY <2>1 DEF FreedSlot, BufferSlot
  <2> QED BY <2>2, ShedsFacts
<1> QED BY <1>4, <1>5, <1>6, RestBeginsClean, ShedsFacts

(* allocateBuffers puts its new buffers into FREE slots as new ones.       *)
LEMMA PreallocatedSheds ==
  ASSUME TypeOK, OwnersInv, NobodyAttaches, NEW p \in Producers, allocateBuffersAllocated(p)
  PROVE  (\A s \in Slots : Sheds(s)) /\ \A q \in Producers : BeginsClean(q)
<1>1. PICK c : c = [op |-> "allocateBuffers", async |-> call[p].async]
  OBVIOUS
<1>2. \A q \in Producers : Rests(q)
  <2>1. c.op \in EndOps /\ call' = [call EXCEPT ![p] = c]
    BY <1>1 DEF allocateBuffersAllocated, EndOps
  <2> QED BY <2>1, EndRests
<1>3. CASE UNCHANGED mSlots
  BY <1>2, <1>3, ShedsFacts, RestBeginsClean
<1>4. CASE ~UNCHANGED mSlots
  <2>1. PICK fill : fill = call[p].slots \cap SlotsIn(mSlots, {"FREE"})
    OBVIOUS
  <2>2. PICK new \in [fill -> Fresh(call[p].size)] :
          mSlots' = [s \in Slots |->
                       IF s \in fill
                       THEN [FreedSlot(mSlots[s]) EXCEPT !.mGraphicBuffer = new[s],
                                                         !.mFrameNumber = 0]
                       ELSE mSlots[s]]
    BY <1>4, <2>1 DEF allocateBuffersAllocated
  <2>3. ASSUME NEW s \in Slots
        PROVE  Sheds(s)
    <3>1. CASE s \in fill
      <4>1. PICK slot : slot = FreedSlot(mSlots[s])
        OBVIOUS
      <4>2. slot \in BufferSlot /\ slot.mBufferState = "FREE" /\ ~slot.mAcquireCalled
        BY <4>1, TypeFacts, FreedSlotType DEF FreedSlot, BufferSlot
      <4>3. mSlots'[s] = [slot EXCEPT !.mGraphicBuffer = new[s], !.mFrameNumber = 0]
        BY <2>2, <3>1, <4>1
      <4>4. new[s] \notin InQueue
        BY <3>1 DEF Fresh
      <4>5. /\ mSlots'[s].mBufferState = "FREE" /\ ~mSlots'[s].mAcquireCalled
            /\ mSlots'[s].mGraphicBuffer = new[s]
        BY <4>2, <4>3 DEF BufferSlot
      <4> QED BY <4>4, <4>5, ShedsFacts
    <3>2. CASE s \notin fill
      BY <2>2, <3>2, ShedsFacts
    <3> QED BY <3>1, <3>2
  <2> QED BY <1>2, <2>3, RestBeginsClean
<1> QED BY <1>3, <1>4

(* The steps that leave the slots alone.                                   *)
LEMMA OthersShed ==
  ASSUME TypeOK, OwnersInv, NobodyAttaches, NEW p \in Producers,
         \/ dequeueBufferAllocationFailed(p) \/ queueBufferCallback(p) \/ connect(p)
         \/ allocateBuffers(p) \/ allocateBuffersFailed(p) \/ buffersReleasedCallback(p)
  PROVE  (\A s \in Slots : Sheds(s)) /\ \A q \in Producers : BeginsClean(q)
<1>1. CASE \/ dequeueBufferAllocationFailed(p) \/ queueBufferCallback(p)
           \/ allocateBuffersFailed(p) \/ buffersReleasedCallback(p)
  <2>1. UNCHANGED mSlots /\ Return(p)
    BY <1>1 DEF dequeueBufferAllocationFailed, queueBufferCallback, allocateBuffersFailed,
       buffersReleasedCallback, coreVars
  <2> QED BY <2>1, CallRests, ShedsFacts, RestBeginsClean
<1>2. CASE connect(p)
  <2>1. UNCHANGED <<mSlots, call>>
    BY <1>2 DEF connect, producerVars
  <2> QED BY <2>1, CallRests, ShedsFacts, RestBeginsClean
<1>3. CASE allocateBuffers(p)
  <2>1. PICK async : AllocateBuffersTurn(p, async)
    BY <1>3 DEF allocateBuffers
  <2>2. PICK c : c = [op |-> "preallocating", async |-> async,
                      slots |-> Lowest(Missing(async), FreeBareSlots),
                      size |-> mDefaultSize]
    OBVIOUS
  <2>3. c.op \in EndOps
    BY <2>2 DEF EndOps
  <2>4. UNCHANGED mSlots /\ (Return(p) \/ call' = [call EXCEPT ![p] = c])
    BY <2>1, <2>2 DEF AllocateBuffersTurn
  <2>5. \A q \in Producers : Rests(q)
    BY <2>3, <2>4, CallRests, EndRests
  <2> QED BY <2>4, <2>5, ShedsFacts, RestBeginsClean
<1> QED BY <1>1, <1>2, <1>3

(* Every call of a Surface but queueBuffer.                                *)
LEMMA ProducerSheds ==
  ASSUME ~ProducerAttaches, TypeOK, OwnersInv, NobodyAttaches, ArrivalInv,
         NEW p \in Producers, ProducerStep(p), ~queueBuffer(p)
  PROVE  /\ UNCHANGED <<mQueue, mIsAbandoned, acquired>>
         /\ \A s \in Slots : Sheds(s)
         /\ \A q \in Producers : BeginsClean(q)
<1>1. CASE Retry(p) \/ dequeueBuffer(p)
  <2>1. PICK req \in Request : req.kind = "dequeue" /\ waitForFreeSlotThenRelock(p, req)
    <3>1. CASE Retry(p)
      BY <3>1, RequestType DEF Retry, NobodyAttaches, Asleep
    <3>2. CASE dequeueBuffer(p)
      BY <3>2, RequestType DEF dequeueBuffer
    <3> QED BY <1>1, <3>1, <3>2
  <2>2. UNCHANGED <<mQueue, mIsAbandoned, acquired>>
    BY <2>1 DEF waitForFreeSlotThenRelock, connectionVars
  <2> QED BY <2>1, <2>2, WaitSheds
<1>2. CASE \/ dequeueBufferAllocated(p) \/ requestBuffer(p)
           \/ cancelRefused(p) \/ cancelBuffer(p)
  <2>1. UNCHANGED <<mQueue, mIsAbandoned, acquired>>
    BY <1>2 DEF dequeueBufferAllocated, requestBuffer, cancelRefused, cancelBuffer,
       connectionVars
  <2> QED BY <1>2, <2>1, HandingSheds
<1>3. CASE setBufferCount(p) \/ disconnect(p)
  <2>1. UNCHANGED <<mQueue, mIsAbandoned, acquired>>
    BY <1>3 DEF setBufferCount, disconnect, connectionVars
  <2> QED BY <1>3, <2>1, FreeingAllSheds
<1>4. CASE allocateBuffersAllocated(p)
  <2>1. UNCHANGED <<mQueue, mIsAbandoned, acquired>>
    BY <1>4 DEF allocateBuffersAllocated, connectionVars
  <2> QED BY <1>4, <2>1, PreallocatedSheds
<1>5. CASE \/ dequeueBufferAllocationFailed(p) \/ queueBufferCallback(p) \/ connect(p)
           \/ allocateBuffers(p) \/ allocateBuffersFailed(p) \/ buffersReleasedCallback(p)
  <2>1. UNCHANGED <<mQueue, mIsAbandoned, acquired>>
    BY <1>5 DEF dequeueBufferAllocationFailed, queueBufferCallback, connect, allocateBuffers,
       AllocateBuffersTurn, allocateBuffersFailed, buffersReleasedCallback, coreVars,
       connectionVars
  <2> QED BY <1>5, <2>1, OthersShed
<1>6. ~detachBuffer(p) /\ ~detachNextBuffer(p) /\ ~attachBuffer(p)
  BY DEF detachBuffer, detachNextBuffer, attachBuffer
<1> QED BY <1>1, <1>2, <1>3, <1>4, <1>5, <1>6 DEF ProducerStep, ProducerCall
-----------------------------------------------------------------------------
(* What every step does to the promises of the cache.                      *)

(* The cache and what it promises.                                         *)
PromisesInv(lossy) == NobodyAttaches /\ ArrivalInv /\ CacheInv(lossy)

(* Nothing counts on what the cache has for s any more.                    *)
NotCounted(s) ==
  /\ ~mSlots'[s].mAcquireCalled
  /\ \A i \in Indices : mQueue[i].mAcquireCalled => mQueue[i].mSlot # s

(* A step that sheds, and leaves the queue alone, may drop from the cache  *)
(* what nothing counts on.                                                 *)
LEMMA SheddingKeepsPromises ==
  ASSUME NEW lossy \in BOOLEAN, TypeOK, OwnersInv, PromisesInv(lossy),
         mQueue' = mQueue, mIsAbandoned' = mIsAbandoned,
         \A s \in Slots : Sheds(s), \A q \in Producers : BeginsClean(q),
         \A s \in Slots : \/ cbSlots'[s] = cbSlots[s]
                          \/ lossy /\ cbSlots'[s].mGraphicBuffer = NoBuffer
                          \/ NotCounted(s)
  PROVE  PromisesInv(lossy)'
<1>1. Indices' = Indices /\ \A i \in Indices : mQueue[i].mSlot \in Slots
  BY TypeFacts DEF Indices
<1>2. NobodyAttaches'
  BY DEF BeginsClean, NobodyAttaches, Asleep
<1>3. ASSUME NEW i \in Indices, Tracked(i)' PROVE Tracked(i)
  <2>1. PICK s \in Slots : s = mQueue[i].mSlot
    BY <1>1
  <2>2. mQueue[i].mGraphicBuffer \in InQueue
    BY DEF InQueue, Indices
  <2>3. mSlots'[s].mGraphicBuffer = mQueue[i].mGraphicBuffer
    BY <1>3, <2>1 DEF Tracked, stillTracking
  <2>4. Sheds(s)
    OBVIOUS
  <2> QED BY <2>1, <2>2, <2>3, <2>4 DEF Tracked, stillTracking, Sheds
<1>4. ArrivalInv'
  <2>1. ASSUME NEW i \in Indices', mSlots'[mQueue'[i].mSlot].mAcquireCalled
        PROVE  Tracked(i)'
    <3>1. PICK s \in Slots : s = mQueue[i].mSlot
      BY <1>1
    <3>2. Sheds(s) /\ i \in Indices
      BY <1>1
    <3>3. /\ mSlots[s].mAcquireCalled
          /\ mSlots'[s].mGraphicBuffer = mSlots[s].mGraphicBuffer
      BY <2>1, <3>1, <3>2 DEF Sheds
    <3>4. Tracked(i)
      BY <3>1, <3>2, <3>3, <1>1 DEF PromisesInv, ArrivalInv
    <3> QED BY <3>1, <3>3, <3>4 DEF Tracked, stillTracking
  <2>2. ASSUME NEW i \in Indices', NEW j \in Indices', i < j,
               Tracked(i)' \/ mQueue'[j].mAcquireCalled
        PROVE  mQueue'[j].mSlot # mQueue'[i].mSlot
    <3>1. i \in Indices /\ j \in Indices /\ (Tracked(i) \/ mQueue[j].mAcquireCalled)
      BY <1>1, <1>3, <2>2
    <3> QED BY <2>2, <3>1 DEF PromisesInv, ArrivalInv
  <2>3. ASSUME NEW q \in Producers, call'[q].op = "allocating", ~mIsAbandoned'
        PROVE  ~mSlots'[call'[q].slot].mAcquireCalled
    <3>1. CASE call'[q] = call[q]
      <4>1. call[q].op = "allocating" /\ ~mSlots[call[q].slot].mAcquireCalled
        BY <2>3, <3>1 DEF PromisesInv, ArrivalInv
      <4>2. call[q].slot \in Slots
        BY <4>1, TypeFacts DEF InHand
      <4> QED BY <3>1, <4>1, <4>2 DEF Sheds
    <3>2. CASE call'[q] # call[q]
      BY <2>3, <3>2 DEF BeginsClean
    <3> QED BY <3>1, <3>2
  <2> QED BY <2>1, <2>2, <2>3 DEF ArrivalInv
<1>5. CacheInv(lossy)'
  <2>1. ASSUME NEW s \in Slots, mSlots'[s].mAcquireCalled
        PROVE  /\ mSlots'[s].mGraphicBuffer # NoBuffer
               /\ Caches(s, mSlots[s].mGraphicBuffer, lossy)'
    <3>1. /\ mSlots[s].mAcquireCalled
          /\ mSlots'[s].mGraphicBuffer = mSlots[s].mGraphicBuffer
      BY <2>1 DEF Sheds
    <3>2. /\ mSlots[s].mGraphicBuffer # NoBuffer
          /\ Caches(s, mSlots[s].mGraphicBuffer, lossy)
      BY <3>1 DEF PromisesInv, CacheInv
    <3> QED BY <2>1, <3>1, <3>2 DEF Caches, NotCounted
  <2>2. ASSUME NEW i \in Indices', mQueue'[i].mAcquireCalled
        PROVE  Caches(mQueue[i].mSlot, mQueue[i].mGraphicBuffer, lossy)'
    <3>1. i \in Indices /\ mQueue[i].mAcquireCalled /\ mQueue[i].mSlot \in Slots
      BY <1>1, <2>2
    <3>2. Caches(mQueue[i].mSlot, mQueue[i].mGraphicBuffer, lossy)
      BY <3>1 DEF PromisesInv, CacheInv
    <3> QED BY <3>1, <3>2 DEF Caches, NotCounted
  <2>3. ASSUME NEW s \in SlotsIn(mSlots, {"ACQUIRED"})'
        PROVE  /\ mSlots'[s].mAcquireCalled
               /\ \/ cbSlots'[s].mFrameNumber = mSlots'[s].mFrameNumber
                  \/ lossy /\ cbSlots'[s].mGraphicBuffer = NoBuffer
    <3>1. s \in Slots /\ mSlots'[s].mBufferState = "ACQUIRED"
      BY DEF SlotsIn
    <3>2. /\ mSlots[s].mBufferState = "ACQUIRED"
          /\ mSlots'[s].mFrameNumber = mSlots[s].mFrameNumber
          /\ mSlots'[s].mAcquireCalled = mSlots[s].mAcquireCalled
      BY <3>1 DEF Sheds
    <3>3. /\ mSlots[s].mAcquireCalled
          /\ \/ cbSlots[s].mFrameNumber = mSlots[s].mFrameNumber
             \/ lossy /\ cbSlots[s].mGraphicBuffer = NoBuffer
      BY <3>1, <3>2 DEF PromisesInv, CacheInv, SlotsIn
    <3> QED BY <3>1, <3>2, <3>3 DEF NotCounted
  <2> QED BY <2>1, <2>2, <2>3 DEF CacheInv
<1> QED BY <1>2, <1>4, <1>5 DEF PromisesInv

(* queueBuffer: the item counts on the cache if its slot does, and then it *)
(* is the only one of its slot.                                            *)
LEMMA QueueKeepsPromises ==
  ASSUME NeverMixed, NEW lossy \in BOOLEAN, OrderInv, OwnersInv, PromisesInv(lossy),
         NEW p \in Producers, queueBuffer(p), UNCHANGED cbSlots
  PROVE  PromisesInv(lossy)'
<1>1. /\ TypeOK /\ UNCHANGED mIsAbandoned /\ ~mIsAbandoned
      /\ mQueue \in Seq(BufferItem) /\ \A q \in Producers : Rests(q)
      /\ \A i \in Indices : mQueue[i].mSlot \in Slots
  BY QueueFactsOf, TypeFacts DEF OrderInv
<1>0. PICK s \in held : \E item : Puts(s, item)
  BY <1>1, QueueFactsOf
<1>2. PICK item : s \in held /\ Puts(s, item)
  BY <1>0
<1>3. /\ s \in Slots /\ item.mSlot = s /\ item.mGraphicBuffer = mSlots[s].mGraphicBuffer
      /\ item.mAcquireCalled = mSlots[s].mAcquireCalled
      /\ mSlots[s].mBufferState = "DEQUEUED"
      /\ \A t \in Slots : /\ mSlots'[t].mGraphicBuffer = mSlots[t].mGraphicBuffer
                          /\ mSlots'[t].mAcquireCalled = mSlots[t].mAcquireCalled
  BY <1>1, <1>2, TypeFacts DEF Puts
<1>4. \A i \in Indices : Tracked(i) => mSlots[mQueue[i].mSlot].mBufferState = "QUEUED"
  BY DEF OwnersInv, TrackedItemsAreQueued, Indices
<1>5. ASSUME NEW t \in Slots, mSlots'[t].mBufferState = "ACQUIRED"
      PROVE  mSlots'[t] = mSlots[t]
  BY <1>2, <1>3, <1>5 DEF Puts
<1>6. PICK k \in Indices' : /\ mQueue'[k] = item
                            /\ \A i \in Indices' \ {k} :
                                 i \in Indices /\ i < k /\ mQueue'[i] = mQueue[i]
  <2>1. CASE ~ReplacesFront
    <3>1. PICK k : k = Len(mQueue) + 1
      OBVIOUS
    <3>2. /\ mQueue'[k] = item /\ \A i \in Indices : mQueue'[i] = mQueue[i]
          /\ Indices' = Indices \cup {k}
          /\ \A i \in Indices : i < k
      BY <1>1, <1>2, <2>1, <3>1 DEF Puts, Indices
    <3> QED BY <3>2
  <2>2. CASE ReplacesFront
    <3>1. 1 \in Indices /\ mQueue' = [mQueue EXCEPT ![1] = item]
      BY <1>2, <2>2 DEF Puts
    <3>2. ~NeverDroppable
      BY <2>2, <3>1 DEF ReplacesFront, OrderInv, BlockingQueue
    <3>3. Len(mQueue) <= 1
      BY <3>2 DEF NeverMixed, OrderInv, AsyncQueue
    <3>4. Len(mQueue) = 1
      <4>1. Len(mQueue) \in Nat /\ 1 <= Len(mQueue)
        BY <1>1, <3>1 DEF Indices
      <4>2. \A n \in Nat : 1 <= n /\ n <= 1 => n = 1
        OBVIOUS
      <4> QED BY <3>3, <4>1, <4>2
    <3>5. Len(mQueue') = Len(mQueue) /\ mQueue'[1] = item
      BY <1>1, <3>1 DEF Indices
    <3>6. Indices' = {1}
      BY <3>4, <3>5 DEF Indices
    <3> QED BY <3>5, <3>6
  <2> QED BY <2>1, <2>2
<1>7. NobodyAttaches'
  <2>1. \A q \in Producers : BeginsClean(q)
    BY <1>1, RestBeginsClean DEF PromisesInv
  <2> QED BY <2>1 DEF BeginsClean, NobodyAttaches, Asleep
<1>8. \A i \in Indices' \ {k} : i \in Indices /\ (Tracked(i)' <=> Tracked(i))
  BY <1>1, <1>3, <1>6 DEF Tracked, stillTracking
<1>9. ArrivalInv'
  <2>1. ASSUME NEW i \in Indices', mSlots'[mQueue'[i].mSlot].mAcquireCalled
        PROVE  Tracked(i)'
    <3>1. CASE i = k
      BY <1>3, <1>6, <3>1 DEF Tracked, stillTracking
    <3>2. CASE i # k
      BY <1>1, <1>3, <1>6, <1>8, <2>1, <3>2 DEF PromisesInv, ArrivalInv
    <3> QED BY <3>1, <3>2
  <2>2. ASSUME NEW i \in Indices', NEW j \in Indices', i < j,
               Tracked(i)' \/ mQueue'[j].mAcquireCalled
        PROVE  mQueue'[j].mSlot # mQueue'[i].mSlot
    <3>1. i # k
      <4>1. i \in Nat /\ j \in Nat /\ k \in Nat
        BY DEF Indices
      <4>2. j # k => j < k
        BY <1>6
      <4>3. \A a, b, c \in Nat : a < b /\ (b = c \/ b < c) => a # c
        OBVIOUS
      <4> QED BY <2>2, <4>1, <4>2, <4>3
    <3>2. CASE j = k
      <4>1. mQueue'[i] = mQueue[i] /\ i \in Indices
        BY <1>6, <3>1
      <4>2. Tracked(i) => mQueue[i].mSlot # s
        BY <1>3, <1>4, <4>1
      <4>3. mSlots[s].mAcquireCalled /\ mQueue[i].mSlot = s => Tracked(i)
        BY <4>1 DEF PromisesInv, ArrivalInv
      <4>4. Tracked(i) \/ mSlots[s].mAcquireCalled
        BY <1>3, <1>6, <1>8, <2>2, <3>1, <3>2
      <4> QED BY <1>3, <1>6, <3>2, <4>1, <4>2, <4>3, <4>4
    <3>3. CASE j # k
      BY <1>6, <1>8, <2>2, <3>1, <3>3 DEF PromisesInv, ArrivalInv
    <3> QED BY <3>2, <3>3
  <2>3. ASSUME NEW q \in Producers, call'[q].op = "allocating", ~mIsAbandoned'
        PROVE  ~mSlots'[call'[q].slot].mAcquireCalled
    <3>1. InHand(q)'
      BY <2>3 DEF InHand
    <3>2. call'[q] = call[q] /\ call[q].slot \in Slots
      BY <1>1, <3>1, TypeFacts, RestFacts
    <3> QED BY <1>1, <1>3, <2>3, <3>2 DEF PromisesInv, ArrivalInv
  <2> QED BY <2>1, <2>2, <2>3 DEF ArrivalInv
<1>10. CacheInv(lossy)'
  <2>1. ASSUME NEW t \in Slots, mSlots'[t].mAcquireCalled
        PROVE  /\ mSlots'[t].mGraphicBuffer # NoBuffer
               /\ Caches(t, mSlots[t].mGraphicBuffer, lossy)'
    BY <1>3, <2>1 DEF PromisesInv, CacheInv, Caches
  <2>2. ASSUME NEW i \in Indices', mQueue'[i].mAcquireCalled
        PROVE  Caches(mQueue[i].mSlot, mQueue[i].mGraphicBuffer, lossy)'
    <3>1. CASE i = k
      <4>1. Caches(s, mSlots[s].mGraphicBuffer, lossy)
        BY <1>3, <1>6, <2>2, <3>1 DEF PromisesInv, CacheInv
      <4> QED BY <1>3, <1>6, <3>1, <4>1 DEF Caches
    <3>2. CASE i # k
      <4>1. i \in Indices /\ mQueue'[i] = mQueue[i]
        BY <1>6, <3>2
      <4>2. Caches(mQueue[i].mSlot, mQueue[i].mGraphicBuffer, lossy)
        BY <2>2, <4>1 DEF PromisesInv, CacheInv
      <4> QED BY <4>1, <4>2 DEF Caches
    <3> QED BY <3>1, <3>2
  <2>3. ASSUME NEW t \in SlotsIn(mSlots, {"ACQUIRED"})'
        PROVE  /\ mSlots'[t].mAcquireCalled
               /\ \/ cbSlots'[t].mFrameNumber = mSlots'[t].mFrameNumber
                  \/ lossy /\ cbSlots'[t].mGraphicBuffer = NoBuffer
    <3>1. t \in Slots /\ mSlots'[t].mBufferState = "ACQUIRED" /\ mSlots'[t] = mSlots[t]
      BY <1>5 DEF SlotsIn
    <3> QED BY <3>1 DEF PromisesInv, CacheInv, SlotsIn
  <2> QED BY <2>1, <2>2, <2>3 DEF CacheInv
<1> QED BY <1>7, <1>9, <1>10 DEF PromisesInv

(* The consumer leaves: nothing counts on the cache any more.              *)
LEMMA LeavingKeepsPromises ==
  ASSUME NEW lossy \in BOOLEAN, TypeOK, PromisesInv(lossy), consumerDisconnect
  PROVE  PromisesInv(lossy)'
<1>1. /\ mIsAbandoned' /\ mQueue' = << >> /\ freeAllBuffersLocked /\ WakeProducers
  BY DEF consumerDisconnect
<1>2. \A q \in Producers : BeginsClean(q)
  BY <1>1, CallRests, RestBeginsClean DEF PromisesInv
<1>3. NobodyAttaches'
  BY <1>2 DEF BeginsClean, NobodyAttaches, Asleep
<1>4. ASSUME NEW s \in Slots
      PROVE  mSlots'[s].mBufferState = "FREE" /\ ~mSlots'[s].mAcquireCalled
  <2>1. mSlots'[s] = FreedSlot(mSlots[s]) /\ mSlots[s] \in BufferSlot
    BY <1>1, TypeFacts DEF freeAllBuffersLocked
  <2> QED BY <2>1 DEF FreedSlot, BufferSlot
<1>5. Indices' = {}
  BY <1>1 DEF Indices
<1> QED BY <1>1, <1>3, <1>4, <1>5 DEF PromisesInv, ArrivalInv, CacheInv, SlotsIn

(* What the cache has of the slot of the item that is taken: the buffer    *)
(* the item came with, or the one that was there, and the item's frame.    *)
CachesItem(n) ==
  LET item == mQueue[n + 1] IN
  /\ cbSlots'[item.mSlot].mFrameNumber = item.mFrameNumber
  /\ cbSlots'[item.mSlot].mGraphicBuffer =
       IF item.mAcquireCalled THEN cbSlots[item.mSlot].mGraphicBuffer ELSE item.mGraphicBuffer
  /\ \A t \in Slots \ {item.mSlot} : cbSlots'[t] = cbSlots[t]

(* What is left of a queue when some items and one more are taken.         *)
LEMMA RestOfQueue ==
  ASSUME NEW S, NEW q \in Seq(S), NEW n \in 0 .. Len(q) - 1,
         NEW rest, rest = SubSeq(q, n + 2, Len(q))
  PROVE  /\ n + 1 \in 1 .. Len(q)
         /\ \A i \in 1 .. Len(rest) : n + 1 + i \in 1 .. Len(q) /\ rest[i] = q[n + 1 + i]
<1>1. PICK length \in Nat : length = Len(q) /\ n \in Nat /\ n + 1 <= length
  OBVIOUS
<1>2. Len(rest) = length - n - 1
  BY <1>1
<1>3. \A i \in 1 .. length - n - 1 : n + 1 + i \in 1 .. length
  BY <1>1
<1>4. \A i \in 1 .. length - n - 1 : rest[i] = q[n + 1 + i]
  BY <1>1
<1>5. n + 1 \in 1 .. length
  BY <1>1
<1>6. 1 .. Len(rest) = 1 .. length - n - 1 /\ 1 .. Len(q) = 1 .. length
  BY <1>1, <1>2
<1> QED BY <1>3, <1>4, <1>5, <1>6, Zenon

(* acquireBuffer: the item's slot counts on the cache from here on, and    *)
(* what is behind it in the queue does not.                                *)
LEMMA AcquireKeepsPromises ==
  ASSUME NEW lossy \in BOOLEAN, TypeOK, OwnersInv, PromisesInv(lossy), acquireBuffer,
         NEW n \in 0 .. Len(mQueue) - 1, Acquires(n), CachesItem(n)
  PROVE  PromisesInv(lossy)'
<1>1. /\ UNCHANGED mIsAbandoned /\ \A q \in Producers : Rests(q)
      /\ mQueue \in Seq(BufferItem)
      /\ \A q \in Producers : InHand(q) => call[q].slot \in Slots
  BY AcquireFacts, TypeFacts
<1>2. /\ n + 1 \in Indices
      /\ \A i \in Indices' : n + 1 + i \in Indices /\ mQueue'[i] = mQueue[n + 1 + i]
      /\ \A i \in Indices' : n + 1 < n + 1 + i
      /\ \A i, j \in Indices' : i < j => n + 1 + i < n + 1 + j
  <2>1. /\ n + 1 \in Indices
        /\ \A i \in Indices' : n + 1 + i \in Indices /\ mQueue'[i] = mQueue[n + 1 + i]
    <3>1. mQueue' = SubSeq(mQueue, n + 2, Len(mQueue))
      BY DEF Acquires
    <3> QED BY <1>1, <3>1, RestOfQueue DEF Indices
  <2>2. n \in Nat /\ \A i \in Indices' : i \in Nat /\ i >= 1
    BY DEF Indices
  <2>3. \A i, j \in Nat : /\ i >= 1 => n + 1 < n + 1 + i
                          /\ i < j => n + 1 + i < n + 1 + j
    BY <2>2
  <2> QED BY <2>1, <2>2, <2>3
<1>3. \A i \in Indices : mQueue[i].mSlot \in Slots /\ mQueue[i].mGraphicBuffer # NoBuffer
  BY TypeFacts DEF OwnersInv, ItemsDiffer
<1>4. PICK s \in Slots : s = mQueue[n + 1].mSlot
  BY <1>2, <1>3
<1>5. \A i \in Indices : Tracked(i) =>
        /\ mSlots[mQueue[i].mSlot].mBufferState = "QUEUED"
        /\ mSlots[mQueue[i].mSlot].mFrameNumber = mQueue[i].mFrameNumber
  BY DEF OwnersInv, TrackedItemsAreQueued, Indices
<1>6. \A t \in Slots :
        /\ mSlots'[t].mAcquireCalled = (TakenFrom(n, t) \/ mSlots[t].mAcquireCalled)
        /\ mSlots'[t].mGraphicBuffer = mSlots[t].mGraphicBuffer
        /\ mSlots'[t].mFrameNumber = mSlots[t].mFrameNumber
        /\ mSlots'[t].mBufferState = "ACQUIRED" =>
             TakenFrom(n, t) \/ mSlots'[t] = mSlots[t]
  BY DEF Acquires
<1>7. \A t \in Slots : TakenFrom(n, t) => t = s /\ Tracked(n + 1)
  BY <1>4 DEF TakenFrom
<1>8. \A i \in Indices' : n + 1 + i \in Indices /\ (Tracked(i)' <=> Tracked(n + 1 + i))
  BY <1>2, <1>3, <1>6 DEF Tracked, stillTracking
<1>9. NobodyAttaches'
  <2>1. \A q \in Producers : BeginsClean(q)
    BY <1>1, RestBeginsClean DEF PromisesInv
  <2> QED BY <2>1 DEF BeginsClean, NobodyAttaches, Asleep
(* A slot counted on is taken from, or is another one.                     *)
<1>10. mSlots[s].mAcquireCalled => Tracked(n + 1) /\ mSlots[s].mBufferState = "QUEUED"
  BY <1>2, <1>4, <1>5 DEF PromisesInv, ArrivalInv
<1>11. \A i \in Indices' : Tracked(n + 1) \/ mQueue[n + 1 + i].mAcquireCalled =>
                             mQueue[n + 1 + i].mSlot # s
  BY <1>2, <1>4 DEF PromisesInv, ArrivalInv
<1>12. ArrivalInv'
  <2>1. ASSUME NEW i \in Indices', mSlots'[mQueue'[i].mSlot].mAcquireCalled
        PROVE  Tracked(i)'
    <3>1. PICK j \in Indices : j = n + 1 + i /\ mQueue'[i] = mQueue[j]
      BY <1>2
    <3>2. PICK t \in Slots : t = mQueue[j].mSlot
      BY <1>3
    <3>3. ~TakenFrom(n, t)
      BY <1>7, <1>11, <3>1, <3>2
    <3>4. mSlots[t].mAcquireCalled
      BY <1>6, <2>1, <3>1, <3>2, <3>3
    <3> QED BY <1>8, <3>1, <3>2, <3>4 DEF PromisesInv, ArrivalInv
  <2>2. ASSUME NEW i \in Indices', NEW j \in Indices', i < j,
               Tracked(i)' \/ mQueue'[j].mAcquireCalled
        PROVE  mQueue'[j].mSlot # mQueue'[i].mSlot
    <3>1. PICK k \in Indices, l \in Indices :
            /\ k = n + 1 + i /\ mQueue'[i] = mQueue[k]
            /\ l = n + 1 + j /\ mQueue'[j] = mQueue[l]
      BY <1>2
    <3>2. k < l
      BY <1>2, <2>2, <3>1
    <3>3. Tracked(k) \/ mQueue[l].mAcquireCalled
      BY <1>8, <2>2, <3>1
    <3> QED BY <3>1, <3>2, <3>3 DEF PromisesInv, ArrivalInv
  <2>3. ASSUME NEW q \in Producers, call'[q].op = "allocating", ~mIsAbandoned'
        PROVE  ~mSlots'[call'[q].slot].mAcquireCalled
    <3>1. InHand(q)'
      BY <2>3 DEF InHand
    <3>2. call'[q] = call[q] /\ call[q].slot \in Slots
      BY <1>1, <3>1, RestFacts
    <3>3. mSlots[call[q].slot].mBufferState = "DEQUEUED" /\ ~mSlots[call[q].slot].mAcquireCalled
      BY <1>1, <2>3, <3>2 DEF OwnersInv, ThreadsOwn, ThreadOwns, InHand, PromisesInv, ArrivalInv
    <3>4. ~TakenFrom(n, call[q].slot)
      BY <1>2, <1>4, <1>5, <1>7, <3>2, <3>3
    <3> QED BY <1>6, <3>2, <3>3, <3>4
  <2> QED BY <2>1, <2>2, <2>3 DEF ArrivalInv
<1>13. /\ cbSlots'[s].mFrameNumber = mQueue[n + 1].mFrameNumber
       /\ \/ cbSlots'[s].mGraphicBuffer = mQueue[n + 1].mGraphicBuffer
          \/ lossy /\ cbSlots'[s].mGraphicBuffer = NoBuffer
       /\ \A t \in Slots \ {s} : cbSlots'[t] = cbSlots[t]
  <2>1. mQueue[n + 1].mAcquireCalled => Caches(s, mQueue[n + 1].mGraphicBuffer, lossy)
    BY <1>2, <1>4 DEF PromisesInv, CacheInv
  <2> QED BY <1>4, <2>1 DEF CachesItem, Caches
<1>14. CacheInv(lossy)'
  <2>1. ASSUME NEW t \in Slots, mSlots'[t].mAcquireCalled
        PROVE  /\ mSlots'[t].mGraphicBuffer # NoBuffer
               /\ Caches(t, mSlots[t].mGraphicBuffer, lossy)'
    <3>1. CASE t = s
      <4>1. Tracked(n + 1)
        BY <1>6, <1>7, <1>10, <2>1, <3>1
      <4>2. mSlots[t].mGraphicBuffer = mQueue[n + 1].mGraphicBuffer
        BY <1>4, <3>1, <4>1 DEF Tracked, stillTracking
      <4> QED BY <1>2, <1>3, <1>6, <1>13, <3>1, <4>2 DEF Caches
    <3>2. CASE t # s
      <4>1. mSlots[t].mAcquireCalled /\ mSlots'[t].mGraphicBuffer = mSlots[t].mGraphicBuffer
        BY <1>6, <1>7, <2>1, <3>2
      <4> QED BY <1>13, <3>2, <4>1 DEF PromisesInv, CacheInv, Caches
    <3> QED BY <3>1, <3>2
  <2>2. ASSUME NEW i \in Indices', mQueue'[i].mAcquireCalled
        PROVE  Caches(mQueue[i].mSlot, mQueue[i].mGraphicBuffer, lossy)'
    <3>1. PICK j \in Indices : j = n + 1 + i /\ mQueue'[i] = mQueue[j]
      BY <1>2
    <3>2. mQueue[j].mSlot # s /\ mQueue[j].mSlot \in Slots
      BY <1>3, <1>11, <2>2, <3>1
    <3>3. Caches(mQueue[j].mSlot, mQueue[j].mGraphicBuffer, lossy)
      BY <2>2, <3>1 DEF PromisesInv, CacheInv
    <3> QED BY <1>13, <3>1, <3>2, <3>3 DEF Caches
  <2>3. ASSUME NEW t \in SlotsIn(mSlots, {"ACQUIRED"})'
        PROVE  /\ mSlots'[t].mAcquireCalled
               /\ \/ cbSlots'[t].mFrameNumber = mSlots'[t].mFrameNumber
                  \/ lossy /\ cbSlots'[t].mGraphicBuffer = NoBuffer
    <3>1. t \in Slots /\ mSlots'[t].mBufferState = "ACQUIRED"
      BY DEF SlotsIn
    <3>2. CASE TakenFrom(n, t)
      <4>1. t = s /\ Tracked(n + 1) /\ mSlots'[t].mAcquireCalled
        BY <1>6, <1>7, <3>1, <3>2
      <4>2. mSlots[s].mFrameNumber = mQueue[n + 1].mFrameNumber
        BY <1>2, <1>4, <1>5, <4>1
      <4>3. mSlots'[s].mFrameNumber = mSlots[s].mFrameNumber
        BY <1>6
      <4> QED BY <1>13, <4>1, <4>2, <4>3
    <3>3. CASE ~TakenFrom(n, t)
      <4>1. mSlots'[t] = mSlots[t] /\ mSlots[t].mBufferState = "ACQUIRED"
        BY <1>6, <3>1, <3>3
      <4>2. /\ mSlots[t].mAcquireCalled
            /\ \/ cbSlots[t].mFrameNumber = mSlots[t].mFrameNumber
               \/ lossy /\ cbSlots[t].mGraphicBuffer = NoBuffer
        BY <3>1, <4>1 DEF PromisesInv, CacheInv, SlotsIn
      <4>3. t # s
        BY <1>10, <4>1, <4>2
      <4> QED BY <1>13, <3>1, <4>1, <4>2, <4>3
    <3> QED BY <3>2, <3>3
  <2> QED BY <2>1, <2>2, <2>3 DEF CacheInv
<1> QED BY <1>9, <1>12, <1>14 DEF PromisesInv
-----------------------------------------------------------------------------
(* What the consumer's steps keep of the queue, although it does not give  *)
(* back every handle it gives up.                                          *)

(* What BufferQueueProofs and BufferOwnershipProofs show of the queue.     *)
BaseInv == OrderInv /\ OwnersInv /\ HandsInv

(* The modes of the queue under a Surface that disconnects between its     *)
(* calls: what the theorems about consumers are about.                     *)
SurfacesProduce ==
  NeverMixed /\ ~ProducerAttaches /\ ~ConcurrentDisconnect /\ ~ReattachQueued

(* A producer's step.                                                      *)
LEMMA ProducerKeepsBase ==
  ASSUME SurfacesProduce, BaseInv, NEW p \in Producers, ProducerStep(p),
         UNCHANGED lastAcquired
  PROVE  BaseInv'
<1>1. TypeOK /\ NeverMixed /\ ~ConcurrentDisconnect /\ ~ReattachQueued
  BY DEF BaseInv, OrderInv, SurfacesProduce
<1>2. TypeOK'
  BY <1>1, ProducerType
<1>3. OrderInv'
  BY <1>1, <1>2, ProducerOrder, OrderKept DEF BaseInv
<1>4. OwnersInv' /\ HandsInv'
  BY <1>1, ProducerKeepsOwners, ProducerKeepsHands DEF BaseInv
<1> QED BY <1>3, <1>4 DEF BaseInv

(* The consumer's calls of acquireBuffer, connect and disconnect.          *)
LEMMA CallsKeepBase ==
  ASSUME SurfacesProduce, BaseInv, acquireBuffer \/ consumerConnect \/ consumerDisconnect
  PROVE  BaseInv'
<1>1. TypeOK /\ NeverMixed
  BY DEF BaseInv, OrderInv, SurfacesProduce
<1>2. ConsumerStep
  BY DEF ConsumerStep, ConsumerConfigure
<1>3. TypeOK'
  BY <1>1, <1>2, ConsumerType
<1>4. OrderInv'
  BY <1>1, <1>2, <1>3, ConsumerOrder, OrderKept DEF BaseInv
<1>5. OwnersInv'
  BY <1>1, AcquireKeepsOwners, LeaveKeepsOwners, OthersKeepOwners DEF BaseInv
<1>6. HandsInv'
  BY <1>1, AcquireKeepsHands, LeaveKeepsHands, OthersKeepHands DEF BaseInv
<1> QED BY <1>4, <1>5, <1>6 DEF BaseInv

(* releaseBuffer, slot by slot.                                            *)
Released(s, frame) ==
  /\ \A t \in Slots :
       /\ mSlots'[t].mGraphicBuffer = mSlots[t].mGraphicBuffer
       /\ mSlots'[t].mFrameNumber = mSlots[t].mFrameNumber
       /\ mSlots'[t].mRequestBufferCalled = mSlots[t].mRequestBufferCalled
       /\ mSlots'[t].mAcquireCalled = mSlots[t].mAcquireCalled
       /\ \/ mSlots'[t].mBufferState = mSlots[t].mBufferState
          \/ /\ t = s /\ mSlots[s].mFrameNumber = frame
             /\ mSlots[s].mBufferState = "ACQUIRED" /\ mSlots'[s].mBufferState = "FREE"
  /\ ReleaseAnswer(s, frame) = "NO_ERROR" => mSlots'[s].mBufferState = "FREE"
  /\ \A q \in Producers : Rests(q)

(* Every releaseBuffer is such a step.                                     *)
LEMMA ReleaseFacts ==
  ASSUME TypeOK, NEW s \in Slots, NEW frame, ReleaseSlot(s, frame)
  PROVE  /\ Released(s, frame)
         /\ mSlots' \in [Slots -> BufferSlot] /\ call' \in [Producers -> Call]
<1>1. \A q \in Producers : Rests(q)
  BY CallRests DEF ReleaseSlot
<1>2. call' \in [Producers -> Call]
  BY BroadcastType DEF ReleaseSlot, WakeProducers, TypeOK, ProducerTypeOK
<1>3. mSlots[s] \in BufferSlot /\ mSlots \in [Slots -> BufferSlot]
  BY DEF TypeOK, CoreTypeOK
<1>4. mSlots' \in [Slots -> BufferSlot]
  BY <1>3, AcquiredSlotType DEF ReleaseSlot
<1>5. CASE ReleaseAnswer(s, frame) = "NO_ERROR"
  <2>1. mSlots' = [mSlots EXCEPT ![s].mBufferState = "FREE"]
    BY <1>5 DEF ReleaseSlot
  <2>2. mSlots[s].mBufferState = "ACQUIRED" /\ mSlots[s].mFrameNumber = frame
    BY <1>5 DEF ReleaseAnswer
  <2> QED BY <1>1, <1>2, <1>3, <1>4, <2>1, <2>2 DEF Released, BufferSlot
<1>6. CASE ReleaseAnswer(s, frame) # "NO_ERROR"
  <2>1. \/ mSlots' = [mSlots EXCEPT ![s].mNeedsCleanupOnRelease = FALSE]
        \/ mSlots' = mSlots
    BY <1>6 DEF ReleaseSlot
  <2> QED BY <1>1, <1>2, <1>3, <1>4, <1>6, <2>1 DEF Released, BufferSlot
<1> QED BY <1>5, <1>6

(* A step that only gives up handles ...                                   *)
GivesUp ==
  /\ acquired' \subseteq acquired
  /\ UNCHANGED <<mQueue, connectionVars, limitVars, mBufferHasBeenQueued, mFrameCounter,
                 mIsAllocating, clientVars, lastAcquired>>

(* ... and releases at most a slot whose handle is among them.             *)
LetsGo(s, frame) ==
  /\ ReleaseSlot(s, frame)
  /\ mSlots[s].mFrameNumber = frame /\ mSlots[s].mBufferState = "ACQUIRED" =>
       \A g \in acquired' : g.buffer # mSlots[s].mGraphicBuffer

(* Such a step takes no slot from a handle that is kept.                   *)
LEMMA GivingUpKeepsBase ==
  ASSUME NeverMixed, BaseInv, GivesUp,
         \/ \E s \in Slots : \E frame : LetsGo(s, frame)
         \/ UNCHANGED <<mSlots, call>>
  PROVE  /\ BaseInv'
         /\ \A t \in Slots : Sheds(t)
         /\ \A q \in Producers : Rests(q)
<1>1. /\ TypeOK /\ acquired' \subseteq acquired
      /\ UNCHANGED <<mQueue, mFrameCounter, mIsAbandoned, held>>
  BY DEF BaseInv, OrderInv, GivesUp, connectionVars, clientVars
<1>2. PICK s, frame :
        /\ s \in Slots
        /\ \/ UNCHANGED <<mSlots, call>>
           \/ Released(s, frame) /\ LetsGo(s, frame)
  <2>1. \E s \in Slots : TRUE
    BY CoreAssumption DEF Slots
  <2> QED BY <1>1, <2>1, ReleaseFacts DEF LetsGo
<1>3. mSlots' \in [Slots -> BufferSlot] /\ call' \in [Producers -> Call]
  BY <1>1, ReleaseFacts DEF LetsGo, TypeOK, CoreTypeOK, ProducerTypeOK
<1>4. TypeOK'
  BY <1>1, <1>3 DEF GivesUp, TypeOK, CoreTypeOK, ProducerTypeOK,
     ConsumerTypeOK, connectionVars, limitVars, clientVars, ticketVars
<1>5. KeepsOrder
  BY DEF GivesUp, KeepsOrder, orderVars, connectionVars
<1>6. OrderInv'
  BY <1>4, <1>5, OrderKept DEF BaseInv
<1>7. \A q \in Producers : Rests(q)
  BY <1>1, <1>2, CallRests DEF Released
<1>8. \A t \in Slots :
        /\ mSlots'[t].mGraphicBuffer = mSlots[t].mGraphicBuffer
        /\ mSlots'[t].mFrameNumber = mSlots[t].mFrameNumber
        /\ mSlots'[t].mRequestBufferCalled = mSlots[t].mRequestBufferCalled
        /\ mSlots'[t].mAcquireCalled = mSlots[t].mAcquireCalled
        /\ \/ mSlots'[t].mBufferState = mSlots[t].mBufferState
           \/ /\ mSlots[t].mBufferState = "ACQUIRED" /\ mSlots'[t].mBufferState = "FREE"
              /\ \A g \in acquired' : g.buffer # mSlots[t].mGraphicBuffer
  BY <1>2 DEF Released, LetsGo
<1>9. OwnersInv'
  BY <1>1, <1>7, <1>8, StepKeepsOwners DEF BaseInv
<1>10. HandsInv'
  BY <1>1, <1>7, <1>8, OldKeepsHands DEF BaseInv
<1>11. ASSUME NEW t \in Slots PROVE Sheds(t)
  BY <1>8, ShedsFacts DEF BaseInv
<1> QED BY <1>6, <1>7, <1>9, <1>10, <1>11 DEF BaseInv
-----------------------------------------------------------------------------
(* ConsumerBase's own steps.                                               *)

(* The handle the user gets of the item that is taken.                     *)
Got(n) ==
  [slot |-> mQueue[n + 1].mSlot, buffer |-> cbSlots'[mQueue[n + 1].mSlot].mGraphicBuffer,
   frame |-> mQueue[n + 1].mFrameNumber]

(* The item acquireBuffer hands out is the one it takes.                   *)
LEMMA AcquiredIsTaken ==
  ASSUME TypeOK, NEW n \in 0 .. Len(mQueue) - 1, Acquires(n)
  PROVE  Acquired = mQueue[n + 1] /\ n + 1 \in Indices
<1>1. mQueue \in Seq(BufferItem) /\ mQueue' = SubSeq(mQueue, n + 2, Len(mQueue))
  BY TypeFacts DEF Acquires
<1>2. Len(mQueue) \in Nat /\ n + 1 \in 1 .. Len(mQueue)
  BY <1>1
<1>3. Len(mQueue') = Len(mQueue) - (n + 1)
  BY <1>1, <1>2
<1>4. \A l, m \in Nat : l - (l - m) = m
  OBVIOUS
<1>5. Len(mQueue) - Len(mQueue') = n + 1
  BY <1>2, <1>3, <1>4
<1> QED BY <1>2, <1>5 DEF Acquired, Indices

(* acquireBufferLocked takes an item, and the cache has what it came with. *)
LEMMA CbAcquireFacts ==
  ASSUME TypeOK, CbTypeOK, acquireBufferLocked
  PROVE  /\ acquireBuffer /\ CbTypeOK'
         /\ \E n \in 0 .. Len(mQueue) - 1 :
              Acquires(n) /\ CachesItem(n) /\ using' = using \cup {Got(n)}
<1>1. PICK n \in 0 .. Len(mQueue) - 1 : Acquires(n)
  BY AcquireFacts DEF acquireBufferLocked
<1>2. Acquired = mQueue[n + 1] /\ n + 1 \in Indices
  BY <1>1, AcquiredIsTaken
<1>3. PICK item \in BufferItem : item = mQueue[n + 1] /\ item.mSlot \in Slots
  BY <1>2, TypeFacts
<1>4. PICK s \in Slots : s = item.mSlot
  BY <1>3
<1>5. PICK buffer \in Buffers \cup {NoBuffer} :
        buffer = IF item.mAcquireCalled THEN cbSlots[s].mGraphicBuffer
                                        ELSE item.mGraphicBuffer
  BY DEF CbTypeOK, CbSlot, BufferItem
<1>6. cbSlots' = [cbSlots EXCEPT ![s] = [mGraphicBuffer |-> buffer,
                                         mFrameNumber |-> item.mFrameNumber]]
  BY <1>2, <1>3, <1>4, <1>5 DEF acquireBufferLocked
<1>7. using' = using \cup {[slot |-> s, buffer |-> buffer, frame |-> item.mFrameNumber]}
  BY <1>2, <1>3, <1>4, <1>5 DEF acquireBufferLocked
<1>8. /\ cbSlots'[s].mGraphicBuffer = buffer /\ cbSlots'[s].mFrameNumber = item.mFrameNumber
      /\ \A t \in Slots \ {s} : cbSlots'[t] = cbSlots[t]
  BY <1>6 DEF CbTypeOK
<1>9. CachesItem(n) /\ using' = using \cup {Got(n)}
  BY <1>3, <1>4, <1>5, <1>7, <1>8 DEF CachesItem, Got
<1>10. CbTypeOK'
  <2>1. [mGraphicBuffer |-> buffer, mFrameNumber |-> item.mFrameNumber] \in CbSlot
    BY DEF CbSlot, BufferItem
  <2>2. [slot |-> s, buffer |-> buffer, frame |-> item.mFrameNumber] \in Handle
    BY DEF Handle, BufferItem
  <2> QED BY <1>6, <1>7, <2>1, <2>2 DEF CbTypeOK
<1> QED BY <1>1, <1>9, <1>10 DEF acquireBufferLocked

(* What is tracked and in the user's hands is released, or nothing counts  *)
(* on it any more.                                                         *)
LEMMA HeldIsReleased ==
  ASSUME TypeOK, OwnersInv, HandsInv, PromisesInv(FALSE), NEW h \in acquired,
         cbStillTracking(h.slot, h.buffer)
  PROVE  /\ h.slot \in Slots
         /\ mSlots[h.slot].mAcquireCalled =>
              /\ mSlots[h.slot].mBufferState = "ACQUIRED"
              /\ mSlots[h.slot].mFrameNumber = h.frame
              /\ mSlots[h.slot].mGraphicBuffer = h.buffer
              /\ ReleaseAnswer(h.slot, h.frame) = "NO_ERROR"
         /\ \A i \in Indices : mQueue[i].mAcquireCalled => mQueue[i].mSlot # h.slot
<1>1. PICK s \in Slots : s = h.slot
  BY TypeFacts DEF Handle
<1>2. cbSlots[s].mGraphicBuffer = h.buffer /\ h.buffer # NoBuffer
  BY <1>1 DEF cbStillTracking
<1>3. ASSUME mSlots[s].mAcquireCalled
      PROVE  /\ mSlots[s].mBufferState = "ACQUIRED" /\ mSlots[s].mFrameNumber = h.frame
             /\ mSlots[s].mGraphicBuffer = h.buffer
             /\ ReleaseAnswer(s, h.frame) = "NO_ERROR"
  <2>1. mSlots[s].mGraphicBuffer = h.buffer
    BY <1>2, <1>3 DEF PromisesInv, CacheInv, Caches
  <2>2. mSlots[s].mBufferState = "ACQUIRED" /\ mSlots[s].mFrameNumber = h.frame
    BY <2>1 DEF HandsInv, AcquiredOnce
  <2>3. \A i \in Indices : mQueue[i].mSlot # s
    BY <1>3, <2>2 DEF PromisesInv, ArrivalInv, OwnersInv, TrackedItemsAreQueued, Indices
  <2> QED BY <2>1, <2>2, <2>3 DEF ReleaseAnswer, Indices
<1>4. ASSUME NEW i \in Indices, mQueue[i].mAcquireCalled, mQueue[i].mSlot = s
      PROVE  FALSE
  <2>1. mQueue[i].mGraphicBuffer = h.buffer
    BY <1>2, <1>4 DEF PromisesInv, CacheInv, Caches
  <2> QED BY <2>1 DEF HandsInv, AcquiredOnce
<1> QED BY <1>1, <1>3, <1>4

(* What getReleasedBuffers names is not counted on.                        *)
LEMMA ReleasedIsNotCounted ==
  ASSUME NEW s \in Slots, s \in getReleasedBuffers, Sheds(s)
  PROVE  NotCounted(s)
  BY DEF getReleasedBuffers, Sheds, NotCounted, Indices

(* releaseBufferLocked: a slot that is released loses its handle, and what *)
(* is dropped from the cache is not counted on, or may be lost.            *)
LEMMA CbReleaseKeeps ==
  ASSUME NeverMixed, NEW lossy \in BOOLEAN, BaseInv, PromisesInv(lossy), CbTypeOK,
         NEW s \in Slots, NEW buffer, NEW h, releaseBufferLocked(s, buffer, h),
         cbStillTracking(s, buffer) =>
           /\ /\ mSlots[s].mFrameNumber = cbSlots[s].mFrameNumber
              /\ mSlots[s].mBufferState = "ACQUIRED"
              => h.slot = s /\ h.frame = mSlots[s].mFrameNumber
           /\ \/ lossy \/ s \in getReleasedBuffers
              \/ ReleaseAnswer(s, cbSlots[s].mFrameNumber) # "STALE_BUFFER_SLOT"
  PROVE  /\ BaseInv' /\ PromisesInv(lossy)' /\ CbTypeOK'
         /\ \A t \in Slots : Sheds(t)
         /\ UNCHANGED <<mQueue, mIsAbandoned, lastAcquired>>
         /\ cbStillTracking(s, buffer) => ReleaseSlot(s, cbSlots[s].mFrameNumber)
<1>1. /\ TypeOK /\ OwnersInv /\ acquired' \subseteq acquired
      /\ UNCHANGED <<mQueue, mIsAbandoned, lastAcquired>> /\ GivesUp
      /\ cbStillTracking(s, buffer) => ReleaseSlot(s, cbSlots[s].mFrameNumber)
      /\ ~cbStillTracking(s, buffer) => UNCHANGED <<mSlots, call>>
  BY DEF releaseBufferLocked, BaseInv, OrderInv, GivesUp, connectionVars
<1>2. ASSUME cbStillTracking(s, buffer), NEW g \in acquired',
             mSlots[s].mFrameNumber = cbSlots[s].mFrameNumber,
             mSlots[s].mBufferState = "ACQUIRED", g.buffer = mSlots[s].mGraphicBuffer
      PROVE  FALSE
  <2>1. g \in acquired /\ (g.slot # h.slot \/ g.frame # h.frame)
    BY <1>2 DEF releaseBufferLocked
  <2>2. g.slot = s /\ g.frame = mSlots[s].mFrameNumber
    BY <1>2, <2>1 DEF BaseInv, HandsInv, AcquiredOnce
  <2> QED BY <1>2, <2>1, <2>2
<1>3. cbStillTracking(s, buffer) => LetsGo(s, cbSlots[s].mFrameNumber)
  BY <1>1, <1>2 DEF LetsGo
<1>4. BaseInv' /\ (\A t \in Slots : Sheds(t)) /\ \A q \in Producers : Rests(q)
  BY <1>1, <1>3, GivingUpKeepsBase
<1>5. \A q \in Producers : BeginsClean(q)
  BY <1>4, RestBeginsClean DEF PromisesInv
<1>6. \/ cbSlots' = cbSlots
      \/ /\ cbSlots' = [cbSlots EXCEPT ![s] = EmptyCbSlot]
         /\ lossy \/ s \in getReleasedBuffers
  BY DEF releaseBufferLocked
<1>7. EmptyCbSlot \in CbSlot /\ EmptyCbSlot.mGraphicBuffer = NoBuffer
  BY DEF EmptyCbSlot, CbSlot
<1>8. ASSUME NEW t \in Slots
      PROVE  \/ cbSlots'[t] = cbSlots[t]
             \/ lossy /\ cbSlots'[t].mGraphicBuffer = NoBuffer
             \/ NotCounted(t)
  BY <1>4, <1>6, <1>7, ReleasedIsNotCounted DEF CbTypeOK
<1>9. PromisesInv(lossy)'
  BY <1>1, <1>4, <1>5, <1>8, SheddingKeepsPromises
<1>10. CbTypeOK'
  BY <1>6, <1>7 DEF CbTypeOK, releaseBufferLocked
<1> QED BY <1>1, <1>4, <1>9, <1>10

(* The user releases what it got, or what it got without its buffer.       *)
LEMMA UserReleaseKeeps ==
  ASSUME NeverMixed, BaseInv, PromisesInv(FALSE), CbTypeOK, NEW h \in using,
         h.buffer = NoBuffer \/ h \in acquired, releaseBufferLocked(h.slot, h.buffer, h)
  PROVE  /\ BaseInv' /\ PromisesInv(FALSE)' /\ CbTypeOK'
         /\ \A t \in Slots : Sheds(t)
         /\ UNCHANGED <<mQueue, mIsAbandoned, lastAcquired>>
         /\ cbStillTracking(h.slot, h.buffer) =>
              ReleaseSlot(h.slot, cbSlots[h.slot].mFrameNumber)
<1>1. TypeOK /\ OwnersInv /\ HandsInv /\ PromisesInv(FALSE)
  BY DEF BaseInv, OrderInv
<1>2. h.slot \in Slots
  BY DEF CbTypeOK, Handle
<1>3. CASE cbStillTracking(h.slot, h.buffer)
  <2>1. h \in acquired
    BY <1>3 DEF cbStillTracking
  <2>2. CASE mSlots[h.slot].mAcquireCalled
    <3>1. /\ mSlots[h.slot].mBufferState = "ACQUIRED"
          /\ mSlots[h.slot].mFrameNumber = h.frame
          /\ ReleaseAnswer(h.slot, h.frame) = "NO_ERROR"
      BY <1>1, <1>3, <2>1, <2>2, HeldIsReleased
    <3>2. cbSlots[h.slot].mFrameNumber = h.frame
      BY <1>1, <1>2, <3>1 DEF PromisesInv, CacheInv, SlotsIn
    <3>3. ReleaseAnswer(h.slot, cbSlots[h.slot].mFrameNumber) # "STALE_BUFFER_SLOT"
      BY <3>1, <3>2
    <3> QED BY <1>1, <1>2, <3>1, <3>2, <3>3, CbReleaseKeeps
  <2>3. CASE ~mSlots[h.slot].mAcquireCalled
    <3>1. h.slot \in getReleasedBuffers
      BY <1>1, <1>2, <1>3, <2>1, <2>3, HeldIsReleased DEF getReleasedBuffers, Indices
    <3>2. mSlots[h.slot].mBufferState # "ACQUIRED"
      BY <1>2, <2>3 DEF PromisesInv, CacheInv, SlotsIn
    <3> QED BY <1>1, <1>2, <3>1, <3>2, CbReleaseKeeps
  <2> QED BY <2>2, <2>3
<1>4. CASE ~cbStillTracking(h.slot, h.buffer)
  BY <1>1, <1>2, <1>4, CbReleaseKeeps
<1> QED BY <1>3, <1>4

(* Handles may be given up without a call of the queue.                    *)
LEMMA ForgettingKeeps ==
  ASSUME NeverMixed, NEW lossy \in BOOLEAN, BaseInv, PromisesInv(lossy), CbTypeOK,
         GivesUp, UNCHANGED <<mSlots, call, cbSlots>>, using' \subseteq using
  PROVE  /\ BaseInv' /\ PromisesInv(lossy)' /\ CbTypeOK'
         /\ \A s \in Slots : Sheds(s)
<1>1. TypeOK /\ OwnersInv /\ UNCHANGED <<mQueue, mIsAbandoned>>
  BY DEF BaseInv, OrderInv, GivesUp, connectionVars
<1>2. BaseInv' /\ (\A s \in Slots : Sheds(s)) /\ \A q \in Producers : Rests(q)
  BY <1>1, GivingUpKeepsBase
<1>3. \A q \in Producers : BeginsClean(q)
  BY <1>2, RestBeginsClean DEF PromisesInv
<1>4. cbSlots' = cbSlots
  OBVIOUS
<1>5. PromisesInv(lossy)'
  BY <1>1, <1>2, <1>3, <1>4, SheddingKeepsPromises
<1> QED BY <1>2, <1>5 DEF CbTypeOK

(* So may nothing happen.                                                  *)
LEMMA StutterKeeps ==
  ASSUME NeverMixed, NEW lossy \in BOOLEAN, BaseInv, PromisesInv(lossy), CbTypeOK,
         UNCHANGED allVars
  PROVE  /\ BaseInv' /\ PromisesInv(lossy)' /\ CbTypeOK'
         /\ \A s \in Slots : Sheds(s)
<1>1. GivesUp /\ UNCHANGED <<mSlots, call, cbSlots>> /\ UNCHANGED using
  BY DEF allVars, vars, coreVars, producerVars, cbVars, clientVars, ticketVars, GivesUp
<1> QED BY <1>1, ForgettingKeeps

(* What happens to the consumer without a call of its user.                *)
Happens ==
  \/ \E p \in Producers : ProducerCall(p) /\ UNCHANGED <<lastAcquired, cbVars>>
  \/ \E p \in Producers : onBuffersReleased(p)
  \/ consumerConnect /\ UNCHANGED cbVars
  \/ abandon

(* All of it leaves what the user has to the user, and acquires no slot.   *)
LEMMA HappeningKeeps ==
  ASSUME SurfacesProduce, NEW lossy \in BOOLEAN, BaseInv, PromisesInv(lossy), CbTypeOK, Happens
  PROVE  /\ BaseInv' /\ PromisesInv(lossy)' /\ CbTypeOK'
         /\ \A s \in Slots : Sheds(s)
         /\ UNCHANGED <<acquired, using, lastAcquired>>
<1>1. TypeOK /\ OwnersInv /\ OrderInv /\ NeverMixed /\ ~ProducerAttaches /\ NobodyAttaches
      /\ ArrivalInv
  BY DEF BaseInv, OrderInv, SurfacesProduce, PromisesInv
<1>2. ASSUME NEW p \in Producers, ProducerCall(p), UNCHANGED <<lastAcquired, cbVars>>
      PROVE  /\ BaseInv' /\ PromisesInv(lossy)' /\ \A s \in Slots : Sheds(s)
             /\ UNCHANGED acquired
  <2>1. BaseInv'
    BY <1>2, ProducerKeepsBase DEF ProducerStep
  <2>2. CASE queueBuffer(p)
    <3>1. PICK s \in held : \E item : Puts(s, item)
      BY <1>1, <2>2, QueueFactsOf
    <3>2. ASSUME NEW t \in Slots PROVE Sheds(t)
      <4>1. /\ mSlots'[t].mGraphicBuffer = mSlots[t].mGraphicBuffer
            /\ mSlots'[t].mAcquireCalled = mSlots[t].mAcquireCalled
            /\ mSlots'[t].mBufferState # "ACQUIRED" \/ mSlots'[t] = mSlots[t]
        BY <3>1 DEF Puts
      <4> QED BY <1>1, <4>1, ShedsFacts
    <3>3. PromisesInv(lossy)'
      BY <1>1, <1>2, <2>2, QueueKeepsPromises DEF cbVars
    <3>4. UNCHANGED acquired
      BY <1>1, <2>2, QueueFactsOf
    <3> QED BY <2>1, <3>2, <3>3, <3>4
  <2>3. CASE ~queueBuffer(p)
    <3>1. /\ UNCHANGED <<mQueue, mIsAbandoned, acquired>>
          /\ (\A s \in Slots : Sheds(s)) /\ \A q \in Producers : BeginsClean(q)
      BY <1>1, <1>2, <2>3, ProducerSheds DEF ProducerStep
    <3>2. cbSlots' = cbSlots
      BY <1>2 DEF cbVars
    <3>3. PromisesInv(lossy)'
      BY <1>1, <3>1, <3>2, SheddingKeepsPromises
    <3> QED BY <2>1, <3>1, <3>3
  <2> QED BY <2>2, <2>3
<1>3. ASSUME NEW p \in Producers, onBuffersReleased(p)
      PROVE  /\ BaseInv' /\ PromisesInv(lossy)' /\ \A s \in Slots : Sheds(s)
             /\ UNCHANGED acquired
  <2>1. buffersReleasedCallback(p) /\ UNCHANGED lastAcquired /\ UNCHANGED mSlots
    BY <1>3 DEF onBuffersReleased, buffersReleasedCallback, coreVars
  <2>2. BaseInv'
    BY <2>1, ProducerKeepsBase DEF ProducerStep
  <2>3. /\ UNCHANGED <<mQueue, mIsAbandoned, acquired>>
        /\ \A q \in Producers : BeginsClean(q)
    <3>1. Return(p) /\ UNCHANGED <<mQueue, mIsAbandoned, acquired>>
      BY <2>1 DEF buffersReleasedCallback, coreVars, connectionVars
    <3> QED BY <1>1, <3>1, CallRests, RestBeginsClean
  <2>4. \A s \in Slots : Sheds(s)
    BY <1>1, <2>1, ShedsFacts
  <2>5. ASSUME NEW s \in Slots
        PROVE  cbSlots'[s] = cbSlots[s] \/ NotCounted(s)
    BY <1>3, <2>4, ReleasedIsNotCounted DEF onBuffersReleased
  <2>6. PromisesInv(lossy)'
    BY <1>1, <2>3, <2>4, <2>5, SheddingKeepsPromises
  <2> QED BY <2>2, <2>3, <2>4, <2>6
<1>4. ASSUME consumerConnect, UNCHANGED cbVars
      PROVE  /\ BaseInv' /\ PromisesInv(lossy)' /\ \A s \in Slots : Sheds(s)
             /\ UNCHANGED acquired
  <2>1. /\ UNCHANGED <<mSlots, mQueue, mIsAbandoned, acquired, call>>
        /\ cbSlots' = cbSlots
    BY <1>4 DEF consumerConnect, producerVars, cbVars
  <2>2. (\A s \in Slots : Sheds(s)) /\ \A q \in Producers : BeginsClean(q)
    BY <1>1, <2>1, ShedsFacts, CallRests, RestBeginsClean
  <2>3. PromisesInv(lossy)'
    BY <1>1, <2>1, <2>2, SheddingKeepsPromises
  <2>4. BaseInv'
    BY <1>4, CallsKeepBase
  <2> QED BY <2>1, <2>2, <2>3, <2>4
<1>5. ASSUME abandon
      PROVE  /\ BaseInv' /\ PromisesInv(lossy)' /\ \A s \in Slots : Sheds(s)
             /\ UNCHANGED acquired
  <2>1. consumerDisconnect /\ freeAllBuffersLocked /\ UNCHANGED <<acquired, lastAcquired>>
    BY <1>5 DEF abandon, consumerDisconnect
  <2>2. ASSUME NEW s \in Slots PROVE Sheds(s)
    <3>1. mSlots'[s] = FreedSlot(mSlots[s]) /\ mSlots[s] \in BufferSlot
      BY <1>1, <2>1, TypeFacts DEF freeAllBuffersLocked
    <3>2. /\ mSlots'[s].mBufferState = "FREE" /\ mSlots'[s].mGraphicBuffer = NoBuffer
          /\ ~mSlots'[s].mAcquireCalled
      BY <3>1 DEF FreedSlot, BufferSlot
    <3> QED BY <1>1, <3>2, ShedsFacts
  <2>3. PromisesInv(lossy)'
    BY <1>1, <2>1, LeavingKeepsPromises
  <2>4. BaseInv'
    BY <2>1, CallsKeepBase
  <2> QED BY <2>1, <2>2, <2>3, <2>4
<1>6. UNCHANGED <<using, lastAcquired>>
  BY DEF Happens, cbVars, onBuffersReleased, abandon, consumerConnect, consumerDisconnect
<1>7. CbTypeOK'
  <2>1. EmptyCbSlot \in CbSlot
    BY DEF EmptyCbSlot, CbSlot
  <2>2. \/ cbSlots' = cbSlots
        \/ /\ DOMAIN cbSlots' = Slots
           /\ \A s \in Slots : cbSlots'[s] \in {cbSlots[s], EmptyCbSlot}
           /\ cbSlots' = [s \in Slots |-> cbSlots'[s]]
    BY DEF Happens, cbVars, onBuffersReleased, abandon
  <2> QED BY <1>6, <2>1, <2>2 DEF CbTypeOK
<1> QED BY <1>2, <1>3, <1>4, <1>5, <1>6, <1>7 DEF Happens

(* acquireBufferLocked keeps what is common to all consumers.              *)
LEMMA CbAcquireKeeps ==
  ASSUME SurfacesProduce, NEW lossy \in BOOLEAN, BaseInv, PromisesInv(lossy), acquireBuffer,
         NEW n \in 0 .. Len(mQueue) - 1, Acquires(n), CachesItem(n)
  PROVE  BaseInv' /\ PromisesInv(lossy)'
<1>1. TypeOK /\ OwnersInv
  BY DEF BaseInv, OrderInv
<1> QED BY <1>1, CallsKeepBase, AcquireKeepsPromises
-----------------------------------------------------------------------------
(* The cache serves the user of ConsumerBase.                              *)

(* In the beginning nothing is promised.                                   *)
LEMMA InitPromises ==
  ASSUME CbInit, NEW lossy \in BOOLEAN
  PROVE  BaseInv /\ CbTypeOK /\ PromisesInv(lossy)
<1>1. BaseInv
  BY InitType, InitOrder, InitOwners, InitHands DEF CbInit, BaseInv
<1>2. CbTypeOK
  BY DEF CbInit, CbTypeOK, CbSlot, EmptyCbSlot
<1>3. /\ \A s \in Slots : mSlots[s].mBufferState = "FREE" /\ ~mSlots[s].mAcquireCalled
      /\ \A p \in Producers : call[p].op = "idle" /\ mQueue = << >>
  BY DEF CbInit, Init, CoreInit, ProducerInit, EmptySlot, Idle
<1>4. mQueue = << >> /\ Indices = {}
  BY DEF CbInit, Init, CoreInit, Indices
<1>5. PromisesInv(lossy)
  BY <1>3, <1>4 DEF PromisesInv, NobodyAttaches, Asleep, ArrivalInv, CacheInv, SlotsIn
<1> QED BY <1>1, <1>2, <1>5

(* A step that sheds, and takes no handle, keeps the handles of slots.     *)
LEMMA SheddingKeepsUser ==
  ASSUME UserInv, \A s \in Slots : Sheds(s), UNCHANGED <<acquired, using>>
  PROVE  UserInv'
<1>1. ASSUME NEW s \in SlotsIn(mSlots, {"ACQUIRED"})'
      PROVE  \E h \in acquired' : /\ h.slot = s
                                  /\ h.frame = mSlots'[s].mFrameNumber
                                  /\ h.buffer = mSlots'[s].mGraphicBuffer
  <2>1. s \in Slots /\ mSlots'[s].mBufferState = "ACQUIRED"
    BY DEF SlotsIn
  <2>2. /\ mSlots[s].mBufferState = "ACQUIRED"
        /\ mSlots'[s].mFrameNumber = mSlots[s].mFrameNumber
        /\ mSlots'[s].mGraphicBuffer = mSlots[s].mGraphicBuffer
    BY <2>1 DEF Sheds
  <2>3. PICK h \in acquired : /\ h.slot = s /\ h.frame = mSlots[s].mFrameNumber
                              /\ h.buffer = mSlots[s].mGraphicBuffer
    BY <2>1, <2>2 DEF UserInv, AcquiredSlotsHaveHandles, SlotsIn
  <2> QED BY <2>2, <2>3
<1> QED BY <1>1 DEF UserInv, UsesQueuedBuffer, AcquiredSlotsHaveHandles

(* The user gets the buffer that was queued.                               *)
LEMMA AcquireKeepsUser ==
  ASSUME BaseInv, PromisesInv(FALSE), UserInv,
         NEW n \in 0 .. Len(mQueue) - 1, Acquires(n), CachesItem(n),
         using' = using \cup {Got(n)}
  PROVE  UserInv'
<1>1. n + 1 \in Indices /\ mQueue[n + 1].mSlot \in Slots
  BY TypeFacts DEF Indices, BaseInv, OrderInv
<1>2. PICK item : item = mQueue[n + 1]
  OBVIOUS
<1>3. cbSlots'[item.mSlot].mGraphicBuffer = item.mGraphicBuffer
  BY <1>1, <1>2 DEF CachesItem, PromisesInv, CacheInv, Caches
<1>4. PICK h : /\ h = Got(n)
               /\ h = [slot |-> item.mSlot, frame |-> item.mFrameNumber,
                       buffer |-> item.mGraphicBuffer]
  BY <1>2, <1>3 DEF Got
<1>5. acquired' = acquired \cup {h} /\ using' = using \cup {h}
  BY <1>2, <1>4 DEF Acquires
<1>6. ASSUME NEW s \in SlotsIn(mSlots, {"ACQUIRED"})'
      PROVE  \E g \in acquired' : /\ g.slot = s
                                  /\ g.frame = mSlots'[s].mFrameNumber
                                  /\ g.buffer = mSlots'[s].mGraphicBuffer
  <2>1. s \in Slots /\ mSlots'[s].mBufferState = "ACQUIRED"
    BY DEF SlotsIn
  <2>2. /\ mSlots'[s].mFrameNumber = mSlots[s].mFrameNumber
        /\ mSlots'[s].mGraphicBuffer = mSlots[s].mGraphicBuffer
        /\ TakenFrom(n, s) \/ mSlots'[s] = mSlots[s]
    BY <2>1 DEF Acquires
  <2>3. CASE TakenFrom(n, s)
    <3>1. /\ s = item.mSlot /\ mSlots[s].mGraphicBuffer = item.mGraphicBuffer
          /\ mSlots[s].mFrameNumber = item.mFrameNumber
      BY <1>1, <1>2, <2>3 DEF TakenFrom, Tracked, stillTracking, BaseInv, OwnersInv,
         TrackedItemsAreQueued, Indices
    <3> QED BY <1>4, <1>5, <2>2, <3>1
  <2>4. CASE mSlots'[s] = mSlots[s]
    <3>1. PICK g \in acquired : /\ g.slot = s /\ g.frame = mSlots[s].mFrameNumber
                                /\ g.buffer = mSlots[s].mGraphicBuffer
      BY <2>1, <2>4 DEF UserInv, AcquiredSlotsHaveHandles, SlotsIn
    <3> QED BY <1>5, <2>2, <3>1
  <2> QED BY <2>2, <2>3, <2>4
<1> QED BY <1>5, <1>6 DEF UserInv, UsesQueuedBuffer, AcquiredSlotsHaveHandles

(* What the user gives back of an ACQUIRED slot frees the slot.            *)
LEMMA ReleaseKeepsUser ==
  ASSUME NeverMixed, BaseInv, PromisesInv(FALSE), CbTypeOK, UserInv, NEW h \in using,
         releaseBufferLocked(h.slot, h.buffer, h)
  PROVE  /\ BaseInv' /\ PromisesInv(FALSE)' /\ CbTypeOK' /\ UserInv'
         /\ UNCHANGED <<mQueue, lastAcquired>>
<1>1. h \in acquired /\ using = acquired
  BY DEF UserInv, UsesQueuedBuffer
<1>2. /\ BaseInv' /\ PromisesInv(FALSE)' /\ CbTypeOK' /\ \A t \in Slots : Sheds(t)
      /\ UNCHANGED <<mQueue, lastAcquired>>
      /\ cbStillTracking(h.slot, h.buffer) =>
           ReleaseSlot(h.slot, cbSlots[h.slot].mFrameNumber)
  BY <1>1, UserReleaseKeeps
<1>3. TypeOK /\ OwnersInv /\ HandsInv /\ h.slot \in Slots
  BY DEF BaseInv, OrderInv, CbTypeOK, Handle
<1>4. \A g \in acquired : g.frame = h.frame => g = h
  BY <1>1 DEF BaseInv, HandsInv, AcquiredOnce
<1>5. using' = acquired \ {h} /\ acquired' = acquired \ {h}
  BY <1>1, <1>4 DEF releaseBufferLocked
<1>6. ASSUME NEW s \in SlotsIn(mSlots, {"ACQUIRED"})'
      PROVE  \E g \in acquired' : /\ g.slot = s
                                  /\ g.frame = mSlots'[s].mFrameNumber
                                  /\ g.buffer = mSlots'[s].mGraphicBuffer
  <2>1. s \in Slots /\ mSlots'[s].mBufferState = "ACQUIRED"
    BY DEF SlotsIn
  <2>2. /\ mSlots[s].mBufferState = "ACQUIRED"
        /\ mSlots'[s].mFrameNumber = mSlots[s].mFrameNumber
        /\ mSlots'[s].mGraphicBuffer = mSlots[s].mGraphicBuffer
    BY <1>2, <2>1 DEF Sheds
  <2>3. PICK g \in acquired : /\ g.slot = s /\ g.frame = mSlots[s].mFrameNumber
                              /\ g.buffer = mSlots[s].mGraphicBuffer
    BY <2>1, <2>2 DEF UserInv, AcquiredSlotsHaveHandles, SlotsIn
  <2>4. ASSUME g = h PROVE FALSE
    <3>1. mSlots[s].mAcquireCalled /\ cbSlots[s].mFrameNumber = mSlots[s].mFrameNumber
      BY <2>1, <2>2 DEF PromisesInv, CacheInv, SlotsIn
    <3>2. cbStillTracking(s, h.buffer)
      BY <2>1, <2>3, <2>4, <3>1 DEF PromisesInv, CacheInv, Caches, cbStillTracking
    <3>3. ReleaseAnswer(s, cbSlots[s].mFrameNumber) = "NO_ERROR"
      BY <1>1, <1>3, <2>3, <2>4, <3>1, <3>2, HeldIsReleased
    <3>4. ReleaseSlot(s, cbSlots[s].mFrameNumber)
      BY <1>2, <2>3, <2>4, <3>2
    <3>5. mSlots'[s].mBufferState = "FREE"
      BY <1>3, <2>1, <3>3, <3>4, ReleaseFacts DEF Released
    <3> QED BY <2>1, <3>5
  <2> QED BY <1>5, <2>2, <2>3, <2>4
<1> QED BY <1>2, <1>5, <1>6 DEF UserInv, UsesQueuedBuffer, AcquiredSlotsHaveHandles

(* The inductive invariant of ConsumerBase.                                *)
CbInv == BaseInv /\ CbTypeOK /\ PromisesInv(FALSE) /\ UserInv

(* In the beginning the user has nothing.                                  *)
LEMMA InitCb == CbInit => CbInv
<1> SUFFICES ASSUME CbInit PROVE CbInv
  OBVIOUS
<1>1. using = {} /\ acquired = {} /\ \A s \in Slots : mSlots[s].mBufferState = "FREE"
  BY DEF CbInit, Init, CoreInit, EmptySlot
<1>2. UserInv
  BY <1>1 DEF UserInv, UsesQueuedBuffer, AcquiredSlotsHaveHandles, SlotsIn
<1> QED BY <1>2, InitPromises DEF CbInv

(* Every step of ConsumerBase keeps it.                                    *)
LEMMA NextKeepsCb ==
  ASSUME SurfacesProduce, CbInv, [CbNext]_allVars
  PROVE  CbInv'
<1>1. TypeOK /\ NeverMixed
  BY DEF CbInv, BaseInv, OrderInv, SurfacesProduce
<1>2. CASE Happens
  BY <1>2, HappeningKeeps, SheddingKeepsUser DEF CbInv
<1>3. CASE acquireBufferLocked
  <2>1. PICK n \in 0 .. Len(mQueue) - 1 :
          Acquires(n) /\ CachesItem(n) /\ using' = using \cup {Got(n)}
    BY <1>1, <1>3, CbAcquireFacts DEF CbInv
  <2>2. acquireBuffer /\ CbTypeOK'
    BY <1>1, <1>3, CbAcquireFacts DEF CbInv
  <2>3. BaseInv' /\ PromisesInv(FALSE)'
    BY <2>1, <2>2, CbAcquireKeeps DEF CbInv
  <2>4. UserInv'
    BY <2>1, AcquireKeepsUser DEF CbInv
  <2> QED BY <2>2, <2>3, <2>4 DEF CbInv
<1>4. ASSUME NEW h \in using, releaseBufferLocked(h.slot, h.buffer, h)
      PROVE  CbInv'
  BY <1>1, <1>4, ReleaseKeepsUser DEF CbInv
<1>5. CASE UNCHANGED allVars
  <2>1. UNCHANGED <<acquired, using>>
    BY <1>5 DEF allVars, vars, coreVars, cbVars
  <2> QED BY <1>1, <1>5, <2>1, StutterKeeps, SheddingKeepsUser DEF CbInv
<1> QED BY <1>2, <1>3, <1>4, <1>5 DEF CbNext, Happens

(* ConsumerBase's cache, which onBuffersReleased empties on the producer's *)
(* thread, serves the user whatever the threads do: the buffer it has is   *)
(* the one that was queued, although the queue sends a buffer only once,   *)
(* and it can be given back (ConsumerBase.cpp:76-250).                     *)
THEOREM CacheNeverFailsTheUser ==
  ASSUME SurfacesProduce
  PROVE  CbSpec => []CacheServesTheUser
<1>1. CbInv => CacheServesTheUser
  <2> SUFFICES ASSUME CbInv PROVE CacheServesTheUser
    OBVIOUS
  <2>1. ASSUME NEW s \in SlotsIn(mSlots, {"ACQUIRED"})
        PROVE  \E h \in using : /\ h.slot = s
                                /\ cbStillTracking(s, h.buffer)
                                /\ cbSlots[s].mFrameNumber = mSlots[s].mFrameNumber
    <3>1. s \in Slots /\ mSlots[s].mAcquireCalled
          /\ cbSlots[s].mFrameNumber = mSlots[s].mFrameNumber
      BY DEF CbInv, PromisesInv, CacheInv, SlotsIn
    <3>2. mSlots[s].mGraphicBuffer # NoBuffer
          /\ cbSlots[s].mGraphicBuffer = mSlots[s].mGraphicBuffer
      BY <3>1 DEF CbInv, PromisesInv, CacheInv, Caches
    <3>3. PICK h \in using : h.slot = s /\ h.buffer = mSlots[s].mGraphicBuffer
      BY DEF CbInv, UserInv, UsesQueuedBuffer, AcquiredSlotsHaveHandles
    <3> QED BY <3>1, <3>2, <3>3 DEF cbStillTracking
  <2> QED BY <2>1 DEF CacheServesTheUser, AcquiredSlotsAreReleasable, CbInv, UserInv
<1>2. CbInv /\ [CbNext]_allVars => CbInv'
  BY NextKeepsCb
<1> QED BY <1>1, <1>2, InitCb, PTL DEF CbSpec

(* What the user of ConsumerBase does is still the FIFO of FrameStream,    *)
(* although it does not call releaseBuffer for all it gives up             *)
(* (ConsumerBase.cpp:182-250, BufferQueueCore.h:177).                      *)
THEOREM CacheImplementsFrameStream ==
  ASSUME SurfacesProduce
  PROVE  CbSpec => StreamSpec
<1>1. CbInit => Stream!StreamInit
  BY DEF CbInit, Init, CoreInit, ConsumerInit, Stream!StreamInit
<1>2. CbInv /\ [CbNext]_allVars => [Stream!StreamNext]_(Stream!streamVars)
  <2> SUFFICES ASSUME CbInv, [CbNext]_allVars
               PROVE  [Stream!StreamNext]_(Stream!streamVars)
    OBVIOUS
  <2>1. TypeOK /\ NeverMixed /\ OrderInv
    BY DEF CbInv, BaseInv, OrderInv, SurfacesProduce
  <2>2. \/ Queues \/ Leaves \/ UNCHANGED orderVars
        \/ \E n \in 0 .. Len(mQueue) - 1 : Takes(n)
    <3>1. CASE \E h \in using : releaseBufferLocked(h.slot, h.buffer, h)
      BY <3>1 DEF releaseBufferLocked, orderVars
    <3>2. CASE UNCHANGED allVars
      BY <3>2 DEF allVars, vars, coreVars, orderVars
    <3>3. CASE \E p \in Producers : ProducerStep(p) /\ UNCHANGED lastAcquired
      BY <2>1, <3>3, ProducerOrder DEF KeepsOrder
    <3>4. CASE ConsumerStep
      BY <2>1, <3>4, ConsumerOrder DEF KeepsOrder
    <3>5. Happens => (\E p \in Producers : ProducerStep(p) /\ UNCHANGED lastAcquired)
                     \/ ConsumerStep
      BY DEF Happens, ProducerStep, onBuffersReleased, abandon, ConsumerStep,
         ConsumerConfigure
    <3>6. acquireBufferLocked => ConsumerStep
      BY DEF acquireBufferLocked, ConsumerStep
    <3> QED BY <3>1, <3>2, <3>3, <3>4, <3>5, <3>6 DEF CbNext, Happens
  <2>3. CASE Queues
    BY <2>1, <2>3, QueuesProduces DEF Stream!StreamNext
  <2>4. CASE Leaves
    BY <2>4 DEF Leaves, Stream!Abandon, Stream!StreamNext
  <2>5. CASE UNCHANGED orderVars
    BY <2>5 DEF orderVars, Stream!streamVars
  <2>6. CASE \E n \in 0 .. Len(mQueue) - 1 : Takes(n)
    BY <2>1, <2>6, TakesDelivers DEF Stream!StreamNext
  <2> QED BY <2>2, <2>3, <2>4, <2>5, <2>6
<1>3. CbInv /\ [CbNext]_allVars => CbInv'
  BY NextKeepsCb
<1> QED BY <1>1, <1>2, <1>3, InitCb, PTL DEF CbSpec, StreamSpec, Stream!StreamSpec
-----------------------------------------------------------------------------
(* What the users have, with or without its buffer.                        *)

(* A handle is the only one of its frame, and the queue knows of it if it  *)
(* has a buffer.                                                           *)
UsersInv ==
  \A h \in using :
    /\ h.frame <= lastAcquired
    /\ h.buffer # NoBuffer => h \in acquired
    /\ \A g \in using : g.frame = h.frame => g = h

(* The item that is taken is of a frame that nobody has.                   *)
LEMMA TakenIsNew ==
  ASSUME NEW lossy \in BOOLEAN, BaseInv, PromisesInv(lossy), CbTypeOK, UsersInv,
         NEW n \in 0 .. Len(mQueue) - 1, Acquires(n), CachesItem(n)
  PROVE  /\ lastAcquired < mQueue[n + 1].mFrameNumber
         /\ lastAcquired' = mQueue[n + 1].mFrameNumber
         /\ \A h \in using : h.frame # mQueue[n + 1].mFrameNumber
         /\ \A h \in acquired : h.frame # mQueue[n + 1].mFrameNumber
         /\ Got(n).buffer # NoBuffer => Got(n) \in acquired'
         /\ ~lossy => Got(n).buffer # NoBuffer
         /\ acquired \subseteq acquired'
<1>1. /\ n + 1 \in Indices /\ TypeOK
      /\ mQueue[n + 1].mSlot \in Slots /\ mQueue[n + 1].mGraphicBuffer # NoBuffer
      /\ mQueue[n + 1].mFrameNumber \in Nat /\ lastAcquired \in Nat
  <2>1. TypeOK /\ n + 1 \in Indices
    BY TypeFacts DEF Indices, BaseInv, OrderInv
  <2> QED BY <2>1, TypeFacts DEF BufferItem, TypeOK, ConsumerTypeOK, BaseInv, OwnersInv,
          ItemsDiffer
<1>2. lastAcquired < mQueue[n + 1].mFrameNumber
      /\ lastAcquired' = mQueue[n + 1].mFrameNumber
  BY <1>1 DEF BaseInv, OrderInv, FramesOrdered, Acquires
<1>3. ASSUME NEW h \in using PROVE h.frame # mQueue[n + 1].mFrameNumber
  <2>1. h.frame \in Nat /\ h.frame <= lastAcquired
    BY DEF CbTypeOK, Handle, UsersInv
  <2> QED BY <1>1, <1>2, <2>1
<1>4. \A h \in acquired : h.frame # mQueue[n + 1].mFrameNumber
  BY <1>1 DEF BaseInv, HandsInv, AcquiredOnce
<1>5. PICK item : item = mQueue[n + 1]
  OBVIOUS
<1>6. \/ cbSlots'[item.mSlot].mGraphicBuffer = item.mGraphicBuffer
      \/ lossy /\ cbSlots'[item.mSlot].mGraphicBuffer = NoBuffer
  BY <1>1, <1>5 DEF CachesItem, PromisesInv, CacheInv, Caches
<1>7. Got(n) = [slot |-> item.mSlot, frame |-> item.mFrameNumber,
                buffer |-> cbSlots'[item.mSlot].mGraphicBuffer]
  BY <1>5 DEF Got
<1>8. acquired' = acquired \cup {[slot |-> item.mSlot, frame |-> item.mFrameNumber,
                                  buffer |-> item.mGraphicBuffer]}
  BY <1>5 DEF Acquires
<1> QED BY <1>1, <1>2, <1>3, <1>4, <1>5, <1>6, <1>7, <1>8

(* It comes to the others, with its buffer or without.                     *)
LEMMA TakingKeepsUsers ==
  ASSUME NEW lossy \in BOOLEAN, BaseInv, PromisesInv(lossy), CbTypeOK, UsersInv,
         NEW n \in 0 .. Len(mQueue) - 1, Acquires(n), CachesItem(n),
         NEW h, h.frame = mQueue[n + 1].mFrameNumber, h.buffer = NoBuffer \/ h = Got(n),
         using' = using \cup {h}
  PROVE  UsersInv' /\ h \notin using
<1>1. /\ lastAcquired < h.frame /\ lastAcquired' = h.frame
      /\ \A g \in using : g.frame # h.frame
      /\ h.buffer # NoBuffer => h \in acquired'
      /\ acquired \subseteq acquired'
  BY TakenIsNew
<1>2. lastAcquired \in Nat /\ h.frame \in Nat /\ \A g \in using : g.frame \in Nat
  <2>1. TypeOK /\ n + 1 \in Indices
    BY TypeFacts DEF Indices, BaseInv, OrderInv
  <2> QED BY <2>1, TypeFacts DEF BufferItem, TypeOK, ConsumerTypeOK, CbTypeOK, Handle
<1>3. \A g \in using' : g.frame <= lastAcquired'
  BY <1>1, <1>2 DEF UsersInv
<1>4. \A g \in using' : g.buffer # NoBuffer => g \in acquired'
  BY <1>1 DEF UsersInv
<1>5. \A f, g \in using' : f.frame = g.frame => f = g
  BY <1>1 DEF UsersInv
<1> QED BY <1>1, <1>3, <1>4, <1>5 DEF UsersInv

(* One that is given up leaves the others.                                 *)
LEMMA GivingUpKeepsUsers ==
  ASSUME UsersInv, NEW h, h \in using \/ acquired' = acquired, using' = using \ {h},
         \A g \in acquired : g.frame # h.frame => g \in acquired',
         UNCHANGED lastAcquired
  PROVE  UsersInv'
  BY DEF UsersInv

(* The inductive invariant of the consumers that hand buffers out: what is *)
(* locked has its buffer.                                                  *)
CpuInv ==
  /\ BaseInv /\ CbTypeOK /\ PromisesInv(FALSE) /\ UsersInv
  /\ \A h \in mAcquiredBuffers : h \in using /\ h.buffer # NoBuffer
  /\ ~locksBuffers => mAcquiredBuffers = {} /\ checked = {}

(* In the beginning nothing is locked.                                     *)
LEMMA InitCpu == CpuInit => CpuInv
<1> SUFFICES ASSUME CpuInit PROVE CpuInv
  OBVIOUS
<1>1. CbInit /\ using = {}
  BY DEF CpuInit, CbInit
<1> QED BY <1>1, InitPromises DEF CpuInit, CpuInv, UsersInv

(* acquireWithoutFence takes an item that the queue sent without its       *)
(* buffer.                                                                 *)
LEMMA FencelessFacts ==
  ASSUME TypeOK, CbTypeOK, acquireWithoutFence
  PROVE  /\ acquireBuffer /\ CbTypeOK'
         /\ \E n \in 0 .. Len(mQueue) - 1 :
              /\ Acquires(n) /\ CachesItem(n)
              /\ using' = using \cup {[slot |-> mQueue[n + 1].mSlot, buffer |-> NoBuffer,
                                       frame |-> mQueue[n + 1].mFrameNumber]}
<1>1. PICK n \in 0 .. Len(mQueue) - 1 : Acquires(n)
  BY AcquireFacts DEF acquireWithoutFence
<1>2. Acquired = mQueue[n + 1] /\ n + 1 \in Indices
  BY <1>1, AcquiredIsTaken
<1>3. PICK item \in BufferItem : item = mQueue[n + 1] /\ item.mSlot \in Slots
  BY <1>2, TypeFacts
<1>4. PICK s \in Slots : s = item.mSlot
  BY <1>3
<1>5. PICK frame \in Nat : frame = item.mFrameNumber
  BY DEF BufferItem
<1>6. cbSlots' = [cbSlots EXCEPT ![s].mFrameNumber = frame] /\ item.mAcquireCalled
  BY <1>2, <1>3, <1>4, <1>5 DEF acquireWithoutFence
<1>7. using' = using \cup {[slot |-> s, buffer |-> NoBuffer, frame |-> frame]}
  BY <1>2, <1>3, <1>4, <1>5 DEF acquireWithoutFence
<1>8. /\ cbSlots'[s].mGraphicBuffer = cbSlots[s].mGraphicBuffer
      /\ cbSlots'[s].mFrameNumber = frame
      /\ \A t \in Slots \ {s} : cbSlots'[t] = cbSlots[t]
      /\ cbSlots' \in [Slots -> CbSlot]
  BY <1>6 DEF CbTypeOK, CbSlot
<1>9. CachesItem(n)
  BY <1>3, <1>4, <1>5, <1>6, <1>8 DEF CachesItem
<1>10. CbTypeOK'
  BY <1>7, <1>8 DEF CbTypeOK, Handle
<1> QED BY <1>1, <1>3, <1>4, <1>5, <1>7, <1>9, <1>10 DEF acquireWithoutFence

(* Steps that take no handle leave the users what they have.               *)
LEMMA RestingKeepsUsers ==
  ASSUME UsersInv, UNCHANGED <<acquired, using, lastAcquired>>
  PROVE  UsersInv'
  BY DEF UsersInv

(* An entry or an item is released by the handle it was acquired with.     *)
LEMMA ReleaseKeepsUsers ==
  ASSUME NeverMixed, BaseInv, PromisesInv(FALSE), CbTypeOK, UsersInv, NEW h \in using,
         releaseBufferLocked(h.slot, h.buffer, h)
  PROVE  /\ BaseInv' /\ PromisesInv(FALSE)' /\ CbTypeOK' /\ UsersInv'
         /\ using' = using \ {h}
<1>1. h.buffer = NoBuffer \/ h \in acquired
  BY DEF UsersInv
<1>2. BaseInv' /\ PromisesInv(FALSE)' /\ CbTypeOK' /\ UNCHANGED lastAcquired
  BY <1>1, UserReleaseKeeps
<1>3. using' = using \ {h} /\ \A g \in acquired : g.frame # h.frame => g \in acquired'
  BY DEF releaseBufferLocked
<1>4. UsersInv'
  BY <1>2, <1>3, GivingUpKeepsUsers
<1> QED BY <1>2, <1>3, <1>4

(* A buffer is acquired, and locked, handed out, or without an entry.      *)
LEMMA CpuAcquires ==
  ASSUME SurfacesProduce, BaseInv, PromisesInv(FALSE), CbTypeOK, UsersInv,
         acquireBufferLocked
  PROVE  /\ BaseInv' /\ PromisesInv(FALSE)' /\ CbTypeOK' /\ UsersInv'
         /\ using \subseteq using' /\ \A h \in using' \ using : h.buffer # NoBuffer
<1>1. TypeOK
  BY DEF BaseInv, OrderInv
<1>2. PICK n \in 0 .. Len(mQueue) - 1 :
        Acquires(n) /\ CachesItem(n) /\ using' = using \cup {Got(n)}
  BY <1>1, CbAcquireFacts
<1>3. acquireBuffer /\ CbTypeOK'
  BY <1>1, CbAcquireFacts
<1>4. BaseInv' /\ PromisesInv(FALSE)'
  BY <1>2, <1>3, CbAcquireKeeps
<1>5. Got(n).frame = mQueue[n + 1].mFrameNumber
  BY DEF Got
<1>6. UsersInv'
  BY <1>2, <1>5, TakingKeepsUsers
<1>7. Got(n).buffer # NoBuffer
  BY <1>2, TakenIsNew
<1> QED BY <1>2, <1>3, <1>4, <1>6, <1>7

(* Every step of CpuConsumer and BufferItemConsumer keeps what is locked.  *)
LEMMA NextKeepsCpu ==
  ASSUME SurfacesProduce, CpuInv, [CpuNext]_<<allVars, cpuVars>>
  PROVE  CpuInv'
<1>1. TypeOK /\ NeverMixed
  BY DEF CpuInv, BaseInv, OrderInv, SurfacesProduce
<1>2. ASSUME UNCHANGED <<allVars, locksBuffers, mAcquiredBuffers>>,
             ~locksBuffers => checked' = {}
      PROVE  CpuInv'
  <2>1. BaseInv' /\ PromisesInv(FALSE)' /\ CbTypeOK'
    BY <1>1, <1>2, StutterKeeps DEF CpuInv
  <2>2. UNCHANGED <<acquired, using, lastAcquired>>
    BY <1>2 DEF allVars, vars, coreVars, cbVars
  <2>3. UsersInv'
    BY <2>2, RestingKeepsUsers DEF CpuInv
  <2> QED BY <1>2, <2>1, <2>2, <2>3 DEF CpuInv
<1>3. ASSUME NEW t \in Threads, lockNextBuffer(t) PROVE CpuInv'
  BY <1>3, CpuAcquires DEF lockNextBuffer, CpuInv
<1>4. ASSUME NEW h \in using, unlockBuffer(h) PROVE CpuInv'
  BY <1>1, <1>4, ReleaseKeepsUsers DEF unlockBuffer, ReleasedEntry, CpuInv
<1>5. ASSUME NEW h \in using, releaseItem(h) PROVE CpuInv'
  BY <1>1, <1>5, ReleaseKeepsUsers DEF releaseItem, cpuVars, CpuInv
<1>6. CASE acquireItem
  BY <1>6, CpuAcquires DEF acquireItem, cpuVars, CpuInv
<1>7. CASE acquireWithoutFence
  <2>1. PICK n \in 0 .. Len(mQueue) - 1 :
          /\ Acquires(n) /\ CachesItem(n)
          /\ using' = using \cup {[slot |-> mQueue[n + 1].mSlot, buffer |-> NoBuffer,
                                   frame |-> mQueue[n + 1].mFrameNumber]}
    BY <1>1, <1>7, FencelessFacts DEF CpuInv
  <2>2. acquireBuffer /\ CbTypeOK'
    BY <1>1, <1>7, FencelessFacts DEF CpuInv
  <2>3. BaseInv' /\ PromisesInv(FALSE)'
    BY <2>1, <2>2, CbAcquireKeeps DEF CpuInv
  <2>4. PICK h : h = [slot |-> mQueue[n + 1].mSlot, buffer |-> NoBuffer,
                      frame |-> mQueue[n + 1].mFrameNumber]
    OBVIOUS
  <2>5. h.buffer = NoBuffer /\ h.frame = mQueue[n + 1].mFrameNumber
        /\ using' = using \cup {h}
    BY <2>1, <2>4
  <2>6. UsersInv'
    BY <2>1, <2>5, TakingKeepsUsers DEF CpuInv
  <2> QED BY <1>7, <2>2, <2>3, <2>5, <2>6 DEF acquireWithoutFence, cpuVars, CpuInv
<1>8. CASE Happens /\ UNCHANGED cpuVars
  BY <1>8, HappeningKeeps, RestingKeepsUsers DEF cpuVars, CpuInv
<1>9. ASSUME NEW t \in Threads, checkLocked(t) \/ lockFindsNoBuffer(t) PROVE CpuInv'
  BY <1>2, <1>9 DEF checkLocked, lockFindsNoBuffer, CpuInv
<1>10. CASE UNCHANGED <<allVars, cpuVars>>
  BY <1>2, <1>10 DEF cpuVars, CpuInv
<1> QED BY <1>3, <1>4, <1>5, <1>6, <1>7, <1>8, <1>9, <1>10 DEF CpuNext, Happens

(* What a thread has locked no producer writes, whoever frees slots and    *)
(* reallocates them meanwhile (CpuConsumer.cpp:66-268).                    *)
LEMMA CpuLocks == CpuInv => LockedIsHeld
<1> SUFFICES ASSUME CpuInv, NEW h \in mAcquiredBuffers, NEW s \in Slots,
                    mSlots[s].mGraphicBuffer = h.buffer
             PROVE  mSlots[s].mBufferState = "ACQUIRED"
  BY DEF LockedIsHeld
<1>1. h \in acquired
  BY DEF CpuInv, UsersInv
<1> QED BY <1>1 DEF CpuInv, BaseInv, HandsInv, AcquiredOnce

(* A buffer that a CpuConsumer has locked stays ACQUIRED for as long as a  *)
(* slot of the queue has it (CpuConsumer.cpp:66-268).                      *)
THEOREM LockedBuffersAreHeld ==
  ASSUME SurfacesProduce
  PROVE  CpuSpec => []LockedIsHeld
<1>1. CpuInv /\ [CpuNext]_<<allVars, cpuVars>> => CpuInv'
  BY NextKeepsCpu
<1> QED BY <1>1, InitCpu, CpuLocks, PTL DEF CpuSpec
-----------------------------------------------------------------------------
(* The consumers that keep one image.                                      *)

(* The slot is the one that h was acquired from, as it was then.           *)
Matches(s, h) ==
  /\ h.slot = s /\ h.frame = mSlots[s].mFrameNumber
  /\ h.buffer = mSlots[s].mGraphicBuffer

(* The current image and the next are handles the queue gave, not the same *)
(* one, and the cache has the frame of the next.                           *)
ShownInv ==
  /\ updating \in using \cup {NoHandle}
  /\ mCurrentTextureImage \in using \cup {NoHandle}
  /\ updating = mCurrentTextureImage => updating = NoHandle
  /\ IsCurrent => mCurrentTextureImage.slot = mCurrentTexture
  /\ updating # NoHandle => cbSlots[updating.slot].mFrameNumber = updating.frame

(* Of the slots that are ACQUIRED and not lost, the one is current and the *)
(* other will be.                                                          *)
KeptInv ==
  \A s \in SlotsIn(mSlots, {"ACQUIRED"}) :
    \/ cbSlots[s].mGraphicBuffer = NoBuffer
    \/ s = mCurrentTexture /\ Matches(s, mCurrentTextureImage)
    \/ updating # NoHandle /\ Matches(s, updating)

(* What GL reads was acquired, and not just now; without a context it      *)
(* reads nothing.                                                          *)
ReadInv ==
  /\ \A b \in reading : \E g \in acquired :
       g.buffer = b /\ (updating # NoHandle => g.frame # updating.frame)
  /\ ~isTexture \/ ~mAttached \/ mEglContext = NoContext => reading = {}
  /\ isTexture /\ updating # NoHandle => mEglContext # NoContext

(* Their inductive invariant. FramebufferSurface may lose a slot from the  *)
(* cache that is ACQUIRED.                                                 *)
GlInv ==
  /\ BaseInv /\ CbTypeOK /\ PromisesInv(TRUE) /\ UsersInv
  /\ ShownInv /\ KeptInv /\ ReadInv

(* No handle names NoSlot.                                                 *)
LEMMA NoHandleFacts ==
  ASSUME BaseInv, CbTypeOK
  PROVE  /\ NoSlot \notin Slots /\ NoHandle.slot = NoSlot /\ NoHandle.buffer = NoBuffer
         /\ NoHandle \notin Handle /\ NoHandle \notin using /\ NoHandle \notin acquired
         /\ \A h \in using : h.slot \in Slots
<1>1. NoSlot \notin Slots
  BY CoreAssumption DEF NoSlot, Slots
<1>2. using \subseteq Handle /\ acquired \subseteq Handle
  BY TypeFacts DEF BaseInv, OrderInv, CbTypeOK
<1>3. NoHandle.slot = NoSlot /\ NoHandle.buffer = NoBuffer
  BY DEF NoHandle
<1>4. \A h \in Handle : h.slot \in Slots
  BY DEF Handle
<1> QED BY <1>1, <1>2, <1>3, <1>4

(* An ACQUIRED slot that is not lost can be released with what the cache   *)
(* has of it.                                                              *)
LEMMA AcquiredIsReleasable ==
  ASSUME NEW lossy \in BOOLEAN, OwnersInv, PromisesInv(lossy), NEW s \in Slots,
         mSlots[s].mBufferState = "ACQUIRED", cbSlots[s].mGraphicBuffer # NoBuffer
  PROVE  /\ mSlots[s].mGraphicBuffer = cbSlots[s].mGraphicBuffer
         /\ mSlots[s].mFrameNumber = cbSlots[s].mFrameNumber
         /\ ReleaseAnswer(s, cbSlots[s].mFrameNumber) = "NO_ERROR"
<1>1. mSlots[s].mAcquireCalled
      /\ mSlots[s].mFrameNumber = cbSlots[s].mFrameNumber
  BY DEF PromisesInv, CacheInv, SlotsIn
<1>2. mSlots[s].mGraphicBuffer = cbSlots[s].mGraphicBuffer
  BY <1>1 DEF PromisesInv, CacheInv, Caches
<1>3. \A i \in Indices : mQueue[i].mSlot # s
  BY <1>1 DEF PromisesInv, ArrivalInv, OwnersInv, TrackedItemsAreQueued, Indices
<1> QED BY <1>1, <1>2, <1>3 DEF ReleaseAnswer, Indices

(* What is ACQUIRED and not lost after a release was so before, and it was *)
(* not what was released.                                                  *)
LEMMA WhatStaysAcquired ==
  ASSUME NEW lossy \in BOOLEAN, BaseInv, PromisesInv(lossy), CbTypeOK,
         NEW s \in Slots, NEW buffer, NEW h, releaseBufferLocked(s, buffer, h),
         NEW t \in Slots, Sheds(t), mSlots'[t].mBufferState = "ACQUIRED",
         cbSlots'[t].mGraphicBuffer # NoBuffer
  PROVE  /\ mSlots[t].mBufferState = "ACQUIRED" /\ cbSlots'[t] = cbSlots[t]
         /\ mSlots'[t].mFrameNumber = mSlots[t].mFrameNumber
         /\ mSlots'[t].mGraphicBuffer = mSlots[t].mGraphicBuffer
         /\ cbSlots[t].mGraphicBuffer = mSlots[t].mGraphicBuffer
         /\ t = s => buffer # cbSlots[s].mGraphicBuffer
<1>1. TypeOK /\ OwnersInv
  BY DEF BaseInv, OrderInv
<1>2. /\ mSlots[t].mBufferState = "ACQUIRED"
      /\ mSlots'[t].mFrameNumber = mSlots[t].mFrameNumber
      /\ mSlots'[t].mGraphicBuffer = mSlots[t].mGraphicBuffer
  BY DEF Sheds
<1>3. cbSlots'[t] = cbSlots[t]
  BY DEF releaseBufferLocked, CbTypeOK, EmptyCbSlot
<1>4. /\ cbSlots[t].mGraphicBuffer = mSlots[t].mGraphicBuffer
      /\ ReleaseAnswer(t, cbSlots[t].mFrameNumber) = "NO_ERROR"
  BY <1>1, <1>2, <1>3, AcquiredIsReleasable
<1>5. ASSUME t = s, buffer = cbSlots[s].mGraphicBuffer PROVE FALSE
  <2>1. ReleaseSlot(s, cbSlots[s].mFrameNumber)
    BY <1>3, <1>5 DEF cbStillTracking, releaseBufferLocked
  <2>2. mSlots'[s].mBufferState = "FREE"
    BY <1>1, <1>4, <1>5, <2>1, ReleaseFacts DEF Released
  <2> QED BY <1>5, <2>2
<1> QED BY <1>2, <1>3, <1>4, <1>5

(* Where nothing is acquired or given up, a slot may be lost, and is not   *)
(* current then.                                                           *)
LEMMA SheddingKeepsShown ==
  ASSUME ShownInv, KeptInv, BaseInv, CbTypeOK,
         \A s \in Slots : Sheds(s), UNCHANGED <<using, updating>>,
         updating # NoHandle => UNCHANGED cbSlots,
         \A s \in Slots : cbSlots'[s] = cbSlots[s] \/ cbSlots'[s].mGraphicBuffer = NoBuffer,
         \/ UNCHANGED currentVars
         \/ UNCHANGED mCurrentTextureImage /\ mCurrentTexture' = CurrentAfterFree(cbSlots')
         \/ /\ \A s \in Slots : cbSlots'[s].mGraphicBuffer = NoBuffer
            /\ mCurrentTexture' = NoSlot
            /\ mCurrentTextureImage' \in {mCurrentTextureImage, NoHandle}
  PROVE  ShownInv' /\ KeptInv'
<1>1. /\ mCurrentTexture' \in {mCurrentTexture, NoSlot}
      /\ \/ mCurrentTextureImage' = mCurrentTextureImage
         \/ mCurrentTextureImage' = NoHandle /\ mCurrentTexture' = NoSlot
  BY DEF CurrentAfterFree, currentVars
<1>2. ShownInv'
  BY <1>1 DEF ShownInv, IsCurrent, NoHandle, NoSlot
<1>3. ASSUME NEW s \in SlotsIn(mSlots, {"ACQUIRED"})', cbSlots'[s].mGraphicBuffer # NoBuffer
      PROVE  \/ s = mCurrentTexture' /\ Matches(s, mCurrentTextureImage)'
             \/ updating' # NoHandle /\ Matches(s, updating)'
  <2>1. s \in Slots /\ mSlots'[s].mBufferState = "ACQUIRED"
    BY DEF SlotsIn
  <2>2. /\ mSlots[s].mBufferState = "ACQUIRED" /\ cbSlots'[s] = cbSlots[s]
        /\ mSlots'[s].mFrameNumber = mSlots[s].mFrameNumber
        /\ mSlots'[s].mGraphicBuffer = mSlots[s].mGraphicBuffer
    BY <1>3, <2>1 DEF Sheds
  <2>3. \/ s = mCurrentTexture /\ Matches(s, mCurrentTextureImage)
        \/ updating # NoHandle /\ Matches(s, updating)
    BY <1>3, <2>1, <2>2 DEF KeptInv, SlotsIn
  <2>4. s = mCurrentTexture =>
          mCurrentTexture' = s /\ mCurrentTextureImage' = mCurrentTextureImage
    BY <1>3, <2>1 DEF CurrentAfterFree, currentVars
  <2> QED BY <2>2, <2>3, <2>4 DEF Matches
<1>4. KeptInv'
  BY <1>3 DEF KeptInv
<1> QED BY <1>2, <1>4

(* What GL reads stays what it is.                                         *)
LEMMA ReadingStays ==
  ASSUME ReadInv, UNCHANGED <<isTexture, mAttached, mEglContext, updating, reading, acquired>>
  PROVE  ReadInv'
  BY DEF ReadInv

(* What happens without a call of the user.                                *)
LEMMA HappeningKeepsGl ==
  ASSUME SurfacesProduce, GlInv,
         \/ GlQueueNext /\ UNCHANGED <<isTexture, contextVars, currentVars, updating, reading>>
         \/ \E p \in Producers : glOnBuffersReleased(p)
         \/ glAbandon
  PROVE  GlInv'
<1>1. Happens /\ UNCHANGED <<isTexture, mAttached, mEglContext, updating, reading>>
  BY DEF Happens, GlQueueNext, glOnBuffersReleased, glAbandon, contextVars
<1>2. /\ BaseInv' /\ PromisesInv(TRUE)' /\ CbTypeOK'
      /\ \A s \in Slots : Sheds(s)
      /\ UNCHANGED <<acquired, using, lastAcquired>>
  BY <1>1, HappeningKeeps DEF GlInv
<1>3. UsersInv' /\ ReadInv'
  BY <1>1, <1>2, RestingKeepsUsers, ReadingStays DEF GlInv
<1>4. EmptyCbSlot.mGraphicBuffer = NoBuffer
  BY DEF EmptyCbSlot
<1>5. CASE GlQueueNext /\ UNCHANGED <<isTexture, contextVars, currentVars, updating, reading>>
  <2>1. UNCHANGED cbSlots
    BY <1>5 DEF GlQueueNext, cbVars
  <2>2. ShownInv' /\ KeptInv'
    BY <1>2, <1>5, <2>1, SheddingKeepsShown DEF GlInv
  <2> QED BY <1>2, <1>3, <2>2 DEF GlInv
<1>6. CASE \E p \in Producers : glOnBuffersReleased(p)
  <2>1. /\ updating = NoHandle /\ UNCHANGED mCurrentTextureImage
        /\ mCurrentTexture' = CurrentAfterFree(cbSlots')
        /\ \A s \in Slots : cbSlots'[s] = cbSlots[s] \/ cbSlots'[s].mGraphicBuffer = NoBuffer
    BY <1>4, <1>6 DEF glOnBuffersReleased, onBuffersReleased, MutexIsFree
  <2>2. ShownInv' /\ KeptInv'
    BY <1>1, <1>2, <2>1, SheddingKeepsShown DEF GlInv
  <2> QED BY <1>2, <1>3, <2>2 DEF GlInv
<1>7. CASE glAbandon
  <2>1. /\ updating = NoHandle /\ mCurrentTexture' = NoSlot
        /\ mCurrentTextureImage' \in {mCurrentTextureImage, NoHandle}
        /\ \A s \in Slots : cbSlots'[s].mGraphicBuffer = NoBuffer
    BY <1>4, <1>7 DEF glAbandon, abandon, MutexIsFree
  <2>2. ShownInv' /\ KeptInv'
    BY <1>1, <1>2, <2>1, SheddingKeepsShown DEF GlInv
  <2> QED BY <1>2, <1>3, <2>2 DEF GlInv
<1> QED BY <1>5, <1>6, <1>7

(* The calls that concern the context alone.                               *)
LEMMA ContextKeepsGl ==
  ASSUME NeverMixed, GlInv, UNCHANGED <<allVars, currentVars, updating>>, ReadInv'
  PROVE  GlInv'
<1>1. BaseInv' /\ PromisesInv(TRUE)' /\ CbTypeOK' /\ \A s \in Slots : Sheds(s)
  BY StutterKeeps DEF GlInv
<1>2. UNCHANGED <<acquired, using, lastAcquired, cbSlots>>
  BY DEF allVars, vars, coreVars, cbVars
<1>3. UsersInv'
  BY <1>2, RestingKeepsUsers DEF GlInv
<1>4. ShownInv' /\ KeptInv'
  BY <1>1, <1>2, SheddingKeepsShown DEF GlInv
<1> QED BY <1>1, <1>3, <1>4 DEF GlInv

(* Such a call stops GL from reading before it lets the context go, and    *)
(* has it read again what was acquired.                                    *)
LEMMA ContextsKeepRead ==
  ASSUME GlInv, NEW context,
         \/ updateWithoutBuffer(context) \/ detachFromContext(context)
         \/ attachToContext(context)
  PROVE  UNCHANGED <<allVars, currentVars, updating>> /\ ReadInv'
<1>1. UNCHANGED <<allVars, currentVars, updating>> /\ UNCHANGED <<isTexture, acquired>>
      /\ updating = NoHandle
  BY DEF updateWithoutBuffer, detachFromContext, attachToContext, allVars, vars, coreVars,
     MutexIsFree
<1>2. CASE updateWithoutBuffer(context)
  <2>1. UNCHANGED <<mAttached, reading>> /\ mEglContext' = context /\ context # NoContext
    BY <1>2 DEF updateWithoutBuffer, EglStateIsValid
  <2>2. (~isTexture \/ ~mAttached) => reading = {}
    BY DEF GlInv, ReadInv
  <2>3. \A b \in reading : \E g \in acquired : g.buffer = b
    BY DEF GlInv, ReadInv
  <2> QED BY <1>1, <2>1, <2>2, <2>3 DEF ReadInv
<1>3. CASE detachFromContext(context)
  <2>1. reading' = {}
    BY <1>3 DEF detachFromContext, ReadingAfterSync, GlInv, ReadInv
  <2> QED BY <1>1, <2>1 DEF ReadInv
<1>4. CASE attachToContext(context)
  <2>1. /\ isTexture /\ mAttached' /\ mEglContext' = context /\ context # NoContext
        /\ reading' = {mCurrentTextureImage.buffer} \ {NoBuffer}
    BY <1>4 DEF attachToContext
  <2>2. ASSUME NEW b \in reading' PROVE \E g \in acquired : g.buffer = b
    <3>1. b = mCurrentTextureImage.buffer /\ b # NoBuffer
      BY <2>1, <2>2
    <3>2. mCurrentTextureImage \in using
      BY <3>1, NoHandleFacts DEF GlInv, ShownInv
    <3> QED BY <3>1, <3>2 DEF GlInv, UsersInv
  <2> QED BY <1>1, <2>1, <2>2 DEF ReadInv
<1> QED BY <1>1, <1>2, <1>3, <1>4

(* The next image is the one handle that is new.                           *)
LEMMA AcquireNextFacts ==
  ASSUME GlInv, acquireNext
  PROVE  \E n \in 0 .. Len(mQueue) - 1 :
           /\ Acquires(n) /\ CachesItem(n) /\ using' = using \cup {Got(n)}
           /\ Got(n) \notin using /\ updating' = Got(n)
<1>1. PICK n \in 0 .. Len(mQueue) - 1 :
        Acquires(n) /\ CachesItem(n) /\ using' = using \cup {Got(n)}
  BY CbAcquireFacts DEF acquireNext, GlInv, BaseInv, OrderInv
<1>2. Got(n).frame = mQueue[n + 1].mFrameNumber
  BY DEF Got
<1>3. Got(n) \notin using
  BY <1>1, <1>2, TakingKeepsUsers DEF GlInv
<1>4. PICK h : h = Got(n)
  OBVIOUS
<1>5. (CHOOSE g \in using' : g \notin using) = h
  <2>1. \E g \in using' : g \notin using
    BY <1>1, <1>3
  <2>2. \A g \in using' : g \notin using => g = h
    BY <1>1, <1>4
  <2> QED BY <2>1, <2>2
<1> QED BY <1>1, <1>3, <1>4, <1>5 DEF acquireNext

(* A new image comes beside the current one.                               *)
LEMMA AcquireKeepsGl ==
  ASSUME SurfacesProduce, GlInv, acquireNext, isTexture => mEglContext' # NoContext,
         (~isTexture \/ ~mAttached) => reading = {}
  PROVE  GlInv'
<1>1. /\ TypeOK /\ OwnersInv /\ updating = NoHandle
      /\ UNCHANGED <<isTexture, mAttached, mCurrentTexture, mCurrentTextureImage, reading>>
  BY DEF GlInv, BaseInv, OrderInv, acquireNext, MutexIsFree, currentVars
<1>2. PICK n \in 0 .. Len(mQueue) - 1 :
        /\ Acquires(n) /\ CachesItem(n) /\ using' = using \cup {Got(n)}
        /\ Got(n) \notin using /\ updating' = Got(n)
  BY AcquireNextFacts
<1>3. acquireBuffer /\ CbTypeOK'
  BY <1>1, CbAcquireFacts DEF acquireNext, GlInv
<1>4. BaseInv' /\ PromisesInv(TRUE)'
  BY <1>2, <1>3, CbAcquireKeeps DEF GlInv
<1>5. PICK item : item = mQueue[n + 1]
  OBVIOUS
<1>6. /\ updating'.slot = item.mSlot /\ updating'.frame = item.mFrameNumber
      /\ updating'.buffer = cbSlots'[item.mSlot].mGraphicBuffer
      /\ cbSlots'[item.mSlot].mFrameNumber = item.mFrameNumber
      /\ \A t \in Slots \ {item.mSlot} : cbSlots'[t] = cbSlots[t]
  BY <1>2, <1>5 DEF Got, CachesItem
<1>7. UsersInv'
  BY <1>2, <1>5, <1>6, TakingKeepsUsers DEF GlInv
<1>8. updating' \in using' /\ updating' # NoHandle
  BY <1>2, <1>3, NoHandleFacts DEF GlInv, CbTypeOK
<1>9. ShownInv'
  BY <1>1, <1>2, <1>6, <1>8 DEF GlInv, ShownInv, IsCurrent
<1>10. n + 1 \in Indices /\ item.mSlot \in Slots
  BY <1>1, <1>5, TypeFacts DEF Indices
<1>11. ASSUME NEW s \in SlotsIn(mSlots, {"ACQUIRED"})', cbSlots'[s].mGraphicBuffer # NoBuffer
       PROVE  \/ s = mCurrentTexture' /\ Matches(s, mCurrentTextureImage)'
              \/ updating' # NoHandle /\ Matches(s, updating)'
  <2>1. s \in Slots /\ mSlots'[s].mBufferState = "ACQUIRED"
    BY DEF SlotsIn
  <2>2. /\ mSlots'[s].mFrameNumber = mSlots[s].mFrameNumber
        /\ mSlots'[s].mGraphicBuffer = mSlots[s].mGraphicBuffer
        /\ TakenFrom(n, s) \/ mSlots'[s] = mSlots[s]
    BY <2>1, <1>2 DEF Acquires
  <2>3. CASE TakenFrom(n, s)
    <3>1. /\ s = item.mSlot /\ mSlots[s].mGraphicBuffer = item.mGraphicBuffer
          /\ mSlots[s].mFrameNumber = item.mFrameNumber
      BY <1>1, <1>5, <1>10, <2>3 DEF TakenFrom, Tracked, stillTracking, OwnersInv,
         TrackedItemsAreQueued, Indices
    <3>2. cbSlots'[s].mGraphicBuffer = item.mGraphicBuffer
      BY <1>5, <1>2, <1>10, <1>11, <3>1 DEF CachesItem, GlInv, PromisesInv, CacheInv, Caches
    <3> QED BY <1>6, <1>8, <2>2, <3>1, <3>2 DEF Matches
  <2>4. CASE mSlots'[s] = mSlots[s]
    <3>1. mSlots[s].mBufferState = "ACQUIRED" /\ mSlots[s].mAcquireCalled
      BY <2>1, <2>4 DEF GlInv, PromisesInv, CacheInv, SlotsIn
    <3>2. s # item.mSlot
      BY <1>1, <1>5, <1>10, <3>1 DEF GlInv, PromisesInv, ArrivalInv, OwnersInv,
         TrackedItemsAreQueued, Indices
    <3>3. s = mCurrentTexture /\ Matches(s, mCurrentTextureImage)
      BY <1>1, <1>6, <1>11, <2>1, <3>1, <3>2 DEF GlInv, KeptInv, SlotsIn
    <3> QED BY <1>1, <2>2, <3>3 DEF Matches
  <2> QED BY <2>2, <2>3, <2>4
<1>12. KeptInv'
  BY <1>11 DEF KeptInv
<1>13. ReadInv'
  <2>1. \A g \in acquired : g \in acquired' /\ g.frame # updating'.frame
    BY <1>2, <1>5, <1>6, TakenIsNew DEF GlInv
  <2>2. \A b \in reading : \E g \in acquired : g.buffer = b
    BY DEF GlInv, ReadInv
  <2>3. mEglContext' = NoContext => ~isTexture
    OBVIOUS
  <2> QED BY <1>1, <2>1, <2>2, <2>3 DEF ReadInv
<1> QED BY <1>3, <1>4, <1>7, <1>9, <1>12, <1>13 DEF GlInv

(* The next image is given back: only the current one is kept.             *)
LEMMA ReturnKeepsGl ==
  ASSUME SurfacesProduce, GlInv, releaseNext
  PROVE  GlInv'
<1>1. /\ NeverMixed /\ TypeOK /\ OwnersInv
      /\ updating \in using /\ updating # NoHandle /\ updating.slot \in Slots
      /\ cbSlots[updating.slot].mFrameNumber = updating.frame
      /\ updating' = NoHandle /\ UNCHANGED <<isTexture, mAttached, mEglContext, reading>>
      /\ mCurrentTexture' = CurrentAfterFree(cbSlots') /\ UNCHANGED mCurrentTextureImage
  BY NoHandleFacts DEF releaseNext, GlInv, BaseInv, OrderInv, ShownInv, SurfacesProduce,
     contextVars
<1>2. PICK s, buffer : s \in Slots /\ s = updating.slot /\ buffer = cbSlots[s].mGraphicBuffer
  BY <1>1
<1>3. releaseBufferLocked(s, buffer, updating)
  BY <1>2 DEF releaseNext, returnNext
<1>4. /\ BaseInv' /\ PromisesInv(TRUE)' /\ CbTypeOK' /\ \A t \in Slots : Sheds(t)
      /\ UNCHANGED lastAcquired
  BY <1>1, <1>2, <1>3, CbReleaseKeeps DEF GlInv
<1>5. /\ using' = using \ {updating}
      /\ \A g \in acquired : g.frame # updating.frame => g \in acquired'
  BY <1>3 DEF releaseBufferLocked
<1>6. UsersInv'
  BY <1>1, <1>4, <1>5, GivingUpKeepsUsers DEF GlInv
<1>7. ShownInv'
  BY <1>1, <1>5 DEF ShownInv, GlInv, IsCurrent, CurrentAfterFree, NoHandle, NoSlot
<1>8. ASSUME NEW t \in SlotsIn(mSlots, {"ACQUIRED"})', cbSlots'[t].mGraphicBuffer # NoBuffer
      PROVE  t = mCurrentTexture' /\ Matches(t, mCurrentTextureImage)'
  <2>1. t \in Slots /\ mSlots'[t].mBufferState = "ACQUIRED"
    BY DEF SlotsIn
  <2>2. /\ mSlots[t].mBufferState = "ACQUIRED" /\ cbSlots'[t] = cbSlots[t]
        /\ mSlots'[t].mFrameNumber = mSlots[t].mFrameNumber
        /\ mSlots'[t].mGraphicBuffer = mSlots[t].mGraphicBuffer
        /\ t # s
    BY <1>2, <1>3, <1>4, <1>8, <2>1, WhatStaysAcquired DEF GlInv
  <2>3. t = mCurrentTexture /\ Matches(t, mCurrentTextureImage)
    BY <1>2, <1>8, <2>1, <2>2 DEF GlInv, KeptInv, SlotsIn, Matches
  <2>4. mCurrentTexture' = t
    BY <1>1, <1>8, <2>3 DEF CurrentAfterFree
  <2> QED BY <1>1, <2>2, <2>3, <2>4 DEF Matches
<1>9. KeptInv'
  BY <1>8 DEF KeptInv
<1>10. ReadInv'
  BY <1>1, <1>5 DEF GlInv, ReadInv
<1> QED BY <1>4, <1>6, <1>7, <1>9, <1>10 DEF GlInv

(* The current image is given back: none is kept.                          *)
LEMMA ReleaseTexKeepsGl ==
  ASSUME SurfacesProduce, GlInv, NEW context, releaseTexImage(context)
  PROVE  GlInv'
<1>1. /\ NeverMixed /\ TypeOK /\ OwnersInv
      /\ updating = NoHandle /\ mCurrentTextureImage \in using
      /\ mCurrentTextureImage.slot = mCurrentTexture /\ mCurrentTexture \in Slots
      /\ mCurrentTexture' = NoSlot /\ mCurrentTextureImage' = NoHandle
      /\ UNCHANGED <<isTexture, mAttached, mEglContext, updating>>
  BY NoHandleFacts DEF releaseTexImage, MutexIsFree, GlInv, BaseInv, OrderInv, ShownInv,
     SurfacesProduce, contextVars, IsCurrent
<1>2. PICK s, buffer : s \in Slots /\ s = mCurrentTexture /\ buffer = cbSlots[s].mGraphicBuffer
  BY <1>1
<1>3. releaseBufferLocked(s, buffer, mCurrentTextureImage)
  BY <1>2 DEF releaseTexImage
<1>4. cbStillTracking(s, buffer) /\ mSlots[s].mBufferState = "ACQUIRED" =>
        mCurrentTextureImage.frame = mSlots[s].mFrameNumber
  BY <1>1, <1>2 DEF cbStillTracking, GlInv, KeptInv, Matches, SlotsIn
<1>5. /\ BaseInv' /\ PromisesInv(TRUE)' /\ CbTypeOK' /\ \A t \in Slots : Sheds(t)
      /\ UNCHANGED lastAcquired
  BY <1>1, <1>2, <1>3, <1>4, CbReleaseKeeps DEF GlInv
<1>6. /\ using' = using \ {mCurrentTextureImage}
      /\ \A g \in acquired : g.frame # mCurrentTextureImage.frame => g \in acquired'
  BY <1>3 DEF releaseBufferLocked
<1>7. UsersInv'
  BY <1>1, <1>5, <1>6, GivingUpKeepsUsers DEF GlInv
<1>8. ShownInv'
  BY <1>1 DEF ShownInv, IsCurrent
<1>9. ASSUME NEW t \in SlotsIn(mSlots, {"ACQUIRED"})', cbSlots'[t].mGraphicBuffer # NoBuffer
      PROVE  FALSE
  <2>1. t \in Slots /\ mSlots'[t].mBufferState = "ACQUIRED"
    BY DEF SlotsIn
  <2>2. mSlots[t].mBufferState = "ACQUIRED" /\ cbSlots'[t] = cbSlots[t] /\ t # s
    BY <1>2, <1>3, <1>5, <1>9, <2>1, WhatStaysAcquired DEF GlInv
  <2> QED BY <1>1, <1>2, <1>9, <2>1, <2>2 DEF GlInv, KeptInv, SlotsIn
<1>10. KeptInv'
  BY <1>9 DEF KeptInv
<1>11. reading' = {}
  BY DEF releaseTexImage, GlInv, ReadInv
<1>12. ReadInv'
  BY <1>1, <1>11 DEF ReadInv
<1> QED BY <1>5, <1>7, <1>8, <1>10, <1>12 DEF GlInv

(* The current image is given up, with a call of the queue or without.     *)
LEMMA GivingUpCurrent ==
  ASSUME NeverMixed, GlInv, updating # NoHandle, releaseCurrent
  PROVE  /\ BaseInv' /\ PromisesInv(TRUE)' /\ CbTypeOK' /\ UsersInv'
         /\ using' = using \ {mCurrentTextureImage}
         /\ \A t \in Slots : Sheds(t)
         /\ \A t \in Slots : mSlots'[t].mBufferState = "ACQUIRED" =>
              \/ cbSlots'[t].mGraphicBuffer = NoBuffer
              \/ cbSlots'[t] = cbSlots[t] /\ Matches(t, updating)
<1>1. /\ TypeOK /\ OwnersInv /\ updating \in using
      /\ mCurrentTextureImage \in using \cup {NoHandle}
      /\ IsCurrent => /\ mCurrentTextureImage.slot = mCurrentTexture
                      /\ mCurrentTextureImage \in using /\ mCurrentTexture \in Slots
      /\ cbSlots[updating.slot].mFrameNumber = updating.frame
      /\ updating # mCurrentTextureImage
  BY NoHandleFacts DEF GlInv, BaseInv, OrderInv, ShownInv, IsCurrent
<1>2. CASE ReleasesCurrent
  <2>1. PICK s, buffer : s \in Slots /\ s = mCurrentTexture /\ buffer = mCurrentTextureImage.buffer
    BY <1>1, <1>2 DEF ReleasesCurrent
  <2>2. releaseBufferLocked(s, buffer, mCurrentTextureImage)
        /\ mCurrentTextureImage \in using /\ mCurrentTextureImage.slot = s
    BY <1>1, <1>2, <2>1 DEF releaseCurrent, ReleasedBuffer, ReleasesCurrent
  <2>3. cbStillTracking(s, buffer) /\ mSlots[s].mBufferState = "ACQUIRED" =>
          mCurrentTextureImage.frame = mSlots[s].mFrameNumber
    <3>1. HAVE cbStillTracking(s, buffer) /\ mSlots[s].mBufferState = "ACQUIRED"
    <3>2. buffer # NoBuffer /\ cbSlots[s].mGraphicBuffer = buffer
      BY <3>1 DEF cbStillTracking
    <3>3. mSlots[s].mGraphicBuffer = buffer
      BY <1>1, <2>1, <3>1, <3>2, AcquiredIsReleasable DEF GlInv
    <3>4. mCurrentTextureImage \in acquired
      BY <2>1, <2>2, <3>2 DEF GlInv, UsersInv
    <3> QED BY <2>1, <3>3, <3>4 DEF GlInv, BaseInv, HandsInv, AcquiredOnce
  <2>4. /\ BaseInv' /\ PromisesInv(TRUE)' /\ CbTypeOK' /\ \A t \in Slots : Sheds(t)
        /\ UNCHANGED lastAcquired
    BY <2>1, <2>2, <2>3, CbReleaseKeeps DEF GlInv
  <2>5. /\ using' = using \ {mCurrentTextureImage}
        /\ \A g \in acquired : g.frame # mCurrentTextureImage.frame => g \in acquired'
    BY <2>2 DEF releaseBufferLocked
  <2>6. UsersInv'
    BY <2>2, <2>4, <2>5, GivingUpKeepsUsers DEF GlInv
  <2>7. ASSUME NEW t \in Slots, mSlots'[t].mBufferState = "ACQUIRED",
               cbSlots'[t].mGraphicBuffer # NoBuffer
        PROVE  cbSlots'[t] = cbSlots[t] /\ Matches(t, updating)
    <3>1. /\ mSlots[t].mBufferState = "ACQUIRED" /\ cbSlots'[t] = cbSlots[t]
          /\ cbSlots[t].mGraphicBuffer = mSlots[t].mGraphicBuffer
          /\ t = s => buffer # cbSlots[s].mGraphicBuffer
      <4>1. releaseBufferLocked(s, buffer, mCurrentTextureImage) /\ Sheds(t)
        BY <2>2, <2>4
      <4>2. BaseInv /\ PromisesInv(TRUE) /\ CbTypeOK
        BY DEF GlInv
      <4> QED BY <2>1, <2>7, <4>1, <4>2, WhatStaysAcquired
    <3>2. ~(t = mCurrentTexture /\ Matches(t, mCurrentTextureImage))
      BY <2>1, <3>1 DEF Matches
    <3> QED BY <2>7, <3>1, <3>2 DEF GlInv, KeptInv, SlotsIn
  <2> QED BY <2>4, <2>5, <2>6, <2>7
<1>3. CASE ~ReleasesCurrent
  <2>1. forget(mCurrentTextureImage)
    BY <1>3 DEF releaseCurrent
  <2>2. /\ GivesUp /\ UNCHANGED <<mSlots, call, cbSlots, lastAcquired>>
        /\ using' = using \ {mCurrentTextureImage}
        /\ acquired' = acquired \ {mCurrentTextureImage}
    BY <2>1 DEF forget, GivesUp
  <2>3. /\ BaseInv' /\ PromisesInv(TRUE)' /\ CbTypeOK' /\ \A t \in Slots : Sheds(t)
    BY <2>2, ForgettingKeeps DEF GlInv
  <2>4. mCurrentTextureImage \in using \/ acquired' = acquired
    BY <1>1, <2>2, NoHandleFacts DEF GlInv
  <2>5. UsersInv'
    BY <2>2, <2>4, GivingUpKeepsUsers DEF GlInv
  <2>6. ASSUME NEW t \in Slots, mSlots'[t].mBufferState = "ACQUIRED",
               cbSlots'[t].mGraphicBuffer # NoBuffer
        PROVE  cbSlots'[t] = cbSlots[t] /\ Matches(t, updating)
    <3>1. mSlots[t].mBufferState = "ACQUIRED" /\ cbSlots[t].mGraphicBuffer # NoBuffer
          /\ cbSlots'[t] = cbSlots[t]
      BY <2>2, <2>6
    <3>2. ASSUME t = mCurrentTexture, Matches(t, mCurrentTextureImage)
          PROVE  FALSE
      <4>1. IsCurrent
        BY <3>2, NoHandleFacts DEF IsCurrent, GlInv
      <4>2. updating.slot = t
        BY <1>3, <3>2, <4>1 DEF ReleasesCurrent
      <4>3. mSlots[t].mFrameNumber = cbSlots[t].mFrameNumber
        BY <1>1, <3>1, AcquiredIsReleasable DEF GlInv
      <4>4. mCurrentTextureImage.frame = updating.frame
        BY <1>1, <3>2, <4>2, <4>3 DEF Matches
      <4> QED BY <1>1, <4>1, <4>4 DEF GlInv, UsersInv
    <3> QED BY <3>1, <3>2 DEF GlInv, KeptInv, SlotsIn
  <2> QED BY <2>2, <2>3, <2>5, <2>6
<1> QED BY <1>2, <1>3

(* The next image takes the place of the current one.                      *)
LEMMA UpdateKeepsGl ==
  ASSUME SurfacesProduce, GlInv, updateAndReleaseLocked
  PROVE  GlInv'
<1>1. /\ NeverMixed /\ updating # NoHandle /\ releaseCurrent
      /\ mCurrentTexture' = updating.slot /\ mCurrentTextureImage' = updating
      /\ updating' = NoHandle
      /\ UNCHANGED <<isTexture, mAttached, mEglContext>>
      /\ reading' = IF isTexture THEN {updating.buffer} ELSE {}
      /\ isTexture => mAttached /\ updating.buffer # NoBuffer
  BY DEF updateAndReleaseLocked, SurfacesProduce, contextVars, HasImage
<1>2. /\ BaseInv' /\ PromisesInv(TRUE)' /\ CbTypeOK' /\ UsersInv'
      /\ using' = using \ {mCurrentTextureImage}
      /\ \A t \in Slots : Sheds(t)
      /\ \A t \in Slots : mSlots'[t].mBufferState = "ACQUIRED" =>
           \/ cbSlots'[t].mGraphicBuffer = NoBuffer
           \/ cbSlots'[t] = cbSlots[t] /\ Matches(t, updating)
  BY <1>1, GivingUpCurrent
<1>3. updating \in using'
  BY <1>1, <1>2 DEF GlInv, ShownInv
<1>4. ShownInv'
  BY <1>1, <1>3 DEF ShownInv, IsCurrent
<1>5. ASSUME NEW t \in SlotsIn(mSlots, {"ACQUIRED"})', cbSlots'[t].mGraphicBuffer # NoBuffer
      PROVE  t = mCurrentTexture' /\ Matches(t, mCurrentTextureImage)'
  <2>1. t \in Slots /\ mSlots'[t].mBufferState = "ACQUIRED"
    BY DEF SlotsIn
  <2>2. Matches(t, updating) /\ Sheds(t)
    BY <1>2, <1>5, <2>1
  <2> QED BY <1>1, <2>1, <2>2 DEF Matches, Sheds
<1>6. KeptInv'
  BY <1>5 DEF KeptInv
<1>7. ReadInv'
  <2>1. isTexture => updating \in acquired' /\ mEglContext # NoContext
    BY <1>1, <1>2, <1>3 DEF UsersInv, GlInv, ReadInv
  <2>2. \A b \in reading' : \E g \in acquired' : g.buffer = b
    BY <1>1, <2>1
  <2> QED BY <1>1, <2>1, <2>2 DEF ReadInv
<1> QED BY <1>2, <1>4, <1>6, <1>7 DEF GlInv

(* In the beginning nothing is shown.                                      *)
LEMMA InitGl == GlInit => GlInv
<1> SUFFICES ASSUME GlInit PROVE GlInv
  OBVIOUS
<1>1. /\ CbInit /\ using = {} /\ acquired = {}
      /\ \A s \in Slots : mSlots[s].mBufferState = "FREE"
      /\ mCurrentTexture = NoSlot /\ mCurrentTextureImage = NoHandle
      /\ updating = NoHandle /\ reading = {}
  BY DEF GlInit, CbInit, Init, CoreInit, EmptySlot
<1>2. UsersInv /\ ShownInv /\ KeptInv /\ ReadInv
  BY <1>1 DEF UsersInv, ShownInv, KeptInv, ReadInv, IsCurrent, SlotsIn
<1> QED BY <1>1, <1>2, InitPromises DEF GlInv

(* Every step of GLConsumer and FramebufferSurface keeps it.               *)
LEMMA NextKeepsGl ==
  ASSUME SurfacesProduce, GlInv, [GlNext]_glVars
  PROVE  GlInv'
<1>1. NeverMixed
  BY DEF SurfacesProduce
<1>2. ASSUME NEW context, updateTexImage(context) PROVE GlInv'
  <2>1. (~isTexture \/ ~mAttached) => reading = {}
    BY DEF GlInv, ReadInv
  <2> QED BY <1>2, <2>1, AcquireKeepsGl DEF updateTexImage, EglStateIsValid
<1>3. CASE nextBuffer
  <2>1. (~isTexture \/ ~mAttached) => reading = {}
    BY DEF GlInv, ReadInv
  <2> QED BY <1>3, <2>1, AcquireKeepsGl DEF nextBuffer
<1>4. ASSUME NEW context, \/ updateWithoutBuffer(context) \/ detachFromContext(context)
                          \/ attachToContext(context)
      PROVE  GlInv'
  <2>1. UNCHANGED <<allVars, currentVars, updating>> /\ ReadInv'
    BY <1>4, ContextsKeepRead
  <2> QED BY <1>1, <2>1, ContextKeepsGl
<1>5. CASE UNCHANGED glVars
  <2>1. /\ UNCHANGED <<allVars, currentVars, updating>>
        /\ UNCHANGED <<isTexture, mAttached, mEglContext, updating, reading, acquired>>
    BY <1>5 DEF glVars, contextVars, allVars, vars, coreVars
  <2>2. ReadInv'
    BY <2>1, ReadingStays DEF GlInv
  <2> QED BY <1>1, <2>1, <2>2, ContextKeepsGl
<1>6. CASE GlUserNext
  BY <1>2, <1>3, <1>4, <1>6, ReturnKeepsGl, ReleaseTexKeepsGl, UpdateKeepsGl DEF GlUserNext
<1> QED BY <1>5, <1>6, HappeningKeepsGl DEF GlNext

(* The images are held, and no slot but the current one is kept.           *)
LEMMA GlHolds == GlInv => CurrentIsHeld /\ OneIsHeld
<1> SUFFICES ASSUME GlInv PROVE CurrentIsHeld /\ OneIsHeld
  OBVIOUS
<1>1. ASSUME NEW b \in (reading \union {mCurrentTextureImage.buffer}) \ {NoBuffer}
      PROVE  \E g \in acquired : g.buffer = b
  <2>1. CASE b \in reading
    BY <2>1 DEF GlInv, ReadInv
  <2>2. CASE b = mCurrentTextureImage.buffer
    <3>1. mCurrentTextureImage \in using
      BY <1>1, <2>2, NoHandleFacts DEF GlInv, ShownInv
    <3> QED BY <1>1, <2>2, <3>1 DEF GlInv, UsersInv
  <2> QED BY <1>1, <2>1, <2>2
<1>2. CurrentIsHeld
  BY <1>1 DEF CurrentIsHeld, GlInv, BaseInv, HandsInv, AcquiredOnce
<1>3. OneIsHeld
  BY DEF OneIsHeld, MutexIsFree, GlInv, KeptInv
<1> QED BY <1>2, <1>3

(* No producer writes what GLConsumer or FramebufferSurface shows or GL    *)
(* still reads, and no slot but the current one is kept from the producers *)
(* (GLConsumer.cpp:365-443, FramebufferSurface.cpp:86-122).                *)
THEOREM CurrentImageIsHeldAlone ==
  ASSUME SurfacesProduce
  PROVE  GlSpec => [](CurrentIsHeld /\ OneIsHeld)
<1>1. GlInv /\ [GlNext]_glVars => GlInv'
  BY NextKeepsGl
<1> QED BY <1>1, InitGl, GlHolds, PTL DEF GlSpec
-----------------------------------------------------------------------------
(* A queue with either kind of consumer.                                   *)

(* The consumer of the other kind has nothing.                             *)
MCInv ==
  \/ kind = "image" /\ GlInv /\ mAcquiredBuffers = {}
  \/ kind = "item" /\ CpuInv /\ mCurrentTextureImage = NoHandle /\ reading = {}

(* Whichever consumer a queue has, what it shows, reads or has locked is   *)
(* not written by a producer, for any number of slots, buffers and threads *)
(* (GLConsumer.cpp:365-443, FramebufferSurface.cpp:86-122,                 *)
(* CpuConsumer.cpp:66-268).                                                *)
THEOREM WhatIsUsedIsHeld ==
  ASSUME SurfacesProduce
  PROVE  MCSpec => [](ImagesAreHeld /\ LockedIsHeld)
<1>1. MCInit => MCInv
  BY InitGl, InitCpu DEF MCInit, MCInv, GlInit, CpuInit
<1>2. MCInv /\ [MCNext]_<<kind, glVars, cpuVars>> => MCInv'
  <2> SUFFICES ASSUME MCInv, [MCNext]_<<kind, glVars, cpuVars>> PROVE MCInv'
    OBVIOUS
  <2>1. /\ UNCHANGED kind
        /\ \/ [GlNext]_glVars /\ UNCHANGED cpuVars
           \/ [CpuNext]_<<allVars, cpuVars>> /\ UNCHANGED imageVars
    BY DEF MCNext, glVars, imageVars
  <2>2. CASE kind = "image"
    <3>1. [GlNext]_glVars /\ UNCHANGED <<kind, mAcquiredBuffers>>
      BY <2>2 DEF MCNext, cpuVars
    <3>2. GlInv /\ mAcquiredBuffers = {}
      BY <2>2 DEF MCInv
    <3> QED BY <2>2, <3>1, <3>2, NextKeepsGl DEF MCInv
  <2>3. CASE kind = "item"
    <3>1. /\ [CpuNext]_<<allVars, cpuVars>>
          /\ UNCHANGED <<kind, mCurrentTextureImage, reading>>
      BY <2>3 DEF MCNext, glVars, imageVars, currentVars
    <3>2. CpuInv /\ mCurrentTextureImage = NoHandle /\ reading = {}
      BY <2>3 DEF MCInv
    <3> QED BY <2>3, <3>1, <3>2, NextKeepsCpu DEF MCInv
  <2> QED BY <2>2, <2>3 DEF MCInv
<1>3. MCInv => ImagesAreHeld /\ LockedIsHeld
  <2>1. CASE kind = "image" /\ GlInv /\ mAcquiredBuffers = {}
    BY <2>1, GlHolds DEF ImagesAreHeld, OneImageIsHeld, LockedIsHeld
  <2>2. CASE kind = "item" /\ CpuInv /\ mCurrentTextureImage = NoHandle /\ reading = {}
    BY <2>2, CpuLocks DEF ImagesAreHeld, OneImageIsHeld, CurrentIsHeld, NoHandle
  <2> QED BY <2>1, <2>2 DEF MCInv
<1> QED BY <1>1, <1>2, <1>3, PTL DEF MCSpec
=============================================================================
