-------------------------- MODULE BufferQueueProofs --------------------------
(***************************************************************************)
(* Theorems about BufferQueue for every value of its constants.            *)
(***************************************************************************)
EXTENDS BufferQueue, TLAPS

(* Helpers keep the types of what they are given.                          *)
LEMMA FreedSlotType == \A slot \in BufferSlot : FreedSlot(slot) \in BufferSlot
  BY CoreAssumption DEF FreedSlot, BufferSlot, BufferState

(* TrimmedSlots gives an array of slots.                                   *)
LEMMA TrimmedType ==
  ASSUME CoreTypeOK, NEW max
  PROVE  TrimmedSlots(max) \in [Slots -> BufferSlot]
  BY FreedSlotType DEF CoreTypeOK, TrimmedSlots

(* So does freeBufferLocked,                                               *)
LEMMA FreeBufferType ==
  ASSUME CoreTypeOK, NEW s \in Slots
  PROVE  freeBufferLocked(mSlots, s) \in [Slots -> BufferSlot]
  BY FreedSlotType DEF CoreTypeOK, freeBufferLocked

(* and freeAllBuffersLocked.                                               *)
LEMMA FreeAllType ==
  CoreTypeOK /\ freeAllBuffersLocked => mSlots' \in [Slots -> BufferSlot]
  BY FreedSlotType DEF CoreTypeOK, freeAllBuffersLocked

(* The slot dequeueBuffer has found.                                       *)
LEMMA DequeuedSlotType ==
  \A slot \in BufferSlot :
    /\ [slot EXCEPT !.mBufferState = "DEQUEUED"] \in BufferSlot
    /\ [slot EXCEPT !.mBufferState = "DEQUEUED", !.mAcquireCalled = FALSE,
                    !.mGraphicBuffer = NoBuffer,
                    !.mRequestBufferCalled = FALSE] \in BufferSlot
  BY DEF BufferSlot, BufferState

(* The slot attachBuffer has filled.                                       *)
LEMMA AttachedSlotType ==
  \A slot \in BufferSlot, b \in Buffers \cup {NoBuffer} :
    [slot EXCEPT !.mGraphicBuffer = b, !.mBufferState = "DEQUEUED",
                 !.mRequestBufferCalled = TRUE] \in BufferSlot
  BY DEF BufferSlot, BufferState

(* A slot given back or queued, and one the client asks for.               *)
LEMMA GivenBackSlotType ==
  \A slot \in BufferSlot, frame \in Nat :
    /\ [slot EXCEPT !.mBufferState = "FREE", !.mFrameNumber = frame] \in BufferSlot
    /\ [slot EXCEPT !.mBufferState = "QUEUED", !.mFrameNumber = frame] \in BufferSlot
    /\ [slot EXCEPT !.mRequestBufferCalled = TRUE] \in BufferSlot
  BY DEF BufferSlot, BufferState

(* A slot the consumer acquires or releases.                               *)
LEMMA AcquiredSlotType ==
  \A slot \in BufferSlot :
    /\ [slot EXCEPT !.mBufferState = "FREE"] \in BufferSlot
    /\ [slot EXCEPT !.mNeedsCleanupOnRelease = FALSE] \in BufferSlot
    /\ [slot EXCEPT !.mAcquireCalled = TRUE, !.mNeedsCleanupOnRelease = FALSE,
                    !.mBufferState = "ACQUIRED"] \in BufferSlot
  BY DEF BufferSlot, BufferState

(* A slot the consumer attaches to.                                        *)
LEMMA ConsumerSlotType ==
  \A slot \in BufferSlot, b \in Buffers :
    [slot EXCEPT !.mGraphicBuffer = b, !.mBufferState = "ACQUIRED",
                 !.mAttachedByConsumer = TRUE, !.mNeedsCleanupOnRelease = FALSE,
                 !.mFrameNumber = 0, !.mAcquireCalled = FALSE] \in BufferSlot
  BY DEF BufferSlot, BufferState

(* The array after cancelBuffer.                                           *)
LEMMA CancelledType ==
  ASSUME CoreTypeOK, NEW s \in Slots
  PROVE  CancelledSlot(s) \in [Slots -> BufferSlot]
  BY GivenBackSlotType DEF CoreTypeOK, CancelledSlot

(* A thread that is woken keeps its arguments.                             *)
LEMMA WokenType ==
  ASSUME NEW req \in Request PROVE [op |-> "woken", req |-> req] \in Call
  BY DEF Call

(* What a thread inside a call remembers of it                             *)
LEMMA CallFields ==
  ASSUME NEW c \in Call
  PROVE  /\ c.op \in {"waiting", "woken"} =>
              c \in [op: {"waiting", "woken"}, req: Request]
         /\ c.op = "allocating" =>
              c \in [op: {"allocating"}, slot: Slots, size: Sizes, released: BOOLEAN]
         /\ c.op = "returned" =>
              c \in [op: {"returned"}, slot: Slots, realloc: BOOLEAN, released: BOOLEAN]
         /\ c.op = "refused" => c \in [op: {"refused"}, slot: Slots]
         /\ c.op = "callback" =>
              c \in [op: {"callback"}, ticket: Nat, frame: Nat,
                     event: {"available", "replaced", "none"}]
         /\ c.op = "allocateBuffers" => c \in [op: {"allocateBuffers"}, async: BOOLEAN]
         /\ c.op = "preallocating" =>
              c \in [op: {"preallocating"}, async: BOOLEAN, slots: SUBSET Slots, size: Sizes]
  BY DEF Call, Idle

(* Being outside a call is a state of a thread.                            *)
LEMMA IdleType == Idle \in Call
  BY DEF Call

(* A broadcast leaves the threads well typed.                              *)
LEMMA BroadcastType ==
  ASSUME call \in [Producers -> Call]
  PROVE  Broadcast(call) \in [Producers -> Call]
<1>1. ASSUME NEW p \in Producers, call[p].op = "waiting"
      PROVE  [op |-> "woken", req |-> call[p].req] \in Call
  <2>1. call[p].req \in Request
    BY <1>1 DEF Call, Idle
  <2>2. QED BY <2>1, WokenType
<1>2. QED BY <1>1 DEF Broadcast
-----------------------------------------------------------------------------
(* TypeOK is inductive: one lemma for each action of the producer ...      *)
LEMMA IdleReturn ==
  ASSUME call \in [Producers -> Call], NEW p \in Producers
  PROVE  /\ Return(p) => call' \in [Producers -> Call]
         /\ BroadcastAndReturn(p) => call' \in [Producers -> Call]
  BY IdleType, BroadcastType DEF Return, BroadcastAndReturn

(* The loop of dequeueBuffer and attachBuffer.                             *)
LEMMA WaitForSlotType ==
  ASSUME TypeOK, NEW p \in Producers, NEW req \in Request,
         waitForFreeSlotThenRelock(p, req), UNCHANGED lastAcquired
  PROVE  TypeOK'
<1> DEFINE max      == getMaxBufferCountLocked(req.async)
           released == req.released \/ BeyondMax(max) # {}
<1>1. mSlots \in [Slots -> BufferSlot] /\ TrimmedSlots(max) \in [Slots -> BufferSlot]
  BY TrimmedType DEF TypeOK, CoreTypeOK
<1>2. req.async \in BOOLEAN /\ req.size \in Sizes /\ released \in BOOLEAN
      /\ req.buffer \in Buffers \cup {NoBuffer}
  BY DEF Request
<1>3. mSlots' \in [Slots -> BufferSlot] /\ call' \in [Producers -> Call]
      /\ held' \in SUBSET Slots /\ mirror' \in [Slots -> Buffers \cup {NoBuffer}]
  <2> USE DEF TypeOK, ProducerTypeOK
  <2>1. CASE UNCHANGED <<mSlots, held, mirror>> /\ Return(p)
    BY <2>1, <1>1, IdleReturn
  <2>2. CASE mSlots' = TrimmedSlots(max) /\ Return(p) /\ UNCHANGED <<held, mirror>>
    BY <2>2, <1>1, IdleReturn
  <2>3. CASE /\ mSlots' = TrimmedSlots(max)
             /\ call' = [call EXCEPT ![p] = [op |-> "waiting",
                           req |-> [req EXCEPT !.released = released]]]
             /\ UNCHANGED <<held, mirror>>
    <3>1. [req EXCEPT !.released = released] \in Request
      BY <1>2 DEF Request
    <3>2. [op |-> "waiting", req |-> [req EXCEPT !.released = released]] \in Call
      BY <3>1 DEF Call
    <3>3. QED BY <2>3, <3>2, <1>1
  <2>4. CASE \E s \in Slots : DequeueFound(p, req, TrimmedSlots(max), s, released)
                              /\ UNCHANGED <<held, mirror>>
    <3>1. PICK s \in Slots : DequeueFound(p, req, TrimmedSlots(max), s, released)
      BY <2>4
    <3>2. [op |-> "allocating", slot |-> s, size |-> req.size,
           released |-> released] \in Call
      BY <1>2 DEF Call
    <3>3. [op |-> "returned", slot |-> s, released |-> released,
           realloc |-> TrimmedSlots(max)[s].mAttachedByConsumer] \in Call
      BY <1>1, <1>2 DEF Call, BufferSlot
    <3>4. call' \in [Producers -> Call]
      BY <3>1, <3>2, <3>3 DEF DequeueFound
    <3>5. mSlots' \in [Slots -> BufferSlot]
      <4>1. TrimmedSlots(max)[s] \in BufferSlot
        BY <1>1
      <4>2. [TrimmedSlots(max)[s] EXCEPT !.mBufferState = "DEQUEUED"] \in BufferSlot
            /\ [TrimmedSlots(max)[s] EXCEPT !.mBufferState = "DEQUEUED",
                 !.mAcquireCalled = FALSE, !.mGraphicBuffer = NoBuffer,
                 !.mRequestBufferCalled = FALSE] \in BufferSlot
        BY <4>1, DequeuedSlotType
      <4>3. CASE NeedsReallocation(TrimmedSlots(max)[s], req.size)
        <5>1. mSlots' = [TrimmedSlots(max) EXCEPT ![s] =
                          [TrimmedSlots(max)[s] EXCEPT !.mBufferState = "DEQUEUED",
                             !.mAcquireCalled = FALSE, !.mGraphicBuffer = NoBuffer,
                             !.mRequestBufferCalled = FALSE]]
          BY <3>1, <4>3 DEF DequeueFound
        <5>2. QED
          BY <5>1, <1>1, <4>2
      <4>4. CASE ~NeedsReallocation(TrimmedSlots(max)[s], req.size)
        <5>1. mSlots' = [TrimmedSlots(max) EXCEPT ![s] =
                          [TrimmedSlots(max)[s] EXCEPT !.mBufferState = "DEQUEUED"]]
          BY <3>1, <4>4 DEF DequeueFound
        <5>2. QED
          BY <5>1, <1>1, <4>2
      <4>5. QED
        BY <4>3, <4>4
    <3>6. QED BY <3>4, <3>5, <2>4
  <2>5. CASE \E s \in Slots : AttachFound(p, req, TrimmedSlots(max), s, released)
    <3>1. PICK s \in Slots : AttachFound(p, req, TrimmedSlots(max), s, released)
      BY <2>5
    <3>2. mSlots' \in [Slots -> BufferSlot]
      BY <3>1, <1>1, <1>2, AttachedSlotType DEF AttachFound
    <3>3. call' \in [Producers -> Call]
      BY <3>1, IdleReturn DEF AttachFound
    <3>4. QED BY <3>1, <3>2, <3>3, <1>2 DEF AttachFound, NoMirror
  <2>6. QED
    BY <2>1, <2>2, <2>3, <2>4, <2>5 DEF waitForFreeSlotThenRelock
<1>4. QED
  BY <1>3 DEF waitForFreeSlotThenRelock, TypeOK, CoreTypeOK, ProducerTypeOK,
              ConsumerTypeOK, connectionVars, limitVars, ticketVars

(* The arguments with which the loop is entered.                           *)
LEMMA RequestType ==
  ASSUME TypeOK, NEW p \in Producers
  PROVE  /\ Retry(p) => call[p].req \in Request
         /\ \A async \in AsyncModes, size \in Sizes :
              [kind |-> "dequeue", async |-> async, size |-> size,
               buffer |-> NoBuffer, released |-> FALSE] \in Request
         /\ \A b \in Buffers :
              [kind |-> "attach", async |-> FALSE, size |-> SizeOf[b],
               buffer |-> b, released |-> FALSE] \in Request
<1>1. Retry(p) => call[p].req \in Request
  BY DEF TypeOK, ProducerTypeOK, Retry, Call, Idle
<1>2. \A async \in AsyncModes, size \in Sizes :
        [kind |-> "dequeue", async |-> async, size |-> size,
         buffer |-> NoBuffer, released |-> FALSE] \in Request
  <2>1. TAKE async \in AsyncModes, size \in Sizes
  <2>2. async \in BOOLEAN
    BY ProducerAssumption
  <2>3. QED BY <2>2 DEF Request
<1>3. \A b \in Buffers :
        [kind |-> "attach", async |-> FALSE, size |-> SizeOf[b],
         buffer |-> b, released |-> FALSE] \in Request
  <2>1. TAKE b \in Buffers
  <2>2. SizeOf[b] \in Sizes
    BY CoreAssumption
  <2>3. QED BY <2>2 DEF Request
<1>4. QED
  BY <1>1, <1>2, <1>3

(* The first turn of dequeueBuffer and attachBuffer, and the later ones.   *)
LEMMA DequeueType ==
  ASSUME TypeOK, NEW p \in Producers, UNCHANGED lastAcquired,
         \/ Retry(p) \/ dequeueBuffer(p) \/ attachBuffer(p)
  PROVE  TypeOK'
  BY WaitForSlotType, RequestType DEF Retry, dequeueBuffer, attachBuffer

(* dequeueBuffer after the allocation.                                     *)
LEMMA AllocatedType ==
  ASSUME TypeOK, NEW p \in Producers, UNCHANGED lastAcquired,
         \/ dequeueBufferAllocated(p) \/ dequeueBufferAllocationFailed(p)
  PROVE  TypeOK'
<1>1. CASE dequeueBufferAllocated(p)
  <2>1. call[p].slot \in Slots /\ call[p].released \in BOOLEAN
    <3>1. call[p] \in Call /\ call[p].op = "allocating"
      BY <1>1 DEF dequeueBufferAllocated, TypeOK, ProducerTypeOK
    <3>2. call[p] \in [op: {"allocating"}, slot: Slots, size: Sizes, released: BOOLEAN]
      BY <3>1, CallFields
    <3>3. QED BY <3>2
  <2>2. [op |-> "returned", slot |-> call[p].slot,
         released |-> call[p].released, realloc |-> TRUE] \in Call
    BY <2>1 DEF Call
  <2>3. call' \in [Producers -> Call]
    BY <1>1, <2>2, IdleReturn DEF dequeueBufferAllocated, TypeOK, ProducerTypeOK
  <2>4. mSlots' \in [Slots -> BufferSlot]
    <3>1. UINT32_MAX \in Nat /\ mSlots[call[p].slot] \in BufferSlot
      BY <2>1, CoreAssumption DEF TypeOK, CoreTypeOK
    <3>2. \A b \in Buffers :
            [mSlots[call[p].slot] EXCEPT !.mFrameNumber = UINT32_MAX,
                                         !.mGraphicBuffer = b] \in BufferSlot
      BY <3>1 DEF BufferSlot
    <3>3. CASE mIsAbandoned
      BY <1>1, <3>3 DEF dequeueBufferAllocated, TypeOK, CoreTypeOK
    <3>4. CASE ~mIsAbandoned
      <4>1. PICK b \in Fresh(call[p].size) :
               mSlots' = [mSlots EXCEPT ![call[p].slot] =
                            [@ EXCEPT !.mFrameNumber = UINT32_MAX,
                                      !.mGraphicBuffer = b]]
        BY <1>1, <3>4 DEF dequeueBufferAllocated
      <4>2. b \in Buffers
        BY DEF Fresh
      <4>3. mSlots \in [Slots -> BufferSlot]
        BY DEF TypeOK, CoreTypeOK
      <4>4. QED BY <2>1, <3>2, <4>1, <4>2, <4>3
    <3>5. QED BY <3>3, <3>4
  <2>5. QED
    BY <1>1, <2>3, <2>4 DEF dequeueBufferAllocated, TypeOK, CoreTypeOK,
       ProducerTypeOK, ConsumerTypeOK, connectionVars, limitVars, ticketVars
<1>2. CASE dequeueBufferAllocationFailed(p)
  BY <1>2, IdleReturn DEF dequeueBufferAllocationFailed, TypeOK, CoreTypeOK,
     ProducerTypeOK, ConsumerTypeOK, coreVars, connectionVars, limitVars, ticketVars
<1>3. QED BY <1>1, <1>2

(* Surface asks for the buffer of its slot.                                *)
LEMMA RequestBufferType ==
  ASSUME TypeOK, NEW p \in Producers, UNCHANGED lastAcquired, requestBuffer(p)
  PROVE  TypeOK'
<1> DEFINE s == call[p].slot
<1>1. s \in Slots /\ mSlots[s] \in BufferSlot
      /\ mSlots[s].mGraphicBuffer \in Buffers \cup {NoBuffer}
  <2>1. call[p] \in Call /\ call[p].op = "returned"
    BY DEF requestBuffer, TypeOK, ProducerTypeOK
  <2>2. s \in Slots
    BY <2>1, CallFields
  <2>3. mSlots[s] \in BufferSlot
    BY <2>2 DEF TypeOK, CoreTypeOK
  <2>4. QED BY <2>2, <2>3 DEF BufferSlot
<1>2. (IF call[p].released THEN NoMirror ELSE mirror)
        \in [Slots -> Buffers \cup {NoBuffer}]
  BY DEF TypeOK, ProducerTypeOK, NoMirror
<1>3. mSlots' \in [Slots -> BufferSlot]
  BY <1>1, GivenBackSlotType DEF requestBuffer, TypeOK, CoreTypeOK
<1>4. call' \in [Producers -> Call]
  <2>1. [op |-> "refused", slot |-> s] \in Call
    BY <1>1 DEF Call
  <2>2. QED
    BY <2>1, IdleReturn DEF requestBuffer, TypeOK, ProducerTypeOK
<1>5. mirror' \in [Slots -> Buffers \cup {NoBuffer}] /\ held' \in SUBSET Slots
  BY <1>1, <1>2 DEF requestBuffer, TypeOK, ProducerTypeOK
<1>6. QED
  BY <1>3, <1>4, <1>5 DEF requestBuffer, TypeOK, CoreTypeOK, ProducerTypeOK,
     ConsumerTypeOK, connectionVars, limitVars, ticketVars

(* A slot is given back unused.                                            *)
LEMMA CancelType ==
  ASSUME TypeOK, NEW p \in Producers, UNCHANGED lastAcquired,
         cancelRefused(p) \/ cancelBuffer(p)
  PROVE  TypeOK'
<1>1. call' \in [Producers -> Call]
  BY IdleReturn DEF cancelRefused, cancelBuffer, TypeOK, ProducerTypeOK
<1>2. mSlots' \in [Slots -> BufferSlot] /\ held' \in SUBSET Slots
  <2>1. CASE cancelRefused(p)
    <3>1. call[p] \in Call /\ call[p].op = "refused"
      BY <2>1 DEF cancelRefused, TypeOK, ProducerTypeOK
    <3>2. call[p].slot \in Slots
      BY <3>1, CallFields
    <3>3. QED
      BY <2>1, <3>2, CancelledType DEF cancelRefused, TypeOK, CoreTypeOK, ProducerTypeOK
  <2>2. CASE cancelBuffer(p)
    BY <2>2, CancelledType DEF cancelBuffer, TypeOK, ProducerTypeOK
  <2>3. QED BY <2>1, <2>2
<1>3. QED
  BY <1>1, <1>2 DEF cancelRefused, cancelBuffer, TypeOK, CoreTypeOK,
     ProducerTypeOK, ConsumerTypeOK, connectionVars, limitVars, ticketVars

(* The elements of a sequence are of its type.                             *)
LEMMA SeqElements ==
  ASSUME NEW S, NEW q \in Seq(S), NEW x \in S
  PROVE  /\ Append(q, x) \in Seq(S)
         /\ q # << >> => q[1] \in S /\ [q EXCEPT ![1] = x] \in Seq(S)
  OBVIOUS

(* An element of a sequence, and what is behind it.                        *)
LEMMA SeqFront ==
  ASSUME NEW S, NEW q \in Seq(S), NEW n \in 0 .. Len(q) - 1
  PROVE  q[n + 1] \in S /\ SubSeq(q, n + 2, Len(q)) \in Seq(S)
  OBVIOUS

(* mQueue after queueBuffer.                                               *)
LEMMA EnqueueType ==
  ASSUME CoreTypeOK, NEW slots \in [Slots -> BufferSlot], NEW item \in BufferItem,
         Enqueue(slots, item)
  PROVE  mQueue' \in Seq(BufferItem) /\ mSlots' \in [Slots -> BufferSlot]
<1> mQueue \in Seq(BufferItem)
  BY DEF CoreTypeOK
<1>1. CASE ReplacesFront
  <2>1. mQueue[1] \in BufferItem /\ [mQueue EXCEPT ![1] = item] \in Seq(BufferItem)
    BY <1>1, SeqElements DEF ReplacesFront
  <2>2. mQueue[1].mSlot \in Slots
    BY <2>1 DEF BufferItem
  <2>3. slots[mQueue[1].mSlot] \in BufferSlot
    BY <2>2
  <2>4. [slots[mQueue[1].mSlot] EXCEPT !.mBufferState = "FREE", !.mFrameNumber = 0]
          \in BufferSlot
    BY <2>3, GivenBackSlotType
  <2>5. QED
    BY <1>1, <2>1, <2>2, <2>4 DEF Enqueue
<1>2. CASE ~ReplacesFront
  BY <1>2, SeqElements DEF Enqueue
<1>3. QED BY <1>1, <1>2

(* queueBuffer and its callback.                                           *)
LEMMA QueueType ==
  ASSUME TypeOK, NEW p \in Producers, UNCHANGED lastAcquired,
         queueBuffer(p) \/ queueBufferCallback(p)
  PROVE  TypeOK'
<1>1. CASE queueBuffer(p)
  <2>1. PICK s \in Slots, async \in AsyncModes, time \in Timestamps, auto \in AutoTimestamps :
          /\ Enqueue([mSlots EXCEPT ![s] = [@ EXCEPT !.mBufferState = "QUEUED",
                                                   !.mFrameNumber = mFrameCounter + 1]],
                     QueuedItem(s, async, time, auto))
          /\ held' = held \ {s}
    BY <1>1 DEF queueBuffer
  <2>2. mFrameCounter + 1 \in Nat /\ mNextCallbackTicket \in Nat
        /\ mSlots[s] \in BufferSlot
    BY DEF TypeOK, CoreTypeOK, ProducerTypeOK
  <2>3. [mSlots EXCEPT ![s] = [@ EXCEPT !.mBufferState = "QUEUED",
                                        !.mFrameNumber = mFrameCounter + 1]]
          \in [Slots -> BufferSlot]
    BY <2>2, GivenBackSlotType DEF TypeOK, CoreTypeOK
  <2>4. QueuedItem(s, async, time, auto) \in BufferItem
    <3>1. time \in Int /\ auto \in BOOLEAN
          /\ (mDequeueBufferCannotBlock \/ async) \in BOOLEAN
      BY ProducerAssumption
    <3>2. mSlots[s].mGraphicBuffer \in Buffers \cup {NoBuffer}
          /\ mSlots[s].mAcquireCalled \in BOOLEAN
      BY <2>2 DEF BufferSlot
    <3>3. QED BY <2>2, <3>1, <3>2 DEF BufferItem, QueuedItem
  <2>5. mQueue' \in Seq(BufferItem) /\ mSlots' \in [Slots -> BufferSlot]
    BY <2>1, <2>3, <2>4, EnqueueType DEF TypeOK
  <2>6. call' \in [Producers -> Call]
    <3>1. [op |-> "callback", ticket |-> mNextCallbackTicket,
           frame |-> mFrameCounter + 1, event |-> CallbackEvent] \in Call
      BY <2>2 DEF Call, CallbackEvent
    <3>2. QED BY <1>1, <3>1, BroadcastType DEF queueBuffer, TypeOK, ProducerTypeOK
  <2>7. held' \in SUBSET Slots
    BY <2>1 DEF TypeOK, ProducerTypeOK
  <2>8. /\ mFrameCounter' = mFrameCounter + 1 /\ mBufferHasBeenQueued' = TRUE
        /\ mNextCallbackTicket' = mNextCallbackTicket + 1
        /\ UNCHANGED <<acquired, connectionVars, limitVars, mIsAllocating,
                       mCurrentCallbackTicket, mirror, notified>>
    BY <1>1 DEF queueBuffer
  <2>9. QED
    BY <2>2, <2>5, <2>6, <2>7, <2>8 DEF TypeOK, CoreTypeOK,
       ProducerTypeOK, ConsumerTypeOK, connectionVars, limitVars
<1>2. CASE queueBufferCallback(p)
  <2>1. call[p] \in Call /\ call[p].op = "callback"
    BY <1>2 DEF queueBufferCallback, TypeOK, ProducerTypeOK
  <2>2. call[p].frame \in Nat
    BY <2>1, CallFields
  <2>3. QED
    BY <1>2, <2>2, IdleReturn DEF queueBufferCallback, TypeOK, CoreTypeOK,
       ProducerTypeOK, ConsumerTypeOK, coreVars, connectionVars, limitVars
<1>3. QED BY <1>1, <1>2

(* The two ways to detach.                                                 *)
LEMMA DetachType ==
  ASSUME TypeOK, NEW p \in Producers, UNCHANGED lastAcquired,
         detachBuffer(p) \/ detachNextBuffer(p)
  PROVE  TypeOK'
<1>1. PICK s \in Slots :
        /\ mSlots' = freeBufferLocked(mSlots, s)
        /\ mirror' = [mirror EXCEPT ![s] = NoBuffer]
        /\ held' = held \/ held' = held \ {s}
  BY DEF detachBuffer, detachNextBuffer
<1>2. call' \in [Producers -> Call]
  BY IdleReturn DEF detachBuffer, detachNextBuffer, TypeOK, ProducerTypeOK
<1>3. QED
  BY <1>1, <1>2, FreeBufferType DEF detachBuffer, detachNextBuffer, TypeOK, CoreTypeOK,
     ProducerTypeOK, ConsumerTypeOK, connectionVars, limitVars, ticketVars

(* connect, disconnect and setBufferCount.                                 *)
LEMMA ConnectionType ==
  ASSUME TypeOK, NEW p \in Producers, UNCHANGED lastAcquired,
         \/ setBufferCount(p) \/ connect(p) \/ disconnect(p)
         \/ buffersReleasedCallback(p)
  PROVE  TypeOK'
<1>1. call' \in [Producers -> Call]
  <2>1. (IF mConsumerListener THEN [op |-> "buffersReleased"] ELSE Idle) \in Call
    BY DEF Call
  <2>2. QED
    BY <2>1, IdleReturn, BroadcastType DEF setBufferCount, connect, disconnect,
       buffersReleasedCallback, producerVars, TypeOK, ProducerTypeOK
<1>2. NoMirror \in [Slots -> Buffers \cup {NoBuffer}]
  BY DEF NoMirror
<1>3. CASE setBufferCount(p)
  <2>1. mOverrideMaxBufferCount' \in 0 .. NUM_BUFFER_SLOTS
    BY <1>3, CoreAssumption, ProducerAssumption DEF setBufferCount
  <2>2. mSlots' \in [Slots -> BufferSlot] /\ mBufferHasBeenQueued' \in BOOLEAN
        /\ mirror' \in [Slots -> Buffers \cup {NoBuffer}]
    BY <1>2, <1>3, FreeAllType DEF setBufferCount, freeAllBuffersLocked, TypeOK,
       CoreTypeOK, ProducerTypeOK
  <2>3. QED
    BY <1>1, <1>3, <2>1, <2>2 DEF setBufferCount, TypeOK, CoreTypeOK,
       ProducerTypeOK, ConsumerTypeOK, connectionVars, ticketVars
<1>4. CASE connect(p)
  <2>1. mConnectedApi' \in Apis \cup {NO_CONNECTED_API}
        /\ mDequeueBufferCannotBlock' \in BOOLEAN
    BY <1>4 DEF connect
  <2>2. QED
    BY <1>4, <2>1 DEF connect, TypeOK, CoreTypeOK, ProducerTypeOK,
       ConsumerTypeOK, limitVars, producerVars
<1>5. CASE disconnect(p)
  <2>1. mSlots' \in [Slots -> BufferSlot] /\ mBufferHasBeenQueued' \in BOOLEAN
    BY <1>5, FreeAllType DEF disconnect, freeAllBuffersLocked, TypeOK
  <2>2. QED
    BY <1>1, <1>2, <1>5, <2>1 DEF disconnect, TypeOK, CoreTypeOK, ProducerTypeOK,
       ConsumerTypeOK, limitVars, ticketVars
<1>6. CASE buffersReleasedCallback(p)
  BY <1>1, <1>6 DEF buffersReleasedCallback, TypeOK, CoreTypeOK, ProducerTypeOK,
     ConsumerTypeOK, coreVars, connectionVars, limitVars, ticketVars
<1>7. QED BY <1>3, <1>4, <1>5, <1>6

(* The three steps of allocateBuffers.                                     *)
LEMMA AllocateBuffersType ==
  ASSUME TypeOK, NEW p \in Producers, UNCHANGED lastAcquired,
         \/ allocateBuffers(p) \/ allocateBuffersAllocated(p)
         \/ allocateBuffersFailed(p)
  PROVE  TypeOK'
<1>1. ASSUME NEW async \in BOOLEAN, AllocateBuffersTurn(p, async)
      PROVE  TypeOK'
  <2>1. Lowest(Missing(async), FreeBareSlots) \in SUBSET Slots
    BY DEF Lowest, FreeBareSlots, BareSlots
  <2>2. [op |-> "preallocating", async |-> async,
         slots |-> Lowest(Missing(async), FreeBareSlots),
         size |-> mDefaultSize] \in Call
    BY <2>1 DEF Call, TypeOK, CoreTypeOK
  <2>3. call' \in [Producers -> Call] /\ mIsAllocating' \in BOOLEAN
    BY <1>1, <2>2, IdleReturn DEF AllocateBuffersTurn, TypeOK, CoreTypeOK, ProducerTypeOK
  <2>4. QED
    BY <1>1, <2>3 DEF AllocateBuffersTurn, TypeOK, CoreTypeOK, ProducerTypeOK,
       ConsumerTypeOK, connectionVars, limitVars, ticketVars
<1>2. CASE allocateBuffers(p)
  <2>1. CASE \E async \in AsyncModes : AllocateBuffersTurn(p, async)
    BY <2>1, <1>1, ProducerAssumption
  <2>2. CASE call[p].op = "allocateBuffers" /\ AllocateBuffersTurn(p, call[p].async)
    <3>1. call[p] \in Call /\ call[p].op = "allocateBuffers"
      BY <2>2 DEF TypeOK, ProducerTypeOK
    <3>2. call[p] \in [op: {"allocateBuffers"}, async: BOOLEAN]
      BY <3>1, CallFields
    <3>3. call[p].async \in BOOLEAN
      BY <3>2
    <3>4. QED BY <2>2, <3>3, <1>1
  <2>3. QED BY <1>2, <2>1, <2>2 DEF allocateBuffers
<1>3. CASE allocateBuffersAllocated(p)
  <2>1. call' \in [Producers -> Call]
    <3>1. call[p] \in Call /\ call[p].op = "preallocating"
      BY <1>3 DEF allocateBuffersAllocated, TypeOK, ProducerTypeOK
    <3>2. call[p] \in [op: {"preallocating"}, async: BOOLEAN, slots: SUBSET Slots,
                       size: Sizes]
      BY <3>1, CallFields
    <3>3. call[p].async \in BOOLEAN
      BY <3>2
    <3>4. [op |-> "allocateBuffers", async |-> call[p].async] \in Call
      BY <3>3 DEF Call
    <3>5. QED BY <1>3, <3>4 DEF allocateBuffersAllocated, TypeOK, ProducerTypeOK
  <2>2. mSlots' \in [Slots -> BufferSlot]
    <3>1. CASE UNCHANGED mSlots
      BY <3>1 DEF TypeOK, CoreTypeOK
    <3>2. CASE ~ UNCHANGED mSlots
      <4> DEFINE fill == call[p].slots \cap SlotsIn(mSlots, {"FREE"})
      <4>1. PICK new \in [fill -> Fresh(call[p].size)] :
              mSlots' = [s \in Slots |->
                IF s \in fill
                THEN [FreedSlot(mSlots[s]) EXCEPT !.mGraphicBuffer = new[s],
                                                  !.mFrameNumber = 0]
                ELSE mSlots[s]]
        BY <1>3, <3>2 DEF allocateBuffersAllocated
      <4>2. ASSUME NEW s \in Slots, s \in fill
            PROVE  [FreedSlot(mSlots[s]) EXCEPT !.mGraphicBuffer = new[s],
                                                !.mFrameNumber = 0] \in BufferSlot
        <5>1. FreedSlot(mSlots[s]) \in BufferSlot
          BY FreedSlotType DEF TypeOK, CoreTypeOK
        <5>2. new[s] \in Buffers
          BY <4>2 DEF Fresh
        <5>3. QED BY <5>1, <5>2 DEF BufferSlot
      <4>3. QED BY <4>1, <4>2 DEF TypeOK, CoreTypeOK
    <3>3. QED BY <3>1, <3>2
  <2>3. QED
    BY <1>3, <2>1, <2>2 DEF allocateBuffersAllocated, TypeOK, CoreTypeOK,
       ProducerTypeOK, ConsumerTypeOK, connectionVars, limitVars, ticketVars
<1>4. CASE allocateBuffersFailed(p)
  BY <1>4, IdleReturn DEF allocateBuffersFailed, TypeOK, CoreTypeOK,
     ProducerTypeOK, ConsumerTypeOK, connectionVars, limitVars, ticketVars
<1>5. QED BY <1>2, <1>3, <1>4

(* Every step of the producer keeps the types.                             *)
LEMMA ProducerType ==
  ASSUME TypeOK, NEW p \in Producers, ProducerStep(p), UNCHANGED lastAcquired
  PROVE  TypeOK'
  BY DequeueType, AllocatedType, RequestBufferType, CancelType, QueueType,
     DetachType, ConnectionType, AllocateBuffersType
  DEF ProducerStep, ProducerCall
-----------------------------------------------------------------------------
(* ... and for the consumer's.                                             *)
LEMMA AcquireType ==
  ASSUME TypeOK, acquireBuffer
  PROVE  TypeOK'
<1>1. PICK n \in 0 .. Len(mQueue) - 1 :
        LET front == mQueue[n + 1]
            slots == SlotsAfterDrop(n)
        IN  /\ mSlots' = IF stillTracking(slots, front)
                         THEN [slots EXCEPT ![front.mSlot] =
                                [@ EXCEPT !.mAcquireCalled = TRUE,
                                          !.mNeedsCleanupOnRelease = FALSE,
                                          !.mBufferState = "ACQUIRED"]]
                         ELSE slots
            /\ mQueue' = SubSeq(mQueue, n + 2, Len(mQueue))
            /\ acquired' = acquired \cup
                 {[slot |-> front.mSlot, frame |-> front.mFrameNumber,
                   buffer |-> front.mGraphicBuffer]}
            /\ lastAcquired' = front.mFrameNumber
  BY DEF acquireBuffer
<1> DEFINE front == mQueue[n + 1]
<1>2. front \in BufferItem /\ mQueue' \in Seq(BufferItem)
  BY <1>1, SeqFront DEF TypeOK, CoreTypeOK
<1>3. front.mSlot \in Slots /\ front.mFrameNumber \in Nat
      /\ front.mGraphicBuffer \in Buffers \cup {NoBuffer}
  BY <1>2 DEF BufferItem
<1>4. SlotsAfterDrop(n) \in [Slots -> BufferSlot]
  <2>1. \A s \in Slots : [mSlots[s] EXCEPT !.mBufferState = "FREE"] \in BufferSlot
    BY AcquiredSlotType DEF TypeOK, CoreTypeOK
  <2>2. QED BY <2>1 DEF SlotsAfterDrop, TypeOK, CoreTypeOK
<1>5. mSlots' \in [Slots -> BufferSlot]
  <2>1. SlotsAfterDrop(n)[front.mSlot] \in BufferSlot
    BY <1>3, <1>4
  <2>2. QED BY <1>1, <1>3, <1>4, <2>1, AcquiredSlotType
<1>6. acquired' \in SUBSET Handle /\ lastAcquired' \in Nat
  <2>1. /\ acquired' = acquired \cup
             {[slot |-> front.mSlot, frame |-> front.mFrameNumber,
               buffer |-> front.mGraphicBuffer]}
        /\ lastAcquired' = front.mFrameNumber
    BY <1>1
  <2>2. [slot |-> front.mSlot, frame |-> front.mFrameNumber,
         buffer |-> front.mGraphicBuffer] \in Handle
    BY <1>3 DEF Handle
  <2>3. acquired \subseteq Handle
    BY DEF TypeOK, CoreTypeOK
  <2>4. QED BY <1>3, <2>1, <2>2, <2>3
<1>7. call' \in [Producers -> Call]
  BY BroadcastType DEF acquireBuffer, WakeProducers, TypeOK, ProducerTypeOK
<1>8. QED
  BY <1>2, <1>5, <1>6, <1>7 DEF acquireBuffer, TypeOK, CoreTypeOK, ProducerTypeOK,
     ConsumerTypeOK, connectionVars, limitVars, clientVars, ticketVars

(* The consumer gives a buffer back.                                       *)
LEMMA ReleaseType ==
  ASSUME TypeOK, NEW h \in acquired, releaseBuffer(h)
  PROVE  TypeOK'
<1>1. h.slot \in Slots
  BY DEF TypeOK, CoreTypeOK, Handle
<1>2. mSlots[h.slot] \in BufferSlot
  BY <1>1 DEF TypeOK, CoreTypeOK
<1>3. mSlots' \in [Slots -> BufferSlot]
  BY <1>1, <1>2, AcquiredSlotType DEF releaseBuffer, ReleaseSlot, TypeOK, CoreTypeOK
<1>4. call' \in [Producers -> Call]
  BY BroadcastType DEF releaseBuffer, ReleaseSlot, WakeProducers, TypeOK, ProducerTypeOK
<1>5. QED
  BY <1>3, <1>4 DEF releaseBuffer, TypeOK, CoreTypeOK, ProducerTypeOK,
     ConsumerTypeOK, connectionVars, limitVars, clientVars, ticketVars

(* The consumer attaches a buffer.                                         *)
LEMMA ConsumerAttachType ==
  ASSUME TypeOK, \/ \E h \in acquired : detachAcquired(h)
                 \/ attachAcquired
  PROVE  TypeOK'
<1>1. ASSUME NEW h \in acquired, detachAcquired(h) PROVE TypeOK'
  <2>1. h.slot \in Slots
    BY DEF TypeOK, CoreTypeOK, Handle
  <2>2. mSlots' \in [Slots -> BufferSlot] /\ call' \in [Producers -> Call]
    BY <1>1, <2>1, FreeBufferType, BroadcastType DEF detachAcquired, WakeProducers,
       TypeOK, ProducerTypeOK
  <2>3. QED
    BY <1>1, <2>2 DEF detachAcquired, TypeOK, CoreTypeOK, ProducerTypeOK,
       ConsumerTypeOK, connectionVars, limitVars, clientVars, ticketVars
<1>2. CASE attachAcquired
  <2>1. PICK s \in Slots, b \in Buffers :
          /\ mSlots' = [mSlots EXCEPT ![s] =
                          [@ EXCEPT !.mGraphicBuffer = b,
                                    !.mBufferState = "ACQUIRED",
                                    !.mAttachedByConsumer = TRUE,
                                    !.mNeedsCleanupOnRelease = FALSE,
                                    !.mFrameNumber = 0,
                                    !.mAcquireCalled = FALSE]]
          /\ acquired' = acquired \cup {[slot |-> s, frame |-> 0, buffer |-> b]}
    BY <1>2 DEF attachAcquired
  <2>2. mSlots' \in [Slots -> BufferSlot]
    <3>1. mSlots[s] \in BufferSlot
      BY DEF TypeOK, CoreTypeOK
    <3>2. QED BY <2>1, <3>1, ConsumerSlotType DEF TypeOK, CoreTypeOK
  <2>3. acquired' \in SUBSET Handle
    BY <2>1 DEF Handle, TypeOK, CoreTypeOK
  <2>4. QED
    BY <1>2, <2>2, <2>3 DEF attachAcquired, TypeOK, CoreTypeOK, ProducerTypeOK,
       ConsumerTypeOK, connectionVars, limitVars, producerVars
<1>3. QED BY <1>1, <1>2

(* connect, disconnect and the settings of the consumer.                   *)
LEMMA ConfigureType ==
  ASSUME TypeOK, ConsumerConfigure
  PROVE  TypeOK'
<1>1. call' \in [Producers -> Call]
  BY BroadcastType DEF ConsumerConfigure, consumerConnect, consumerDisconnect,
     setDefaultMaxBufferCount, setMaxAcquiredBufferCount, disableAsyncBuffer,
     setDefaultBufferSize, WakeProducers, producerVars, TypeOK, ProducerTypeOK
<1>2. CASE consumerConnect
  <2>1. mConsumerControlledByApp' \in BOOLEAN
    BY <1>2, ProducerAssumption DEF consumerConnect
  <2>2. QED
    BY <1>2, <2>1 DEF consumerConnect, TypeOK, CoreTypeOK, ProducerTypeOK,
       ConsumerTypeOK, limitVars, producerVars
<1>3. CASE consumerDisconnect
  <2>1. mSlots' \in [Slots -> BufferSlot] /\ mBufferHasBeenQueued' \in BOOLEAN
    BY <1>3, FreeAllType DEF consumerDisconnect, freeAllBuffersLocked, TypeOK
  <2>2. mQueue' \in Seq(BufferItem)
    BY <1>3 DEF consumerDisconnect
  <2>3. QED
    BY <1>1, <1>3, <2>1, <2>2 DEF consumerDisconnect, TypeOK, CoreTypeOK,
       ProducerTypeOK, ConsumerTypeOK, limitVars, clientVars, ticketVars
<1>4. CASE setDefaultMaxBufferCount
  <2>1. mDefaultMaxBufferCount' \in 1 .. NUM_BUFFER_SLOTS
    BY <1>4, CoreAssumption, ConsumerAssumption DEF setDefaultMaxBufferCount
  <2>2. QED
    BY <1>1, <1>4, <2>1 DEF setDefaultMaxBufferCount, TypeOK, CoreTypeOK,
       ProducerTypeOK, ConsumerTypeOK, connectionVars, clientVars, ticketVars
<1>5. CASE setMaxAcquiredBufferCount
  BY <1>5 DEF setMaxAcquiredBufferCount, TypeOK, CoreTypeOK, ProducerTypeOK,
     ConsumerTypeOK, connectionVars, producerVars
<1>6. CASE disableAsyncBuffer
  BY <1>6 DEF disableAsyncBuffer, TypeOK, CoreTypeOK, ProducerTypeOK,
     ConsumerTypeOK, connectionVars, producerVars
<1>7. CASE setDefaultBufferSize
  BY <1>7 DEF setDefaultBufferSize, TypeOK, CoreTypeOK, ProducerTypeOK,
     ConsumerTypeOK, connectionVars, producerVars
<1>8. QED
  BY <1>2, <1>3, <1>4, <1>5, <1>6, <1>7 DEF ConsumerConfigure

(* Every step of the consumer keeps the types.                             *)
LEMMA ConsumerType ==
  ASSUME TypeOK, ConsumerStep
  PROVE  TypeOK'
  BY AcquireType, ReleaseType, ConsumerAttachType, ConfigureType DEF ConsumerStep
-----------------------------------------------------------------------------
(* The types hold in the beginning.                                        *)
LEMMA InitType == Init => TypeOK
<1>1. EmptySlot \in BufferSlot
  BY DEF EmptySlot, BufferSlot, BufferState
<1>2. CoreInit => CoreTypeOK
  <2> SUFFICES ASSUME CoreInit PROVE CoreTypeOK
    OBVIOUS
  <2>1. mSlots \in [Slots -> BufferSlot] /\ mQueue \in Seq(BufferItem)
    BY <1>1 DEF CoreInit
  <2>2. /\ 0 \in 0 .. NUM_BUFFER_SLOTS /\ 2 \in 1 .. NUM_BUFFER_SLOTS
        /\ 1 \in 1 .. MAX_MAX_ACQUIRED_BUFFERS
    BY CoreAssumption DEF MAX_MAX_ACQUIRED_BUFFERS
  <2>3. QED
    BY <2>1, <2>2 DEF CoreInit, CoreTypeOK
<1>3. ProducerInit => ProducerTypeOK
  BY IdleType DEF ProducerInit, ProducerTypeOK
<1>4. QED
  BY <1>2, <1>3 DEF Init, ConsumerInit, TypeOK, ConsumerTypeOK

(* Every state the program can reach has the types of TypeOK, whatever the *)
(* number of slots, buffers and threads.                                   *)
THEOREM TypeCorrect == Spec => []TypeOK
<1>1. TypeOK /\ [Next]_vars => TypeOK'
  <2>1. CASE Next
    BY <2>1, ProducerType, ConsumerType DEF Next
  <2>2. CASE UNCHANGED vars
    BY <2>2 DEF vars, coreVars, connectionVars, limitVars, producerVars,
       TypeOK, CoreTypeOK, ProducerTypeOK, ConsumerTypeOK
  <2>3. QED BY <2>1, <2>2
<1> QED BY <1>1, InitType, PTL DEF Spec
-----------------------------------------------------------------------------
(***************************************************************************)
(* The order of frames: a BufferQueue whose producer never changes its     *)
(* mind about blocking implements the FIFO of FrameStream, and so delivers *)
(* frames in the order they were queued.                                   *)
(*                                                                         *)
(* queueBuffer replaces the FRONT of mQueue when that is droppable.  This  *)
(* is the FIFO's "replace the newest" only while a droppable front is the  *)
(* whole queue, which needs the modes not to be mixed.                     *)
(***************************************************************************)

(* No item is droppable.                                                   *)
NeverDroppable == AsyncModes = {FALSE} /\ ControlledByApp = {FALSE}

(* Every item is.                                                          *)
AlwaysDroppable == AsyncModes = {TRUE}

(* A producer that does not change its mind about blocking.                *)
NeverMixed == NeverDroppable \/ AlwaysDroppable

(* The places in mQueue.                                                   *)
Indices == 1 .. Len(mQueue)

(* A blocking queue has no droppable item.                                 *)
BlockingQueue ==
  NeverDroppable =>
    /\ mDequeueBufferCannotBlock = FALSE
    /\ \A i \in Indices : mQueue[i].mIsDroppable = FALSE

(* An asynchronous one has at most one item.                               *)
AsyncQueue ==
  AlwaysDroppable =>
    /\ Len(mQueue) <= 1
    /\ \A i \in Indices : mQueue[i].mIsDroppable = TRUE

(* Frame numbers increase, from the last acquired to the counter.          *)
FramesOrdered ==
  /\ lastAcquired <= mFrameCounter
  /\ \A i \in Indices : /\ lastAcquired < mQueue[i].mFrameNumber
                        /\ mQueue[i].mFrameNumber <= mFrameCounter
  /\ \A i, j \in Indices : i < j => mQueue[i].mFrameNumber < mQueue[j].mFrameNumber

(* The inductive invariant of the order.                                   *)
OrderInv == TypeOK /\ BlockingQueue /\ AsyncQueue /\ FramesOrdered

(* The steps that touch neither the queue nor the two frame counters       *)
orderVars == <<mQueue, mFrameCounter, lastAcquired>>

(* Every step is one of four: a frame is queued, some are taken from the   *)
(* front, the queue is emptied, or the order is not concerned.             *)
Queues ==
  \E s \in Slots, async \in AsyncModes, time \in Timestamps, auto \in AutoTimestamps :
    /\ mFrameCounter' = mFrameCounter + 1
    /\ mQueue' = IF ReplacesFront
                 THEN [mQueue EXCEPT ![1] = QueuedItem(s, async, time, auto)]
                 ELSE Append(mQueue, QueuedItem(s, async, time, auto))
    /\ UNCHANGED <<mDequeueBufferCannotBlock, lastAcquired>>

(* The consumer drops n frames and takes the next.                         *)
Takes(n) ==
  /\ n > 0 => ExpectedPresents # {0}
  /\ mQueue' = SubSeq(mQueue, n + 2, Len(mQueue))
  /\ lastAcquired' = mQueue[n + 1].mFrameNumber
  /\ UNCHANGED <<mDequeueBufferCannotBlock, mFrameCounter>>

(* The queue is emptied.                                                   *)
Leaves ==
  mQueue' = << >> /\ UNCHANGED <<mDequeueBufferCannotBlock, mFrameCounter, lastAcquired>>

(* The order is not concerned.                                             *)
KeepsOrder ==
  /\ UNCHANGED orderVars
  /\ \/ UNCHANGED mDequeueBufferCannotBlock
     \/ ControlledByApp = {FALSE} => mDequeueBufferCannotBlock' = FALSE

(* A step of the producer queues a frame or does not concern the order.    *)
LEMMA ProducerOrder ==
  ASSUME NEW p \in Producers, ProducerStep(p), UNCHANGED lastAcquired
  PROVE  Queues \/ KeepsOrder
<1>1. CASE queueBuffer(p)
  BY <1>1 DEF queueBuffer, Queues, Enqueue, connectionVars
<1>2. CASE connect(p)
  BY <1>2 DEF connect, KeepsOrder, orderVars
<1>3. CASE Retry(p) \/ dequeueBuffer(p) \/ attachBuffer(p)
  <2>1. ASSUME NEW req, waitForFreeSlotThenRelock(p, req)
        PROVE  UNCHANGED <<mQueue, mFrameCounter, mDequeueBufferCannotBlock>>
    BY <2>1 DEF waitForFreeSlotThenRelock, connectionVars
  <2>2. PICK req : waitForFreeSlotThenRelock(p, req)
    BY <1>3 DEF Retry, dequeueBuffer, attachBuffer
  <2>3. QED
    BY <2>1, <2>2 DEF KeepsOrder, orderVars
<1>4. CASE \/ dequeueBufferAllocated(p) \/ dequeueBufferAllocationFailed(p)
           \/ requestBuffer(p) \/ cancelRefused(p) \/ queueBufferCallback(p)
           \/ cancelBuffer(p) \/ detachBuffer(p) \/ detachNextBuffer(p)
  BY <1>4 DEF dequeueBufferAllocated, dequeueBufferAllocationFailed, requestBuffer,
     cancelRefused, queueBufferCallback, cancelBuffer, detachBuffer,
     detachNextBuffer, KeepsOrder, orderVars, coreVars, connectionVars
<1>5. CASE \/ setBufferCount(p) \/ disconnect(p) \/ buffersReleasedCallback(p)
           \/ allocateBuffers(p) \/ allocateBuffersAllocated(p)
           \/ allocateBuffersFailed(p)
  BY <1>5 DEF setBufferCount, disconnect, buffersReleasedCallback, allocateBuffers,
     AllocateBuffersTurn, allocateBuffersAllocated, allocateBuffersFailed,
     KeepsOrder, orderVars, coreVars, connectionVars
<1>6. QED
  BY <1>1, <1>2, <1>3, <1>4, <1>5 DEF ProducerStep, ProducerCall

(* A step of the consumer takes frames, empties the queue or does not      *)
(* concern the order.                                                      *)
LEMMA ConsumerOrder ==
  ASSUME ConsumerStep, TypeOK
  PROVE  (\E n \in 0 .. Len(mQueue) - 1 : Takes(n)) \/ Leaves \/ KeepsOrder
<1>1. CASE acquireBuffer
  <2>1. PICK expected \in ExpectedPresents, n \in 0 .. Len(mQueue) - 1 :
          /\ Drops(n, expected)
          /\ mQueue' = SubSeq(mQueue, n + 2, Len(mQueue))
          /\ lastAcquired' = mQueue[n + 1].mFrameNumber
    BY <1>1 DEF acquireBuffer
  <2>2. n > 0 => ExpectedPresents # {0}
    <3>1. SUFFICES ASSUME n > 0 PROVE expected # 0
      OBVIOUS
    <3>2. 1 \in 1 .. n
      BY <3>1
    <3>3. QED BY <2>1, <3>2 DEF Drops, Superseded
  <2>3. QED
    BY <1>1, <2>1, <2>2 DEF acquireBuffer, Takes, connectionVars
<1>2. CASE \E h \in acquired : releaseBuffer(h) \/ detachAcquired(h)
  BY <1>2 DEF releaseBuffer, detachAcquired, KeepsOrder, orderVars, connectionVars
<1>3. CASE attachAcquired
  BY <1>3 DEF attachAcquired, KeepsOrder, orderVars, connectionVars
<1>4. CASE consumerDisconnect
  BY <1>4 DEF consumerDisconnect, Leaves
<1>5. CASE \/ consumerConnect \/ setDefaultMaxBufferCount \/ setMaxAcquiredBufferCount
           \/ disableAsyncBuffer \/ setDefaultBufferSize
  BY <1>5 DEF consumerConnect, setDefaultMaxBufferCount, setMaxAcquiredBufferCount,
     disableAsyncBuffer, setDefaultBufferSize, KeepsOrder, orderVars, connectionVars
<1>6. QED
  BY <1>1, <1>2, <1>3, <1>4, <1>5 DEF ConsumerStep, ConsumerConfigure

(* So every step is of one of the four kinds.                              *)
LEMMA NextOrder ==
  ASSUME TypeOK, [Next]_vars
  PROVE  \/ Queues \/ Leaves \/ KeepsOrder
         \/ \E n \in 0 .. Len(mQueue) - 1 : Takes(n)
<1>1. CASE Next
  BY <1>1, ProducerOrder, ConsumerOrder DEF Next
<1>2. CASE UNCHANGED vars
  BY <1>2 DEF vars, coreVars, connectionVars, KeepsOrder, orderVars
<1>3. QED BY <1>1, <1>2
-----------------------------------------------------------------------------
(* What a step of each kind does to a queue, index by index                *)
LEMMA QueueFacts ==
  ASSUME TypeOK
  PROVE  /\ Len(mQueue) \in Nat /\ mQueue \in Seq(BufferItem)
         /\ lastAcquired \in Nat /\ mFrameCounter \in Nat
         /\ \A i \in Indices : mQueue[i].mFrameNumber \in Nat
<1>1. mQueue \in Seq(BufferItem)
  BY DEF TypeOK, CoreTypeOK
<1>2. \A i \in Indices : mQueue[i] \in BufferItem
  BY <1>1 DEF Indices
<1>3. QED
  BY <1>1, <1>2 DEF BufferItem, TypeOK, CoreTypeOK, ConsumerTypeOK

(* A frame that is queued has the highest number.                          *)
LEMMA QueuesPreserves ==
  ASSUME NeverMixed, OrderInv, Queues
  PROVE  BlockingQueue' /\ AsyncQueue' /\ FramesOrdered'
<1>1. PICK s \in Slots, async \in AsyncModes, time \in Timestamps, auto \in AutoTimestamps :
        /\ mFrameCounter' = mFrameCounter + 1
        /\ mQueue' = IF ReplacesFront
                     THEN [mQueue EXCEPT ![1] = QueuedItem(s, async, time, auto)]
                     ELSE Append(mQueue, QueuedItem(s, async, time, auto))
        /\ UNCHANGED <<mDequeueBufferCannotBlock, lastAcquired>>
  BY DEF Queues
<1> DEFINE item == QueuedItem(s, async, time, auto)
<1>2. item.mFrameNumber = mFrameCounter + 1
      /\ item.mIsDroppable = (mDequeueBufferCannotBlock \/ async)
  BY DEF QueuedItem
<1>3. /\ Len(mQueue) \in Nat /\ mQueue \in Seq(BufferItem)
      /\ lastAcquired \in Nat /\ mFrameCounter \in Nat
      /\ \A i \in Indices : mQueue[i].mFrameNumber \in Nat
      /\ BlockingQueue /\ AsyncQueue /\ FramesOrdered
  BY QueueFacts DEF OrderInv
<1>4. /\ NeverDroppable => item.mIsDroppable = FALSE
      /\ AlwaysDroppable => item.mIsDroppable = TRUE
  <2>1. NeverDroppable => async = FALSE /\ mDequeueBufferCannotBlock = FALSE
    BY <1>3 DEF BlockingQueue, NeverDroppable
  <2>2. AlwaysDroppable => async = TRUE
    BY DEF AlwaysDroppable
  <2>3. QED BY <1>2, <2>1, <2>2
<1> HIDE DEF item
<1>5. CASE ReplacesFront
  <2>1. Len(mQueue') = Len(mQueue) /\ mQueue'[1] = item /\ 1 \in Indices
    BY <1>1, <1>3, <1>5 DEF ReplacesFront, Indices, item
  <2>2. ~NeverDroppable
    BY <1>3, <1>5, <2>1 DEF ReplacesFront, BlockingQueue
  <2>3. Len(mQueue) = 1 /\ Indices' = {1}
    BY <1>3, <2>1, <2>2 DEF NeverMixed, AsyncQueue, Indices
  <2>4. FramesOrdered'
    BY <1>1, <1>2, <1>3, <2>1, <2>3 DEF FramesOrdered
  <2>5. AsyncQueue' /\ BlockingQueue'
    <3>1. Len(mQueue') <= 1
      BY <2>1, <2>3
    <3>2. AlwaysDroppable => \A i \in Indices' : mQueue'[i].mIsDroppable = TRUE
      BY <1>4, <2>1, <2>3
    <3>3. AsyncQueue'
      BY <3>1, <3>2 DEF AsyncQueue, AlwaysDroppable
    <3>4. BlockingQueue'
      BY <2>2 DEF BlockingQueue, NeverDroppable
    <3>5. QED BY <3>3, <3>4
  <2>6. QED BY <2>4, <2>5
<1>6. CASE ~ReplacesFront
  <2>1. /\ Len(mQueue') = Len(mQueue) + 1 /\ mQueue'[Len(mQueue) + 1] = item
        /\ \A i \in Indices : mQueue'[i] = mQueue[i]
        /\ Indices' = Indices \cup {Len(mQueue) + 1}
    BY <1>1, <1>3, <1>6 DEF Indices, item
  <2>2. FramesOrdered'
    BY <1>1, <1>2, <1>3, <2>1 DEF FramesOrdered, Indices
  <2>3. BlockingQueue'
    BY <1>1, <1>3, <1>4, <2>1 DEF BlockingQueue, NeverDroppable
  <2>4. AsyncQueue'
    <3>1. SUFFICES ASSUME AlwaysDroppable PROVE Len(mQueue) = 0
      BY <1>3, <1>4, <2>1 DEF AsyncQueue, AlwaysDroppable, Indices
    <3>2. QED
      BY <1>3, <1>6, <3>1 DEF AsyncQueue, ReplacesFront, Indices
  <2>5. QED BY <2>2, <2>3, <2>4
<1>7. QED BY <1>5, <1>6

(* Frames taken from the front leave the rest in order.                    *)
LEMMA TakesPreserves ==
  ASSUME OrderInv, NEW n \in 0 .. Len(mQueue) - 1, Takes(n)
  PROVE  BlockingQueue' /\ AsyncQueue' /\ FramesOrdered'
<1>1. /\ Len(mQueue) \in Nat /\ mQueue \in Seq(BufferItem)
      /\ \A i \in Indices : mQueue[i].mFrameNumber \in Nat
      /\ mFrameCounter \in Nat /\ BlockingQueue /\ AsyncQueue /\ FramesOrdered
  BY QueueFacts DEF OrderInv
<1>2. Len(mQueue') = Len(mQueue) - (n + 1)
      /\ \A i \in Indices' : mQueue'[i] = mQueue[n + 1 + i]
  BY <1>1 DEF Takes, Indices
<1>3. n + 1 \in Indices /\ \A i \in Indices' : n + 1 + i \in Indices
  BY <1>1, <1>2 DEF Indices
<1>4. BlockingQueue'
  BY <1>1, <1>2, <1>3 DEF BlockingQueue, NeverDroppable, Takes
<1>5. AsyncQueue'
  BY <1>1, <1>2, <1>3 DEF AsyncQueue, AlwaysDroppable
<1>6. FramesOrdered'
  <2>1. lastAcquired' = mQueue[n + 1].mFrameNumber /\ mFrameCounter' = mFrameCounter
    BY DEF Takes
  <2>2. lastAcquired' <= mFrameCounter'
    BY <1>1, <1>3, <2>1 DEF FramesOrdered
  <2>3. \A i \in Indices' : /\ n + 1 < n + 1 + i
                            /\ n + 1 \in Int /\ n + 1 + i \in Int
    BY <1>1, <1>2 DEF Indices
  <2>4. \A i \in Indices' : /\ lastAcquired' < mQueue'[i].mFrameNumber
                            /\ mQueue'[i].mFrameNumber <= mFrameCounter'
    BY <1>1, <1>2, <1>3, <2>1, <2>3 DEF FramesOrdered
  <2>5. \A i, j \in Indices' : i < j => n + 1 + i < n + 1 + j
    BY <1>1, <1>2 DEF Indices
  <2>6. \A i, j \in Indices' :
          i < j => mQueue'[i].mFrameNumber < mQueue'[j].mFrameNumber
    BY <1>1, <1>2, <1>3, <2>5 DEF FramesOrdered
  <2>7. QED BY <2>2, <2>4, <2>6 DEF FramesOrdered
<1>7. QED BY <1>4, <1>5, <1>6

(* A step of any of the four kinds keeps the order.                        *)
LEMMA OrderKept ==
  ASSUME NeverMixed, OrderInv, TypeOK',
         \/ Queues \/ Leaves \/ KeepsOrder
         \/ \E n \in 0 .. Len(mQueue) - 1 : Takes(n)
  PROVE  OrderInv'
<1> SUFFICES BlockingQueue' /\ AsyncQueue' /\ FramesOrdered'
  BY DEF OrderInv
<1>1. CASE Queues
  BY <1>1, QueuesPreserves
<1>2. CASE Leaves
  <2>1. mQueue' = << >> /\ Indices' = {}
    BY <1>2 DEF Leaves, Indices
  <2>2. Len(mQueue') <= 1
    BY <2>1
  <2>3. QED
    BY <1>2, <2>1, <2>2 DEF Leaves, OrderInv, BlockingQueue, AsyncQueue,
       FramesOrdered, NeverDroppable, AlwaysDroppable
<1>3. CASE KeepsOrder
  <2>1. UNCHANGED <<mQueue, mFrameCounter, lastAcquired>> /\ Indices' = Indices
    BY <1>3 DEF KeepsOrder, orderVars, Indices
  <2>2. NeverDroppable => mDequeueBufferCannotBlock' = FALSE
    BY <1>3 DEF KeepsOrder, OrderInv, BlockingQueue, NeverDroppable
  <2>3. AsyncQueue' /\ FramesOrdered'
    BY <2>1 DEF OrderInv, AsyncQueue, FramesOrdered, AlwaysDroppable
  <2>4. BlockingQueue'
    BY <2>1, <2>2 DEF OrderInv, BlockingQueue, NeverDroppable
  <2>5. QED BY <2>3, <2>4
<1>4. CASE \E n \in 0 .. Len(mQueue) - 1 : Takes(n)
  BY <1>4, TakesPreserves
<1>5. QED BY <1>1, <1>2, <1>3, <1>4

(* In the beginning nothing is queued.                                     *)
LEMMA InitOrder == Init /\ TypeOK => OrderInv
BY DEF Init, CoreInit, ConsumerInit, OrderInv, BlockingQueue, AsyncQueue,
   FramesOrdered, Indices

(* The frames leave in the order they came: OrderInv is inductive.         *)
LEMMA OrderInvariant ==
  ASSUME NeverMixed
  PROVE  Spec => []OrderInv
<1>1. TypeOK /\ TypeOK' /\ OrderInv /\ [Next]_vars => OrderInv'
  BY NextOrder, OrderKept
<1>2. QED BY <1>1, InitOrder, TypeCorrect, PTL DEF Spec

(* The consumer never gets a frame older than one it got before            *)
(* (BufferItem.h:71-74), whatever is replaced, dropped or abandoned.       *)
THEOREM FramesDeliveredInOrder ==
  ASSUME NeverMixed
  PROVE  Spec => DeliveredInOrder
<1>1. OrderInv /\ [Next]_vars => [lastAcquired' >= lastAcquired]_vars
  <2> SUFFICES ASSUME OrderInv, [Next]_vars PROVE lastAcquired' >= lastAcquired
    OBVIOUS
  <2>1. /\ TypeOK /\ lastAcquired \in Nat /\ Len(mQueue) \in Nat
        /\ \A i \in Indices : mQueue[i].mFrameNumber \in Nat
        /\ FramesOrdered
    BY QueueFacts DEF OrderInv
  <2>2. CASE Queues \/ Leaves \/ KeepsOrder
    <3>1. lastAcquired' = lastAcquired
      BY <2>2 DEF Queues, Leaves, KeepsOrder, orderVars
    <3>2. QED BY <2>1, <3>1
  <2>3. ASSUME NEW n \in 0 .. Len(mQueue) - 1, Takes(n)
        PROVE  lastAcquired' >= lastAcquired
    <3>1. n + 1 \in Indices /\ lastAcquired' = mQueue[n + 1].mFrameNumber
      BY <2>1, <2>3 DEF Takes, Indices
    <3>2. QED BY <2>1, <3>1 DEF FramesOrdered
  <2>4. QED BY <2>1, <2>2, <2>3, NextOrder
<1>2. QED BY <1>1, OrderInvariant, PTL DEF Spec, DeliveredInOrder
-----------------------------------------------------------------------------
(* The refinement: pending is the sequence of frame numbers in mQueue.     *)
Pending == [i \in Indices |-> mQueue[i].mFrameNumber]

(* To queue is to produce: a front that is replaced is the newest.         *)
LEMMA QueuesProduces ==
  ASSUME NeverMixed, OrderInv, Queues
  PROVE  Stream!Produce
<1>1. PICK item :
        /\ item.mFrameNumber = mFrameCounter + 1
        /\ mFrameCounter' = mFrameCounter + 1
        /\ mQueue' = IF ReplacesFront THEN [mQueue EXCEPT ![1] = item]
                     ELSE Append(mQueue, item)
        /\ UNCHANGED <<mDequeueBufferCannotBlock, lastAcquired>>
  <2>1. PICK s \in Slots, async \in AsyncModes, time \in Timestamps, auto \in AutoTimestamps :
          /\ mFrameCounter' = mFrameCounter + 1
          /\ mQueue' = IF ReplacesFront
                       THEN [mQueue EXCEPT ![1] = QueuedItem(s, async, time, auto)]
                       ELSE Append(mQueue, QueuedItem(s, async, time, auto))
          /\ UNCHANGED <<mDequeueBufferCannotBlock, lastAcquired>>
    BY DEF Queues
  <2>2. QueuedItem(s, async, time, auto).mFrameNumber = mFrameCounter + 1
    BY DEF QueuedItem
  <2>3. QED BY <2>1, <2>2
<1>2. Len(mQueue) \in Nat /\ mQueue \in Seq(BufferItem) /\ Pending \in Seq(Nat)
      /\ Len(Pending) = Len(mQueue) /\ mFrameCounter \in Nat
  BY QueueFacts DEF OrderInv, Pending, Indices
<1>3. CASE ~ReplacesFront
  <2>1. Pending' = Append(Pending, mFrameCounter')
    BY <1>1, <1>2, <1>3 DEF Pending, Indices
  <2>2. QED
    BY <1>1, <2>1 DEF Stream!Produce, Pending, Indices
<1>4. CASE ReplacesFront
  <2>1. 1 \in Indices /\ ~NeverDroppable
    BY <1>2, <1>4 DEF ReplacesFront, OrderInv, BlockingQueue, Indices
  <2>2. Len(mQueue) = 1
    BY <1>2, <2>1 DEF NeverMixed, OrderInv, AsyncQueue, Indices
  <2>3. Pending' = [Pending EXCEPT ![Len(Pending)] = mFrameCounter']
    BY <1>1, <1>2, <1>4, <2>2 DEF Pending, Indices
  <2>4. Pending # << >>
    BY <1>2, <2>2
  <2>5. AsyncModes # {FALSE}
    BY <2>1 DEF NeverMixed, AlwaysDroppable
  <2>6. QED
    BY <1>1, <2>3, <2>4, <2>5 DEF Stream!Produce, Pending, Indices
<1>5. QED BY <1>3, <1>4

(* To acquire is to deliver.                                               *)
LEMMA TakesDelivers ==
  ASSUME OrderInv, NEW n \in 0 .. Len(mQueue) - 1, Takes(n)
  PROVE  Stream!Deliver
<1>1. Len(mQueue) \in Nat /\ mQueue \in Seq(BufferItem) /\ Pending \in Seq(Nat)
      /\ Len(Pending) = Len(mQueue)
  BY QueueFacts DEF OrderInv, Pending, Indices
<1>2. n + 1 \in 1 .. Len(Pending) /\ lastAcquired' = Pending[n + 1]
      /\ UNCHANGED mFrameCounter
  BY <1>1 DEF Takes, Pending, Indices
<1>3. n + 1 = 1 \/ ExpectedPresents # {0}
  BY DEF Takes
<1>4. Pending' = SubSeq(Pending, n + 2, Len(Pending))
  BY <1>1 DEF Takes, Pending, Indices
<1>5. PICK m \in 1 .. Len(Pending) :
        /\ m = 1 \/ ExpectedPresents # {0}
        /\ lastAcquired' = Pending[m]
        /\ Pending' = SubSeq(Pending, m + 1, Len(Pending))
  <2>1. (n + 1) + 1 = n + 2
    OBVIOUS
  <2>2. QED BY <1>2, <1>3, <1>4, <2>1
<1>6. QED
  BY <1>2, <1>5 DEF Stream!Deliver, Pending, Indices

(* For every number of slots, buffers and threads, a BufferQueue that      *)
(* never mixes the modes is the FIFO module FrameStream describes.         *)
THEOREM ImplementsFrameStream ==
  ASSUME NeverMixed
  PROVE  Spec => StreamSpec
<1>1. Init => Stream!StreamInit
  BY DEF Init, CoreInit, ConsumerInit, Stream!StreamInit
<1>2. OrderInv /\ [Next]_vars => [Stream!StreamNext]_(Stream!streamVars)
  <2> SUFFICES ASSUME OrderInv, [Next]_vars
               PROVE  [Stream!StreamNext]_(Stream!streamVars)
    OBVIOUS
  <2>1. CASE Queues
    BY <2>1, QueuesProduces DEF Stream!StreamNext
  <2>2. CASE Leaves
    BY <2>2 DEF Leaves, Stream!Abandon, Stream!StreamNext
  <2>3. CASE KeepsOrder
    BY <2>3 DEF KeepsOrder, orderVars, Stream!streamVars
  <2>4. CASE \E n \in 0 .. Len(mQueue) - 1 : Takes(n)
    BY <2>4, TakesDelivers DEF Stream!StreamNext
  <2>5. QED BY <2>1, <2>2, <2>3, <2>4, NextOrder DEF OrderInv
<1>3. QED
  BY <1>1, <1>2, OrderInvariant, PTL DEF Spec, StreamSpec, Stream!StreamSpec
=============================================================================
