------------------------ MODULE BufferOwnershipProofs ------------------------
(***************************************************************************)
(* Who owns what in a BufferQueue: slots, buffers and frame numbers, for   *)
(* any number of slots, buffers and calls.                                 *)
(***************************************************************************)
EXTENDS BufferQueueProofs, FiniteSetTheorems, WellFoundedInduction

(* Threads that have a slot and have not yet told Surface's user.          *)
InHand(p) == call[p].op \in {"allocating", "returned"}

(* Threads that wait in dequeueBuffer or attachBuffer.                     *)
Asleep(p) == call[p].op \in {"waiting", "woken"}

(* Until the queue is abandoned, a slot in a thread's hands is DEQUEUED and*)
(* nobody else's, and it has a buffer when dequeueBuffer returns.          *)
ThreadOwns(p) ==
  /\ InHand(p) /\ ~mIsAbandoned =>
       /\ mSlots[call[p].slot].mBufferState = "DEQUEUED"
       /\ call[p].slot \notin held
       /\ \A q \in Producers \ {p} : InHand(q) => call[q].slot # call[p].slot
  /\ call[p].op = "returned" /\ ~mIsAbandoned =>
       mSlots[call[p].slot].mGraphicBuffer # NoBuffer
  /\ call[p].op = "refused" => mIsAbandoned

(* A buffer that waits to be attached is nowhere else.                     *)
WaitsApart(p) ==
  Asleep(p) =>
    \/ call[p].req.kind = "dequeue" /\ call[p].req.buffer = NoBuffer
    \/ /\ call[p].req.kind = "attach"
       /\ call[p].req.buffer \in Buffers \ (InSlots \cup InQueue)
       /\ \A q \in Producers \ {p} :
            Asleep(q) => call[q].req.buffer # call[p].req.buffer

(* What every thread inside a call may count on.                           *)
ThreadsOwn == \A p \in Producers : ThreadOwns(p) /\ WaitsApart(p)

(* What the client has taken is DEQUEUED until the queue is abandoned.     *)
HeldAreDequeued ==
  ~mIsAbandoned => \A s \in held : mSlots[s].mBufferState = "DEQUEUED"

(* Items have buffers, and frame numbers of their own.                     *)
ItemsDiffer ==
  \A i \in Indices :
    /\ mQueue[i].mGraphicBuffer # NoBuffer
    /\ mQueue[i].mFrameNumber <= mFrameCounter
    /\ \A j \in Indices \ {i} : mQueue[j].mFrameNumber # mQueue[i].mFrameNumber

(* Threads, client and items each own their slot. This much is inductive   *)
(* by itself, and the other layers stand on it.                            *)
OwnersInv ==
  /\ ThreadsOwn
  /\ HeldAreDequeued
  /\ RequestedSlotsHaveBuffers
  /\ ItemsDiffer
  /\ TrackedItemsAreQueued

(* What is behind a slot's own item in the queue is of other slots.        *)
NoneBehind ==
  /\ \A i \in Indices : mSlots[mQueue[i].mSlot].mBufferState # "ACQUIRED"
  /\ \A i, j \in Indices : Tracked(i) /\ i < j => mQueue[j].mSlot # mQueue[i].mSlot

(* An abandoned queue has no slot in use but those the consumer has.       *)
AbandonedHasNone == mIsAbandoned => SlotsIn(mSlots, {"DEQUEUED", "QUEUED"}) = {}

(* The layer that shows that no slot is lost.                              *)
HoldersInv ==
  /\ NoneBehind
  /\ AbandonedHasNone
  /\ SlotsHaveHolders

(* A buffer is in one slot, in one item, in one handle.                    *)
SlotsDiffer ==
  \A s, t \in Slots :
    mSlots[s].mGraphicBuffer = mSlots[t].mGraphicBuffer =>
      s = t \/ mSlots[s].mGraphicBuffer = NoBuffer

(* No buffer is queued twice, and one that is queued is in no slot but its *)
(* own.                                                                    *)
QueuedOnce ==
  \A i \in Indices :
    /\ \A j \in Indices \ {i} : mQueue[j].mGraphicBuffer # mQueue[i].mGraphicBuffer
    /\ \A s \in Slots :
         mSlots[s].mGraphicBuffer = mQueue[i].mGraphicBuffer => mQueue[i].mSlot = s

(* What the consumer has is in no item, in no thread that attaches, and in *)
(* no slot but the ACQUIRED one it names.                                  *)
AcquiredOnce ==
  \A h \in acquired :
    /\ h.buffer # NoBuffer /\ h.frame <= mFrameCounter
    /\ \A g \in acquired \ {h} : g.buffer # h.buffer /\ g.frame # h.frame
    /\ \A i \in Indices : /\ mQueue[i].mGraphicBuffer # h.buffer
                          /\ mQueue[i].mFrameNumber # h.frame
    /\ \A s \in Slots : mSlots[s].mGraphicBuffer = h.buffer =>
         /\ s = h.slot /\ mSlots[s].mBufferState = "ACQUIRED"
         /\ mSlots[s].mFrameNumber = h.frame
    /\ \A p \in Producers : Asleep(p) => call[p].req.buffer # h.buffer

(* Slots beyond the number the client has set are not used.                *)
OverrideIsKept ==
  mOverrideMaxBufferCount # 0 =>
    /\ \A s \in Slots : s >= mOverrideMaxBufferCount =>
         mSlots[s].mBufferState = "FREE" /\ mSlots[s].mGraphicBuffer = NoBuffer
    /\ \A p \in Producers :
         /\ Asleep(p) => ~call[p].req.released
         /\ InHand(p) => ~call[p].released

(* A thread that is about to tell the client of a new buffer in s.         *)
Told(s) == \E p \in Producers :
             call[p].op = "returned" /\ call[p].slot = s /\ call[p].realloc

(* What the client remembers of a slot is what is in it, unless it will be *)
(* told of a new buffer.                                                   *)
MirrorIsFresh ==
  ~mIsAbandoned => \A s \in Slots :
    \/ mSlots[s].mGraphicBuffer = NoBuffer
    \/ mirror[s] \in {NoBuffer, mSlots[s].mGraphicBuffer}
    \/ Told(s)

(* A thread told to forget all buffers finds the client holding none.      *)
AllForgotten ==
  \A p \in Producers : InHand(p) /\ call[p].released /\ ~mIsAbandoned => held = {}

(* After the queue is abandoned the client may still come to hold a slot.  *)
MayHold(s) ==
  s \in held \/ \E p \in Producers :
                  call[p].op = "returned" /\ call[p].slot = s /\ ~call[p].realloc

(* Abandoned, the queue gives nothing more, and what the client has or may *)
(* come to have is not what the consumer has.                              *)
AbandonedApart ==
  mIsAbandoned =>
    /\ mQueue = << >>
    /\ \A s \in Slots, h \in acquired : MayHold(s) => mirror[s] # h.buffer

(* Nobody is in allocateBuffers.                                           *)
NotAllocating ==
  \A p \in Producers : call[p].op \notin {"allocateBuffers", "preallocating"}

(* No buffer is in two hands.                                              *)
HandsInv ==
  /\ SlotsDiffer
  /\ QueuedOnce
  /\ AcquiredOnce

(* What the client remembers is good for what it does next.                *)
MirrorInv ==
  /\ OverrideIsKept
  /\ MirrorIsFresh
  /\ AllForgotten
  /\ MirrorAgrees
  /\ AbandonedApart

-----------------------------------------------------------------------------
(* A non-empty set of slots has a last one.                                *)
LEMMA LastSlot ==
  ASSUME NEW S \in SUBSET Slots, S # {}
  PROVE  \E s \in S : \A t \in S : t <= s
<1> DEFINE T == {n \in Nat : NUM_BUFFER_SLOTS - n \in S}
<1>1. NUM_BUFFER_SLOTS \in Nat  BY CoreAssumption
<1>2. T # {}
  <2>1. PICK s \in S : TRUE  OBVIOUS
  <2>2. NUM_BUFFER_SLOTS - s \in Nat /\ NUM_BUFFER_SLOTS - (NUM_BUFFER_SLOTS - s) = s
    BY <1>1 DEF Slots
  <2> QED BY <2>1, <2>2
<1>3. PICK less : /\ IsWellFoundedOn(less, Nat)
                  /\ less = {pair \in Nat \X Nat : pair[1] < pair[2]}
  BY NatLessThanWellFounded DEF OpToRel
<1>4. PICK n \in T : \A m \in Nat : <<m, n>> \in less => m \notin T
  BY <1>2, <1>3, WFMin
<1>5. ASSUME NEW t \in S PROVE t <= NUM_BUFFER_SLOTS - n
  <2>1. NUM_BUFFER_SLOTS - t \in Nat /\ NUM_BUFFER_SLOTS - (NUM_BUFFER_SLOTS - t) = t
        /\ t \in Int
    BY <1>1 DEF Slots
  <2>2. ~(NUM_BUFFER_SLOTS - t < n)
    <3>1. NUM_BUFFER_SLOTS - t \in T  BY <2>1
    <3> QED BY <1>3, <1>4, <2>1, <3>1
  <2> QED BY <1>1, <2>1, <2>2
<1> QED BY <1>5

(* Slots that are in use are never beyond the maximum.                     *)
LEMMA BusyBelowMax ==
  ASSUME CoreTypeOK, NEW async
  PROVE  /\ getMaxBufferCountLocked(async) \in Nat
         /\ \A s \in SlotsIn(mSlots, {"QUEUED", "DEQUEUED"}) :
              s < getMaxBufferCountLocked(async)
<1>1. PICK base : base = BaseMaxBufferCount(async)
  OBVIOUS
<1>2. base \in Nat
  BY <1>1 DEF BaseMaxBufferCount, getMinMaxBufferCountLocked,
              getMinUndequeuedBufferCountLocked, CoreTypeOK
<1>3. PICK keep : keep = {s \in SlotsIn(mSlots, {"QUEUED", "DEQUEUED"}) : s >= base}
  OBVIOUS
<1>4. keep \in SUBSET Slots /\ Slots \subseteq Nat
  BY <1>3 DEF SlotsIn, Slots
<1>5. getMaxBufferCountLocked(async) =
        IF keep = {} THEN base ELSE (CHOOSE s \in keep : \A t \in keep : t <= s) + 1
  BY <1>1, <1>3 DEF getMaxBufferCountLocked
<1>6. CASE keep = {}
  <2>1. \A s \in SlotsIn(mSlots, {"QUEUED", "DEQUEUED"}) : s \in Nat /\ ~(s >= base)
    BY <1>3, <1>4, <1>6 DEF SlotsIn
  <2> QED BY <1>2, <1>5, <1>6, <2>1
<1>7. CASE keep # {}
  <2>1. PICK last : last = CHOOSE s \in keep : \A t \in keep : t <= s
    OBVIOUS
  <2>2. last \in keep /\ \A t \in keep : t <= last
    BY <1>4, <1>7, <2>1, LastSlot
  <2>3. ASSUME NEW s \in SlotsIn(mSlots, {"QUEUED", "DEQUEUED"}) PROVE s < last + 1
    <3>1. s \in Nat /\ last \in Nat /\ last >= base
      BY <1>3, <1>4, <2>2 DEF SlotsIn
    <3>2. CASE s >= base
      BY <1>3, <2>2, <3>1, <3>2
    <3>3. CASE ~(s >= base)
      BY <1>2, <3>1, <3>3
    <3> QED BY <3>2, <3>3
  <2>4. last + 1 \in Nat  BY <1>4, <2>2
  <2> QED BY <1>5, <1>7, <2>1, <2>3, <2>4
<1> QED BY <1>6, <1>7

(* waitForFreeSlotThenRelock frees slots that are FREE or ACQUIRED.        *)
LEMMA TrimmedFacts ==
  ASSUME CoreTypeOK, NEW async, NEW slots,
         slots = TrimmedSlots(getMaxBufferCountLocked(async))
  PROVE  /\ slots \in [Slots -> BufferSlot]
         /\ \A s \in Slots :
              \/ slots[s] = mSlots[s]
              \/ /\ slots[s].mBufferState = "FREE" /\ slots[s].mGraphicBuffer = NoBuffer
                 /\ ~slots[s].mAcquireCalled
                 /\ mSlots[s].mBufferState \in {"FREE", "ACQUIRED"}
<1>1. PICK max : max = getMaxBufferCountLocked(async)
  OBVIOUS
<1>2. max \in Nat /\ \A s \in SlotsIn(mSlots, {"QUEUED", "DEQUEUED"}) : s < max
  BY <1>1, BusyBelowMax
<1>3. slots \in [Slots -> BufferSlot]
  BY <1>1, TrimmedType
<1>4. ASSUME NEW s \in Slots, s \in BeyondMax(max)
      PROVE  /\ slots[s].mBufferState = "FREE" /\ slots[s].mGraphicBuffer = NoBuffer
             /\ ~slots[s].mAcquireCalled
             /\ mSlots[s].mBufferState \in {"FREE", "ACQUIRED"}
  <2>1. slots[s] = FreedSlot(mSlots[s]) /\ mSlots[s] \in BufferSlot
    BY <1>1, <1>4 DEF TrimmedSlots, CoreTypeOK
  <2>2. s \notin SlotsIn(mSlots, {"QUEUED", "DEQUEUED"})
    <3>1. s >= max /\ s \in Nat  BY <1>4 DEF BeyondMax, Slots
    <3> QED BY <1>2, <3>1
  <2> QED BY <2>1, <2>2 DEF FreedSlot, BufferSlot, BufferState, SlotsIn
<1>5. \A s \in Slots : s \notin BeyondMax(max) => slots[s] = mSlots[s]
  BY <1>1 DEF TrimmedSlots
<1> QED BY <1>3, <1>4, <1>5
-----------------------------------------------------------------------------
(* Where a thread is that has no slot in its hands and waits for none.     *)
EndOps == {"idle", "callback", "buffersReleased", "allocateBuffers", "preallocating"}

(* A step leaves a thread where it is, wakes it, or ends what it was doing *)
(* with a slot.                                                            *)
Rests(q) ==
  \/ call'[q] = call[q]
  \/ call[q].op = "waiting" /\ call'[q] = [op |-> "woken", req |-> call[q].req]
  \/ call'[q].op \in EndOps

(* A thread at rest owns nothing and waits for nothing.                    *)
LEMMA RestFacts ==
  ASSUME NEW q, Rests(q)
  PROVE  /\ InHand(q)' => InHand(q) /\ call'[q] = call[q]
         /\ Asleep(q)' => Asleep(q) /\ call'[q].req = call[q].req
         /\ call'[q].op = "returned" => call[q].op = "returned"
         /\ call'[q].op = "refused" => call[q].op = "refused"
  BY DEF Rests, EndOps, InHand, Asleep

(* Returns and broadcasts let the threads rest.                            *)
LEMMA EndRests ==
  ASSUME TypeOK, NEW p \in Producers, NEW c, c.op \in EndOps,
         \/ call' = [call EXCEPT ![p] = c]
         \/ call' = [Broadcast(call) EXCEPT ![p] = c]
  PROVE  \A q \in Producers : Rests(q)
<1>1. \A q \in Producers :
        \/ Broadcast(call)[q] = call[q]
        \/ /\ call[q].op = "waiting"
           /\ Broadcast(call)[q] = [op |-> "woken", req |-> call[q].req]
  BY DEF Broadcast
<1>2. DOMAIN Broadcast(call) = Producers /\ DOMAIN call = Producers
  BY DEF Broadcast, TypeOK, ProducerTypeOK
<1> QED BY <1>1, <1>2 DEF Rests, EndOps

(* So is one whose call returns.                                           *)
LEMMA CallRests ==
  ASSUME TypeOK
  PROVE  /\ UNCHANGED call => \A q \in Producers : Rests(q)
         /\ WakeProducers => \A q \in Producers : Rests(q)
         /\ \A p \in Producers :
              Return(p) \/ BroadcastAndReturn(p) => \A q \in Producers : Rests(q)
         /\ \A p \in Producers : \A c :
              call' = [call EXCEPT ![p] = c] =>
                call'[p] = c /\ \A q \in Producers \ {p} : Rests(q)
<1>1. \A q \in Producers :
        \/ Broadcast(call)[q] = call[q]
        \/ /\ call[q].op = "waiting"
           /\ Broadcast(call)[q] = [op |-> "woken", req |-> call[q].req]
  BY DEF Broadcast
<1>2. UNCHANGED call \/ WakeProducers => \A q \in Producers : Rests(q)
  BY <1>1 DEF Rests, WakeProducers
<1>3. ASSUME NEW p \in Producers, Return(p) \/ BroadcastAndReturn(p)
      PROVE  \A q \in Producers : Rests(q)
  <2>1. Idle.op \in EndOps
    BY DEF Idle, EndOps
  <2> QED BY <1>3, <2>1, EndRests DEF Return, BroadcastAndReturn
<1>4. ASSUME NEW p \in Producers, NEW c, call' = [call EXCEPT ![p] = c]
      PROVE  call'[p] = c /\ \A q \in Producers \ {p} : Rests(q)
  BY <1>4 DEF Rests, TypeOK, ProducerTypeOK
<1> QED BY <1>2, <1>3, <1>4

(* A step keeps what threads own if it takes no slot or buffer from them.  *)
LEMMA OwnersKept ==
  ASSUME ThreadsOwn, HeldAreDequeued, RequestedSlotsHaveBuffers,
         held \subseteq Slots, \A q \in Producers : InHand(q) => call[q].slot \in Slots,
         mIsAbandoned => mIsAbandoned',
         \A q \in Producers : Rests(q) \/ (ThreadOwns(q)' /\ WaitsApart(q)'),
         \A s \in Slots : mSlots[s].mBufferState = "DEQUEUED" /\ ~mIsAbandoned' =>
           \/ /\ mSlots'[s].mBufferState = "DEQUEUED"
              /\ mSlots'[s].mGraphicBuffer = mSlots[s].mGraphicBuffer
           \/ /\ s \notin held'
              /\ \A q \in Producers : Rests(q) /\ InHand(q)' => call'[q].slot # s,
         ~mIsAbandoned' => \A s \in held' \ held :
           /\ mSlots'[s].mBufferState = "DEQUEUED"
           /\ \A q \in Producers : InHand(q)' => call'[q].slot # s,
         \A s \in Slots : mSlots'[s].mBufferState = "DEQUEUED" =>
           \/ mSlots'[s].mRequestBufferCalled => mSlots'[s].mGraphicBuffer # NoBuffer
           \/ /\ mSlots[s].mBufferState = "DEQUEUED"
              /\ mSlots'[s].mGraphicBuffer = mSlots[s].mGraphicBuffer
              /\ mSlots'[s].mRequestBufferCalled = mSlots[s].mRequestBufferCalled,
         \A s \in Slots :
           \/ mSlots'[s].mGraphicBuffer \in InSlots \cup {NoBuffer}
           \/ \A q \in Producers : Rests(q) /\ Asleep(q)' =>
                                  call'[q].req.buffer # mSlots'[s].mGraphicBuffer,
         InQueue' \subseteq InQueue \cup InSlots
  PROVE  ThreadsOwn' /\ HeldAreDequeued' /\ RequestedSlotsHaveBuffers'
<1>1. ASSUME NEW q \in Producers, Rests(q) PROVE ThreadOwns(q)'
  <2>1. ASSUME InHand(q)', ~mIsAbandoned'
        PROVE  /\ mSlots'[call'[q].slot].mBufferState = "DEQUEUED"
               /\ call'[q].slot \notin held'
               /\ mSlots'[call'[q].slot].mGraphicBuffer = mSlots[call[q].slot].mGraphicBuffer
               /\ \A r \in Producers \ {q} : InHand(r)' => call'[r].slot # call'[q].slot
    <3>1. InHand(q) /\ call'[q] = call[q] /\ call[q].slot \in Slots /\ ~mIsAbandoned
      BY <1>1, <2>1, RestFacts
    <3>2. /\ mSlots[call[q].slot].mBufferState = "DEQUEUED" /\ call[q].slot \notin held
          /\ \A r \in Producers \ {q} : InHand(r) => call[r].slot # call[q].slot
      BY <3>1 DEF ThreadsOwn, ThreadOwns
    <3>3. /\ mSlots'[call[q].slot].mBufferState = "DEQUEUED"
          /\ mSlots'[call[q].slot].mGraphicBuffer = mSlots[call[q].slot].mGraphicBuffer
      BY <1>1, <2>1, <3>1, <3>2
    <3>4. call[q].slot \notin held'
      BY <2>1, <3>1, <3>2
    <3>5. ASSUME NEW r \in Producers \ {q}, InHand(r)'
          PROVE  call'[r].slot # call'[q].slot
      <4>1. CASE Rests(r)
        BY <3>1, <3>2, <3>5, <4>1, RestFacts
      <4>2. CASE ThreadOwns(r)'
        BY <2>1, <3>5, <4>2 DEF ThreadOwns
      <4> QED BY <4>1, <4>2
    <3> QED BY <3>1, <3>3, <3>4, <3>5
  <2>2. ASSUME call'[q].op = "returned", ~mIsAbandoned'
        PROVE  mSlots'[call'[q].slot].mGraphicBuffer # NoBuffer
    <3>1. call[q].op = "returned" /\ ~mIsAbandoned /\ InHand(q)'
      BY <1>1, <2>2, RestFacts DEF InHand
    <3>2. mSlots[call[q].slot].mGraphicBuffer # NoBuffer
      BY <3>1 DEF ThreadsOwn, ThreadOwns
    <3> QED BY <2>1, <2>2, <3>1, <3>2
  <2>3. call'[q].op = "refused" => mIsAbandoned'
    BY <1>1, RestFacts DEF ThreadsOwn, ThreadOwns
  <2> QED BY <2>1, <2>2, <2>3 DEF ThreadOwns
<1>2. ASSUME NEW q \in Producers, Rests(q) PROVE WaitsApart(q)'
  <2> SUFFICES ASSUME Asleep(q)', ~(call'[q].req.kind = "dequeue"
                                    /\ call'[q].req.buffer = NoBuffer)
               PROVE  /\ call'[q].req.kind = "attach"
                      /\ call'[q].req.buffer \in Buffers \ (InSlots' \cup InQueue')
                      /\ \A r \in Producers \ {q} :
                           Asleep(r)' => call'[r].req.buffer # call'[q].req.buffer
    BY DEF WaitsApart
  <2>1. Asleep(q) /\ call'[q].req = call[q].req
    BY <1>2, RestFacts
  <2>2. PICK b : b = call[q].req.buffer
    OBVIOUS
  <2>3. /\ call[q].req.kind = "attach" /\ b \in Buffers /\ b \notin InSlots /\ b \notin InQueue
        /\ \A r \in Producers \ {q} : Asleep(r) => call[r].req.buffer # b
    BY <2>1, <2>2 DEF ThreadsOwn, WaitsApart
  <2>4. b # NoBuffer
    BY <2>3, CoreAssumption
  <2>5. b \notin InSlots'
    <3>1. \A s \in Slots : mSlots'[s].mGraphicBuffer # b
      BY <1>2, <2>1, <2>2, <2>3, <2>4
    <3> QED BY <3>1 DEF InSlots
  <2>6. b \notin InQueue'
    BY <2>3
  <2>7. ASSUME NEW r \in Producers \ {q}, Asleep(r)' PROVE call'[r].req.buffer # b
    <3>1. CASE Rests(r)
      BY <2>3, <2>7, <3>1, RestFacts
    <3>2. CASE WaitsApart(r)'
      <4>1. CASE call'[r].req.buffer = NoBuffer
        BY <2>4, <4>1
      <4>2. CASE call'[r].req.buffer # NoBuffer
        BY <2>1, <2>2, <2>7, <3>2, <4>2 DEF WaitsApart
      <4> QED BY <4>1, <4>2
    <3> QED BY <3>1, <3>2
  <2> QED BY <2>1, <2>2, <2>3, <2>5, <2>6, <2>7
<1>3. ThreadsOwn'
  BY <1>1, <1>2 DEF ThreadsOwn
<1>4. HeldAreDequeued'
  BY DEF HeldAreDequeued
<1>5. RequestedSlotsHaveBuffers'
  BY DEF RequestedSlotsHaveBuffers, SlotsIn
<1> QED BY <1>3, <1>4, <1>5

(* A step that leaves the queue alone keeps its items' slots, if it does   *)
(* not touch a slot that is QUEUED, and puts no queued buffer elsewhere.   *)
LEMMA ItemsKept ==
  ASSUME ItemsDiffer, TrackedItemsAreQueued, UNCHANGED <<mQueue, mFrameCounter>>,
         \A i \in Indices : mQueue[i].mSlot \in Slots,
         \A s \in Slots :
           \/ mSlots'[s].mGraphicBuffer \notin InQueue
           \/ /\ mSlots'[s].mGraphicBuffer = mSlots[s].mGraphicBuffer
              /\ mSlots[s].mBufferState = "QUEUED" =>
                   /\ mSlots'[s].mBufferState = "QUEUED"
                   /\ mSlots'[s].mFrameNumber = mSlots[s].mFrameNumber
  PROVE  ItemsDiffer' /\ TrackedItemsAreQueued' /\ InQueue' = InQueue
<1>1. ItemsDiffer' /\ InQueue' = InQueue
  BY DEF ItemsDiffer, Indices, InQueue
<1>2. ASSUME NEW i \in Indices, Tracked(i)'
      PROVE  /\ mSlots'[mQueue[i].mSlot].mBufferState = "QUEUED"
             /\ mSlots'[mQueue[i].mSlot].mFrameNumber = mQueue[i].mFrameNumber
  <2>1. PICK s \in Slots : s = mQueue[i].mSlot
    OBVIOUS
  <2>2. mSlots'[s].mGraphicBuffer = mQueue[i].mGraphicBuffer
    BY <1>2, <2>1 DEF Tracked, stillTracking
  <2>3. mSlots'[s].mGraphicBuffer \in InQueue
    BY <2>2 DEF InQueue, Indices
  <2>4. Tracked(i)
    BY <2>1, <2>2, <2>3 DEF Tracked, stillTracking
  <2>5. mSlots[s].mBufferState = "QUEUED" /\ mSlots[s].mFrameNumber = mQueue[i].mFrameNumber
    BY <2>1, <2>4 DEF TrackedItemsAreQueued, Indices
  <2> QED BY <2>1, <2>3, <2>5
<1> QED BY <1>1, <1>2 DEF TrackedItemsAreQueued, Indices

(* TypeOK, as the proofs below use it.                                     *)
LEMMA TypeFacts ==
  ASSUME TypeOK
  PROVE  /\ call \in [Producers -> Call] /\ held \subseteq Slots
         /\ \A q \in Producers : /\ InHand(q) => call[q].slot \in Slots
                                 /\ Asleep(q) => call[q].req \in Request
         /\ DOMAIN mSlots = Slots /\ \A s \in Slots : mSlots[s] \in BufferSlot
         /\ mQueue \in Seq(BufferItem)
         /\ \A i \in Indices : mQueue[i] \in BufferItem /\ mQueue[i].mSlot \in Slots
         /\ mFrameCounter \in Nat /\ acquired \subseteq Handle
<1>1. call \in [Producers -> Call] /\ held \subseteq Slots /\ mSlots \in [Slots -> BufferSlot]
      /\ mQueue \in Seq(BufferItem) /\ mFrameCounter \in Nat /\ acquired \subseteq Handle
  BY DEF TypeOK, CoreTypeOK, ProducerTypeOK
<1>2. ASSUME NEW q \in Producers
      PROVE  /\ InHand(q) => call[q].slot \in Slots
             /\ Asleep(q) => call[q].req \in Request
  <2>1. call[q] \in Call  BY <1>1
  <2> QED BY <2>1, CallFields DEF InHand, Asleep
<1>3. \A i \in Indices : mQueue[i] \in BufferItem
  BY <1>1 DEF Indices
<1> QED BY <1>1, <1>2, <1>3 DEF BufferItem

(* Steps that leave the queue alone.                                       *)
LEMMA StepKeepsOwners ==
  ASSUME TypeOK, OwnersInv, UNCHANGED <<mQueue, mFrameCounter>>,
         mIsAbandoned => mIsAbandoned',
         \A q \in Producers : Rests(q) \/ (ThreadOwns(q)' /\ WaitsApart(q)'),
         ~mIsAbandoned' => \A s \in held' \ held :
           /\ mSlots'[s].mBufferState = "DEQUEUED"
           /\ \A q \in Producers : InHand(q)' => call'[q].slot # s,
         \A s \in Slots : mSlots[s].mBufferState = "DEQUEUED" /\ ~mIsAbandoned' =>
           \/ /\ mSlots'[s].mBufferState = "DEQUEUED"
              /\ mSlots'[s].mGraphicBuffer = mSlots[s].mGraphicBuffer
           \/ /\ s \notin held'
              /\ \A q \in Producers : Rests(q) /\ InHand(q)' => call'[q].slot # s,
         \A s \in Slots : mSlots'[s].mBufferState = "DEQUEUED" =>
           \/ mSlots'[s].mRequestBufferCalled => mSlots'[s].mGraphicBuffer # NoBuffer
           \/ /\ mSlots[s].mBufferState = "DEQUEUED"
              /\ mSlots'[s].mGraphicBuffer = mSlots[s].mGraphicBuffer
              /\ mSlots'[s].mRequestBufferCalled = mSlots[s].mRequestBufferCalled,
         \A s \in Slots :
           \/ /\ mSlots'[s].mGraphicBuffer = mSlots[s].mGraphicBuffer
              /\ mSlots[s].mBufferState = "QUEUED" =>
                   /\ mSlots'[s].mBufferState = "QUEUED"
                   /\ mSlots'[s].mFrameNumber = mSlots[s].mFrameNumber
           \/ mSlots'[s].mGraphicBuffer = NoBuffer
           \/ /\ mSlots'[s].mGraphicBuffer \notin InQueue
              /\ \A q \in Producers : Rests(q) /\ Asleep(q)' =>
                                  call'[q].req.buffer # mSlots'[s].mGraphicBuffer
  PROVE  OwnersInv'
<1>1. ItemsDiffer' /\ TrackedItemsAreQueued' /\ InQueue' = InQueue
  <2>1. NoBuffer \notin InQueue
    BY DEF OwnersInv, ItemsDiffer, InQueue, Indices
  <2> QED BY <2>1, ItemsKept, TypeFacts DEF OwnersInv
<1>2. \A s \in Slots :
           \/ mSlots'[s].mGraphicBuffer \in InSlots \cup {NoBuffer}
           \/ \A q \in Producers : Rests(q) /\ Asleep(q)' =>
                                  call'[q].req.buffer # mSlots'[s].mGraphicBuffer
  BY DEF InSlots
<1>3. ThreadsOwn' /\ HeldAreDequeued' /\ RequestedSlotsHaveBuffers'
  BY <1>1, <1>2, OwnersKept, TypeFacts DEF OwnersInv
<1> QED BY <1>1, <1>3 DEF OwnersInv

(* Steps that concern nobody's slots.                                      *)
LEMMA QuietKeepsOwners ==
  ASSUME TypeOK, OwnersInv, UNCHANGED <<mQueue, mFrameCounter, mSlots, mIsAbandoned, held>>,
         \A q \in Producers : Rests(q)
  PROVE  OwnersInv'
  BY StepKeepsOwners

(* Every slot is freed, and nobody holds one.                              *)
LEMMA FreeAllFacts ==
  ASSUME TypeOK, freeAllBuffersLocked
  PROVE  \A s \in Slots : /\ mSlots'[s].mBufferState = "FREE"
                          /\ mSlots'[s].mGraphicBuffer = NoBuffer
<1>1. \A s \in Slots : mSlots'[s] = FreedSlot(mSlots[s]) /\ mSlots[s] \in BufferSlot
  BY TypeFacts DEF freeAllBuffersLocked
<1> QED BY <1>1 DEF FreedSlot, BufferSlot

(* When all slots are freed no thread may count on one, and nobody may     *)
(* have been inside a dequeue.                                             *)
LEMMA FreeAllKeepsOwners ==
  ASSUME TypeOK, OwnersInv, UNCHANGED <<mQueue, mFrameCounter>>, freeAllBuffersLocked,
         mIsAbandoned => mIsAbandoned', \A q \in Producers : Rests(q),
         ~mIsAbandoned' => held' = {} /\ \A q \in Producers : ~InHand(q)'
  PROVE  OwnersInv'
<1>1. \A s \in Slots : /\ mSlots'[s].mBufferState = "FREE"
                       /\ mSlots'[s].mGraphicBuffer = NoBuffer
  BY FreeAllFacts
<1> QED BY <1>1, StepKeepsOwners

(* One slot is freed that nobody uses, or that is given back.              *)
LEMMA FreeKeepsOwners ==
  ASSUME TypeOK, OwnersInv, UNCHANGED <<mQueue, mFrameCounter, mIsAbandoned>>,
         \A q \in Producers : Rests(q), held' \subseteq held,
         NEW s \in Slots, mSlots' = freeBufferLocked(mSlots, s),
         mSlots[s].mBufferState = "DEQUEUED" =>
           s \notin held' /\ \A q \in Producers : InHand(q) => call[q].slot # s
  PROVE  OwnersInv'
<1>1. /\ mSlots'[s].mBufferState = "FREE" /\ mSlots'[s].mGraphicBuffer = NoBuffer
      /\ \A t \in Slots \ {s} : mSlots'[t] = mSlots[t]
  BY TypeFacts DEF freeBufferLocked, FreedSlot, BufferSlot
<1>2. \A q \in Producers : Rests(q) /\ InHand(q)' => InHand(q) /\ call'[q] = call[q]
  BY RestFacts
<1> QED BY <1>1, <1>2, StepKeepsOwners
-----------------------------------------------------------------------------
(* OwnersInv is inductive: one lemma for each kind of action.              *)

(* The slot dequeueBuffer has found, and the thread that has it.           *)
Finds(p, slots, s, released) ==
  /\ mSlots'[s].mBufferState = "DEQUEUED"
  /\ \A t \in Slots \ {s} : mSlots'[t] = slots[t]
  /\ \/ /\ mSlots'[s].mGraphicBuffer = NoBuffer /\ ~mSlots'[s].mRequestBufferCalled
        /\ call'[p].op = "allocating" /\ ~mSlots'[s].mAcquireCalled
     \/ /\ mSlots'[s].mGraphicBuffer = slots[s].mGraphicBuffer
        /\ mSlots'[s].mAcquireCalled = slots[s].mAcquireCalled
        /\ mSlots'[s].mGraphicBuffer # NoBuffer
        /\ call'[p].op = "returned"
  /\ call'[p].slot = s /\ call'[p].released = released
  /\ \A q \in Producers \ {p} : Rests(q)

(* What dequeueBuffer does with the slot it has found.                     *)
LEMMA FoundFacts ==
  ASSUME TypeOK, NEW p \in Producers, NEW req, NEW slots, slots \in [Slots -> BufferSlot],
         NEW s \in Slots, NEW released, DequeueFound(p, req, slots, s, released)
  PROVE  Finds(p, slots, s, released)
<1>1. PICK slot : slot = slots[s] /\ slot \in BufferSlot /\ DOMAIN slots = Slots
  OBVIOUS
<1>2. CASE NeedsReallocation(slots[s], req.size)
  <2>1. PICK c : /\ c = [op |-> "allocating", slot |-> s, size |-> req.size,
                         released |-> released]
                 /\ call' = [call EXCEPT ![p] = c]
    BY <1>2 DEF DequeueFound
  <2>2. call'[p] = c /\ \A q \in Producers \ {p} : Rests(q)
    BY <2>1, CallRests
  <2>3. mSlots' = [slots EXCEPT ![s] = [slot EXCEPT !.mBufferState = "DEQUEUED",
                                                   !.mAcquireCalled = FALSE,
                                                   !.mGraphicBuffer = NoBuffer,
                                                   !.mRequestBufferCalled = FALSE]]
    BY <1>1, <1>2 DEF DequeueFound
  <2>4. /\ mSlots'[s].mBufferState = "DEQUEUED" /\ mSlots'[s].mGraphicBuffer = NoBuffer
        /\ mSlots'[s].mRequestBufferCalled = FALSE /\ mSlots'[s].mAcquireCalled = FALSE
        /\ \A t \in Slots \ {s} : mSlots'[t] = slots[t]
    BY <1>1, <2>3 DEF BufferSlot
  <2>5. call'[p].op = "allocating" /\ call'[p].slot = s /\ call'[p].released = released
    BY <2>1, <2>2
  <2> QED BY <2>2, <2>4, <2>5 DEF Finds
<1>3. CASE ~NeedsReallocation(slots[s], req.size)
  <2>1. PICK c : /\ c = [op |-> "returned", slot |-> s, released |-> released,
                         realloc |-> slots[s].mAttachedByConsumer]
                 /\ call' = [call EXCEPT ![p] = c]
    BY <1>3 DEF DequeueFound
  <2>2. call'[p] = c /\ \A q \in Producers \ {p} : Rests(q)
    BY <2>1, CallRests
  <2>3. mSlots' = [slots EXCEPT ![s].mBufferState = "DEQUEUED"]
    BY <1>3 DEF DequeueFound
  <2>4. /\ mSlots'[s].mBufferState = "DEQUEUED"
        /\ mSlots'[s].mGraphicBuffer = slots[s].mGraphicBuffer
        /\ slots[s].mGraphicBuffer # NoBuffer
        /\ mSlots'[s].mAcquireCalled = slots[s].mAcquireCalled
        /\ \A t \in Slots \ {s} : mSlots'[t] = slots[t]
    BY <1>1, <1>3, <2>3 DEF BufferSlot, NeedsReallocation
  <2>5. call'[p].op = "returned" /\ call'[p].slot = s /\ call'[p].released = released
    BY <2>1, <2>2
  <2> QED BY <2>2, <2>4, <2>5 DEF Finds
<1> QED BY <1>2, <1>3

(* dequeueBuffer returns FREE slots that it makes the thread's own.        *)
LEMMA FoundKeepsOwners ==
  ASSUME TypeOK, OwnersInv, NEW p \in Producers, ~InHand(p), ~mIsAbandoned,
         UNCHANGED <<mQueue, mFrameCounter, mIsAbandoned, held>>,
         NEW req \in Request, NEW async, NEW slots,
         slots = TrimmedSlots(getMaxBufferCountLocked(async)),
         NEW s \in Slots, slots[s].mBufferState = "FREE",
         NEW released, DequeueFound(p, req, slots, s, released)
  PROVE  OwnersInv'
<1>1. /\ slots \in [Slots -> BufferSlot]
      /\ \A t \in Slots :
           \/ slots[t] = mSlots[t]
           \/ /\ slots[t].mBufferState = "FREE" /\ slots[t].mGraphicBuffer = NoBuffer
              /\ mSlots[t].mBufferState \in {"FREE", "ACQUIRED"}
  BY TrimmedFacts DEF TypeOK
<1>2. /\ mSlots'[s].mBufferState = "DEQUEUED"
      /\ \/ /\ mSlots'[s].mGraphicBuffer = NoBuffer /\ ~mSlots'[s].mRequestBufferCalled
            /\ call'[p].op = "allocating"
         \/ /\ mSlots'[s].mGraphicBuffer = slots[s].mGraphicBuffer
            /\ mSlots'[s].mGraphicBuffer # NoBuffer
            /\ call'[p].op = "returned"
      /\ call'[p].slot = s
      /\ \A t \in Slots \ {s} : mSlots'[t] = slots[t]
      /\ \A q \in Producers \ {p} : Rests(q)
  <2>1. Finds(p, slots, s, released)
    BY <1>1, FoundFacts
  <2> QED BY <2>1 DEF Finds
<1>3. mSlots[s].mBufferState \in {"FREE", "ACQUIRED"}
  BY <1>1
<1>4. s \notin held /\ \A q \in Producers : InHand(q) => call[q].slot # s
  BY <1>3 DEF OwnersInv, HeldAreDequeued, ThreadsOwn, ThreadOwns
<1>5. \A q \in Producers \ {p} : InHand(q)' => call'[q].slot # s
  BY <1>2, <1>4, RestFacts
<1>6. ThreadOwns(p)' /\ WaitsApart(p)'
  BY <1>2, <1>4, <1>5 DEF ThreadOwns, WaitsApart, InHand, Asleep
<1> QED BY <1>1, <1>2, <1>3, <1>5, <1>6, StepKeepsOwners

(* attachBuffer puts its buffer into the slot, which is then the client's. *)
LEMMA AttachFoundKeepsOwners ==
  ASSUME TypeOK, OwnersInv, NEW p \in Producers, ~InHand(p), ~mIsAbandoned,
         UNCHANGED <<mQueue, mFrameCounter, mIsAbandoned>>,
         NEW req \in Request, NEW async, NEW slots,
         slots = TrimmedSlots(getMaxBufferCountLocked(async)),
         NEW s \in Slots, slots[s].mBufferState = "FREE",
         req.buffer \in Buffers \ (InSlots \cup InQueue),
         \A q \in Producers \ {p} : Asleep(q) => call[q].req.buffer # req.buffer,
         NEW released, AttachFound(p, req, slots, s, released)
  PROVE  OwnersInv'
<1>1. /\ slots \in [Slots -> BufferSlot]
      /\ \A t \in Slots :
           \/ slots[t] = mSlots[t]
           \/ /\ slots[t].mBufferState = "FREE" /\ slots[t].mGraphicBuffer = NoBuffer
              /\ mSlots[t].mBufferState \in {"FREE", "ACQUIRED"}
  BY TrimmedFacts DEF TypeOK
<1>2. /\ mSlots'[s].mBufferState = "DEQUEUED" /\ mSlots'[s].mGraphicBuffer = req.buffer
      /\ \A t \in Slots \ {s} : mSlots'[t] = slots[t]
      /\ held' = held \cup {s}
  BY <1>1 DEF AttachFound, BufferSlot
<1>3. /\ \A q \in Producers : Rests(q)
      /\ call'[p].op = "idle"
  BY TypeFacts, CallRests DEF AttachFound, Return, Idle
<1>4. mSlots[s].mBufferState \in {"FREE", "ACQUIRED"}
  BY <1>1
<1>5. s \notin held /\ \A q \in Producers : InHand(q) => call[q].slot # s
  BY <1>4 DEF OwnersInv, HeldAreDequeued, ThreadsOwn, ThreadOwns
<1>6. \A q \in Producers : InHand(q)' => call'[q].slot # s
  BY <1>3, <1>5, RestFacts
<1>7. req.buffer # NoBuffer  BY CoreAssumption
<1>8. \A q \in Producers : Asleep(q)' => call'[q].req.buffer # req.buffer
  <2>1. ~Asleep(p)'  BY <1>3 DEF Asleep
  <2> QED BY <1>3, <2>1, RestFacts
<1> QED BY <1>1, <1>2, <1>3, <1>4, <1>6, <1>7, <1>8, StepKeepsOwners

(* A turn of the loop that looks for a free slot, whoever asks.            *)
LEMMA WaitKeepsOwners ==
  ASSUME TypeOK, OwnersInv, NEW p \in Producers, ~InHand(p),
         NEW req \in Request, waitForFreeSlotThenRelock(p, req),
         \/ req.kind = "dequeue" /\ req.buffer = NoBuffer
         \/ /\ req.kind = "attach" /\ req.buffer \in Buffers \ (InSlots \cup InQueue)
            /\ \A q \in Producers \ {p} : Asleep(q) => call[q].req.buffer # req.buffer
  PROVE  OwnersInv'
<1>1. PICK slots : slots = TrimmedSlots(getMaxBufferCountLocked(req.async))
  OBVIOUS
<1>2. PICK released : released =
        (req.released \/ BeyondMax(getMaxBufferCountLocked(req.async)) # {})
  OBVIOUS
<1>3. UNCHANGED <<mQueue, mFrameCounter, mIsAbandoned>>
  BY DEF waitForFreeSlotThenRelock, connectionVars
<1>4. /\ slots \in [Slots -> BufferSlot]
      /\ \A s \in Slots :
           \/ slots[s] = mSlots[s]
           \/ /\ slots[s].mBufferState = "FREE" /\ slots[s].mGraphicBuffer = NoBuffer
              /\ mSlots[s].mBufferState \in {"FREE", "ACQUIRED"}
  BY <1>1, TrimmedFacts DEF TypeOK
<1>5. CASE UNCHANGED <<mSlots, held>> /\ Return(p)
  BY <1>3, <1>5, QuietKeepsOwners, CallRests
<1>6. CASE mSlots' = slots /\ Return(p) /\ UNCHANGED held
  <2>1. \A q \in Producers : Rests(q)
    BY <1>6, CallRests
  <2> QED BY <1>3, <1>4, <1>6, <2>1, StepKeepsOwners
<1>7. CASE /\ mSlots' = slots /\ UNCHANGED held
           /\ call' = [call EXCEPT ![p] = [op |-> "waiting",
                         req |-> [req EXCEPT !.released = released]]]
  <2>1. PICK c : c = [op |-> "waiting", req |-> [req EXCEPT !.released = released]]
    OBVIOUS
  <2>2. c.op = "waiting" /\ c.req.kind = req.kind /\ c.req.buffer = req.buffer
    BY <2>1 DEF Request
  <2>3. call'[p] = c /\ \A q \in Producers \ {p} : Rests(q)
    BY <1>7, <2>1, CallRests
  <2>4. ThreadOwns(p)'
    BY <2>2, <2>3 DEF ThreadOwns, InHand
  <2>5. WaitsApart(p)'
    <3>1. CASE req.kind = "dequeue" /\ req.buffer = NoBuffer
      BY <2>2, <2>3, <3>1 DEF WaitsApart
    <3>2. CASE /\ req.kind = "attach" /\ req.buffer \in Buffers \ (InSlots \cup InQueue)
               /\ \A q \in Producers \ {p} : Asleep(q) => call[q].req.buffer # req.buffer
      <4>1. \A q \in Producers \ {p} : Asleep(q)' => call'[q].req.buffer # req.buffer
        BY <2>3, <3>2, RestFacts
      <4>2. req.buffer \notin InSlots'
        <5>1. \A s \in Slots : mSlots'[s].mGraphicBuffer # req.buffer
          BY <1>4, <1>7, <3>2, CoreAssumption DEF InSlots
        <5> QED BY <5>1 DEF InSlots
      <4>3. InQueue' = InQueue  BY <1>3 DEF InQueue
      <4> QED BY <2>2, <2>3, <3>2, <4>1, <4>2, <4>3 DEF WaitsApart
    <3> QED BY <3>1, <3>2
  <2> QED BY <1>3, <1>4, <1>7, <2>3, <2>4, <2>5, StepKeepsOwners
<1>8. ASSUME NEW s \in Slots, slots[s].mBufferState = "FREE", ~mIsAbandoned, UNCHANGED held,
             DequeueFound(p, req, slots, s, released)
      PROVE  OwnersInv'
  BY <1>1, <1>3, <1>8, FoundKeepsOwners
<1>9. ASSUME NEW s \in Slots, slots[s].mBufferState = "FREE", ~mIsAbandoned,
             req.kind = "attach", AttachFound(p, req, slots, s, released)
      PROVE  OwnersInv'
  BY <1>1, <1>3, <1>9, AttachFoundKeepsOwners
<1>10. ASSUME NEW s \in Slots, IsOldest(slots, s, Below(getMaxBufferCountLocked(req.async), "FREE"))
       PROVE  slots[s].mBufferState = "FREE"
  BY <1>1, <1>10 DEF IsOldest, Below, SlotsIn
<1> QED BY <1>1, <1>2, <1>5, <1>6, <1>7, <1>8, <1>9, <1>10 DEF waitForFreeSlotThenRelock

(* A thread that sleeps keeps its buffer apart, and so does one that asks. *)
LEMMA AskingKeepsOwners ==
  ASSUME TypeOK, OwnersInv, ~ReattachQueued, NEW p \in Producers,
         Retry(p) \/ dequeueBuffer(p) \/ attachBuffer(p)
  PROVE  OwnersInv'
<1>1. CASE Retry(p)
  <2>1. PICK req : req = call[p].req
    OBVIOUS
  <2>2. Asleep(p) /\ ~InHand(p) /\ req \in Request /\ waitForFreeSlotThenRelock(p, req)
    BY <1>1, <2>1, TypeFacts DEF Retry, Asleep, InHand
  <2>3. \/ req.kind = "dequeue" /\ req.buffer = NoBuffer
        \/ /\ req.kind = "attach" /\ req.buffer \in Buffers \ (InSlots \cup InQueue)
           /\ \A q \in Producers \ {p} : Asleep(q) => call[q].req.buffer # req.buffer
    BY <2>1, <2>2 DEF OwnersInv, ThreadsOwn, WaitsApart
  <2> QED BY <2>2, <2>3, WaitKeepsOwners
<1>2. CASE dequeueBuffer(p)
  <2>1. PICK req : /\ req.kind = "dequeue" /\ req.buffer = NoBuffer /\ req \in Request
                   /\ waitForFreeSlotThenRelock(p, req)
    BY <1>2, ProducerAssumption DEF dequeueBuffer, Request
  <2>2. ~InHand(p)
    BY <1>2 DEF dequeueBuffer, InHand, Idle
  <2> QED BY <2>1, <2>2, WaitKeepsOwners
<1>3. CASE attachBuffer(p)
  <2>1. PICK b \in Buffers \ (InSlots \cup InQueue) :
          /\ ~Attaching(b)
          /\ waitForFreeSlotThenRelock(p,
               [kind |-> "attach", async |-> FALSE, size |-> SizeOf[b],
                buffer |-> b, released |-> FALSE])
    BY <1>3 DEF attachBuffer
  <2>2. PICK req : /\ req = [kind |-> "attach", async |-> FALSE, size |-> SizeOf[b],
                             buffer |-> b, released |-> FALSE]
    OBVIOUS
  <2>3. req \in Request /\ req.kind = "attach" /\ req.buffer = b
        /\ waitForFreeSlotThenRelock(p, req)
    BY <2>1, <2>2, CoreAssumption DEF Request
  <2>4. ~InHand(p)
    BY <1>3 DEF attachBuffer, InHand, Idle
  <2>5. \A q \in Producers \ {p} : Asleep(q) => call[q].req.buffer # req.buffer
    BY <2>1, <2>3 DEF Attaching, Asleep
  <2> QED BY <2>1, <2>3, <2>4, <2>5, WaitKeepsOwners
<1> QED BY <1>1, <1>2, <1>3

(* What createGraphicBuffer returns is nowhere else.                       *)
LEMMA FreshFacts ==
  ASSUME NEW size, NEW b \in Fresh(size), \A q \in Producers : Rests(q) \/ ~Asleep(q)'
  PROVE  /\ b # NoBuffer /\ b \in Buffers /\ b \notin InSlots /\ b \notin InQueue
         /\ \A q \in Producers : Asleep(q)' => call'[q].req.buffer # b
<1>1. b \in Buffers /\ b \notin InSlots /\ b \notin InQueue /\ ~Attaching(b)
  BY DEF Fresh
<1>2. \A q \in Producers : Asleep(q) => call[q].req.buffer # b
  BY <1>1 DEF Attaching, Asleep
<1> QED BY <1>1, <1>2, CoreAssumption, RestFacts

(* The buffer that was allocated without the lock goes into the slot the   *)
(* thread still owns.                                                      *)
LEMMA AllocatedKeepsOwners ==
  ASSUME TypeOK, OwnersInv, NEW p \in Producers, dequeueBufferAllocated(p)
  PROVE  OwnersInv'
<1>1. UNCHANGED <<mQueue, mFrameCounter, mIsAbandoned, held>> /\ call[p].op = "allocating"
  BY DEF dequeueBufferAllocated, connectionVars
<1>2. CASE mIsAbandoned
  <2>1. Return(p) /\ UNCHANGED mSlots
    BY <1>2 DEF dequeueBufferAllocated
  <2>2. \A q \in Producers : Rests(q)
    BY <2>1, CallRests
  <2> QED BY <1>1, <2>1, <2>2, QuietKeepsOwners
<1>3. CASE ~mIsAbandoned
  <2>1. PICK s, c : /\ s = call[p].slot
                    /\ c = [op |-> "returned", slot |-> s, released |-> call[p].released,
                            realloc |-> TRUE]
    OBVIOUS
  <2>2. PICK b \in Fresh(call[p].size) :
          /\ call' = [call EXCEPT ![p] = c]
          /\ mSlots' = [mSlots EXCEPT ![s] = [@ EXCEPT !.mFrameNumber = UINT32_MAX,
                                                       !.mGraphicBuffer = b]]
    BY <1>3, <2>1 DEF dequeueBufferAllocated
  <2>3. /\ s \in Slots /\ mSlots[s].mBufferState = "DEQUEUED" /\ s \notin held
        /\ \A q \in Producers \ {p} : InHand(q) => call[q].slot # s
    BY <1>1, <1>3, <2>1, TypeFacts DEF OwnersInv, ThreadsOwn, ThreadOwns, InHand
  <2>4. call'[p] = c /\ c.op = "returned" /\ c.slot = s
        /\ \A q \in Producers \ {p} : Rests(q)
    BY <2>1, <2>2, CallRests
  <2>5. ~Rests(p)
    BY <1>1, <2>4 DEF Rests, EndOps
  <2>6. /\ mSlots'[s].mBufferState = "DEQUEUED" /\ mSlots'[s].mGraphicBuffer = b
        /\ \A t \in Slots \ {s} : mSlots'[t] = mSlots[t]
    BY <2>2, <2>3, TypeFacts DEF BufferSlot
  <2>7. /\ b # NoBuffer /\ b \notin InQueue
        /\ \A q \in Producers : Asleep(q)' => call'[q].req.buffer # b
    <3>1. ~Asleep(p)'  BY <2>4 DEF Asleep
    <3> QED BY <2>4, <3>1, FreshFacts
  <2>8. \A q \in Producers \ {p} : InHand(q)' => call'[q].slot # s
    BY <2>3, <2>4, RestFacts
  <2>9. ThreadOwns(p)' /\ WaitsApart(p)'
    BY <1>1, <2>3, <2>4, <2>6, <2>7, <2>8 DEF ThreadOwns, WaitsApart, Asleep
  <2> QED BY <1>1, <2>3, <2>4, <2>5, <2>6, <2>7, <2>8, <2>9, StepKeepsOwners
<1> QED BY <1>2, <1>3

(* Surface takes the slot from the thread that dequeued it.                *)
LEMMA RequestKeepsOwners ==
  ASSUME TypeOK, OwnersInv, NEW p \in Producers, requestBuffer(p)
  PROVE  OwnersInv'
<1>1. UNCHANGED <<mQueue, mFrameCounter, mIsAbandoned>> /\ call[p].op = "returned"
  BY DEF requestBuffer, connectionVars
<1>2. PICK s : s = call[p].slot
  OBVIOUS
<1>3. /\ s \in Slots
      /\ ~mIsAbandoned => /\ mSlots[s].mBufferState = "DEQUEUED" /\ s \notin held
                          /\ mSlots[s].mGraphicBuffer # NoBuffer
                          /\ \A q \in Producers \ {p} : InHand(q) => call[q].slot # s
  BY <1>1, <1>2, TypeFacts DEF OwnersInv, ThreadsOwn, ThreadOwns, InHand
<1>4. CASE ~Return(p)
  <2>1. /\ ~(~mIsAbandoned /\ mSlots[s].mBufferState = "DEQUEUED")
        /\ call' = [call EXCEPT ![p] = [op |-> "refused", slot |-> s]]
        /\ UNCHANGED <<mSlots, held>>
    BY <1>2, <1>4 DEF requestBuffer
  <2>2. PICK c : c = [op |-> "refused", slot |-> s]
    OBVIOUS
  <2>3. call'[p] = c /\ c.op = "refused" /\ \A q \in Producers \ {p} : Rests(q)
    BY <2>1, <2>2, CallRests
  <2>4. ThreadOwns(p)' /\ WaitsApart(p)'
    BY <1>1, <1>3, <2>1, <2>3 DEF ThreadOwns, WaitsApart, InHand, Asleep
  <2> QED BY <1>1, <2>1, <2>3, <2>4, StepKeepsOwners
<1>5. CASE Return(p)
  <2>1. (\A q \in Producers : Rests(q)) /\ call'[p].op = "idle"
    BY TypeFacts, <1>5, CallRests DEF Return, Idle
  <2>2. ~mIsAbandoned => \A q \in Producers : InHand(q)' => call'[q].slot # s
    <3>1. ~InHand(p)'  BY <2>1 DEF InHand
    <3> QED BY <1>3, <2>1, <3>1, RestFacts
  <2>3. held' \subseteq held \cup {s}
    BY <1>2 DEF requestBuffer
  <2>4. \/ UNCHANGED mSlots
        \/ /\ mSlots' = [mSlots EXCEPT ![s].mRequestBufferCalled = TRUE]
           /\ ~mIsAbandoned
    BY <1>2 DEF requestBuffer
  <2>5. CASE UNCHANGED mSlots
    BY <1>1, <1>3, <2>1, <2>2, <2>3, <2>5, StepKeepsOwners
  <2>6. CASE /\ mSlots' = [mSlots EXCEPT ![s].mRequestBufferCalled = TRUE]
             /\ ~mIsAbandoned
    <3>1. /\ mSlots'[s].mBufferState = mSlots[s].mBufferState
          /\ mSlots'[s].mGraphicBuffer = mSlots[s].mGraphicBuffer
          /\ mSlots'[s].mFrameNumber = mSlots[s].mFrameNumber
          /\ \A t \in Slots \ {s} : mSlots'[t] = mSlots[t]
      BY <1>3, <2>6, TypeFacts DEF BufferSlot
    <3> QED BY <1>1, <1>3, <2>1, <2>2, <2>3, <2>6, <3>1, StepKeepsOwners
  <2> QED BY <2>4, <2>5, <2>6
<1> QED BY <1>4, <1>5

(* A slot that is given back stays with its buffer, FREE.                  *)
LEMMA CancelKeepsOwners ==
  ASSUME TypeOK, OwnersInv, NEW p \in Producers,
         cancelBuffer(p) \/ detachBuffer(p) \/ detachNextBuffer(p)
  PROVE  OwnersInv'
<1>1. CASE cancelBuffer(p)
  <2>1. PICK s \in Slots : /\ s \in held /\ ~mIsAbandoned
                           /\ mSlots' = CancelledSlot(s) /\ held' = held \ {s}
    BY <1>1 DEF cancelBuffer, CanGiveBack
  <2>2. UNCHANGED <<mQueue, mFrameCounter, mIsAbandoned>> /\ BroadcastAndReturn(p)
    BY <1>1 DEF cancelBuffer, connectionVars
  <2>3. \A q \in Producers : Rests(q)
    BY <2>2, CallRests
  <2>4. /\ mSlots[s].mBufferState = "DEQUEUED"
        /\ \A q \in Producers : InHand(q) => call[q].slot # s
    BY <2>1 DEF OwnersInv, HeldAreDequeued, ThreadsOwn, ThreadOwns
  <2>5. \A q \in Producers : InHand(q)' => call'[q].slot # s
    BY <2>3, <2>4, RestFacts
  <2>6. /\ mSlots'[s].mBufferState = "FREE"
        /\ mSlots'[s].mGraphicBuffer = mSlots[s].mGraphicBuffer
        /\ \A t \in Slots \ {s} : mSlots'[t] = mSlots[t]
    BY <2>1, TypeFacts DEF CancelledSlot, BufferSlot
  <2> QED BY <2>1, <2>2, <2>3, <2>4, <2>5, <2>6, StepKeepsOwners
<1>2. CASE detachBuffer(p)
  <2>1. PICK s \in Slots : /\ s \in held /\ ~mIsAbandoned /\ held' = held \ {s}
                           /\ mSlots' = freeBufferLocked(mSlots, s)
    BY <1>2 DEF detachBuffer, CanGiveBack
  <2>2. UNCHANGED <<mQueue, mFrameCounter, mIsAbandoned>> /\ BroadcastAndReturn(p)
    BY <1>2 DEF detachBuffer, connectionVars
  <2>3. \A q \in Producers : Rests(q)
    BY <2>2, CallRests
  <2>4. \A q \in Producers : InHand(q) => call[q].slot # s
    BY <2>1 DEF OwnersInv, ThreadsOwn, ThreadOwns
  <2>5. held' \subseteq held /\ s \notin held'
    BY <2>1
  <2> QED BY <2>1, <2>2, <2>3, <2>4, <2>5, FreeKeepsOwners
<1>3. CASE detachNextBuffer(p)
  <2>1. PICK s \in Slots : /\ mSlots[s].mBufferState = "FREE"
                           /\ mSlots' = freeBufferLocked(mSlots, s)
    BY <1>3 DEF detachNextBuffer, IsOldest, SlotsIn
  <2>2. UNCHANGED <<mQueue, mFrameCounter, mIsAbandoned, call, held>>
    BY <1>3 DEF detachNextBuffer, connectionVars
  <2>3. \A q \in Producers : Rests(q)
    BY <2>2 DEF Rests
  <2> QED BY <2>1, <2>2, <2>3, FreeKeepsOwners
<1> QED BY <1>1, <1>2, <1>3

(* setBufferCount and disconnect free every slot, when no thread has one.  *)
LEMMA FreeingAllKeepsOwners ==
  ASSUME TypeOK, OwnersInv, ~ConcurrentDisconnect, NEW p \in Producers,
         setBufferCount(p) \/ disconnect(p)
  PROVE  OwnersInv'
<1>1. UNCHANGED <<mQueue, mFrameCounter, mIsAbandoned>> /\ ~mIsAbandoned
  BY DEF setBufferCount, disconnect, connectionVars
<1>2. CASE setBufferCount(p)
  <2>1. held = {} /\ held' = held /\ \A q \in Producers : ~InHand(q)
    <3>1. \A s \in Slots : mSlots[s].mBufferState # "DEQUEUED"
      BY <1>2 DEF setBufferCount, NoBufferDequeued, SlotsIn
    <3>2. \A s \in held : s \in Slots /\ mSlots[s].mBufferState = "DEQUEUED"
      BY <1>1, TypeFacts DEF OwnersInv, HeldAreDequeued
    <3>3. \A q \in Producers : InHand(q) =>
            call[q].slot \in Slots /\ mSlots[call[q].slot].mBufferState = "DEQUEUED"
      BY <1>1, TypeFacts DEF OwnersInv, ThreadsOwn, ThreadOwns
    <3> QED BY <1>2, <3>1, <3>2, <3>3 DEF setBufferCount
  <2>2. CASE BroadcastAndReturn(p) /\ UNCHANGED mSlots
    <3>1. \A q \in Producers : Rests(q)
      BY <2>2, CallRests
    <3> QED BY <1>1, <2>1, <2>2, <3>1, QuietKeepsOwners
  <2>3. CASE /\ freeAllBuffersLocked
             /\ call' = [Broadcast(call) EXCEPT ![p] =
                           IF mConsumerListener THEN [op |-> "buffersReleased"] ELSE Idle]
    <3>1. PICK c : c = IF mConsumerListener THEN [op |-> "buffersReleased"] ELSE Idle
      OBVIOUS
    <3>2. c.op \in EndOps /\ call' = [Broadcast(call) EXCEPT ![p] = c]
      BY <2>3, <3>1 DEF Idle, EndOps
    <3>3. \A q \in Producers : Rests(q)
      BY <3>2, EndRests
    <3>4. \A q \in Producers : ~InHand(q)'
      BY <2>1, <3>3, RestFacts
    <3> QED BY <1>1, <2>1, <2>3, <3>3, <3>4, FreeAllKeepsOwners
  <2> QED BY <1>2, <2>2, <2>3 DEF setBufferCount
<1>3. CASE disconnect(p)
  <2>1. held' = {} /\ freeAllBuffersLocked /\ \A q \in Producers : ~InHand(q)
    BY <1>3 DEF disconnect, InHand
  <2>2. PICK c : c = IF mConsumerListener THEN [op |-> "buffersReleased"] ELSE Idle
    OBVIOUS
  <2>3. c.op \in EndOps /\ call' = [Broadcast(call) EXCEPT ![p] = c]
    BY <1>3, <2>2 DEF disconnect, Idle, EndOps
  <2>4. \A q \in Producers : Rests(q)
    BY <2>3, EndRests
  <2>5. \A q \in Producers : ~InHand(q)'
    BY <2>1, <2>4, RestFacts
  <2> QED BY <1>1, <2>1, <2>4, <2>5, FreeAllKeepsOwners
<1> QED BY <1>2, <1>3

(* allocateBuffers fills FREE slots with buffers of their own.             *)
LEMMA PreallocatedKeepsOwners ==
  ASSUME TypeOK, OwnersInv, NEW p \in Producers, allocateBuffersAllocated(p)
  PROVE  OwnersInv'
<1>1. UNCHANGED <<mQueue, mFrameCounter, mIsAbandoned, held>>
  BY DEF allocateBuffersAllocated, connectionVars
<1>2. PICK c : c = [op |-> "allocateBuffers", async |-> call[p].async]
  OBVIOUS
<1>3. \A q \in Producers : Rests(q)
  <2>1. c.op \in EndOps /\ call' = [call EXCEPT ![p] = c]
    BY <1>2 DEF allocateBuffersAllocated, EndOps
  <2> QED BY <2>1, EndRests
<1>4. CASE UNCHANGED mSlots
  BY <1>1, <1>3, <1>4, QuietKeepsOwners
<1>5. CASE ~UNCHANGED mSlots
  <2>1. PICK fill : fill = call[p].slots \cap SlotsIn(mSlots, {"FREE"})
    OBVIOUS
  <2>2. PICK new \in [fill -> Fresh(call[p].size)] :
          mSlots' = [s \in Slots |->
                       IF s \in fill
                       THEN [FreedSlot(mSlots[s]) EXCEPT !.mGraphicBuffer = new[s],
                                                         !.mFrameNumber = 0]
                       ELSE mSlots[s]]
    BY <1>5, <2>1 DEF allocateBuffersAllocated
  <2>3. ASSUME NEW s \in Slots
        PROVE  \/ mSlots'[s] = mSlots[s]
               \/ /\ mSlots[s].mBufferState = "FREE" /\ mSlots'[s].mBufferState = "FREE"
                  /\ mSlots'[s].mGraphicBuffer \in Fresh(call[p].size)
    <3>1. CASE s \in fill
      <4>1. PICK slot : slot = FreedSlot(mSlots[s])
        OBVIOUS
      <4>2. slot \in BufferSlot /\ slot.mBufferState = "FREE"
        BY <4>1, TypeFacts, FreedSlotType DEF FreedSlot, BufferSlot
      <4>3. mSlots'[s] = [slot EXCEPT !.mGraphicBuffer = new[s], !.mFrameNumber = 0]
        BY <2>2, <3>1, <4>1
      <4>4. new[s] \in Fresh(call[p].size)
        BY <3>1
      <4>5. /\ mSlots'[s].mBufferState = "FREE"
            /\ mSlots'[s].mGraphicBuffer = new[s]
        BY <4>2, <4>3 DEF BufferSlot
      <4>6. mSlots[s].mBufferState = "FREE"
        BY <2>1, <3>1 DEF SlotsIn
      <4> QED BY <4>4, <4>5, <4>6
    <3>2. CASE s \notin fill
      BY <2>2, <3>2
    <3> QED BY <3>1, <3>2
  <2>4. ASSUME NEW b \in Fresh(call[p].size)
        PROVE  b \notin InQueue /\ \A q \in Producers : Asleep(q)' => call'[q].req.buffer # b
    BY <1>3, FreshFacts
  <2> QED BY <1>1, <1>3, <2>3, <2>4, StepKeepsOwners
<1> QED BY <1>4, <1>5

(* The consumer releases and detaches ACQUIRED slots, and attaches a       *)
(* buffer of its own.                                                      *)
LEMMA ConsumerKeepsOwners ==
  ASSUME TypeOK, OwnersInv,
         \/ attachAcquired
         \/ \E h \in acquired : releaseBuffer(h) \/ detachAcquired(h)
  PROVE  OwnersInv'
<1>1. UNCHANGED <<mQueue, mFrameCounter, mIsAbandoned, held>>
  BY DEF attachAcquired, releaseBuffer, detachAcquired, connectionVars, clientVars,
     producerVars
<1>2. CASE attachAcquired
  <2>1. PICK s \in Slots, b \in Buffers :
          /\ IsOldest(mSlots, s, SlotsIn(mSlots, {"FREE"}))
          /\ \E size \in Sizes : b \in Fresh(size)
          /\ mSlots' = [mSlots EXCEPT ![s] =
                       [@ EXCEPT !.mGraphicBuffer = b,
                                 !.mBufferState = "ACQUIRED",
                                 !.mAttachedByConsumer = TRUE,
                                 !.mNeedsCleanupOnRelease = FALSE,
                                 !.mFrameNumber = 0,
                                 !.mAcquireCalled = FALSE]]
    BY <1>2 DEF attachAcquired
  <2>2. mSlots[s].mBufferState = "FREE"
    BY <2>1 DEF IsOldest, SlotsIn
  <2>3. \A q \in Producers : Rests(q)
    BY <1>2 DEF attachAcquired, producerVars, Rests
  <2>4. b \notin InQueue /\ \A q \in Producers : Asleep(q)' => call'[q].req.buffer # b
    BY <2>1, <2>3, FreshFacts
  <2>5. /\ mSlots'[s].mBufferState = "ACQUIRED" /\ mSlots'[s].mGraphicBuffer = b
        /\ \A t \in Slots \ {s} : mSlots'[t] = mSlots[t]
    BY <2>1, TypeFacts DEF BufferSlot
  <2> QED BY <1>1, <2>2, <2>3, <2>4, <2>5, StepKeepsOwners
<1>3. ASSUME NEW h \in acquired, releaseBuffer(h)
      PROVE  OwnersInv'
  <2>1. h.slot \in Slots
    BY TypeFacts DEF Handle
  <2>2. \A q \in Producers : Rests(q)
    BY <1>3, CallRests DEF releaseBuffer, ReleaseSlot
  <2>3. \/ /\ mSlots[h.slot].mBufferState = "ACQUIRED"
           /\ mSlots' = [mSlots EXCEPT ![h.slot].mBufferState = "FREE"]
        \/ mSlots' = [mSlots EXCEPT ![h.slot].mNeedsCleanupOnRelease = FALSE]
        \/ mSlots' = mSlots
    BY <1>3 DEF releaseBuffer, ReleaseSlot, ReleaseAnswer
  <2>4. \A s \in Slots :
          /\ mSlots'[s].mGraphicBuffer = mSlots[s].mGraphicBuffer
          /\ mSlots'[s].mFrameNumber = mSlots[s].mFrameNumber
          /\ mSlots'[s].mRequestBufferCalled = mSlots[s].mRequestBufferCalled
          /\ \/ mSlots'[s].mBufferState = mSlots[s].mBufferState
             \/ mSlots[s].mBufferState = "ACQUIRED" /\ mSlots'[s].mBufferState = "FREE"
    BY <2>1, <2>3, TypeFacts DEF BufferSlot
  <2> QED BY <1>1, <2>2, <2>4, StepKeepsOwners
<1>4. ASSUME NEW h \in acquired, detachAcquired(h)
      PROVE  OwnersInv'
  <2>1. h.slot \in Slots /\ mSlots[h.slot].mBufferState = "ACQUIRED"
        /\ mSlots' = freeBufferLocked(mSlots, h.slot) /\ held' \subseteq held
    BY <1>1, <1>4, TypeFacts DEF detachAcquired, Handle
  <2>2. \A q \in Producers : Rests(q)
    BY <1>4, CallRests DEF detachAcquired
  <2>3. PICK s \in Slots : s = h.slot  BY <2>1
  <2> QED BY <1>1, <2>1, <2>2, <2>3, FreeKeepsOwners
<1> QED BY <1>2, <1>3, <1>4
-----------------------------------------------------------------------------
(* The steps that change the queue.                                        *)

(* queueBuffer: the slot becomes QUEUED with the next frame, its item goes *)
(* to the end, or takes the place of the front item, whose slot is FREE    *)
(* then if it was still tracked.                                           *)
FrontFreed(t) == ReplacesFront /\ Tracked(1) /\ mQueue[1].mSlot = t

(* queueBuffer gives up s for an item, and frees the slot of the item it   *)
(* replaces.                                                               *)
Puts(s, item) ==
  /\ mSlots[s].mBufferState = "DEQUEUED" /\ mSlots[s].mRequestBufferCalled
  /\ held' = held \ {s}
  /\ item.mSlot = s /\ item.mGraphicBuffer = mSlots[s].mGraphicBuffer
  /\ item.mFrameNumber = mFrameCounter + 1
  /\ item.mAcquireCalled = mSlots[s].mAcquireCalled
  /\ mQueue' = IF ReplacesFront THEN [mQueue EXCEPT ![1] = item]
               ELSE Append(mQueue, item)
  /\ ReplacesFront => 1 \in Indices
  /\ \A t \in Slots :
       /\ mSlots'[t].mGraphicBuffer = mSlots[t].mGraphicBuffer
       /\ mSlots'[t].mAcquireCalled = mSlots[t].mAcquireCalled
       /\ FrontFreed(t) => mSlots'[t].mBufferState = "FREE"
       /\ ~FrontFreed(t) /\ t = s => /\ mSlots'[t].mBufferState = "QUEUED"
                                     /\ mSlots'[t].mFrameNumber = mFrameCounter + 1
       /\ ~FrontFreed(t) /\ t # s => mSlots'[t] = mSlots[t]

(* Every queueBuffer is such a step.                                       *)
LEMMA QueueFactsOf ==
  ASSUME TypeOK, NEW p \in Producers, queueBuffer(p)
  PROVE  /\ UNCHANGED <<acquired, mIsAbandoned, mirror>> /\ ~mIsAbandoned
         /\ mFrameCounter' = mFrameCounter + 1
         /\ \A q \in Producers : Rests(q)
         /\ \E s \in held : \E item : Puts(s, item)
<1>1. PICK s \in Slots, async \in AsyncModes, time \in Timestamps, auto \in AutoTimestamps :
        /\ CanGiveBack(p, s)
        /\ mSlots[s].mRequestBufferCalled
        /\ mFrameCounter' = mFrameCounter + 1
        /\ Enqueue([mSlots EXCEPT ![s] = [@ EXCEPT !.mBufferState = "QUEUED",
                                                   !.mFrameNumber = mFrameCounter + 1]],
                   QueuedItem(s, async, time, auto))
        /\ call' = [Broadcast(call) EXCEPT ![p] =
                      [op |-> "callback", ticket |-> mNextCallbackTicket,
                       frame |-> mFrameCounter + 1, event |-> CallbackEvent]]
        /\ held' = held \ {s}
        /\ UNCHANGED <<acquired, mIsAbandoned, mirror>>
  BY DEF queueBuffer, connectionVars
<1>2. s \in held /\ ~mIsAbandoned /\ mSlots[s].mBufferState = "DEQUEUED"
  BY <1>1 DEF CanGiveBack
<1>3. \A q \in Producers : Rests(q)
  <2>1. PICK c : c = [op |-> "callback", ticket |-> mNextCallbackTicket,
                      frame |-> mFrameCounter + 1, event |-> CallbackEvent]
    OBVIOUS
  <2>2. c.op \in EndOps
    BY <2>1 DEF EndOps
  <2> QED BY <1>1, <2>1, <2>2, EndRests
<1>4. PICK item : item = QueuedItem(s, async, time, auto)
  OBVIOUS
<1>5. /\ item.mSlot = s /\ item.mGraphicBuffer = mSlots[s].mGraphicBuffer
      /\ item.mFrameNumber = mFrameCounter + 1
      /\ item.mAcquireCalled = mSlots[s].mAcquireCalled
  BY <1>4 DEF QueuedItem
<1>6. PICK slots : slots = [mSlots EXCEPT ![s] = [@ EXCEPT !.mBufferState = "QUEUED",
                                                  !.mFrameNumber = mFrameCounter + 1]]
  OBVIOUS
<1>7. /\ DOMAIN slots = Slots /\ DOMAIN slots[s] = DOMAIN mSlots[s]
      /\ slots[s].mBufferState = "QUEUED" /\ slots[s].mFrameNumber = mFrameCounter + 1
      /\ slots[s].mGraphicBuffer = mSlots[s].mGraphicBuffer
      /\ slots[s].mAcquireCalled = mSlots[s].mAcquireCalled
      /\ \A t \in Slots \ {s} : slots[t] = mSlots[t]
  BY <1>6, TypeFacts DEF BufferSlot
<1>8. Enqueue(slots, item)
  BY <1>1, <1>4, <1>6
<1>9. CASE ~ReplacesFront
  <2>1. mQueue' = Append(mQueue, item) /\ mSlots' = slots
    BY <1>8, <1>9 DEF Enqueue
  <2>2. Puts(s, item)
    BY <1>1, <1>2, <1>5, <1>7, <1>9, <2>1 DEF Puts, FrontFreed
  <2> QED BY <1>1, <1>2, <1>3, <2>2
<1>10. CASE ReplacesFront
  <2>1. 1 \in Indices /\ mQueue[1].mSlot \in Slots
    BY <1>10, TypeFacts DEF ReplacesFront, Indices
  <2>2. PICK t \in Slots : t = mQueue[1].mSlot
    BY <2>1
  <2>3. stillTracking(slots, mQueue[1]) <=> Tracked(1)
    BY <1>7, <2>2 DEF stillTracking, Tracked
  <2>4. /\ mQueue' = [mQueue EXCEPT ![1] = item]
        /\ mSlots' = IF Tracked(1)
                     THEN [slots EXCEPT ![t] = [@ EXCEPT !.mBufferState = "FREE",
                                                         !.mFrameNumber = 0]]
                     ELSE slots
    BY <1>8, <1>10, <2>2, <2>3 DEF Enqueue
  <2>5. {"mBufferState", "mAcquireCalled"} \subseteq DOMAIN slots[t]
    BY <1>7, TypeFacts DEF BufferSlot
  <2>6. CASE ~Tracked(1)
    <3>1. mSlots' = slots
      BY <2>4, <2>6
    <3>2. Puts(s, item)
      BY <1>1, <1>2, <1>5, <1>7, <1>10, <2>1, <2>4, <2>6, <3>1 DEF Puts, FrontFreed
    <3> QED BY <1>1, <1>2, <1>3, <3>2
  <2>7. CASE Tracked(1)
    <3>1. PICK slot : slot = [slots[t] EXCEPT !.mBufferState = "FREE", !.mFrameNumber = 0]
      OBVIOUS
    <3>2. /\ slot.mBufferState = "FREE" /\ slot.mGraphicBuffer = slots[t].mGraphicBuffer
          /\ slot.mAcquireCalled = slots[t].mAcquireCalled
      BY <2>5, <3>1
    <3>3. mSlots' = [slots EXCEPT ![t] = slot]
      BY <2>4, <2>7, <3>1
    <3>4. mSlots'[t] = slot /\ \A u \in Slots \ {t} : mSlots'[u] = slots[u]
      BY <1>7, <3>3
    <3>5. \A u \in Slots : FrontFreed(u) <=> u = t
      BY <1>10, <2>2, <2>7 DEF FrontFreed
    <3>6. Puts(s, item)
      BY <1>1, <1>2, <1>5, <1>7, <1>10, <2>1, <2>4, <3>2, <3>4, <3>5 DEF Puts
    <3> QED BY <1>1, <1>2, <1>3, <3>6
  <2> QED BY <2>6, <2>7
<1> QED BY <1>9, <1>10

(* queueBuffer: the new item owns the slot the client gave up.             *)
LEMMA QueueKeepsOwners ==
  ASSUME TypeOK, OwnersInv, NEW p \in Producers, queueBuffer(p)
  PROVE  OwnersInv'
<1>1. /\ UNCHANGED mIsAbandoned /\ ~mIsAbandoned
      /\ mFrameCounter' = mFrameCounter + 1 /\ mFrameCounter \in Nat
      /\ \A q \in Producers : Rests(q)
      /\ mQueue \in Seq(BufferItem)
  BY QueueFactsOf, TypeFacts
<1>0. PICK s \in held : \E item : Puts(s, item)
  BY QueueFactsOf
<1>2. PICK item : s \in held /\ Puts(s, item)
  BY <1>0
<1>3. s \in Slots /\ item.mGraphicBuffer # NoBuffer
      /\ \A q \in Producers : InHand(q)' => call'[q].slot # s
  <2>1. s \in Slots /\ item.mGraphicBuffer # NoBuffer
    BY <1>2, TypeFacts DEF Puts, OwnersInv, RequestedSlotsHaveBuffers, SlotsIn
  <2>2. \A q \in Producers : InHand(q) => call[q].slot # s
    BY <1>1 DEF OwnersInv, ThreadsOwn, ThreadOwns
  <2> QED BY <1>1, <2>1, <2>2, RestFacts
<1>4. \A i \in Indices : /\ mQueue[i].mSlot \in Slots /\ mQueue[i].mGraphicBuffer # NoBuffer
                         /\ mQueue[i].mFrameNumber \in Nat
                         /\ mQueue[i].mFrameNumber <= mFrameCounter
                         /\ \A j \in Indices \ {i} :
                              mQueue[j].mFrameNumber # mQueue[i].mFrameNumber
  BY TypeFacts DEF OwnersInv, ItemsDiffer, BufferItem
<1>5. \A i \in Indices : Tracked(i) =>
        /\ mSlots[mQueue[i].mSlot].mBufferState = "QUEUED"
        /\ mSlots[mQueue[i].mSlot].mFrameNumber = mQueue[i].mFrameNumber
  BY DEF OwnersInv, TrackedItemsAreQueued, Indices
(* The slot of the front item is not the one that is queued.               *)
<1>6. /\ mSlots'[s].mBufferState = "QUEUED" /\ mSlots'[s].mFrameNumber = mFrameCounter + 1
      /\ \A t \in Slots \ {s} :
           \/ mSlots'[t] = mSlots[t]
           \/ /\ mSlots'[t].mBufferState = "FREE" /\ mSlots[t].mBufferState = "QUEUED"
              /\ FrontFreed(t) /\ 1 \in Indices
      /\ \A t \in Slots : mSlots'[t].mGraphicBuffer = mSlots[t].mGraphicBuffer
  <2>1. \A t \in Slots : FrontFreed(t) => 1 \in Indices /\ mSlots[t].mBufferState = "QUEUED"
    BY <1>2, <1>5 DEF Puts, FrontFreed
  <2> QED BY <1>2, <1>3, <2>1 DEF Puts
(* Every item of the new queue is the new one or one of the old.           *)
<1>7. /\ item.mSlot = s /\ item.mGraphicBuffer = mSlots[s].mGraphicBuffer
       /\ item.mFrameNumber = mFrameCounter + 1 /\ held' = held \ {s}
       /\ mSlots[s].mBufferState = "DEQUEUED"
  BY <1>2 DEF Puts
<1>8. \/ mQueue' = Append(mQueue, item) /\ ~ReplacesFront
      \/ mQueue' = [mQueue EXCEPT ![1] = item] /\ ReplacesFront /\ 1 \in Indices
  <2>1. mQueue' = IF ReplacesFront THEN [mQueue EXCEPT ![1] = item]
                  ELSE Append(mQueue, item)
    BY <1>2 DEF Puts
  <2>2. CASE ReplacesFront
    BY <1>2, <2>2 DEF Puts
  <2>3. CASE ~ReplacesFront
    BY <2>1, <2>3
  <2> QED BY <2>2, <2>3
<1>9. \A i \in Indices' :
        \/ mQueue'[i] = item
        \/ i \in Indices /\ mQueue'[i] = mQueue[i] /\ (ReplacesFront => i # 1)
  BY <1>1, <1>8 DEF Indices
<1>10. \A i, j \in Indices' : mQueue'[i] = item /\ mQueue'[j] = item => i = j
  <2>1. \A i \in Indices : mQueue[i] # item
    BY <1>1, <1>7, <1>4
  <2>2. CASE mQueue' = Append(mQueue, item)
    <3>1. \A i \in Indices' : mQueue'[i] = item => i = Len(mQueue) + 1
      BY <1>1, <2>1, <2>2 DEF Indices
    <3> QED BY <3>1
  <2>3. CASE mQueue' = [mQueue EXCEPT ![1] = item]
    <3>1. \A i \in Indices' : mQueue'[i] = item => i = 1
      BY <1>1, <2>1, <2>3 DEF Indices
    <3> QED BY <3>1
  <2> QED BY <1>8, <2>2, <2>3
<1>11. ItemsDiffer'
  <2>1. ASSUME NEW i \in Indices'
        PROVE  /\ mQueue'[i].mGraphicBuffer # NoBuffer
               /\ mQueue'[i].mFrameNumber <= mFrameCounter'
    BY <1>1, <1>7, <1>3, <1>4, <1>9
  <2>2. ASSUME NEW i \in Indices', NEW j \in Indices' \ {i}
        PROVE  mQueue'[j].mFrameNumber # mQueue'[i].mFrameNumber
    <3>1. CASE mQueue'[i] = item
      BY <1>1, <1>7, <1>4, <1>9, <1>10, <3>1
    <3>2. CASE mQueue'[j] = item
      BY <1>1, <1>7, <1>4, <1>9, <1>10, <3>2
    <3>3. CASE mQueue'[i] # item /\ mQueue'[j] # item
      BY <1>4, <1>9, <3>3
    <3> QED BY <3>1, <3>2, <3>3
  <2> QED BY <2>1, <2>2 DEF ItemsDiffer
<1>12. TrackedItemsAreQueued'
  <2>1. ASSUME NEW i \in Indices', Tracked(i)'
        PROVE  /\ mSlots'[mQueue'[i].mSlot].mBufferState = "QUEUED"
               /\ mSlots'[mQueue'[i].mSlot].mFrameNumber = mQueue'[i].mFrameNumber
    <3>1. CASE mQueue'[i] = item
      BY <1>7, <1>6, <3>1
    <3>2. CASE mQueue'[i] # item
      <4>1. i \in Indices /\ mQueue'[i] = mQueue[i] /\ (ReplacesFront => i # 1)
        BY <1>9, <3>2
      <4>2. PICK t \in Slots : t = mQueue[i].mSlot
        BY <1>4, <4>1
      <4>3. Tracked(i)
        BY <1>6, <2>1, <4>1, <4>2 DEF Tracked, stillTracking
      <4>4. mSlots[t].mBufferState = "QUEUED" /\ mSlots[t].mFrameNumber = mQueue[i].mFrameNumber
        BY <1>5, <4>1, <4>2, <4>3
      <4>5. t # s
        BY <1>7, <4>4
      <4>6. ~(ReplacesFront /\ Tracked(1) /\ mQueue[1].mSlot = t /\ 1 \in Indices)
        BY <1>4, <1>5, <4>1, <4>4
      <4>7. mSlots'[t] = mSlots[t]
        BY <1>6, <4>5, <4>6 DEF FrontFreed
      <4> QED BY <4>1, <4>2, <4>4, <4>7
    <3> QED BY <3>1, <3>2
  <2> QED BY <2>1 DEF TrackedItemsAreQueued, Indices
<1>13. ThreadsOwn' /\ HeldAreDequeued' /\ RequestedSlotsHaveBuffers'
  <2>1. InQueue' \subseteq InQueue \cup InSlots
    <3>1. \A i \in Indices' : mQueue'[i].mGraphicBuffer \in InQueue \cup InSlots
      BY <1>7, <1>3, <1>9 DEF InQueue, InSlots, Indices
    <3> QED BY <3>1 DEF InQueue, Indices
  <2>2. /\ ThreadsOwn /\ HeldAreDequeued /\ RequestedSlotsHaveBuffers
        /\ held \subseteq Slots /\ \A q \in Producers : InHand(q) => call[q].slot \in Slots
    BY TypeFacts DEF OwnersInv
  <2>3. \A t \in Slots : mSlots[t].mBufferState = "DEQUEUED" =>
           \/ /\ mSlots'[t].mBufferState = "DEQUEUED"
              /\ mSlots'[t].mGraphicBuffer = mSlots[t].mGraphicBuffer
           \/ /\ t \notin held'
              /\ \A q \in Producers : Rests(q) /\ InHand(q)' => call'[q].slot # t
    BY <1>7, <1>3, <1>6
  <2>4. \A t \in Slots : mSlots'[t].mBufferState = "DEQUEUED" => mSlots'[t] = mSlots[t]
    BY <1>6
  <2>5. \A t \in Slots : mSlots'[t].mGraphicBuffer \in InSlots \cup {NoBuffer}
    BY <1>6 DEF InSlots
  <2>6. \A t \in held' \ held : FALSE
    BY <1>7
  <2> QED BY <1>1, <2>1, <2>2, <2>3, <2>4, <2>5, <2>6, OwnersKept
<1> QED BY <1>11, <1>12, <1>13 DEF OwnersInv

(* acquireBuffer: n items are dropped from the front, and leave the slots  *)
(* they still track FREE; the next one is taken, and its slot is ACQUIRED. *)
TakenFrom(n, t) == Tracked(n + 1) /\ mQueue[n + 1].mSlot = t

(* Slots of the items that are dropped in front of the one acquired.       *)
DroppedFrom(n, t) == \E i \in 1 .. n : Tracked(i) /\ mQueue[i].mSlot = t

(* acquireBuffer drops n items and takes the next.                         *)
Acquires(n) ==
  /\ mQueue' = SubSeq(mQueue, n + 2, Len(mQueue))
  /\ acquired' = acquired \cup {[slot |-> mQueue[n + 1].mSlot,
                                 frame |-> mQueue[n + 1].mFrameNumber,
                                 buffer |-> mQueue[n + 1].mGraphicBuffer]}
  /\ lastAcquired' = mQueue[n + 1].mFrameNumber
  /\ \A t \in Slots :
       /\ mSlots'[t].mAcquireCalled = (TakenFrom(n, t) \/ mSlots[t].mAcquireCalled)
       /\ mSlots'[t].mGraphicBuffer = mSlots[t].mGraphicBuffer
       /\ mSlots'[t].mFrameNumber = mSlots[t].mFrameNumber
       /\ mSlots'[t].mRequestBufferCalled = mSlots[t].mRequestBufferCalled
       /\ TakenFrom(n, t) => mSlots'[t].mBufferState = "ACQUIRED"
       /\ ~TakenFrom(n, t) /\ DroppedFrom(n, t) => mSlots'[t].mBufferState = "FREE"
       /\ ~TakenFrom(n, t) /\ ~DroppedFrom(n, t) => mSlots'[t] = mSlots[t]

(* Every acquireBuffer is such a step.                                     *)
LEMMA AcquireFacts ==
  ASSUME TypeOK, acquireBuffer
  PROVE  /\ UNCHANGED <<mFrameCounter, mIsAbandoned, held, mirror>>
         /\ \A q \in Producers : Rests(q)
         /\ \E n \in 0 .. Len(mQueue) - 1 : Acquires(n)
<1>1. UNCHANGED <<mFrameCounter, mIsAbandoned, held, mirror>>
      /\ \A q \in Producers : Rests(q)
  BY CallRests DEF acquireBuffer, connectionVars, clientVars
<1>2. PICK n \in 0 .. Len(mQueue) - 1 :
        /\ mSlots' = IF stillTracking(SlotsAfterDrop(n), mQueue[n + 1])
                     THEN [SlotsAfterDrop(n) EXCEPT ![mQueue[n + 1].mSlot] =
                             [@ EXCEPT !.mAcquireCalled = TRUE,
                                       !.mNeedsCleanupOnRelease = FALSE,
                                       !.mBufferState = "ACQUIRED"]]
                     ELSE SlotsAfterDrop(n)
        /\ mQueue' = SubSeq(mQueue, n + 2, Len(mQueue))
        /\ acquired' = acquired \cup {[slot |-> mQueue[n + 1].mSlot,
                                       frame |-> mQueue[n + 1].mFrameNumber,
                                       buffer |-> mQueue[n + 1].mGraphicBuffer]}
        /\ lastAcquired' = mQueue[n + 1].mFrameNumber
  BY DEF acquireBuffer
<1>3. n + 1 \in Indices /\ n \in Nat /\ mQueue[n + 1].mSlot \in Slots
  BY TypeFacts DEF Indices
<1>4. PICK slots : slots = SlotsAfterDrop(n)
  OBVIOUS
<1>5. ASSUME NEW t \in Slots
      PROVE  /\ slots[t].mGraphicBuffer = mSlots[t].mGraphicBuffer
             /\ slots[t].mFrameNumber = mSlots[t].mFrameNumber
             /\ slots[t].mRequestBufferCalled = mSlots[t].mRequestBufferCalled
             /\ slots[t].mAcquireCalled = mSlots[t].mAcquireCalled
             /\ mSlots[t].mAcquireCalled \in BOOLEAN
             /\ DOMAIN slots[t] = DOMAIN mSlots[t]
             /\ DroppedFrom(n, t) => slots[t].mBufferState = "FREE"
             /\ ~DroppedFrom(n, t) => slots[t] = mSlots[t]
  <2>1. slots[t] = IF DroppedFrom(n, t)
                   THEN [mSlots[t] EXCEPT !.mBufferState = "FREE"] ELSE mSlots[t]
    BY <1>4 DEF SlotsAfterDrop, DroppedFrom, Tracked
  <2> QED BY <2>1, TypeFacts DEF BufferSlot
<1>6. PICK s \in Slots : s = mQueue[n + 1].mSlot
  BY <1>3
<1>7. stillTracking(slots, mQueue[n + 1]) <=> Tracked(n + 1)
  BY <1>5, <1>6 DEF stillTracking, Tracked
<1>8. \A t \in Slots : TakenFrom(n, t) <=> Tracked(n + 1) /\ t = s
  BY <1>6 DEF TakenFrom
<1>9. CASE Tracked(n + 1)
  <2>1. PICK slot : slot = [slots[s] EXCEPT !.mAcquireCalled = TRUE,
                                            !.mNeedsCleanupOnRelease = FALSE,
                                            !.mBufferState = "ACQUIRED"]
    OBVIOUS
  <2>2. mSlots' = [slots EXCEPT ![s] = slot]
    BY <1>2, <1>4, <1>6, <1>7, <1>9, <2>1
  <2>3. DOMAIN slots = Slots
    BY <1>4 DEF SlotsAfterDrop
  <2>4. mSlots'[s] = slot /\ \A t \in Slots \ {s} : mSlots'[t] = slots[t]
    BY <2>2, <2>3
  <2>5. "mBufferState" \in DOMAIN slots[s]
    BY <1>5, TypeFacts DEF BufferSlot
  <2>6. /\ slot.mBufferState = "ACQUIRED" /\ slot.mGraphicBuffer = slots[s].mGraphicBuffer
        /\ slot.mFrameNumber = slots[s].mFrameNumber
        /\ slot.mRequestBufferCalled = slots[s].mRequestBufferCalled
        /\ slot.mAcquireCalled = TRUE
    BY <1>5, <2>1, <2>5, TypeFacts DEF BufferSlot
  <2>7. ASSUME NEW t \in Slots
        PROVE  /\ mSlots'[t].mAcquireCalled = (TakenFrom(n, t) \/ mSlots[t].mAcquireCalled)
               /\ mSlots'[t].mGraphicBuffer = mSlots[t].mGraphicBuffer
               /\ mSlots'[t].mFrameNumber = mSlots[t].mFrameNumber
               /\ mSlots'[t].mRequestBufferCalled = mSlots[t].mRequestBufferCalled
               /\ TakenFrom(n, t) => mSlots'[t].mBufferState = "ACQUIRED"
               /\ ~TakenFrom(n, t) /\ DroppedFrom(n, t) => mSlots'[t].mBufferState = "FREE"
               /\ ~TakenFrom(n, t) /\ ~DroppedFrom(n, t) => mSlots'[t] = mSlots[t]
    <3>1. CASE t = s
      BY <1>5, <1>8, <1>9, <2>4, <2>6, <3>1
    <3>2. CASE t # s
      <4>1. mSlots'[t] = slots[t] /\ ~TakenFrom(n, t)
        BY <1>8, <2>4, <3>2
      <4> QED BY <1>5, <4>1
    <3> QED BY <3>1, <3>2
  <2>8. Acquires(n)
    BY <1>2, <2>7 DEF Acquires
  <2> QED BY <1>1, <2>8
<1>10. CASE ~Tracked(n + 1)
  <2>1. mSlots' = slots
    BY <1>2, <1>4, <1>7, <1>10
  <2>2. Acquires(n)
    BY <1>2, <1>5, <1>8, <1>10, <2>1 DEF Acquires
  <2> QED BY <1>1, <2>2
<1> QED BY <1>9, <1>10

(* acquireBuffer: an item that was tracked leaves with its slot, the       *)
(* others keep theirs.                                                     *)
LEMMA AcquireKeepsOwners ==
  ASSUME TypeOK, OwnersInv, acquireBuffer
  PROVE  OwnersInv'
<1>1. /\ UNCHANGED <<mFrameCounter, mIsAbandoned, held>> /\ \A q \in Producers : Rests(q)
      /\ mQueue \in Seq(BufferItem) /\ held \subseteq Slots
      /\ \A q \in Producers : InHand(q) => call[q].slot \in Slots
  BY AcquireFacts, TypeFacts
<1>2. PICK n \in 0 .. Len(mQueue) - 1 : Acquires(n)
  BY AcquireFacts
<1>3. /\ n + 1 \in Indices /\ 1 .. n \subseteq Indices
      /\ \A i \in Indices' : n + 1 + i \in Indices /\ mQueue'[i] = mQueue[n + 1 + i]
      /\ \A i, j \in Indices' : i # j => n + 1 + i # n + 1 + j
  BY <1>1, <1>2 DEF Acquires, Indices
<1>4. \A i \in Indices : /\ mQueue[i].mSlot \in Slots /\ mQueue[i].mGraphicBuffer # NoBuffer
                         /\ mQueue[i].mFrameNumber <= mFrameCounter
                         /\ \A j \in Indices \ {i} :
                              mQueue[j].mFrameNumber # mQueue[i].mFrameNumber
  BY TypeFacts DEF OwnersInv, ItemsDiffer
<1>5. \A i \in Indices : Tracked(i) =>
        /\ mSlots[mQueue[i].mSlot].mBufferState = "QUEUED"
        /\ mSlots[mQueue[i].mSlot].mFrameNumber = mQueue[i].mFrameNumber
  BY DEF OwnersInv, TrackedItemsAreQueued, Indices
(* Only slots of items that are gone have changed.                         *)
<1>6. ASSUME NEW t \in Slots, ~(\E k \in 1 .. n + 1 : Tracked(k) /\ mQueue[k].mSlot = t)
      PROVE  mSlots'[t] = mSlots[t]
  <2>1. ~TakenFrom(n, t) /\ ~DroppedFrom(n, t)
    BY <1>6 DEF TakenFrom, DroppedFrom
  <2> QED BY <1>2, <2>1 DEF Acquires
<1>7. \A t \in Slots : /\ mSlots'[t].mGraphicBuffer = mSlots[t].mGraphicBuffer
                       /\ mSlots'[t].mRequestBufferCalled = mSlots[t].mRequestBufferCalled
                       /\ \/ mSlots'[t] = mSlots[t]
                          \/ /\ mSlots[t].mBufferState = "QUEUED"
                             /\ mSlots'[t].mBufferState \in {"ACQUIRED", "FREE"}
  <2> SUFFICES ASSUME NEW t \in Slots
               PROVE  \/ mSlots'[t] = mSlots[t]
                      \/ /\ mSlots[t].mBufferState = "QUEUED"
                         /\ mSlots'[t].mBufferState \in {"ACQUIRED", "FREE"}
    BY <1>2 DEF Acquires
  <2>1. CASE TakenFrom(n, t)
    BY <1>2, <1>3, <1>5, <2>1 DEF Acquires, TakenFrom
  <2>2. CASE ~TakenFrom(n, t) /\ DroppedFrom(n, t)
    BY <1>2, <1>3, <1>5, <2>2 DEF Acquires, DroppedFrom
  <2>3. CASE ~TakenFrom(n, t) /\ ~DroppedFrom(n, t)
    BY <1>2, <2>3 DEF Acquires
  <2> QED BY <2>1, <2>2, <2>3
<1>8. ItemsDiffer'
  BY <1>1, <1>3, <1>4 DEF ItemsDiffer
<1>9. TrackedItemsAreQueued'
  <2>1. ASSUME NEW i \in Indices', Tracked(i)'
        PROVE  /\ mSlots'[mQueue'[i].mSlot].mBufferState = "QUEUED"
               /\ mSlots'[mQueue'[i].mSlot].mFrameNumber = mQueue'[i].mFrameNumber
    <3>1. PICK j \in Indices : j = n + 1 + i /\ mQueue'[i] = mQueue[j]
      BY <1>3
    <3>2. PICK t \in Slots : t = mQueue[j].mSlot
      BY <1>4
    <3>3. Tracked(j)
      BY <1>7, <2>1, <3>1, <3>2 DEF Tracked, stillTracking
    <3>4. mSlots[t].mFrameNumber = mQueue[j].mFrameNumber /\ mSlots[t].mBufferState = "QUEUED"
      BY <1>5, <3>2, <3>3
    <3>5. ASSUME NEW k \in 1 .. n + 1, Tracked(k), mQueue[k].mSlot = t PROVE FALSE
      <4>1. k \in Indices /\ k # j
        BY <1>3, <3>1 DEF Indices
      <4>2. mSlots[t].mFrameNumber = mQueue[k].mFrameNumber
        BY <1>5, <3>5, <4>1
      <4> QED BY <1>4, <3>4, <4>1, <4>2
    <3>6. mSlots'[t] = mSlots[t]
      BY <1>6, <3>5
    <3> QED BY <3>1, <3>2, <3>4, <3>6
  <2> QED BY <2>1 DEF TrackedItemsAreQueued, Indices
<1>10. ThreadsOwn' /\ HeldAreDequeued' /\ RequestedSlotsHaveBuffers'
  <2>1. InQueue' \subseteq InQueue \cup InSlots
    <3>1. \A i \in Indices' : mQueue'[i].mGraphicBuffer \in InQueue
      BY <1>3 DEF InQueue, Indices
    <3> QED BY <3>1 DEF InQueue, Indices
  <2>2. ThreadsOwn /\ HeldAreDequeued /\ RequestedSlotsHaveBuffers
    BY DEF OwnersInv
  <2>3. \A t \in Slots : mSlots'[t].mGraphicBuffer \in InSlots \cup {NoBuffer}
    BY <1>7 DEF InSlots
  <2>4. \A t \in Slots : mSlots[t].mBufferState = "DEQUEUED" => mSlots'[t] = mSlots[t]
    BY <1>7
  <2>5. \A t \in Slots : mSlots'[t].mBufferState = "DEQUEUED" => mSlots'[t] = mSlots[t]
    BY <1>7
  <2>6. \A t \in held' \ held : FALSE
    BY <1>1
  <2> QED BY <1>1, <2>1, <2>2, <2>3, <2>4, <2>5, <2>6, OwnersKept
<1> QED BY <1>8, <1>9, <1>10 DEF OwnersInv

(* The consumer leaves: there is nothing to own any more.                  *)
LEMMA LeaveKeepsOwners ==
  ASSUME TypeOK, OwnersInv, consumerDisconnect
  PROVE  OwnersInv'
<1>1. /\ UNCHANGED <<mFrameCounter, held>> /\ mIsAbandoned' /\ mQueue' = << >>
      /\ freeAllBuffersLocked
      /\ \A q \in Producers : Rests(q)
  BY CallRests DEF consumerDisconnect, clientVars
<1>2. \A s \in Slots : /\ mSlots'[s].mBufferState = "FREE"
                       /\ mSlots'[s].mGraphicBuffer = NoBuffer
  BY <1>1, FreeAllFacts
<1>3. Indices' = {} /\ InQueue' = {}
  BY <1>1 DEF Indices, InQueue
<1>4. ItemsDiffer' /\ TrackedItemsAreQueued'
  BY <1>3 DEF ItemsDiffer, TrackedItemsAreQueued, Indices
<1>5. ThreadsOwn' /\ HeldAreDequeued' /\ RequestedSlotsHaveBuffers'
  <2>1. /\ ThreadsOwn /\ HeldAreDequeued /\ RequestedSlotsHaveBuffers
        /\ held \subseteq Slots /\ \A q \in Producers : InHand(q) => call[q].slot \in Slots
    BY TypeFacts DEF OwnersInv
  <2> QED BY <1>1, <1>2, <1>3, <2>1, OwnersKept
<1> QED BY <1>4, <1>5 DEF OwnersInv

(* The other steps concern nobody's slot.                                  *)
LEMMA OthersKeepOwners ==
  ASSUME TypeOK, OwnersInv,
         \/ \E p \in Producers :
              \/ dequeueBufferAllocationFailed(p) \/ queueBufferCallback(p) \/ connect(p)
              \/ allocateBuffers(p) \/ allocateBuffersFailed(p)
              \/ buffersReleasedCallback(p)
         \/ consumerConnect \/ setDefaultMaxBufferCount \/ setMaxAcquiredBufferCount
         \/ disableAsyncBuffer \/ setDefaultBufferSize
         \/ UNCHANGED vars
  PROVE  OwnersInv'
<1>1. ASSUME NEW p \in Producers,
             \/ dequeueBufferAllocationFailed(p) \/ queueBufferCallback(p)
             \/ allocateBuffersFailed(p) \/ buffersReleasedCallback(p)
      PROVE  OwnersInv'
  <2>1. UNCHANGED <<mQueue, mFrameCounter, mSlots, mIsAbandoned, held>> /\ Return(p)
    BY <1>1 DEF dequeueBufferAllocationFailed, queueBufferCallback, allocateBuffersFailed,
       buffersReleasedCallback, coreVars, connectionVars
  <2> QED BY <2>1, CallRests, QuietKeepsOwners
<1>2. ASSUME NEW p \in Producers, connect(p)
      PROVE  OwnersInv'
  <2>1. UNCHANGED <<mQueue, mFrameCounter, mSlots, mIsAbandoned, held, call>>
    BY <1>2 DEF connect, producerVars
  <2> QED BY <2>1, CallRests, QuietKeepsOwners
<1>3. ASSUME NEW p \in Producers, allocateBuffers(p)
      PROVE  OwnersInv'
  <2>1. PICK async : AllocateBuffersTurn(p, async)
    BY <1>3 DEF allocateBuffers
  <2>2. UNCHANGED <<mQueue, mFrameCounter, mSlots, mIsAbandoned, held>>
    BY <2>1 DEF AllocateBuffersTurn, connectionVars
  <2>3. PICK c : c = [op |-> "preallocating", async |-> async,
                      slots |-> Lowest(Missing(async), FreeBareSlots),
                      size |-> mDefaultSize]
    OBVIOUS
  <2>4. c.op \in EndOps
    BY <2>3 DEF EndOps
  <2>5. Return(p) \/ call' = [call EXCEPT ![p] = c]
    BY <2>1, <2>3 DEF AllocateBuffersTurn
  <2>6. \A q \in Producers : Rests(q)
    BY <2>4, <2>5, CallRests, EndRests
  <2> QED BY <2>2, <2>6, QuietKeepsOwners
<1>4. CASE \/ consumerConnect \/ setDefaultMaxBufferCount \/ setMaxAcquiredBufferCount
           \/ disableAsyncBuffer \/ setDefaultBufferSize
  <2>1. /\ UNCHANGED <<mQueue, mFrameCounter, mSlots, mIsAbandoned, held>>
        /\ UNCHANGED call \/ WakeProducers
    BY <1>4 DEF consumerConnect, setDefaultMaxBufferCount, setMaxAcquiredBufferCount,
       disableAsyncBuffer, setDefaultBufferSize, connectionVars, producerVars, clientVars
  <2> QED BY <2>1, CallRests, QuietKeepsOwners
<1>5. CASE UNCHANGED vars
  <2>1. UNCHANGED <<mQueue, mFrameCounter, mSlots, mIsAbandoned, held, call>>
    BY <1>5 DEF vars, coreVars, connectionVars, producerVars
  <2> QED BY <2>1, CallRests, QuietKeepsOwners
<1> QED BY <1>1, <1>2, <1>3, <1>4, <1>5
-----------------------------------------------------------------------------
(* In the beginning nobody owns anything.                                  *)
LEMMA InitOwners == Init => OwnersInv
<1> SUFFICES ASSUME Init PROVE OwnersInv
  OBVIOUS
<1>1. /\ \A s \in Slots : mSlots[s] = EmptySlot
      /\ mQueue = << >> /\ held = {} /\ \A p \in Producers : call[p] = Idle
  BY DEF Init, CoreInit, ProducerInit
<1>2. ThreadsOwn
  BY <1>1 DEF ThreadsOwn, ThreadOwns, WaitsApart, InHand, Asleep, Idle
<1>3. HeldAreDequeued /\ RequestedSlotsHaveBuffers
  BY <1>1 DEF HeldAreDequeued, RequestedSlotsHaveBuffers, SlotsIn, EmptySlot
<1>4. Indices = {}
  BY <1>1 DEF Indices
<1>5. ItemsDiffer /\ TrackedItemsAreQueued
  BY <1>4 DEF ItemsDiffer, TrackedItemsAreQueued, Indices
<1> QED BY <1>2, <1>3, <1>5 DEF OwnersInv

(* The producer takes nothing from another owner.                          *)
LEMMA ProducerKeepsOwners ==
  ASSUME ~ConcurrentDisconnect, ~ReattachQueued, TypeOK, OwnersInv,
         NEW p \in Producers, ProducerStep(p)
  PROVE  OwnersInv'
<1>1. CASE Retry(p) \/ dequeueBuffer(p) \/ attachBuffer(p)
  BY <1>1, AskingKeepsOwners
<1>2. CASE dequeueBufferAllocated(p)
  BY <1>2, AllocatedKeepsOwners
<1>3. CASE requestBuffer(p)
  BY <1>3, RequestKeepsOwners
<1>4. CASE cancelRefused(p)
  <2>1. mIsAbandoned
    BY <1>4 DEF cancelRefused, OwnersInv, ThreadsOwn, ThreadOwns
  <2>2. UNCHANGED <<mQueue, mFrameCounter, mSlots, mIsAbandoned, held>> /\ Return(p)
    BY <1>4, <2>1 DEF cancelRefused, connectionVars
  <2> QED BY <2>2, CallRests, QuietKeepsOwners
<1>5. CASE queueBuffer(p)
  BY <1>5, QueueKeepsOwners
<1>6. CASE cancelBuffer(p) \/ detachBuffer(p) \/ detachNextBuffer(p)
  BY <1>6, CancelKeepsOwners
<1>7. CASE setBufferCount(p) \/ disconnect(p)
  BY <1>7, FreeingAllKeepsOwners
<1>8. CASE allocateBuffersAllocated(p)
  BY <1>8, PreallocatedKeepsOwners
<1>9. CASE \/ dequeueBufferAllocationFailed(p) \/ queueBufferCallback(p) \/ connect(p)
           \/ allocateBuffers(p) \/ allocateBuffersFailed(p)
           \/ buffersReleasedCallback(p)
  BY <1>9, OthersKeepOwners
<1> QED BY <1>1, <1>2, <1>3, <1>4, <1>5, <1>6, <1>7, <1>8, <1>9
        DEF ProducerStep, ProducerCall

(* OwnersInv is inductive, given the types.                                *)
LEMMA NextKeepsOwners ==
  ASSUME ~ConcurrentDisconnect, ~ReattachQueued, TypeOK, OwnersInv, [Next]_vars
  PROVE  OwnersInv'
<1>1. ASSUME NEW p \in Producers, ProducerStep(p)
      PROVE  OwnersInv'
  BY <1>1, ProducerKeepsOwners
<1>2. CASE ConsumerStep
  <2>1. CASE acquireBuffer
    BY <2>1, AcquireKeepsOwners
  <2>2. CASE attachAcquired \/ \E h \in acquired : releaseBuffer(h) \/ detachAcquired(h)
    BY <2>2, ConsumerKeepsOwners
  <2>3. CASE consumerDisconnect
    BY <2>3, LeaveKeepsOwners
  <2>4. CASE \/ consumerConnect \/ setDefaultMaxBufferCount \/ setMaxAcquiredBufferCount
             \/ disableAsyncBuffer \/ setDefaultBufferSize
    BY <2>4, OthersKeepOwners
  <2> QED BY <1>2, <2>1, <2>2, <2>3, <2>4 DEF ConsumerStep, ConsumerConfigure
<1>3. CASE UNCHANGED vars
  BY <1>3, OthersKeepOwners
<1> QED BY <1>1, <1>2, <1>3 DEF Next

(* Threads, client and items own their slots in every state.               *)
LEMMA OwnersInvariant ==
  ASSUME ~ConcurrentDisconnect, ~ReattachQueued
  PROVE  Spec => []OwnersInv
<1>1. TypeOK /\ OwnersInv /\ [Next]_vars => OwnersInv'
  BY NextKeepsOwners
<1> QED BY <1>1, InitOwners, TypeCorrect, PTL DEF Spec

(* However many threads, slots and buffers there are, an item whose buffer *)
(* is still in its slot owns that slot: stillTracking tells acquireBuffer, *)
(* and the two places that drop an item, the truth                         *)
(* (BufferQueueConsumer.cpp:131-150, BufferQueueProducer.cpp:720-740).     *)
THEOREM ItemsOwnTheirSlots ==
  ASSUME ~ConcurrentDisconnect, ~ReattachQueued
  PROVE  Spec => []TrackedItemsAreQueued
<1>1. OwnersInv => TrackedItemsAreQueued
  BY DEF OwnersInv
<1> QED BY <1>1, OwnersInvariant, PTL
-----------------------------------------------------------------------------
(* A call moves no thread but its own, except that it may wake it.         *)
Stays(q) ==
  \/ call'[q] = call[q]
  \/ call[q].op = "waiting" /\ call'[q] = [op |-> "woken", req |-> call[q].req]

(* A step in which only thread p goes on, and others are at most woken.    *)
Moves(p) ==
  \/ UNCHANGED call
  \/ \E c : \/ call' = [call EXCEPT ![p] = c]
            \/ call' = [Broadcast(call) EXCEPT ![p] = c]

(* Such a step leaves the others where they are.                           *)
LEMMA MovesOnly ==
  ASSUME TypeOK, NEW p \in Producers, Moves(p)
  PROVE  \A q \in Producers \ {p} : Stays(q)
<1>1. \A q \in Producers :
        \/ Broadcast(call)[q] = call[q]
        \/ /\ call[q].op = "waiting"
           /\ Broadcast(call)[q] = [op |-> "woken", req |-> call[q].req]
  BY DEF Broadcast
<1>2. DOMAIN Broadcast(call) = Producers /\ DOMAIN call = Producers
  BY TypeFacts DEF Broadcast
<1> QED BY <1>1, <1>2 DEF Moves, Stays

(* Every call of the producer is such a step.                              *)
LEMMA EveryCallMoves ==
  ASSUME NEW p \in Producers, ProducerStep(p)
  PROVE  Moves(p)
<1>1. Return(p) \/ BroadcastAndReturn(p) => Moves(p)
  BY DEF Return, BroadcastAndReturn, Moves
<1>2. CASE Retry(p) \/ dequeueBuffer(p) \/ attachBuffer(p)
  <2>1. PICK req : waitForFreeSlotThenRelock(p, req)
    BY <1>2 DEF Retry, dequeueBuffer, attachBuffer
  <2>2. ASSUME NEW slots, NEW s, NEW released, DequeueFound(p, req, slots, s, released)
        PROVE  Moves(p)
    BY <2>2 DEF DequeueFound, Moves
  <2>3. ASSUME NEW slots, NEW s, NEW released, AttachFound(p, req, slots, s, released)
        PROVE  Moves(p)
    BY <1>1, <2>3 DEF AttachFound
  <2>4. ASSUME NEW c, call' = [call EXCEPT ![p] = c] PROVE Moves(p)
    BY <2>4 DEF Moves
  <2> QED BY <1>1, <2>1, <2>2, <2>3, <2>4 DEF waitForFreeSlotThenRelock
<1>3. CASE dequeueBufferAllocated(p) \/ requestBuffer(p) \/ cancelRefused(p)
  BY <1>1, <1>3 DEF dequeueBufferAllocated, requestBuffer, cancelRefused, Moves
<1>4. CASE \/ dequeueBufferAllocationFailed(p) \/ queueBufferCallback(p) \/ cancelBuffer(p)
           \/ detachBuffer(p) \/ allocateBuffersFailed(p) \/ buffersReleasedCallback(p)
  BY <1>1, <1>4 DEF dequeueBufferAllocationFailed, queueBufferCallback, cancelBuffer,
     detachBuffer, allocateBuffersFailed, buffersReleasedCallback
<1>5. CASE queueBuffer(p) \/ detachNextBuffer(p) \/ setBufferCount(p)
  BY <1>1, <1>5 DEF queueBuffer, detachNextBuffer, setBufferCount, Moves
<1>6. CASE connect(p) \/ disconnect(p)
  BY <1>6 DEF connect, producerVars, disconnect, Moves
<1>7. CASE allocateBuffers(p) \/ allocateBuffersAllocated(p)
  BY <1>1, <1>7 DEF allocateBuffers, AllocateBuffersTurn, allocateBuffersAllocated, Moves
<1> QED BY <1>2, <1>3, <1>4, <1>5, <1>6, <1>7 DEF ProducerStep, ProducerCall

(* Calls of the consumer wake threads at most.                             *)
LEMMA ConsumerMovesNobody ==
  ASSUME ConsumerStep
  PROVE  \A q \in Producers : Stays(q)
<1>1. UNCHANGED call \/ WakeProducers
  BY DEF ConsumerStep, ConsumerConfigure, acquireBuffer, releaseBuffer, ReleaseSlot,
     detachAcquired, attachAcquired, consumerConnect, consumerDisconnect,
     setDefaultMaxBufferCount, setMaxAcquiredBufferCount, disableAsyncBuffer,
     setDefaultBufferSize, producerVars
<1> QED BY <1>1 DEF WakeProducers, Broadcast, Stays

(* A slot stays in the hands of a thread that stays where it is.           *)
LEMMA StaysInFlight ==
  ASSUME NEW q, NEW s, Stays(q), InFlight(q, s)
  PROVE  InFlight(q, s)'
  BY DEF Stays, InFlight

(* Steps that leave the queue and the consumer's buffers alone.            *)
LEMMA StepKeepsHolders ==
  ASSUME TypeOK, HoldersInv, UNCHANGED <<mQueue, acquired>>,
         \A s \in Slots :
           /\ \/ mSlots'[s].mGraphicBuffer = mSlots[s].mGraphicBuffer
              \/ mSlots'[s].mGraphicBuffer \notin InQueue
           /\ mSlots'[s].mBufferState \in {"QUEUED", "ACQUIRED"} =>
                /\ mSlots'[s].mBufferState = mSlots[s].mBufferState
                /\ mSlots'[s].mGraphicBuffer = mSlots[s].mGraphicBuffer
                /\ mSlots'[s].mFrameNumber = mSlots[s].mFrameNumber
           /\ mSlots'[s].mBufferState = "DEQUEUED" =>
                /\ ~mIsAbandoned'
                /\ s \in held' \/ \E p \in Producers : InFlight(p, s)'
           /\ mSlots'[s].mBufferState = "QUEUED" => (mIsAbandoned' => mIsAbandoned)
  PROVE  HoldersInv'
<1>1. Indices' = Indices /\ \A i \in Indices : mQueue[i].mSlot \in Slots
  BY TypeFacts DEF Indices
<1>2. ASSUME NEW i \in Indices, Tracked(i)' PROVE Tracked(i)
  <2>1. PICK s \in Slots : s = mQueue[i].mSlot
    BY <1>1
  <2>2. mSlots'[s].mGraphicBuffer = mQueue[i].mGraphicBuffer
    BY <1>2, <2>1 DEF Tracked, stillTracking
  <2>3. mSlots'[s].mGraphicBuffer \in InQueue
    BY <2>2 DEF InQueue, Indices
  <2> QED BY <2>1, <2>2, <2>3 DEF Tracked, stillTracking
<1>3. NoneBehind'
  BY <1>1, <1>2 DEF HoldersInv, NoneBehind
<1>4. AbandonedHasNone'
  BY DEF HoldersInv, AbandonedHasNone, SlotsIn
<1>5. QueuedSlotsHaveItems'
  <2>1. ASSUME NEW s \in Slots, mSlots'[s].mBufferState = "QUEUED"
        PROVE  \E i \in Indices : mQueue[i].mSlot = s /\ Tracked(i)'
    <3>1. PICK i \in Indices : mQueue[i].mSlot = s /\ Tracked(i)
      BY <2>1 DEF HoldersInv, SlotsHaveHolders, QueuedSlotsHaveItems, SlotsIn, Indices
    <3> QED BY <2>1, <3>1 DEF Tracked, stillTracking
  <2> QED BY <2>1 DEF QueuedSlotsHaveItems, SlotsIn, Indices
<1>6. AcquiredSlotsHaveHandles'
  BY DEF HoldersInv, SlotsHaveHolders, AcquiredSlotsHaveHandles, SlotsIn
<1>7. DequeuedSlotsHaveOwners'
  BY DEF DequeuedSlotsHaveOwners, SlotsIn
<1> QED BY <1>3, <1>4, <1>5, <1>6, <1>7 DEF HoldersInv, SlotsHaveHolders

(* Who has a DEQUEUED slot keeps it, unless it is the caller's.            *)
LEMMA HoldersStay ==
  ASSUME TypeOK, HoldersInv, NEW p \in Producers, Moves(p),
         NEW s \in Slots, mSlots[s].mBufferState = "DEQUEUED",
         s \in held => s \in held',
         InFlight(p, s) => InFlight(p, s)' \/ s \in held'
  PROVE  ~mIsAbandoned /\ (s \in held' \/ \E q \in Producers : InFlight(q, s)')
<1>1. \A q \in Producers \ {p} : Stays(q)
  BY MovesOnly
<1>2. s \in held \/ \E q \in Producers : InFlight(q, s)
  BY DEF HoldersInv, SlotsHaveHolders, DequeuedSlotsHaveOwners, SlotsIn
<1>3. ~mIsAbandoned
  BY DEF HoldersInv, AbandonedHasNone, SlotsIn
<1> QED BY <1>1, <1>2, <1>3, StaysInFlight

(* A slot that is found for the client is DEQUEUED and in its hands.       *)
LEMMA AskingKeepsHolders ==
  ASSUME TypeOK, OwnersInv, HoldersInv, ~ReattachQueued, NEW p \in Producers,
         ProducerStep(p), Retry(p) \/ dequeueBuffer(p) \/ attachBuffer(p)
  PROVE  HoldersInv'
<1>1. PICK req : /\ waitForFreeSlotThenRelock(p, req)
                 /\ req.kind = "attach" => req.buffer \notin InQueue
  <2>1. CASE Retry(p)
    BY <2>1 DEF Retry, OwnersInv, ThreadsOwn, WaitsApart, Asleep
  <2>2. CASE dequeueBuffer(p)
    BY <2>2 DEF dequeueBuffer
  <2>3. CASE attachBuffer(p)
    BY <2>3 DEF attachBuffer
  <2> QED BY <2>1, <2>2, <2>3
<1>2. PICK slots, released :
        /\ slots = TrimmedSlots(getMaxBufferCountLocked(req.async))
        /\ released = (req.released \/ BeyondMax(getMaxBufferCountLocked(req.async)) # {})
  OBVIOUS
<1>3. /\ slots \in [Slots -> BufferSlot]
      /\ \A s \in Slots :
           \/ slots[s] = mSlots[s]
           \/ /\ slots[s].mBufferState = "FREE" /\ slots[s].mGraphicBuffer = NoBuffer
              /\ mSlots[s].mBufferState \in {"FREE", "ACQUIRED"}
  BY <1>2, TrimmedFacts DEF TypeOK
<1>4. UNCHANGED <<mQueue, acquired, mIsAbandoned>> /\ Moves(p)
  BY <1>1, EveryCallMoves DEF waitForFreeSlotThenRelock, connectionVars
<1>5. call[p].op \in {"idle", "woken"}
  BY DEF Retry, dequeueBuffer, attachBuffer, Idle
<1>6. NoBuffer \notin InQueue
  BY DEF OwnersInv, ItemsDiffer, InQueue, Indices
<1>7. ASSUME NEW s \in Slots, mSlots[s].mBufferState = "DEQUEUED", held \subseteq held'
      PROVE  ~mIsAbandoned /\ (s \in held' \/ \E q \in Producers : InFlight(q, s)')
  <2>1. ~InFlight(p, s)
    BY <1>5 DEF InFlight
  <2> QED BY <1>4, <1>7, <2>1, HoldersStay
<1>8. CASE mSlots' \in {mSlots, slots} /\ UNCHANGED held
  BY <1>3, <1>4, <1>6, <1>7, <1>8, StepKeepsHolders
<1>9. ASSUME NEW s \in Slots, DequeueFound(p, req, slots, s, released), UNCHANGED held,
             ~mIsAbandoned, slots[s].mBufferState = "FREE"
      PROVE  HoldersInv'
  <2>1. /\ mSlots'[s].mBufferState = "DEQUEUED"
        /\ mSlots'[s].mGraphicBuffer \in {slots[s].mGraphicBuffer, NoBuffer}
        /\ \A t \in Slots \ {s} : mSlots'[t] = slots[t]
        /\ InFlight(p, s)'
    <3>1. Finds(p, slots, s, released)
      BY <1>3, <1>9, FoundFacts
    <3> QED BY <3>1 DEF Finds, InFlight
  <2>2. mSlots'[s].mGraphicBuffer \in {mSlots[s].mGraphicBuffer, NoBuffer}
    BY <1>3, <2>1
  <2> QED BY <1>3, <1>4, <1>6, <1>7, <1>9, <2>1, <2>2, StepKeepsHolders
<1>10. ASSUME NEW s \in Slots, AttachFound(p, req, slots, s, released),
              ~mIsAbandoned, req.kind = "attach"
       PROVE  HoldersInv'
  <2>1. /\ mSlots'[s].mBufferState = "DEQUEUED" /\ mSlots'[s].mGraphicBuffer = req.buffer
        /\ \A t \in Slots \ {s} : mSlots'[t] = slots[t]
        /\ held' = held \cup {s}
    BY <1>3, <1>10 DEF AttachFound, BufferSlot
  <2>2. held \subseteq held'
    BY <2>1
  <2> QED BY <1>1, <1>3, <1>4, <1>6, <1>7, <1>10, <2>1, <2>2, StepKeepsHolders
<1>11. ASSUME NEW s \in Slots, IsOldest(slots, s, Below(getMaxBufferCountLocked(req.async), "FREE"))
       PROVE  slots[s].mBufferState = "FREE"
  BY <1>2, <1>11 DEF IsOldest, Below, SlotsIn
<1> QED BY <1>1, <1>2, <1>8, <1>9, <1>10, <1>11 DEF waitForFreeSlotThenRelock

(* Between dequeueBuffer and Surface's user the slot is not lost either.   *)
LEMMA HandingKeepsHolders ==
  ASSUME TypeOK, OwnersInv, HoldersInv, NEW p \in Producers, ProducerStep(p),
         dequeueBufferAllocated(p) \/ requestBuffer(p) \/ cancelRefused(p)
  PROVE  HoldersInv'
<1>1. UNCHANGED <<mQueue, acquired, mIsAbandoned>> /\ Moves(p)
  BY EveryCallMoves DEF dequeueBufferAllocated, requestBuffer, cancelRefused, connectionVars
<1>2. PICK s : s = call[p].slot
  OBVIOUS
<1>3. /\ call[p].op \in {"allocating", "returned", "refused"}
      /\ \A t : InFlight(p, t) => t = s
      /\ InHand(p) => s \in Slots
      /\ InHand(p) /\ ~mIsAbandoned => mSlots[s].mBufferState = "DEQUEUED"
      /\ call[p].op = "refused" => mIsAbandoned
  BY <1>2, TypeFacts DEF dequeueBufferAllocated, requestBuffer, cancelRefused, InFlight,
     OwnersInv, ThreadsOwn, ThreadOwns, InHand
<1>4. ASSUME NEW t \in Slots, mSlots[t].mBufferState = "DEQUEUED", held \subseteq held',
             ~mIsAbandoned => s \in held' \/ InFlight(p, s)'
      PROVE  ~mIsAbandoned /\ (t \in held' \/ \E q \in Producers : InFlight(q, t)')
  <2>1. ~mIsAbandoned
    BY <1>4 DEF HoldersInv, AbandonedHasNone, SlotsIn
  <2>2. InFlight(p, t) => InFlight(p, t)' \/ t \in held'
    BY <1>3, <1>4, <2>1
  <2> QED BY <1>1, <1>4, <2>2, HoldersStay
<1>5. CASE mIsAbandoned
  <2>1. held \subseteq held' /\ \A t \in Slots : mSlots'[t] = mSlots[t]
    BY <1>5 DEF dequeueBufferAllocated, requestBuffer, cancelRefused
  <2> QED BY <1>1, <1>4, <1>5, <2>1, StepKeepsHolders
<1>6. CASE ~mIsAbandoned /\ dequeueBufferAllocated(p)
  <2>1. PICK c : c = [op |-> "returned", slot |-> s, released |-> call[p].released,
                      realloc |-> TRUE]
    OBVIOUS
  <2>2. PICK b \in Fresh(call[p].size) :
          /\ call' = [call EXCEPT ![p] = c]
          /\ mSlots' = [mSlots EXCEPT ![s] = [@ EXCEPT !.mFrameNumber = UINT32_MAX,
                                                       !.mGraphicBuffer = b]]
          /\ UNCHANGED held
    BY <1>2, <1>6, <2>1 DEF dequeueBufferAllocated
  <2>3. InFlight(p, s)' /\ s \in Slots /\ mSlots[s].mBufferState = "DEQUEUED"
    <3>1. call'[p] = c
      BY <2>2, CallRests
    <3>2. InHand(p)
      BY <1>6 DEF dequeueBufferAllocated, InHand
    <3> QED BY <1>3, <1>6, <2>1, <3>1, <3>2 DEF InFlight
  <2>4. /\ mSlots'[s].mBufferState = "DEQUEUED" /\ mSlots'[s].mGraphicBuffer = b
        /\ \A t \in Slots \ {s} : mSlots'[t] = mSlots[t]
    BY <2>2, <2>3, TypeFacts DEF BufferSlot
  <2>5. b \notin InQueue
    BY DEF Fresh
  <2>6. UNCHANGED held /\ held \subseteq held'
    BY <2>2
  <2> QED BY <1>1, <1>4, <1>6, <2>3, <2>4, <2>5, <2>6, StepKeepsHolders
<1>7. CASE ~mIsAbandoned /\ requestBuffer(p)
  <2>1. InHand(p)
    BY <1>7 DEF requestBuffer, InHand
  <2>2. /\ s \in Slots /\ mSlots[s].mBufferState = "DEQUEUED"
        /\ held' = held \cup {s}
        /\ mSlots' \in {mSlots, [mSlots EXCEPT ![s].mRequestBufferCalled = TRUE]}
    BY <1>2, <1>3, <1>7, <2>1 DEF requestBuffer
  <2>3. \A t \in Slots : /\ mSlots'[t].mBufferState = mSlots[t].mBufferState
                         /\ mSlots'[t].mGraphicBuffer = mSlots[t].mGraphicBuffer
                         /\ mSlots'[t].mFrameNumber = mSlots[t].mFrameNumber
    BY <2>2, TypeFacts DEF BufferSlot
  <2>4. held \subseteq held' /\ s \in held'
    BY <2>2
  <2> QED BY <1>1, <1>4, <1>7, <2>3, <2>4, StepKeepsHolders
<1> QED BY <1>3, <1>5, <1>6, <1>7 DEF cancelRefused

(* The client gives back a slot, and only that one.                        *)
LEMMA GivingKeepsHolders ==
  ASSUME TypeOK, OwnersInv, HoldersInv, NEW p \in Producers, ProducerStep(p),
         cancelBuffer(p) \/ detachBuffer(p) \/ detachNextBuffer(p)
  PROVE  HoldersInv'
<1>1. UNCHANGED <<mQueue, acquired, mIsAbandoned>> /\ Moves(p) /\ ~mIsAbandoned
  BY EveryCallMoves DEF cancelBuffer, detachBuffer, detachNextBuffer, connectionVars,
     CanGiveBack
<1>2. NoBuffer \notin InQueue
  BY DEF OwnersInv, ItemsDiffer, InQueue, Indices
<1>3. PICK s \in Slots : /\ mSlots' \in {CancelledSlot(s), freeBufferLocked(mSlots, s)}
                         /\ held' \in {held, held \ {s}}
  <2>1. CASE cancelBuffer(p)
    BY <2>1 DEF cancelBuffer
  <2>2. CASE detachBuffer(p)
    BY <2>2 DEF detachBuffer
  <2>3. CASE detachNextBuffer(p)
    BY <2>3 DEF detachNextBuffer
  <2> QED BY <2>1, <2>2, <2>3
<1>4. /\ mSlots'[s].mBufferState = "FREE"
      /\ mSlots'[s].mGraphicBuffer \in {mSlots[s].mGraphicBuffer, NoBuffer}
      /\ \A t \in Slots \ {s} : mSlots'[t] = mSlots[t]
  <2>1. CASE mSlots' = CancelledSlot(s)
    BY <2>1, TypeFacts DEF CancelledSlot, BufferSlot
  <2>2. CASE mSlots' = freeBufferLocked(mSlots, s)
    BY <2>2, TypeFacts DEF freeBufferLocked, FreedSlot, BufferSlot
  <2> QED BY <1>3, <2>1, <2>2
<1>5. ASSUME NEW t \in Slots \ {s}, mSlots[t].mBufferState = "DEQUEUED"
      PROVE  t \in held' \/ \E q \in Producers : InFlight(q, t)'
  <2>1. call[p] = Idle
    BY DEF cancelBuffer, detachBuffer, detachNextBuffer, CanGiveBack
  <2>2. ~InFlight(p, t)
    BY <2>1 DEF InFlight, Idle
  <2> QED BY <1>1, <1>3, <1>5, <2>2, HoldersStay
<1> QED BY <1>1, <1>2, <1>4, <1>5, StepKeepsHolders

(* Freed slots need no holder.                                             *)
LEMMA FreeingAllKeepsHolders ==
  ASSUME TypeOK, OwnersInv, HoldersInv, NEW p \in Producers, ProducerStep(p),
         setBufferCount(p) \/ disconnect(p)
  PROVE  HoldersInv'
<1>1. UNCHANGED <<mQueue, acquired, mIsAbandoned>> /\ Moves(p) /\ ~mIsAbandoned
  BY EveryCallMoves DEF setBufferCount, disconnect, connectionVars
<1>2. NoBuffer \notin InQueue
  BY DEF OwnersInv, ItemsDiffer, InQueue, Indices
<1>3. CASE freeAllBuffersLocked
  BY <1>1, <1>2, <1>3, FreeAllFacts, StepKeepsHolders
<1>4. CASE ~freeAllBuffersLocked
  <2>1. UNCHANGED mSlots /\ NoBufferDequeued
    BY <1>4 DEF setBufferCount, disconnect
  <2>2. \A s \in Slots : mSlots[s].mBufferState # "DEQUEUED"
    BY <2>1 DEF NoBufferDequeued, SlotsIn
  <2> QED BY <1>1, <2>1, <2>2, StepKeepsHolders
<1> QED BY <1>3, <1>4

(* allocateBuffers fills FREE slots, which have no holder.                 *)
LEMMA PreallocatedKeepsHolders ==
  ASSUME TypeOK, OwnersInv, HoldersInv, NEW p \in Producers, ProducerStep(p),
         allocateBuffersAllocated(p)
  PROVE  HoldersInv'
<1>1. UNCHANGED <<mQueue, acquired, mIsAbandoned, held>> /\ Moves(p)
  BY EveryCallMoves DEF allocateBuffersAllocated, connectionVars
<1>2. ASSUME NEW t \in Slots, mSlots[t].mBufferState = "DEQUEUED"
      PROVE  ~mIsAbandoned /\ (t \in held' \/ \E q \in Producers : InFlight(q, t)')
  <2>1. ~InFlight(p, t)
    BY DEF allocateBuffersAllocated, InFlight
  <2> QED BY <1>1, <1>2, <2>1, HoldersStay
<1>3. PICK fill : fill = call[p].slots \cap SlotsIn(mSlots, {"FREE"})
  OBVIOUS
<1>4. CASE UNCHANGED mSlots
  BY <1>1, <1>2, <1>4, StepKeepsHolders
<1>5. CASE ~UNCHANGED mSlots
  <2>1. PICK new \in [fill -> Fresh(call[p].size)] :
          mSlots' = [s \in Slots |->
                       IF s \in fill
                       THEN [FreedSlot(mSlots[s]) EXCEPT !.mGraphicBuffer = new[s],
                                                         !.mFrameNumber = 0]
                       ELSE mSlots[s]]
    BY <1>3, <1>5 DEF allocateBuffersAllocated
  <2>2. ASSUME NEW s \in Slots
        PROVE  \/ mSlots'[s] = mSlots[s]
               \/ /\ mSlots'[s].mBufferState = "FREE"
                  /\ mSlots'[s].mGraphicBuffer \notin InQueue
    <3>1. CASE s \in fill
      <4>1. PICK slot : slot = FreedSlot(mSlots[s])
        OBVIOUS
      <4>2. slot \in BufferSlot /\ slot.mBufferState = "FREE"
        BY <4>1, TypeFacts, FreedSlotType DEF FreedSlot, BufferSlot
      <4>3. mSlots'[s] = [slot EXCEPT !.mGraphicBuffer = new[s], !.mFrameNumber = 0]
        BY <2>1, <3>1, <4>1
      <4>4. new[s] \notin InQueue
        BY <3>1 DEF Fresh
      <4>5. /\ mSlots'[s].mBufferState = "FREE"
            /\ mSlots'[s].mGraphicBuffer = new[s]
        BY <4>2, <4>3 DEF BufferSlot
      <4> QED BY <4>4, <4>5
    <3>2. CASE s \notin fill
      BY <2>1, <3>2
    <3> QED BY <3>1, <3>2
  <2> QED BY <1>1, <1>2, <2>2, StepKeepsHolders
<1> QED BY <1>4, <1>5

(* The frame a release names is the one in its slot, no item of that slot  *)
(* is behind it, so the release is accepted.                               *)
LEMMA ReleaseKeepsHolders ==
  ASSUME TypeOK, OwnersInv, HoldersInv, NEW h \in acquired, releaseBuffer(h), ConsumerStep
  PROVE  HoldersInv'
<1>1. UNCHANGED <<mQueue, mIsAbandoned, held>> /\ acquired' = acquired \ {h}
      /\ h.slot \in Slots
  BY TypeFacts DEF releaseBuffer, connectionVars, clientVars, Handle
<1>2. \A t \in Slots :
        /\ mSlots'[t].mGraphicBuffer = mSlots[t].mGraphicBuffer
        /\ mSlots'[t].mFrameNumber = mSlots[t].mFrameNumber
        /\ \/ mSlots'[t].mBufferState = mSlots[t].mBufferState
           \/ mSlots'[t].mBufferState = "FREE"
  <2>1. \/ mSlots' = [mSlots EXCEPT ![h.slot].mBufferState = "FREE"]
        \/ mSlots' = [mSlots EXCEPT ![h.slot].mNeedsCleanupOnRelease = FALSE]
        \/ mSlots' = mSlots
    BY DEF releaseBuffer, ReleaseSlot
  <2> QED BY <1>1, <2>1, TypeFacts DEF BufferSlot
<1>3. ASSUME NEW t \in Slots, mSlots[t].mBufferState = "DEQUEUED"
      PROVE  ~mIsAbandoned /\ (t \in held' \/ \E q \in Producers : InFlight(q, t)')
  <2>1. ~mIsAbandoned /\ (t \in held \/ \E q \in Producers : InFlight(q, t))
    BY <1>3 DEF HoldersInv, AbandonedHasNone, SlotsHaveHolders, DequeuedSlotsHaveOwners, SlotsIn
  <2> QED BY <1>1, <2>1, ConsumerMovesNobody, StaysInFlight
<1>4. Indices' = Indices /\ \A i \in Indices : mQueue[i].mSlot \in Slots
  BY <1>1, TypeFacts DEF Indices
<1>5. \A i \in Indices : Tracked(i)' <=> Tracked(i)
  BY <1>1, <1>2, <1>4 DEF Tracked, stillTracking
<1>6. NoneBehind'
  BY <1>1, <1>2, <1>4, <1>5 DEF HoldersInv, NoneBehind
<1>7. AbandonedHasNone'
  BY <1>1, <1>2 DEF HoldersInv, AbandonedHasNone, SlotsIn
<1>8. QueuedSlotsHaveItems'
  BY <1>1, <1>2, <1>5 DEF HoldersInv, SlotsHaveHolders, QueuedSlotsHaveItems, SlotsIn, Indices
<1>9. AcquiredSlotsHaveHandles'
  <2> SUFFICES ASSUME NEW t \in Slots, mSlots'[t].mBufferState = "ACQUIRED"
               PROVE  \E g \in acquired' : /\ g.slot = t
                                           /\ g.frame = mSlots'[t].mFrameNumber
                                           /\ g.buffer = mSlots'[t].mGraphicBuffer
    BY DEF AcquiredSlotsHaveHandles, SlotsIn
  <2>1. mSlots[t].mBufferState = "ACQUIRED"
    BY <1>2
  <2>2. PICK g \in acquired : /\ g.slot = t /\ g.frame = mSlots[t].mFrameNumber
                              /\ g.buffer = mSlots[t].mGraphicBuffer
    BY <2>1 DEF HoldersInv, SlotsHaveHolders, AcquiredSlotsHaveHandles, SlotsIn
  <2>3. g # h
    <3> SUFFICES ASSUME g = h PROVE FALSE
      OBVIOUS
    <3>1. ~\E i \in 1 .. Len(mQueue) : mQueue[i].mSlot = h.slot
      BY <2>1, <2>2 DEF HoldersInv, NoneBehind, Indices
    <3>2. ReleaseAnswer(h.slot, h.frame) = "NO_ERROR"
      BY <2>1, <2>2, <3>1 DEF ReleaseAnswer
    <3>3. mSlots' = [mSlots EXCEPT ![h.slot].mBufferState = "FREE"]
      BY <3>2 DEF releaseBuffer, ReleaseSlot
    <3>4. mSlots'[t].mBufferState = "FREE"
      BY <2>2, <3>3, TypeFacts DEF BufferSlot
    <3> QED BY <3>4
  <2> QED BY <1>1, <1>2, <2>2, <2>3
<1>10. DequeuedSlotsHaveOwners'
  BY <1>2, <1>3 DEF DequeuedSlotsHaveOwners, SlotsIn
<1> QED BY <1>6, <1>7, <1>8, <1>9, <1>10 DEF HoldersInv, SlotsHaveHolders

(* What is queued has its item, and nothing of that slot is behind it.     *)
LEMMA QueueKeepsHolders ==
  ASSUME NeverMixed, OrderInv, OrderInv', OwnersInv, HoldersInv,
         NEW p \in Producers, ProducerStep(p), queueBuffer(p)
  PROVE  HoldersInv'
<1>1. /\ TypeOK /\ UNCHANGED <<acquired, mIsAbandoned>> /\ ~mIsAbandoned
      /\ mQueue \in Seq(BufferItem) /\ Moves(p)
      /\ \A i \in Indices : mQueue[i].mSlot \in Slots
  BY QueueFactsOf, TypeFacts, EveryCallMoves DEF OrderInv
<1>0. PICK s \in held : \E item : Puts(s, item)
  BY <1>1, QueueFactsOf
<1>2. PICK item : s \in held /\ Puts(s, item)
  BY <1>0
<1>3. /\ s \in Slots /\ item.mSlot = s /\ item.mGraphicBuffer = mSlots[s].mGraphicBuffer
      /\ mSlots[s].mBufferState = "DEQUEUED" /\ held' = held \ {s}
      /\ \A t \in Slots : mSlots'[t].mGraphicBuffer = mSlots[t].mGraphicBuffer
  BY <1>1, <1>2, TypeFacts DEF Puts
<1>4. \A i \in Indices : Tracked(i) => mSlots[mQueue[i].mSlot].mBufferState = "QUEUED"
  BY DEF OwnersInv, TrackedItemsAreQueued, Indices
<1>5. \A t \in Slots : FrontFreed(t) => t # s
  BY <1>2, <1>3, <1>4 DEF FrontFreed, Puts
<1>6. /\ mSlots'[s].mBufferState = "QUEUED"
      /\ \A t \in Slots \ {s} : \/ mSlots'[t] = mSlots[t] /\ ~FrontFreed(t)
                                \/ mSlots'[t].mBufferState = "FREE"
  BY <1>2, <1>3, <1>5 DEF Puts
<1>7. DequeuedSlotsHaveOwners'
  <2>1. ASSUME NEW t \in Slots, mSlots'[t].mBufferState = "DEQUEUED"
        PROVE  t \in held' \/ \E q \in Producers : InFlight(q, t)'
    <3>1. t # s /\ mSlots[t].mBufferState = "DEQUEUED"
      BY <1>6, <2>1
    <3>2. ~InFlight(p, t)
      BY DEF queueBuffer, CanGiveBack, InFlight, Idle
    <3> QED BY <1>1, <1>3, <3>1, <3>2, HoldersStay
  <2> QED BY <2>1 DEF DequeuedSlotsHaveOwners, SlotsIn
<1>8. AbandonedHasNone'
  BY <1>1 DEF AbandonedHasNone
<1>9. AcquiredSlotsHaveHandles'
  BY <1>1, <1>6 DEF HoldersInv, SlotsHaveHolders, AcquiredSlotsHaveHandles, SlotsIn
<1>10. CASE ~ReplacesFront
  <2>1. PICK k : k = Len(mQueue) + 1
    OBVIOUS
  <2>2. /\ mQueue'[k] = item /\ \A i \in Indices : mQueue'[i] = mQueue[i]
        /\ Indices' = Indices \cup {k}
        /\ \A i \in Indices : i < k
    BY <1>1, <1>2, <1>10, <2>1 DEF Puts, Indices
  <2>3. \A t \in Slots \ {s} : mSlots'[t] = mSlots[t]
    BY <1>2, <1>10 DEF Puts, FrontFreed
  <2>4. /\ \A i \in Indices : Tracked(i)' <=> Tracked(i)
        /\ Tracked(k)'
    <3>1. ASSUME NEW i \in Indices PROVE Tracked(i)' <=> Tracked(i)
      <4>1. PICK t \in Slots : t = mQueue[i].mSlot
        BY <1>1
      <4>2. mQueue'[i] = mQueue[i] /\ mSlots'[t].mGraphicBuffer = mSlots[t].mGraphicBuffer
        BY <1>3, <2>2
      <4> QED BY <4>1, <4>2 DEF Tracked, stillTracking
    <3>2. Tracked(k)'
      BY <1>3, <2>2 DEF Tracked, stillTracking
    <3> QED BY <3>1, <3>2
  <2>5. NoneBehind'
    <3>1. \A i \in Indices' : mSlots'[mQueue'[i].mSlot].mBufferState # "ACQUIRED"
      BY <1>1, <1>3, <1>6, <2>2, <2>3 DEF HoldersInv, NoneBehind
    <3>2. ASSUME NEW i \in Indices', NEW j \in Indices', Tracked(i)', i < j
          PROVE  mQueue'[j].mSlot # mQueue'[i].mSlot
      <4>1. i \in Indices
        <5>1. i \in Nat /\ j \in Nat
          BY DEF Indices
        <5> QED BY <1>1, <2>1, <2>2, <3>2, <5>1 DEF Indices
      <4>2. CASE j \in Indices
        BY <2>2, <2>4, <3>2, <4>1, <4>2 DEF HoldersInv, NoneBehind
      <4>3. CASE j = k
        BY <1>3, <1>4, <2>2, <2>4, <3>2, <4>1, <4>3
      <4> QED BY <2>2, <4>2, <4>3
    <3> QED BY <3>1, <3>2 DEF NoneBehind
  <2>6. QueuedSlotsHaveItems'
    <3>1. ASSUME NEW t \in Slots, mSlots'[t].mBufferState = "QUEUED"
          PROVE  \E i \in Indices' : mQueue'[i].mSlot = t /\ Tracked(i)'
      <4>1. CASE t = s
        <5>1. k \in Indices' /\ mQueue'[k].mSlot = t /\ Tracked(k)'
          BY <1>3, <2>2, <2>4, <4>1
        <5> QED BY <5>1
      <4>2. CASE t # s
        <5>1. PICK i \in Indices : mQueue[i].mSlot = t /\ Tracked(i)
          BY <2>3, <3>1, <4>2 DEF HoldersInv, SlotsHaveHolders, QueuedSlotsHaveItems,
             SlotsIn, Indices
        <5> QED BY <2>2, <2>4, <5>1
      <4> QED BY <4>1, <4>2
    <3> QED BY <3>1 DEF QueuedSlotsHaveItems, SlotsIn, Indices
  <2> QED BY <1>7, <1>8, <1>9, <2>5, <2>6 DEF HoldersInv, SlotsHaveHolders
(* A droppable front is the whole queue.                                   *)
<1>11. CASE ReplacesFront
  <2>1. 1 \in Indices /\ mQueue' = [mQueue EXCEPT ![1] = item]
    BY <1>2, <1>11 DEF Puts
  <2>2. Len(mQueue) = 1
    <3>1. ~NeverDroppable
      BY <1>11, <2>1 DEF ReplacesFront, OrderInv, BlockingQueue
    <3>2. Len(mQueue) <= 1
      BY <3>1 DEF NeverMixed, OrderInv, AsyncQueue
    <3>3. Len(mQueue) \in Nat
      BY <1>1
    <3> QED BY <2>1, <3>2, <3>3 DEF Indices
  <2>3. Len(mQueue') = 1 /\ mQueue'[1] = item /\ Indices = {1} /\ Indices' = {1}
    <3>1. Len(mQueue') = Len(mQueue) /\ mQueue'[1] = item
      BY <1>1, <2>1 DEF Indices
    <3> QED BY <2>2, <3>1 DEF Indices
  <2>4. NoneBehind'
    BY <1>3, <1>6, <2>3 DEF NoneBehind
  <2>5. QueuedSlotsHaveItems'
    <3>1. Tracked(1)'
      BY <1>3, <2>3 DEF Tracked, stillTracking
    <3>2. ASSUME NEW t \in Slots, mSlots'[t].mBufferState = "QUEUED" PROVE t = s
      <4> SUFFICES ASSUME t # s PROVE FALSE
        OBVIOUS
      <4>1. mSlots'[t] = mSlots[t] /\ ~FrontFreed(t)
        BY <1>6, <3>2
      <4>2. PICK i \in Indices : mQueue[i].mSlot = t /\ Tracked(i)
        BY <3>2, <4>1 DEF HoldersInv, SlotsHaveHolders, QueuedSlotsHaveItems, SlotsIn, Indices
      <4> QED BY <1>11, <2>3, <4>1, <4>2 DEF FrontFreed
    <3> QED BY <1>3, <2>3, <3>1, <3>2 DEF QueuedSlotsHaveItems, SlotsIn, Indices
  <2> QED BY <1>7, <1>8, <1>9, <2>4, <2>5 DEF HoldersInv, SlotsHaveHolders
<1> QED BY <1>10, <1>11

(* The consumer gets a handle for the slot that becomes ACQUIRED; items    *)
(* that are left are of other slots.                                       *)
LEMMA AcquireKeepsHolders ==
  ASSUME TypeOK, OwnersInv, HoldersInv, acquireBuffer
  PROVE  HoldersInv'
<1>1. /\ UNCHANGED <<mIsAbandoned, held>> /\ \A q \in Producers : Stays(q)
      /\ mQueue \in Seq(BufferItem)
      /\ \A i \in Indices : mQueue[i].mSlot \in Slots
  BY AcquireFacts, TypeFacts, ConsumerMovesNobody DEF ConsumerStep
<1>2. PICK n \in 0 .. Len(mQueue) - 1 : Acquires(n)
  BY AcquireFacts
<1>3. /\ n + 1 \in Indices /\ 1 .. n \subseteq Indices
      /\ \A i \in Indices' : n + 1 + i \in Indices /\ mQueue'[i] = mQueue[n + 1 + i]
      /\ \A i \in Indices : i > n + 1 => i - (n + 1) \in Indices'
      /\ \A i, j \in Indices' : i < j => n + 1 + i < n + 1 + j
      /\ \A i \in Indices' : n + 1 < n + 1 + i
  BY <1>1, <1>2 DEF Acquires, Indices
<1>4. \A i \in Indices : Tracked(i) =>
        /\ mSlots[mQueue[i].mSlot].mBufferState = "QUEUED"
        /\ mSlots[mQueue[i].mSlot].mFrameNumber = mQueue[i].mFrameNumber
  BY DEF OwnersInv, TrackedItemsAreQueued, Indices
<1>5. \A t \in Slots :
        \/ mSlots'[t] = mSlots[t] /\ ~TakenFrom(n, t) /\ ~DroppedFrom(n, t)
        \/ TakenFrom(n, t) /\ mSlots'[t].mBufferState = "ACQUIRED"
        \/ mSlots'[t].mBufferState = "FREE"
  BY <1>2 DEF Acquires
<1>6. \A t \in Slots : /\ mSlots'[t].mGraphicBuffer = mSlots[t].mGraphicBuffer
                       /\ mSlots'[t].mFrameNumber = mSlots[t].mFrameNumber
  BY <1>2 DEF Acquires
<1>7. ASSUME NEW i \in Indices' PROVE Tracked(i)' <=> Tracked(n + 1 + i)
  <2>1. PICK j \in Indices : j = n + 1 + i /\ mQueue'[i] = mQueue[j]
    BY <1>3
  <2>2. PICK t \in Slots : t = mQueue[j].mSlot
    BY <1>1
  <2> QED BY <1>6, <2>1, <2>2 DEF Tracked, stillTracking
<1>8. NoneBehind'
  <2>1. ASSUME NEW i \in Indices', mSlots'[mQueue'[i].mSlot].mBufferState = "ACQUIRED"
        PROVE  FALSE
    <3>1. PICK j \in Indices : j = n + 1 + i /\ mQueue'[i] = mQueue[j] /\ n + 1 < j
      BY <1>3
    <3>2. PICK t \in Slots : t = mQueue[j].mSlot
      BY <1>1
    <3>3. mSlots[t].mBufferState # "ACQUIRED"
      BY <3>1, <3>2 DEF HoldersInv, NoneBehind
    <3>4. TakenFrom(n, t)
      BY <1>5, <2>1, <3>1, <3>2, <3>3
    <3> QED BY <1>3, <3>1, <3>2, <3>4 DEF TakenFrom, HoldersInv, NoneBehind
  <2>2. ASSUME NEW i \in Indices', NEW j \in Indices', Tracked(i)', i < j
        PROVE  mQueue'[j].mSlot # mQueue'[i].mSlot
    <3>1. /\ Tracked(n + 1 + i) /\ n + 1 + i < n + 1 + j
          /\ n + 1 + i \in Indices /\ n + 1 + j \in Indices
          /\ mQueue'[i] = mQueue[n + 1 + i] /\ mQueue'[j] = mQueue[n + 1 + j]
      BY <1>3, <1>7, <2>2
    <3> QED BY <3>1 DEF HoldersInv, NoneBehind
  <2> QED BY <2>1, <2>2 DEF NoneBehind
<1>9. AbandonedHasNone'
  BY <1>1, <1>5 DEF HoldersInv, AbandonedHasNone, SlotsIn
<1>10. QueuedSlotsHaveItems'
  <2> SUFFICES ASSUME NEW t \in Slots, mSlots'[t].mBufferState = "QUEUED"
               PROVE  \E i \in Indices' : mQueue'[i].mSlot = t /\ Tracked(i)'
    BY DEF QueuedSlotsHaveItems, SlotsIn, Indices
  <2>1. mSlots'[t] = mSlots[t] /\ ~TakenFrom(n, t) /\ ~DroppedFrom(n, t)
    BY <1>5
  <2>2. PICK j \in Indices : mQueue[j].mSlot = t /\ Tracked(j)
    BY <2>1 DEF HoldersInv, SlotsHaveHolders, QueuedSlotsHaveItems, SlotsIn, Indices
  <2>3. j \notin 1 .. n /\ j # n + 1
    BY <2>1, <2>2 DEF TakenFrom, DroppedFrom
  <2>4. j > n + 1 /\ j \in Int
    BY <1>1, <2>3 DEF Indices
  <2>5. PICK i \in Indices' : i = j - (n + 1)
    BY <1>3, <2>4
  <2>6. n + 1 + i = j
    BY <2>4, <2>5
  <2> QED BY <1>3, <1>7, <2>2, <2>5, <2>6
<1>11. AcquiredSlotsHaveHandles'
  <2> SUFFICES ASSUME NEW t \in Slots, mSlots'[t].mBufferState = "ACQUIRED"
               PROVE  \E g \in acquired' : /\ g.slot = t
                                           /\ g.frame = mSlots'[t].mFrameNumber
                                           /\ g.buffer = mSlots'[t].mGraphicBuffer
    BY DEF AcquiredSlotsHaveHandles, SlotsIn
  <2>1. CASE TakenFrom(n, t)
    <3>1. PICK g : g = [slot |-> mQueue[n + 1].mSlot,
                        frame |-> mQueue[n + 1].mFrameNumber,
                        buffer |-> mQueue[n + 1].mGraphicBuffer]
      OBVIOUS
    <3>2. g \in acquired'
      BY <1>2, <3>1 DEF Acquires
    <3>3. g.slot = t /\ g.frame = mSlots[t].mFrameNumber
      BY <1>3, <1>4, <2>1, <3>1 DEF TakenFrom
    <3>4. g.buffer = mSlots[t].mGraphicBuffer
      BY <2>1, <3>1 DEF TakenFrom, Tracked, stillTracking
    <3> QED BY <1>6, <3>2, <3>3, <3>4
  <2>2. CASE mSlots'[t] = mSlots[t]
    <3>1. acquired \subseteq acquired'
      BY <1>2 DEF Acquires
    <3> QED BY <2>2, <3>1 DEF HoldersInv, SlotsHaveHolders, AcquiredSlotsHaveHandles, SlotsIn
  <2> QED BY <1>5, <2>1, <2>2
<1>12. DequeuedSlotsHaveOwners'
  <2>1. ASSUME NEW t \in Slots, mSlots'[t].mBufferState = "DEQUEUED"
        PROVE  t \in held' \/ \E q \in Producers : InFlight(q, t)'
    <3>1. mSlots[t].mBufferState = "DEQUEUED"
      BY <1>5, <2>1
    <3>2. t \in held \/ \E q \in Producers : InFlight(q, t)
      BY <3>1 DEF HoldersInv, SlotsHaveHolders, DequeuedSlotsHaveOwners, SlotsIn
    <3> QED BY <1>1, <3>2, StaysInFlight
  <2> QED BY <2>1 DEF DequeuedSlotsHaveOwners, SlotsIn
<1> QED BY <1>8, <1>9, <1>10, <1>11, <1>12 DEF HoldersInv, SlotsHaveHolders

(* The consumer disconnects: all slots become FREE.                        *)
LEMMA LeaveKeepsHolders ==
  ASSUME TypeOK, HoldersInv, consumerDisconnect
  PROVE  HoldersInv'
<1>1. mQueue' = << >> /\ \A s \in Slots : mSlots'[s].mBufferState = "FREE"
  BY FreeAllFacts DEF consumerDisconnect
<1>2. Indices' = {}
  BY <1>1 DEF Indices
<1> QED BY <1>1, <1>2 DEF HoldersInv, NoneBehind, AbandonedHasNone, SlotsHaveHolders,
           QueuedSlotsHaveItems, AcquiredSlotsHaveHandles, DequeuedSlotsHaveOwners, SlotsIn

(* The other steps neither take nor give a slot.                           *)
LEMMA OthersKeepHolders ==
  ASSUME TypeOK, HoldersInv,
         \/ \E p \in Producers :
              /\ ProducerStep(p)
              /\ \/ queueBufferCallback(p) \/ connect(p) \/ allocateBuffers(p)
                 \/ allocateBuffersFailed(p) \/ buffersReleasedCallback(p)
         \/ consumerConnect \/ setDefaultMaxBufferCount \/ setMaxAcquiredBufferCount
         \/ disableAsyncBuffer \/ setDefaultBufferSize
         \/ UNCHANGED vars
  PROVE  HoldersInv'
<1>1. UNCHANGED <<mQueue, acquired, mSlots, mIsAbandoned, held>>
  <2>1. ASSUME NEW p \in Producers,
               \/ queueBufferCallback(p) \/ connect(p) \/ allocateBuffers(p)
               \/ allocateBuffersFailed(p) \/ buffersReleasedCallback(p)
        PROVE  UNCHANGED <<mQueue, acquired, mSlots, mIsAbandoned, held>>
    BY <2>1 DEF queueBufferCallback, connect, allocateBuffers, AllocateBuffersTurn,
       allocateBuffersFailed, buffersReleasedCallback, coreVars, connectionVars, producerVars
  <2>2. CASE \/ consumerConnect \/ setDefaultMaxBufferCount \/ setMaxAcquiredBufferCount
             \/ disableAsyncBuffer \/ setDefaultBufferSize \/ UNCHANGED vars
    BY <2>2 DEF consumerConnect, setDefaultMaxBufferCount, setMaxAcquiredBufferCount,
       disableAsyncBuffer, setDefaultBufferSize, vars, coreVars, connectionVars,
       producerVars, clientVars
  <2> QED BY <2>1, <2>2
<1>2. ASSUME NEW s \in Slots, NEW q \in Producers, InFlight(q, s)
      PROVE  InFlight(q, s)'
  <2>1. ASSUME NEW p \in Producers, ProducerStep(p),
               \/ queueBufferCallback(p) \/ connect(p) \/ allocateBuffers(p)
               \/ allocateBuffersFailed(p) \/ buffersReleasedCallback(p)
        PROVE  InFlight(q, s)'
    <3>1. CASE q # p
      BY <1>2, <2>1, <3>1, EveryCallMoves, MovesOnly, StaysInFlight
    <3>2. CASE q = p
      BY <1>2, <2>1, <3>2 DEF queueBufferCallback, connect, allocateBuffers,
         allocateBuffersFailed, buffersReleasedCallback, InFlight, Idle
    <3> QED BY <3>1, <3>2
  <2>2. CASE \/ consumerConnect \/ setDefaultMaxBufferCount \/ setMaxAcquiredBufferCount
             \/ disableAsyncBuffer \/ setDefaultBufferSize
    <3>1. Stays(q)
      BY <2>2, ConsumerMovesNobody DEF ConsumerStep, ConsumerConfigure
    <3> QED BY <1>2, <3>1, StaysInFlight
  <2>3. CASE UNCHANGED vars
    <3>1. Stays(q)
      BY <2>3 DEF vars, producerVars, Stays
    <3> QED BY <1>2, <3>1, StaysInFlight
  <2> QED BY <2>1, <2>2, <2>3
<1>3. ASSUME NEW s \in Slots, mSlots[s].mBufferState = "DEQUEUED"
      PROVE  ~mIsAbandoned /\ (s \in held \/ \E q \in Producers : InFlight(q, s)')
  BY <1>2, <1>3 DEF HoldersInv, AbandonedHasNone, SlotsHaveHolders,
     DequeuedSlotsHaveOwners, SlotsIn
<1> QED BY <1>1, <1>3, StepKeepsHolders
-----------------------------------------------------------------------------
(* In the beginning all slots are FREE.                                    *)
LEMMA InitHolders == Init => HoldersInv
<1> SUFFICES ASSUME Init PROVE HoldersInv
  OBVIOUS
<1>1. (\A s \in Slots : mSlots[s].mBufferState = "FREE") /\ Indices = {}
  BY DEF Init, CoreInit, EmptySlot, Indices
<1> QED BY <1>1 DEF HoldersInv, NoneBehind, AbandonedHasNone, SlotsHaveHolders,
           QueuedSlotsHaveItems, AcquiredSlotsHaveHandles, DequeuedSlotsHaveOwners, SlotsIn

(* HoldersInv is inductive, given types, owners and the order of frames.   *)
LEMMA NextKeepsHolders ==
  ASSUME NeverMixed, ~ReattachQueued, ~AllocationFails, ~ConsumerAttaches,
         OrderInv, OrderInv', OwnersInv, HoldersInv, [Next]_vars
  PROVE  HoldersInv'
<1>1. TypeOK
  BY DEF OrderInv
<1>2. ASSUME NEW p \in Producers, ProducerStep(p)
      PROVE  HoldersInv'
  <2>1. CASE Retry(p) \/ dequeueBuffer(p) \/ attachBuffer(p)
    BY <1>1, <1>2, <2>1, AskingKeepsHolders
  <2>2. CASE dequeueBufferAllocated(p) \/ requestBuffer(p) \/ cancelRefused(p)
    BY <1>1, <1>2, <2>2, HandingKeepsHolders
  <2>3. CASE queueBuffer(p)
    BY <1>2, <2>3, QueueKeepsHolders
  <2>4. CASE cancelBuffer(p) \/ detachBuffer(p) \/ detachNextBuffer(p)
    BY <1>1, <1>2, <2>4, GivingKeepsHolders
  <2>5. CASE setBufferCount(p) \/ disconnect(p)
    BY <1>1, <1>2, <2>5, FreeingAllKeepsHolders
  <2>6. CASE allocateBuffersAllocated(p)
    BY <1>1, <1>2, <2>6, PreallocatedKeepsHolders
  <2>7. CASE \/ queueBufferCallback(p) \/ connect(p) \/ allocateBuffers(p)
             \/ allocateBuffersFailed(p) \/ buffersReleasedCallback(p)
    BY <1>1, <1>2, <2>7, OthersKeepHolders
  <2>8. ~dequeueBufferAllocationFailed(p)
    BY DEF dequeueBufferAllocationFailed
  <2> QED BY <1>2, <2>1, <2>2, <2>3, <2>4, <2>5, <2>6, <2>7, <2>8
          DEF ProducerStep, ProducerCall
<1>3. CASE ConsumerStep
  <2>1. CASE acquireBuffer
    BY <1>1, <2>1, AcquireKeepsHolders
  <2>2. ASSUME NEW h \in acquired, releaseBuffer(h) PROVE HoldersInv'
    BY <1>1, <1>3, <2>2, ReleaseKeepsHolders
  <2>3. CASE consumerDisconnect
    BY <1>1, <2>3, LeaveKeepsHolders
  <2>4. CASE \/ consumerConnect \/ setDefaultMaxBufferCount \/ setMaxAcquiredBufferCount
             \/ disableAsyncBuffer \/ setDefaultBufferSize
    BY <1>1, <2>4, OthersKeepHolders
  <2>5. ~attachAcquired /\ \A h \in acquired : ~detachAcquired(h)
    BY DEF attachAcquired, detachAcquired
  <2> QED BY <1>3, <2>1, <2>2, <2>3, <2>4, <2>5 DEF ConsumerStep, ConsumerConfigure
<1>4. CASE UNCHANGED vars
  BY <1>1, <1>4, OthersKeepHolders
<1> QED BY <1>2, <1>3, <1>4 DEF Next

(* No slot is ever lost: while the modes are not mixed, the allocator does *)
(* not fail and the consumer attaches nothing of its own, a slot that is   *)
(* queued has its item, one that is acquired a handle whose release will   *)
(* be accepted, one that is dequeued somebody who knows.                   *)
THEOREM SlotsAreNeverLost ==
  ASSUME NeverMixed, ~ConcurrentDisconnect, ~ReattachQueued, ~AllocationFails,
         ~ConsumerAttaches
  PROVE  Spec => []SlotsHaveHolders
<1>1. OrderInv /\ OrderInv' /\ OwnersInv /\ HoldersInv /\ [Next]_vars => HoldersInv'
  BY NextKeepsHolders
<1>2. HoldersInv => SlotsHaveHolders
  BY DEF HoldersInv
<1> QED BY <1>1, <1>2, InitHolders, OrderInvariant, OwnersInvariant, PTL DEF Spec
-----------------------------------------------------------------------------
(* HandsInv is inductive: no buffer comes into two hands.                  *)

(* A buffer nobody has.                                                    *)
Unused(b) == b \notin InSlots /\ b \notin InQueue /\ \A h \in acquired : h.buffer # b

(* A buffer the allocator returns is nowhere yet.                          *)
LEMMA FreshIsUnused ==
  ASSUME NEW size, NEW b \in Fresh(size)
  PROVE  Unused(b)
  BY DEF Fresh, Unused

(* Steps that leave the queue alone, and give the consumer nothing.        *)
LEMMA StepKeepsHands ==
  ASSUME TypeOK, OwnersInv, HandsInv, UNCHANGED <<mQueue, mFrameCounter>>,
         acquired' \subseteq acquired,
         \A s \in Slots :
           \/ mSlots'[s].mGraphicBuffer = NoBuffer
           \/ /\ mSlots'[s].mGraphicBuffer = mSlots[s].mGraphicBuffer
              /\ \/ /\ mSlots'[s].mBufferState = mSlots[s].mBufferState
                    /\ mSlots'[s].mFrameNumber = mSlots[s].mFrameNumber
                 \/ mSlots[s].mBufferState # "ACQUIRED"
                 \/ \A h \in acquired' : h.buffer # mSlots[s].mGraphicBuffer
           \/ Unused(mSlots'[s].mGraphicBuffer),
         \A s, t \in Slots : /\ s # t /\ Unused(mSlots'[s].mGraphicBuffer)
                             /\ mSlots'[s].mGraphicBuffer = mSlots'[t].mGraphicBuffer
                             => mSlots'[s].mGraphicBuffer = NoBuffer,
         \A q \in Producers : Rests(q) \/ (Asleep(q)' =>
                                \A h \in acquired : call'[q].req.buffer # h.buffer)
  PROVE  HandsInv'
<1>1. Indices' = Indices /\ \A i \in Indices : mQueue[i].mGraphicBuffer # NoBuffer
  BY DEF Indices, OwnersInv, ItemsDiffer
<1>2. SlotsDiffer'
  <2> SUFFICES ASSUME NEW s \in Slots, NEW t \in Slots, s # t,
                      mSlots'[s].mGraphicBuffer = mSlots'[t].mGraphicBuffer
               PROVE  mSlots'[s].mGraphicBuffer = NoBuffer
    BY DEF SlotsDiffer
  <2>1. CASE Unused(mSlots'[s].mGraphicBuffer)
    BY <2>1
  <2>2. CASE ~Unused(mSlots'[s].mGraphicBuffer)
    BY <2>2 DEF HandsInv, SlotsDiffer
  <2> QED BY <2>1, <2>2
<1>3. QueuedOnce'
  <2>1. ASSUME NEW i \in Indices, NEW s \in Slots,
               mSlots'[s].mGraphicBuffer = mQueue[i].mGraphicBuffer
        PROVE  mQueue[i].mSlot = s
    <3>1. mSlots'[s].mGraphicBuffer \in InQueue /\ mSlots'[s].mGraphicBuffer # NoBuffer
      BY <1>1, <2>1 DEF InQueue, Indices
    <3>2. mSlots'[s].mGraphicBuffer = mSlots[s].mGraphicBuffer
      BY <3>1 DEF Unused
    <3> QED BY <2>1, <3>2 DEF HandsInv, QueuedOnce
  <2> QED BY <1>1, <2>1 DEF HandsInv, QueuedOnce
<1>4. AcquiredOnce'
  <2> SUFFICES ASSUME NEW h \in acquired'
               PROVE  /\ \A s \in Slots : mSlots'[s].mGraphicBuffer = h.buffer =>
                           /\ s = h.slot /\ mSlots'[s].mBufferState = "ACQUIRED"
                           /\ mSlots'[s].mFrameNumber = h.frame
                      /\ \A p \in Producers : Asleep(p)' => call'[p].req.buffer # h.buffer
    BY <1>1 DEF HandsInv, AcquiredOnce
  <2>1. h \in acquired /\ h.buffer # NoBuffer
    BY DEF HandsInv, AcquiredOnce
  <2>2. ASSUME NEW s \in Slots, mSlots'[s].mGraphicBuffer = h.buffer
        PROVE  /\ s = h.slot /\ mSlots'[s].mBufferState = "ACQUIRED"
               /\ mSlots'[s].mFrameNumber = h.frame
    <3>1. ~Unused(mSlots'[s].mGraphicBuffer)
      BY <2>1, <2>2 DEF Unused
    <3>2. mSlots[s].mGraphicBuffer = h.buffer
      BY <2>1, <2>2, <3>1
    <3>3. /\ s = h.slot /\ mSlots[s].mBufferState = "ACQUIRED"
          /\ mSlots[s].mFrameNumber = h.frame
      BY <2>1, <3>2 DEF HandsInv, AcquiredOnce
    <3> QED BY <2>1, <2>2, <3>1, <3>2, <3>3
  <2>3. ASSUME NEW p \in Producers, Asleep(p)' PROVE call'[p].req.buffer # h.buffer
    <3>1. CASE Rests(p)
      BY <2>1, <2>3, <3>1, RestFacts DEF HandsInv, AcquiredOnce
    <3>2. CASE ~Rests(p)
      BY <2>1, <2>3, <3>2
    <3> QED BY <3>1, <3>2
  <2> QED BY <2>2, <2>3
<1> QED BY <1>2, <1>3, <1>4 DEF HandsInv

(* A thread that finds a slot leaves it as it was, empty, or with the      *)
(* buffer it attaches, which nobody has.                                   *)
LEMMA AskingKeepsHands ==
  ASSUME TypeOK, OwnersInv, HandsInv, ~ReattachQueued, NEW p \in Producers,
         ProducerStep(p), Retry(p) \/ dequeueBuffer(p) \/ attachBuffer(p)
  PROVE  HandsInv'
<1>1. PICK req : /\ waitForFreeSlotThenRelock(p, req)
                 /\ req \in Request
                 /\ \A h \in acquired : req.buffer # h.buffer
                 /\ req.kind = "attach" => /\ Unused(req.buffer)
                                           /\ req.buffer \in Buffers
  <2>1. CASE Retry(p)
    <3>1. PICK req : req = call[p].req
      OBVIOUS
    <3>2. Asleep(p) /\ req \in Request /\ waitForFreeSlotThenRelock(p, req)
      BY <2>1, <3>1, TypeFacts DEF Retry, Asleep
    <3>3. /\ \A h \in acquired : req.buffer # h.buffer
          /\ req.kind = "attach" => req.buffer \in Buffers \ (InSlots \cup InQueue)
      BY <3>1, <3>2 DEF HandsInv, AcquiredOnce, OwnersInv, ThreadsOwn, WaitsApart
    <3> QED BY <3>2, <3>3 DEF Unused
  <2>2. CASE dequeueBuffer(p)
    <3>1. PICK req : /\ req.kind = "dequeue" /\ req.buffer = NoBuffer /\ req \in Request
                     /\ waitForFreeSlotThenRelock(p, req)
      BY <2>2, ProducerAssumption DEF dequeueBuffer, Request
    <3> QED BY <3>1 DEF HandsInv, AcquiredOnce
  <2>3. CASE attachBuffer(p)
    <3>1. PICK b \in Buffers \ (InSlots \cup InQueue) :
            /\ \A h \in acquired : h.buffer # b
            /\ waitForFreeSlotThenRelock(p,
                 [kind |-> "attach", async |-> FALSE, size |-> SizeOf[b],
                  buffer |-> b, released |-> FALSE])
      BY <2>3 DEF attachBuffer
    <3>2. PICK req : req = [kind |-> "attach", async |-> FALSE, size |-> SizeOf[b],
                            buffer |-> b, released |-> FALSE]
      OBVIOUS
    <3>3. req \in Request /\ req.buffer = b /\ waitForFreeSlotThenRelock(p, req)
      BY <3>1, <3>2, CoreAssumption DEF Request
    <3> QED BY <3>1, <3>3 DEF Unused
  <2> QED BY <2>1, <2>2, <2>3
<1>2. PICK slots, released :
        /\ slots = TrimmedSlots(getMaxBufferCountLocked(req.async))
        /\ released = (req.released \/ BeyondMax(getMaxBufferCountLocked(req.async)) # {})
  OBVIOUS
<1>3. /\ slots \in [Slots -> BufferSlot]
      /\ \A s \in Slots :
           \/ slots[s] = mSlots[s]
           \/ /\ slots[s].mBufferState = "FREE" /\ slots[s].mGraphicBuffer = NoBuffer
              /\ mSlots[s].mBufferState \in {"FREE", "ACQUIRED"}
  BY <1>2, TrimmedFacts DEF TypeOK
<1>4. UNCHANGED <<mQueue, acquired, mFrameCounter>> /\ acquired' \subseteq acquired
  BY <1>1 DEF waitForFreeSlotThenRelock
<1>5. ASSUME mSlots' \in {mSlots, slots},
             \A q \in Producers : Rests(q) \/ (Asleep(q)' =>
                                \A h \in acquired : call'[q].req.buffer # h.buffer)
      PROVE  HandsInv'
  <2>1. \A s \in Slots : \/ mSlots'[s] = mSlots[s]
                         \/ mSlots'[s].mGraphicBuffer = NoBuffer
    BY <1>3, <1>5
  <2>2. \A s \in Slots : Unused(mSlots'[s].mGraphicBuffer) =>
                           mSlots'[s].mGraphicBuffer = NoBuffer
    BY <2>1 DEF Unused, InSlots
  <2> QED BY <1>4, <1>5, <2>1, <2>2, StepKeepsHands
<1>6. CASE mSlots' \in {mSlots, slots} /\ Return(p)
  <2>1. \A q \in Producers : Rests(q)
    BY <1>6, CallRests
  <2> QED BY <1>5, <1>6, <2>1
<1>7. CASE /\ mSlots' = slots
           /\ call' = [call EXCEPT ![p] = [op |-> "waiting",
                         req |-> [req EXCEPT !.released = released]]]
  <2>1. PICK c : c = [op |-> "waiting", req |-> [req EXCEPT !.released = released]]
    OBVIOUS
  <2>2. c.op = "waiting" /\ c.req.buffer = req.buffer
    BY <1>1, <2>1 DEF Request
  <2>3. call'[p] = c /\ \A q \in Producers \ {p} : Rests(q)
    BY <1>7, <2>1, CallRests
  <2>4. \A h \in acquired : call'[p].req.buffer # h.buffer
    BY <1>1, <2>2, <2>3
  <2> QED BY <1>5, <1>7, <2>3, <2>4
<1>8. ASSUME NEW s \in Slots, DequeueFound(p, req, slots, s, released),
             slots[s].mBufferState = "FREE"
      PROVE  HandsInv'
  <2>1. Finds(p, slots, s, released)
    BY <1>3, <1>8, FoundFacts
  <2>2. \A t \in Slots :
          \/ mSlots'[t].mGraphicBuffer = NoBuffer
          \/ /\ mSlots'[t].mGraphicBuffer = mSlots[t].mGraphicBuffer
             /\ mSlots'[t] = mSlots[t] \/ mSlots[t].mBufferState # "ACQUIRED"
    BY <1>3, <1>8, <2>1 DEF Finds
  <2>3. \A t \in Slots : Unused(mSlots'[t].mGraphicBuffer) =>
                           mSlots'[t].mGraphicBuffer = NoBuffer
    BY <2>2 DEF Unused, InSlots
  <2>4. \A q \in Producers : Rests(q) \/ ~Asleep(q)'
    BY <2>1 DEF Finds, Asleep
  <2> QED BY <1>4, <2>2, <2>3, <2>4, StepKeepsHands
<1>9. ASSUME NEW s \in Slots, AttachFound(p, req, slots, s, released), req.kind = "attach"
      PROVE  HandsInv'
  <2>1. /\ mSlots'[s].mGraphicBuffer = req.buffer
        /\ \A t \in Slots \ {s} : mSlots'[t] = slots[t]
    BY <1>3, <1>9 DEF AttachFound, BufferSlot
  <2>2. \A t \in Slots \ {s} : \/ mSlots'[t] = mSlots[t]
                               \/ mSlots'[t].mGraphicBuffer = NoBuffer
    BY <1>3, <2>1
  <2>3. \A t \in Slots \ {s} : \/ mSlots'[t].mGraphicBuffer \in InSlots
                               \/ mSlots'[t].mGraphicBuffer = NoBuffer
    BY <2>2 DEF InSlots
  <2>4. Unused(req.buffer) /\ req.buffer \notin InSlots /\ req.buffer # NoBuffer
    BY <1>1, <1>9, CoreAssumption DEF Unused
  <2>5. \A t, u \in Slots : /\ t # u /\ Unused(mSlots'[t].mGraphicBuffer)
                            /\ mSlots'[t].mGraphicBuffer = mSlots'[u].mGraphicBuffer
                            => mSlots'[t].mGraphicBuffer = NoBuffer
    BY <2>1, <2>3, <2>4 DEF Unused
  <2>6. \A q \in Producers : Rests(q)
    BY <1>9, CallRests DEF AttachFound
  <2> QED BY <1>4, <2>1, <2>2, <2>4, <2>5, <2>6, StepKeepsHands
<1>10. ASSUME NEW s \in Slots, IsOldest(slots, s, Below(getMaxBufferCountLocked(req.async), "FREE"))
       PROVE  slots[s].mBufferState = "FREE"
  BY <1>2, <1>10 DEF IsOldest, Below, SlotsIn
<1> QED BY <1>1, <1>2, <1>6, <1>7, <1>8, <1>9, <1>10 DEF waitForFreeSlotThenRelock

(* Steps that bring no new buffer.                                         *)
LEMMA OldKeepsHands ==
  ASSUME TypeOK, OwnersInv, HandsInv, UNCHANGED <<mQueue, mFrameCounter>>,
         acquired' \subseteq acquired, \A q \in Producers : Rests(q),
         \A s \in Slots :
           \/ mSlots'[s].mGraphicBuffer = NoBuffer
           \/ /\ mSlots'[s].mGraphicBuffer = mSlots[s].mGraphicBuffer
              /\ \/ /\ mSlots'[s].mBufferState = mSlots[s].mBufferState
                    /\ mSlots'[s].mFrameNumber = mSlots[s].mFrameNumber
                 \/ mSlots[s].mBufferState # "ACQUIRED"
                 \/ \A h \in acquired' : h.buffer # mSlots[s].mGraphicBuffer
  PROVE  HandsInv'
<1>1. \A s \in Slots : Unused(mSlots'[s].mGraphicBuffer) =>
                         mSlots'[s].mGraphicBuffer = NoBuffer
  BY DEF Unused, InSlots
<1> QED BY <1>1, StepKeepsHands

(* A new buffer is in one slot.                                            *)
LEMMA AllocatedKeepsHands ==
  ASSUME TypeOK, OwnersInv, HandsInv, NEW p \in Producers, dequeueBufferAllocated(p)
  PROVE  HandsInv'
<1>1. UNCHANGED <<mQueue, mFrameCounter, acquired>> /\ call[p].op = "allocating"
      /\ acquired' \subseteq acquired
  BY DEF dequeueBufferAllocated
<1>2. CASE mIsAbandoned
  <2>1. Return(p) /\ UNCHANGED mSlots
    BY <1>2 DEF dequeueBufferAllocated
  <2>2. \A q \in Producers : Rests(q)
    BY <2>1, CallRests
  <2> QED BY <1>1, <2>1, <2>2, OldKeepsHands
<1>3. CASE ~mIsAbandoned
  <2>1. PICK s, c : /\ s = call[p].slot
                    /\ c = [op |-> "returned", slot |-> s, released |-> call[p].released,
                            realloc |-> TRUE]
    OBVIOUS
  <2>2. PICK b \in Fresh(call[p].size) :
          /\ call' = [call EXCEPT ![p] = c]
          /\ mSlots' = [mSlots EXCEPT ![s] = [@ EXCEPT !.mFrameNumber = UINT32_MAX,
                                                       !.mGraphicBuffer = b]]
    BY <1>3, <2>1 DEF dequeueBufferAllocated
  <2>3. s \in Slots
    BY <1>1, <2>1, TypeFacts DEF InHand
  <2>4. /\ mSlots'[s].mGraphicBuffer = b
        /\ \A t \in Slots \ {s} : mSlots'[t] = mSlots[t]
    BY <2>2, <2>3, TypeFacts DEF BufferSlot
  <2>5. Unused(b)
    BY FreshIsUnused
  <2>6. \A t \in Slots : mSlots[t].mGraphicBuffer # b /\ ~Unused(mSlots[t].mGraphicBuffer)
    BY <2>5 DEF Unused, InSlots
  <2>7. call'[p] = c /\ c.op = "returned" /\ \A q \in Producers \ {p} : Rests(q)
    BY <2>1, <2>2, CallRests
  <2>8. \A q \in Producers : Rests(q) \/ ~Asleep(q)'
    BY <2>7 DEF Asleep
  <2> QED BY <1>1, <2>4, <2>5, <2>6, <2>8, StepKeepsHands
<1> QED BY <1>2, <1>3

(* Surface's end of dequeueBuffer, and what it gives back.                 *)
LEMMA GivingKeepsHands ==
  ASSUME TypeOK, OwnersInv, HandsInv, NEW p \in Producers,
         \/ requestBuffer(p) \/ cancelRefused(p)
         \/ cancelBuffer(p) \/ detachBuffer(p) \/ detachNextBuffer(p)
  PROVE  HandsInv'
<1>1. UNCHANGED <<mQueue, mFrameCounter, acquired>> /\ acquired' \subseteq acquired
  BY DEF requestBuffer, cancelRefused, cancelBuffer, detachBuffer, detachNextBuffer
<1>2. ASSUME NEW s \in Slots,
             \/ mSlots' = [mSlots EXCEPT ![s].mRequestBufferCalled = TRUE]
             \/ mSlots' = CancelledSlot(s) /\ mSlots[s].mBufferState = "DEQUEUED"
             \/ mSlots' = freeBufferLocked(mSlots, s)
             \/ UNCHANGED mSlots,
             \A q \in Producers : Rests(q)
      PROVE  HandsInv'
  <2>1. CASE mSlots' = [mSlots EXCEPT ![s].mRequestBufferCalled = TRUE]
    <3>1. \A t \in Slots : /\ mSlots'[t].mGraphicBuffer = mSlots[t].mGraphicBuffer
                           /\ mSlots'[t].mBufferState = mSlots[t].mBufferState
                           /\ mSlots'[t].mFrameNumber = mSlots[t].mFrameNumber
      BY <2>1, TypeFacts DEF BufferSlot
    <3> QED BY <1>1, <1>2, <3>1, OldKeepsHands
  <2>2. CASE mSlots' = CancelledSlot(s) /\ mSlots[s].mBufferState = "DEQUEUED"
    <3>1. /\ mSlots'[s].mGraphicBuffer = mSlots[s].mGraphicBuffer
          /\ \A t \in Slots \ {s} : mSlots'[t] = mSlots[t]
      BY <2>2, TypeFacts DEF CancelledSlot, BufferSlot
    <3> QED BY <1>1, <1>2, <2>2, <3>1, OldKeepsHands
  <2>3. CASE mSlots' = freeBufferLocked(mSlots, s)
    <3>1. /\ mSlots'[s].mGraphicBuffer = NoBuffer
          /\ \A t \in Slots \ {s} : mSlots'[t] = mSlots[t]
      BY <2>3, TypeFacts DEF freeBufferLocked, FreedSlot, BufferSlot
    <3> QED BY <1>1, <1>2, <3>1, OldKeepsHands
  <2>4. CASE UNCHANGED mSlots
    BY <1>1, <1>2, <2>4, OldKeepsHands
  <2> QED BY <1>2, <2>1, <2>2, <2>3, <2>4
<1>3. CASE requestBuffer(p)
  <2>1. PICK s \in Slots : s = call[p].slot
    BY <1>3, TypeFacts DEF requestBuffer, InHand
  <2>2. CASE Return(p)
    <3>1. mSlots' = [mSlots EXCEPT ![s].mRequestBufferCalled = TRUE] \/ UNCHANGED mSlots
      BY <1>3, <2>1 DEF requestBuffer
    <3> QED BY <1>2, <2>2, <3>1, CallRests
  <2>3. CASE ~Return(p)
    <3>1. /\ call' = [call EXCEPT ![p] = [op |-> "refused", slot |-> s]]
          /\ UNCHANGED mSlots
      BY <1>3, <2>1, <2>3 DEF requestBuffer
    <3>2. PICK c : c = [op |-> "refused", slot |-> s]
      OBVIOUS
    <3>3. call'[p] = c /\ c.op = "refused" /\ \A q \in Producers \ {p} : Rests(q)
      BY <3>1, <3>2, CallRests
    <3>4. \A q \in Producers : Rests(q) \/ ~Asleep(q)'
      BY <3>3 DEF Asleep
    <3>5. \A t \in Slots : ~Unused(mSlots'[t].mGraphicBuffer)
      BY <3>1 DEF Unused, InSlots
    <3> QED BY <1>1, <3>1, <3>4, <3>5, StepKeepsHands
  <2> QED BY <2>2, <2>3
<1>4. CASE cancelRefused(p)
  <2>1. mIsAbandoned
    BY <1>4 DEF cancelRefused, OwnersInv, ThreadsOwn, ThreadOwns
  <2>2. UNCHANGED mSlots /\ Return(p)
    BY <1>4, <2>1 DEF cancelRefused
  <2>3. \A q \in Producers : Rests(q)
    BY <2>2, CallRests
  <2> QED BY <1>1, <2>2, <2>3, OldKeepsHands
<1>5. CASE cancelBuffer(p)
  <2>1. PICK s \in Slots : mSlots' = CancelledSlot(s) /\ mSlots[s].mBufferState = "DEQUEUED"
    BY <1>5 DEF cancelBuffer, CanGiveBack
  <2>2. \A q \in Producers : Rests(q)
    BY <1>5, CallRests DEF cancelBuffer
  <2> QED BY <1>2, <2>1, <2>2
<1>6. CASE detachBuffer(p)
  <2>1. PICK s \in Slots : mSlots' = freeBufferLocked(mSlots, s)
    BY <1>6 DEF detachBuffer
  <2>2. \A q \in Producers : Rests(q)
    BY <1>6, CallRests DEF detachBuffer
  <2> QED BY <1>2, <2>1, <2>2
<1>7. CASE detachNextBuffer(p)
  <2>1. PICK s \in Slots : mSlots' = freeBufferLocked(mSlots, s)
    BY <1>7 DEF detachNextBuffer
  <2>2. \A q \in Producers : Rests(q)
    BY <1>7, CallRests DEF detachNextBuffer
  <2> QED BY <1>2, <2>1, <2>2
<1> QED BY <1>3, <1>4, <1>5, <1>6, <1>7

(* setBufferCount and disconnect leave the slots without buffers.          *)
LEMMA FreeingAllKeepsHands ==
  ASSUME TypeOK, OwnersInv, HandsInv, NEW p \in Producers,
         setBufferCount(p) \/ disconnect(p)
  PROVE  HandsInv'
<1>1. UNCHANGED <<mQueue, mFrameCounter, acquired>> /\ acquired' \subseteq acquired
  BY DEF setBufferCount, disconnect
<1>2. PICK c : c = IF mConsumerListener THEN [op |-> "buffersReleased"] ELSE Idle
  OBVIOUS
<1>3. c.op \in EndOps
  BY <1>2 DEF Idle, EndOps
<1>4. BroadcastAndReturn(p) \/ call' = [Broadcast(call) EXCEPT ![p] = c]
  BY <1>2 DEF setBufferCount, disconnect
<1>5. \A q \in Producers : Rests(q)
  BY <1>3, <1>4, CallRests, EndRests
<1>6. UNCHANGED mSlots \/ freeAllBuffersLocked
  BY DEF setBufferCount, disconnect
<1>7. \A s \in Slots : mSlots'[s].mGraphicBuffer = NoBuffer \/ mSlots'[s] = mSlots[s]
  BY <1>6, FreeAllFacts
<1> QED BY <1>1, <1>5, <1>7, OldKeepsHands

(* allocateBuffers fills FREE slots with different fresh buffers.          *)
LEMMA PreallocatedKeepsHands ==
  ASSUME TypeOK, OwnersInv, HandsInv, NEW p \in Producers, allocateBuffersAllocated(p)
  PROVE  HandsInv'
<1>1. UNCHANGED <<mQueue, mFrameCounter, acquired>> /\ acquired' \subseteq acquired
  BY DEF allocateBuffersAllocated
<1>2. PICK c : c = [op |-> "allocateBuffers", async |-> call[p].async]
  OBVIOUS
<1>3. \A q \in Producers : Rests(q)
  <2>1. c.op \in EndOps /\ call' = [call EXCEPT ![p] = c]
    BY <1>2 DEF allocateBuffersAllocated, EndOps
  <2> QED BY <2>1, EndRests
<1>4. CASE UNCHANGED mSlots
  BY <1>1, <1>3, <1>4, OldKeepsHands
<1>5. CASE ~UNCHANGED mSlots
  <2>1. PICK fill : fill = call[p].slots \cap SlotsIn(mSlots, {"FREE"})
    OBVIOUS
  <2>2. PICK new \in [fill -> Fresh(call[p].size)] :
          /\ \A s, t \in fill : new[s] = new[t] => s = t
          /\ mSlots' = [s \in Slots |->
                          IF s \in fill
                          THEN [FreedSlot(mSlots[s]) EXCEPT !.mGraphicBuffer = new[s],
                                                            !.mFrameNumber = 0]
                          ELSE mSlots[s]]
    BY <1>5, <2>1 DEF allocateBuffersAllocated
  <2>3. ASSUME NEW s \in fill PROVE mSlots'[s].mGraphicBuffer = new[s] /\ s \in Slots
    <3>1. PICK slot : slot = FreedSlot(mSlots[s])
      OBVIOUS
    <3>2. s \in Slots
      BY <2>1 DEF SlotsIn
    <3>3. slot \in BufferSlot
      BY <3>1, <3>2, TypeFacts, FreedSlotType
    <3>4. mSlots'[s] = [slot EXCEPT !.mGraphicBuffer = new[s], !.mFrameNumber = 0]
      BY <2>2, <3>1, <3>2
    <3> QED BY <3>2, <3>3, <3>4 DEF BufferSlot
  <2>4. \A s \in Slots \ fill : mSlots'[s] = mSlots[s]
    BY <2>2
  <2>5. \A s \in fill : Unused(mSlots'[s].mGraphicBuffer)
    <3> SUFFICES ASSUME NEW s \in fill PROVE Unused(mSlots'[s].mGraphicBuffer)
      OBVIOUS
    <3>1. new[s] \in Fresh(call[p].size)
      OBVIOUS
    <3> QED BY <2>3, <3>1, FreshIsUnused
  <2>6. \A s \in Slots \ fill : ~Unused(mSlots'[s].mGraphicBuffer)
    BY <2>4 DEF Unused, InSlots
  <2>7. \A s, t \in Slots : /\ s # t /\ Unused(mSlots'[s].mGraphicBuffer)
                            /\ mSlots'[s].mGraphicBuffer = mSlots'[t].mGraphicBuffer
                            => mSlots'[s].mGraphicBuffer = NoBuffer
    <3> SUFFICES ASSUME NEW s \in Slots, NEW t \in Slots, s # t,
                        Unused(mSlots'[s].mGraphicBuffer),
                        mSlots'[s].mGraphicBuffer = mSlots'[t].mGraphicBuffer
                 PROVE  FALSE
      OBVIOUS
    <3>1. s \in fill /\ t \in fill
      BY <2>6
    <3> QED BY <2>2, <2>3, <3>1
  <2>8. \A s \in Slots : mSlots'[s] = mSlots[s] \/ Unused(mSlots'[s].mGraphicBuffer)
    BY <2>4, <2>5
  <2> QED BY <1>1, <1>3, <2>7, <2>8, StepKeepsHands
<1> QED BY <1>4, <1>5

(* A frame number is one handle's only: releasing it takes no slot from    *)
(* another one.                                                            *)
LEMMA ReleaseKeepsHands ==
  ASSUME TypeOK, OwnersInv, HandsInv, NEW h \in acquired, releaseBuffer(h)
  PROVE  HandsInv'
<1>1. UNCHANGED <<mQueue, mFrameCounter>> /\ acquired' = acquired \ {h}
  BY DEF releaseBuffer
<1>2. PICK s \in Slots : s = h.slot
  BY TypeFacts DEF Handle
<1>3. \A q \in Producers : Rests(q)
  BY CallRests DEF releaseBuffer, ReleaseSlot
<1>4. \/ mSlots[s].mFrameNumber = h.frame /\ mSlots' = [mSlots EXCEPT ![s].mBufferState = "FREE"]
      \/ mSlots' = [mSlots EXCEPT ![s].mNeedsCleanupOnRelease = FALSE]
      \/ mSlots' = mSlots
  BY <1>2 DEF releaseBuffer, ReleaseSlot, ReleaseAnswer
<1>5. \A t \in Slots :
        /\ mSlots'[t].mGraphicBuffer = mSlots[t].mGraphicBuffer
        /\ \/ /\ mSlots'[t].mBufferState = mSlots[t].mBufferState
              /\ mSlots'[t].mFrameNumber = mSlots[t].mFrameNumber
           \/ t = s /\ mSlots[s].mFrameNumber = h.frame
  BY <1>2, <1>4, TypeFacts DEF BufferSlot
<1>6. mSlots[s].mFrameNumber = h.frame =>
        \A g \in acquired' : g.buffer # mSlots[s].mGraphicBuffer
  BY <1>1 DEF HandsInv, AcquiredOnce
<1>7. acquired' \subseteq acquired
  BY <1>1
<1> QED BY <1>1, <1>3, <1>5, <1>6, <1>7, OldKeepsHands

(* The buffer of a DEQUEUED slot is in no item and in no handle, so the new*)
(* item is the only one that has it.                                       *)
LEMMA QueueKeepsHands ==
  ASSUME TypeOK, OwnersInv, HandsInv, NEW p \in Producers, queueBuffer(p)
  PROVE  HandsInv'
<1>1. /\ UNCHANGED acquired /\ mFrameCounter' = mFrameCounter + 1
      /\ \A q \in Producers : Rests(q)
      /\ mQueue \in Seq(BufferItem) /\ mFrameCounter \in Nat /\ held \subseteq Slots
  BY QueueFactsOf, TypeFacts
<1>0. PICK s \in Slots : \E item : Puts(s, item)
  BY <1>1, QueueFactsOf
<1>2. PICK item : s \in Slots /\ Puts(s, item)
  BY <1>0
<1>3. PICK b : b = mSlots[s].mGraphicBuffer
  OBVIOUS
<1>4. b # NoBuffer
  BY <1>2, <1>3 DEF Puts, OwnersInv, RequestedSlotsHaveBuffers, SlotsIn
<1>5. \A i \in Indices : mQueue[i].mGraphicBuffer # b
  <2> SUFFICES ASSUME NEW i \in Indices, mQueue[i].mGraphicBuffer = b PROVE FALSE
    OBVIOUS
  <2>1. mQueue[i].mSlot = s
    BY <1>3 DEF HandsInv, QueuedOnce
  <2>2. Tracked(i)
    BY <1>3, <2>1 DEF Tracked, stillTracking
  <2>3. mSlots[s].mBufferState = "QUEUED"
    BY <2>1, <2>2 DEF OwnersInv, TrackedItemsAreQueued, Indices
  <2> QED BY <1>2, <2>3 DEF Puts
<1>6. \A h \in acquired : h.buffer # b
  BY <1>2, <1>3 DEF Puts, HandsInv, AcquiredOnce
<1>7. \A t \in Slots : mSlots'[t].mGraphicBuffer = mSlots[t].mGraphicBuffer
  BY <1>2 DEF Puts
<1>8. item.mSlot = s /\ item.mGraphicBuffer = b /\ item.mFrameNumber = mFrameCounter + 1
  BY <1>2, <1>3 DEF Puts
<1>9. \E k \in Indices' : /\ mQueue'[k] = item
                          /\ \A i \in Indices' \ {k} : i \in Indices /\ mQueue'[i] = mQueue[i]
  <2>1. CASE ReplacesFront
    <3>1. mQueue' = [mQueue EXCEPT ![1] = item] /\ 1 \in Indices
      BY <1>2, <2>1 DEF Puts
    <3>2. Len(mQueue') = Len(mQueue)
      BY <1>1, <3>1
    <3>3. 1 \in Indices' /\ mQueue'[1] = item
          /\ \A i \in Indices' \ {1} : i \in Indices /\ mQueue'[i] = mQueue[i]
      BY <1>1, <3>1, <3>2 DEF Indices
    <3> QED BY <3>3
  <2>2. CASE ~ReplacesFront
    <3>1. mQueue' = Append(mQueue, item)
      BY <1>2, <2>2 DEF Puts
    <3>2. PICK k : k = Len(mQueue) + 1
      OBVIOUS
    <3>3. k \in Indices' /\ mQueue'[k] = item
          /\ \A i \in Indices' \ {k} : i \in Indices /\ mQueue'[i] = mQueue[i]
      BY <1>1, <3>1, <3>2 DEF Indices
    <3> QED BY <3>3
  <2> QED BY <2>1, <2>2
<1>10. PICK k \in Indices' : /\ mQueue'[k] = item
                             /\ \A i \in Indices' \ {k} : i \in Indices /\ mQueue'[i] = mQueue[i]
  BY <1>9
<1>11. SlotsDiffer'
  BY <1>7 DEF HandsInv, SlotsDiffer
<1>12. QueuedOnce'
  <2>1. ASSUME NEW i \in Indices', NEW j \in Indices' \ {i}
        PROVE  mQueue'[j].mGraphicBuffer # mQueue'[i].mGraphicBuffer
    <3>1. CASE i = k
      BY <1>5, <1>8, <1>10, <3>1
    <3>2. CASE j = k
      BY <1>5, <1>8, <1>10, <3>2
    <3>3. CASE i # k /\ j # k
      BY <1>10, <3>3 DEF HandsInv, QueuedOnce
    <3> QED BY <3>1, <3>2, <3>3
  <2>2. ASSUME NEW i \in Indices', NEW t \in Slots,
               mSlots'[t].mGraphicBuffer = mQueue'[i].mGraphicBuffer
        PROVE  mQueue'[i].mSlot = t
    <3>1. CASE i = k
      BY <1>3, <1>4, <1>7, <1>8, <1>10, <2>2, <3>1 DEF HandsInv, SlotsDiffer
    <3>2. CASE i # k
      BY <1>7, <1>10, <2>2, <3>2 DEF HandsInv, QueuedOnce
    <3> QED BY <3>1, <3>2
  <2> QED BY <2>1, <2>2 DEF QueuedOnce
<1>13. AcquiredOnce'
  <2> SUFFICES ASSUME NEW h \in acquired
               PROVE  /\ h.buffer # NoBuffer /\ h.frame <= mFrameCounter'
                      /\ \A g \in acquired \ {h} : g.buffer # h.buffer /\ g.frame # h.frame
                      /\ \A i \in Indices' : /\ mQueue'[i].mGraphicBuffer # h.buffer
                                             /\ mQueue'[i].mFrameNumber # h.frame
                      /\ \A t \in Slots : mSlots'[t].mGraphicBuffer = h.buffer =>
                           /\ t = h.slot /\ mSlots'[t].mBufferState = "ACQUIRED"
                           /\ mSlots'[t].mFrameNumber = h.frame
                      /\ \A q \in Producers : Asleep(q)' => call'[q].req.buffer # h.buffer
    BY <1>1 DEF AcquiredOnce
  <2>1. h.frame \in Nat /\ h.frame <= mFrameCounter /\ h.buffer # NoBuffer
        /\ \A g \in acquired \ {h} : g.buffer # h.buffer /\ g.frame # h.frame
    BY TypeFacts DEF HandsInv, AcquiredOnce, Handle
  <2>2. h.frame <= mFrameCounter' /\ h.frame # mFrameCounter + 1
    BY <1>1, <2>1
  <2>3. ASSUME NEW i \in Indices'
        PROVE  mQueue'[i].mGraphicBuffer # h.buffer /\ mQueue'[i].mFrameNumber # h.frame
    <3>1. CASE i = k
      BY <1>6, <1>8, <1>10, <2>2, <3>1
    <3>2. CASE i # k
      BY <1>10, <3>2 DEF HandsInv, AcquiredOnce
    <3> QED BY <3>1, <3>2
  <2>4. ASSUME NEW t \in Slots, mSlots'[t].mGraphicBuffer = h.buffer
        PROVE  /\ t = h.slot /\ mSlots'[t].mBufferState = "ACQUIRED"
               /\ mSlots'[t].mFrameNumber = h.frame
    <3>1. /\ t = h.slot /\ mSlots[t].mBufferState = "ACQUIRED"
          /\ mSlots[t].mFrameNumber = h.frame
      BY <1>7, <2>4 DEF HandsInv, AcquiredOnce
    <3>2. t # s
      BY <1>2, <3>1 DEF Puts
    <3>3. ~FrontFreed(t)
      BY <1>2, <3>1 DEF FrontFreed, Puts, OwnersInv, TrackedItemsAreQueued, Indices
    <3> QED BY <1>2, <3>1, <3>2, <3>3 DEF Puts
  <2>5. \A q \in Producers : Asleep(q)' => call'[q].req.buffer # h.buffer
    BY <1>1, RestFacts DEF HandsInv, AcquiredOnce
  <2> QED BY <2>1, <2>2, <2>3, <2>4, <2>5
<1> QED BY <1>11, <1>12, <1>13 DEF HandsInv

(* The item that is taken passes its buffer, slot and frame to the handle. *)
LEMMA AcquireKeepsHands ==
  ASSUME TypeOK, OwnersInv, HandsInv, acquireBuffer
  PROVE  HandsInv'
<1>1. /\ UNCHANGED <<mFrameCounter, mIsAbandoned>> /\ \A q \in Producers : Rests(q)
      /\ mQueue \in Seq(BufferItem)
  BY AcquireFacts, TypeFacts
<1>2. PICK n \in 0 .. Len(mQueue) - 1 : Acquires(n)
  BY AcquireFacts
<1>3. /\ n + 1 \in Indices /\ 1 .. n \subseteq Indices
      /\ \A i \in Indices' : n + 1 + i \in Indices /\ mQueue'[i] = mQueue[n + 1 + i]
      /\ \A i, j \in Indices' : i # j => n + 1 + i # n + 1 + j
      /\ \A i \in Indices' : n + 1 + i # n + 1
  <2>1. /\ n + 1 \in Indices /\ 1 .. n \subseteq Indices
        /\ \A i \in Indices' : n + 1 + i \in Indices /\ mQueue'[i] = mQueue[n + 1 + i]
        /\ \A i, j \in Indices' : i # j => n + 1 + i # n + 1 + j
    BY <1>1, <1>2 DEF Acquires, Indices
  <2>2. \A i \in Indices' : i \in Int /\ i >= 1
    BY DEF Indices
  <2>3. \A i \in Indices' : n + 1 + i # n + 1
    BY <2>2
  <2> QED BY <2>1, <2>3
<1>4. PICK item : item = mQueue[n + 1]
  OBVIOUS
<1>5. PICK g : g = [slot |-> item.mSlot, frame |-> item.mFrameNumber,
                    buffer |-> item.mGraphicBuffer]
  OBVIOUS
<1>6. /\ g.slot = item.mSlot /\ g.frame = item.mFrameNumber /\ g.buffer = item.mGraphicBuffer
      /\ acquired' = acquired \cup {g}
  BY <1>2, <1>4, <1>5 DEF Acquires
<1>7. \A t \in Slots : /\ mSlots'[t].mGraphicBuffer = mSlots[t].mGraphicBuffer
                       /\ mSlots'[t].mFrameNumber = mSlots[t].mFrameNumber
  BY <1>2 DEF Acquires
<1>8. SlotsDiffer'
  BY <1>7 DEF HandsInv, SlotsDiffer
<1>9. QueuedOnce'
  BY <1>3, <1>7 DEF HandsInv, QueuedOnce
(* What becomes of a slot with the buffer of the item that is taken.       *)
<1>10. /\ g.buffer # NoBuffer /\ g.frame <= mFrameCounter
       /\ \A i \in Indices' : /\ mQueue'[i].mGraphicBuffer # g.buffer
                              /\ mQueue'[i].mFrameNumber # g.frame
  BY <1>3, <1>4, <1>6 DEF OwnersInv, ItemsDiffer, HandsInv, QueuedOnce
<1>11. ASSUME NEW t \in Slots, mSlots'[t].mGraphicBuffer = g.buffer
       PROVE  /\ t = g.slot /\ mSlots'[t].mBufferState = "ACQUIRED"
              /\ mSlots'[t].mFrameNumber = g.frame
  <2>1. item.mSlot = t
    BY <1>3, <1>4, <1>6, <1>7, <1>11 DEF HandsInv, QueuedOnce
  <2>2. Tracked(n + 1)
    BY <1>4, <1>6, <1>7, <1>11, <2>1 DEF Tracked, stillTracking
  <2>3. mSlots[t].mFrameNumber = item.mFrameNumber
    BY <1>3, <1>4, <2>1, <2>2 DEF OwnersInv, TrackedItemsAreQueued, Indices
  <2>4. TakenFrom(n, t)
    BY <1>4, <2>1, <2>2 DEF TakenFrom
  <2> QED BY <1>2, <1>6, <1>7, <2>1, <2>3, <2>4 DEF Acquires
<1>12. ASSUME NEW q \in Producers, Asleep(q)' PROVE call'[q].req.buffer # g.buffer
  <2>1. Asleep(q) /\ call'[q].req = call[q].req
    BY <1>1, <1>12, RestFacts
  <2>2. g.buffer \in InQueue
    BY <1>3, <1>4, <1>6 DEF InQueue, Indices
  <2> QED BY <1>10, <2>1, <2>2 DEF OwnersInv, ThreadsOwn, WaitsApart
<1>13. \A h \in acquired : h.buffer # g.buffer /\ h.frame # g.frame
  BY <1>3, <1>4, <1>6 DEF HandsInv, AcquiredOnce
<1>14. ASSUME NEW h \in acquired
       PROVE  /\ h.buffer # NoBuffer /\ h.frame <= mFrameCounter
              /\ \A f \in acquired \ {h} : f.buffer # h.buffer /\ f.frame # h.frame
              /\ \A i \in Indices' : /\ mQueue'[i].mGraphicBuffer # h.buffer
                                     /\ mQueue'[i].mFrameNumber # h.frame
              /\ \A t \in Slots : mSlots'[t].mGraphicBuffer = h.buffer =>
                   /\ t = h.slot /\ mSlots'[t].mBufferState = "ACQUIRED"
                   /\ mSlots'[t].mFrameNumber = h.frame
              /\ \A q \in Producers : Asleep(q)' => call'[q].req.buffer # h.buffer
  <2>1. /\ h.buffer # NoBuffer /\ h.frame <= mFrameCounter
        /\ \A f \in acquired \ {h} : f.buffer # h.buffer /\ f.frame # h.frame
        /\ \A i \in Indices : /\ mQueue[i].mGraphicBuffer # h.buffer
                              /\ mQueue[i].mFrameNumber # h.frame
    BY DEF HandsInv, AcquiredOnce
  <2>2. \A i \in Indices' : /\ mQueue'[i].mGraphicBuffer # h.buffer
                            /\ mQueue'[i].mFrameNumber # h.frame
    BY <1>3, <2>1
  <2>3. ASSUME NEW t \in Slots, mSlots'[t].mGraphicBuffer = h.buffer
        PROVE  /\ t = h.slot /\ mSlots'[t].mBufferState = "ACQUIRED"
               /\ mSlots'[t].mFrameNumber = h.frame
    <3>1. /\ t = h.slot /\ mSlots[t].mBufferState = "ACQUIRED"
          /\ mSlots[t].mFrameNumber = h.frame
      BY <1>7, <2>3 DEF HandsInv, AcquiredOnce
    <3>2. ~TakenFrom(n, t) /\ ~DroppedFrom(n, t)
      BY <1>3, <3>1 DEF TakenFrom, DroppedFrom, OwnersInv, TrackedItemsAreQueued, Indices
    <3> QED BY <1>2, <3>1, <3>2 DEF Acquires
  <2>4. \A q \in Producers : Asleep(q)' => call'[q].req.buffer # h.buffer
    BY <1>1, RestFacts DEF HandsInv, AcquiredOnce
  <2> QED BY <2>1, <2>2, <2>3, <2>4
<1>15. AcquiredOnce'
  <2> SUFFICES ASSUME NEW h \in acquired'
               PROVE  /\ h.buffer # NoBuffer /\ h.frame <= mFrameCounter'
                      /\ \A f \in acquired' \ {h} : f.buffer # h.buffer /\ f.frame # h.frame
                      /\ \A i \in Indices' : /\ mQueue'[i].mGraphicBuffer # h.buffer
                                             /\ mQueue'[i].mFrameNumber # h.frame
                      /\ \A t \in Slots : mSlots'[t].mGraphicBuffer = h.buffer =>
                           /\ t = h.slot /\ mSlots'[t].mBufferState = "ACQUIRED"
                           /\ mSlots'[t].mFrameNumber = h.frame
                      /\ \A q \in Producers : Asleep(q)' => call'[q].req.buffer # h.buffer
    BY DEF AcquiredOnce
  <2>1. CASE h = g
    BY <1>1, <1>6, <1>10, <1>11, <1>12, <1>13, <2>1
  <2>2. CASE h # g
    <3>1. h \in acquired
      BY <1>6, <2>2
    <3>2. \A f \in acquired' \ {h} : f.buffer # h.buffer /\ f.frame # h.frame
      BY <1>6, <1>13, <1>14, <3>1
    <3> QED BY <1>1, <1>14, <3>1, <3>2
  <2> QED BY <2>1, <2>2
<1> QED BY <1>8, <1>9, <1>15 DEF HandsInv

(* The consumer leaves: no slot and no item has a buffer.                  *)
LEMMA LeaveKeepsHands ==
  ASSUME TypeOK, OwnersInv, HandsInv, consumerDisconnect
  PROVE  HandsInv'
<1>1. /\ UNCHANGED <<mFrameCounter, acquired>> /\ mQueue' = << >>
      /\ freeAllBuffersLocked /\ \A q \in Producers : Rests(q)
  BY CallRests DEF consumerDisconnect
<1>2. \A s \in Slots : mSlots'[s].mGraphicBuffer = NoBuffer
  BY <1>1, FreeAllFacts
<1>3. Indices' = {}
  BY <1>1 DEF Indices
<1>4. SlotsDiffer' /\ QueuedOnce'
  BY <1>2, <1>3 DEF SlotsDiffer, QueuedOnce
<1>5. AcquiredOnce'
  BY <1>1, <1>2, <1>3, RestFacts DEF HandsInv, AcquiredOnce
<1> QED BY <1>4, <1>5 DEF HandsInv

(* The other steps move no buffer.                                         *)
LEMMA OthersKeepHands ==
  ASSUME TypeOK, OwnersInv, HandsInv,
         \/ \E p \in Producers :
              \/ dequeueBufferAllocationFailed(p) \/ queueBufferCallback(p) \/ connect(p)
              \/ allocateBuffers(p) \/ allocateBuffersFailed(p)
              \/ buffersReleasedCallback(p)
         \/ consumerConnect \/ setDefaultMaxBufferCount \/ setMaxAcquiredBufferCount
         \/ disableAsyncBuffer \/ setDefaultBufferSize
         \/ UNCHANGED vars
  PROVE  HandsInv'
<1>1. ASSUME UNCHANGED <<mQueue, mFrameCounter, mSlots, acquired>>,
             \A q \in Producers : Rests(q)
      PROVE  HandsInv'
  <2>1. acquired' \subseteq acquired  BY <1>1
  <2> QED BY <1>1, <2>1, OldKeepsHands
<1>2. ASSUME NEW p \in Producers,
             \/ dequeueBufferAllocationFailed(p) \/ queueBufferCallback(p)
             \/ allocateBuffersFailed(p) \/ buffersReleasedCallback(p)
      PROVE  HandsInv'
  <2>1. UNCHANGED <<mQueue, mFrameCounter, mSlots, acquired>> /\ Return(p)
    BY <1>2 DEF dequeueBufferAllocationFailed, queueBufferCallback, allocateBuffersFailed,
       buffersReleasedCallback, coreVars
  <2> QED BY <1>1, <2>1, CallRests
<1>3. ASSUME NEW p \in Producers, connect(p)
      PROVE  HandsInv'
  <2>1. UNCHANGED <<mQueue, mFrameCounter, mSlots, acquired, call>>
    BY <1>3 DEF connect, producerVars
  <2> QED BY <1>1, <2>1, CallRests
<1>4. ASSUME NEW p \in Producers, allocateBuffers(p)
      PROVE  HandsInv'
  <2>1. PICK async : AllocateBuffersTurn(p, async)
    BY <1>4 DEF allocateBuffers
  <2>2. UNCHANGED <<mQueue, mFrameCounter, mSlots, acquired>>
    BY <2>1 DEF AllocateBuffersTurn
  <2>3. PICK c : c = [op |-> "preallocating", async |-> async,
                      slots |-> Lowest(Missing(async), FreeBareSlots),
                      size |-> mDefaultSize]
    OBVIOUS
  <2>4. c.op \in EndOps
    BY <2>3 DEF EndOps
  <2>5. Return(p) \/ call' = [call EXCEPT ![p] = c]
    BY <2>1, <2>3 DEF AllocateBuffersTurn
  <2>6. \A q \in Producers : Rests(q)
    BY <2>4, <2>5, CallRests, EndRests
  <2> QED BY <1>1, <2>2, <2>6
<1>5. CASE \/ consumerConnect \/ setDefaultMaxBufferCount \/ setMaxAcquiredBufferCount
           \/ disableAsyncBuffer \/ setDefaultBufferSize
  <2>1. /\ UNCHANGED <<mQueue, mFrameCounter, mSlots, acquired>>
        /\ UNCHANGED call \/ WakeProducers
    BY <1>5 DEF consumerConnect, setDefaultMaxBufferCount, setMaxAcquiredBufferCount,
       disableAsyncBuffer, setDefaultBufferSize, producerVars
  <2> QED BY <1>1, <2>1, CallRests
<1>6. CASE UNCHANGED vars
  <2>1. UNCHANGED <<mQueue, mFrameCounter, mSlots, acquired, call>>
    BY <1>6 DEF vars, coreVars, producerVars
  <2> QED BY <1>1, <2>1, CallRests
<1> QED BY <1>2, <1>3, <1>4, <1>5, <1>6

(* In the beginning there is no buffer.                                    *)
LEMMA InitHands == Init => HandsInv
<1> SUFFICES ASSUME Init PROVE HandsInv
  OBVIOUS
<1>1. /\ \A s \in Slots : mSlots[s] = EmptySlot
      /\ mQueue = << >> /\ acquired = {}
  BY DEF Init, CoreInit
<1>2. Indices = {}
  BY <1>1 DEF Indices
<1> QED BY <1>1, <1>2 DEF HandsInv, SlotsDiffer, QueuedOnce, AcquiredOnce, EmptySlot

(* The producer brings no buffer into a second hand.                       *)
LEMMA ProducerKeepsHands ==
  ASSUME ~ReattachQueued, TypeOK, OwnersInv, HandsInv,
         NEW p \in Producers, ProducerStep(p)
  PROVE  HandsInv'
<1>1. CASE Retry(p) \/ dequeueBuffer(p) \/ attachBuffer(p)
  BY <1>1, AskingKeepsHands
<1>2. CASE dequeueBufferAllocated(p)
  BY <1>2, AllocatedKeepsHands
<1>3. CASE \/ requestBuffer(p) \/ cancelRefused(p)
           \/ cancelBuffer(p) \/ detachBuffer(p) \/ detachNextBuffer(p)
  BY <1>3, GivingKeepsHands
<1>4. CASE queueBuffer(p)
  BY <1>4, QueueKeepsHands
<1>5. CASE setBufferCount(p) \/ disconnect(p)
  BY <1>5, FreeingAllKeepsHands
<1>6. CASE allocateBuffersAllocated(p)
  BY <1>6, PreallocatedKeepsHands
<1>7. CASE \/ dequeueBufferAllocationFailed(p) \/ queueBufferCallback(p) \/ connect(p)
           \/ allocateBuffers(p) \/ allocateBuffersFailed(p)
           \/ buffersReleasedCallback(p)
  BY <1>7, OthersKeepHands
<1> QED BY <1>1, <1>2, <1>3, <1>4, <1>5, <1>6, <1>7 DEF ProducerStep, ProducerCall

(* HandsInv is inductive, given types and owners.                          *)
LEMMA NextKeepsHands ==
  ASSUME ~ReattachQueued, ~ConsumerAttaches, TypeOK, OwnersInv, HandsInv, [Next]_vars
  PROVE  HandsInv'
<1>1. ASSUME NEW p \in Producers, ProducerStep(p)
      PROVE  HandsInv'
  BY <1>1, ProducerKeepsHands
<1>2. CASE ConsumerStep
  <2>1. CASE acquireBuffer
    BY <2>1, AcquireKeepsHands
  <2>2. CASE \E h \in acquired : releaseBuffer(h) \/ detachAcquired(h)
    BY <2>2, ReleaseKeepsHands DEF detachAcquired
  <2>3. CASE consumerDisconnect
    BY <2>3, LeaveKeepsHands
  <2>4. CASE \/ consumerConnect \/ setDefaultMaxBufferCount \/ setMaxAcquiredBufferCount
             \/ disableAsyncBuffer \/ setDefaultBufferSize
    BY <2>4, OthersKeepHands
  <2> QED BY <1>2, <2>1, <2>2, <2>3, <2>4 DEF ConsumerStep, ConsumerConfigure, attachAcquired
<1>3. CASE UNCHANGED vars
  BY <1>3, OthersKeepHands
<1> QED BY <1>1, <1>2, <1>3 DEF Next

(* No buffer is in two hands, in every state.                              *)
LEMMA HandsInvariant ==
  ASSUME ~ConcurrentDisconnect, ~ReattachQueued, ~ConsumerAttaches
  PROVE  Spec => []HandsInv
<1>1. TypeOK /\ OwnersInv /\ HandsInv /\ [Next]_vars => HandsInv'
  BY NextKeepsHands
<1> QED BY <1>1, InitHands, TypeCorrect, OwnersInvariant, PTL DEF Spec
-----------------------------------------------------------------------------
(* MirrorInv is inductive: Surface's one thread is told of every change.   *)
OneThread == \A p, q \in Producers : p = q

(* What a step owes the client about a slot, if nothing is abandoned, ...  *)
MirrorKept(s) ==
  /\ \/ mSlots'[s].mGraphicBuffer = NoBuffer
     \/ mirror'[s] \in {NoBuffer, mSlots'[s].mGraphicBuffer}
     \/ Told(s)'
     \/ /\ mSlots'[s].mGraphicBuffer = mSlots[s].mGraphicBuffer
        /\ mirror'[s] = mirror[s] /\ ~Told(s)
  /\ s \in held' => \/ mirror'[s] = mSlots'[s].mGraphicBuffer
                    \/ /\ s \in held /\ mirror'[s] = mirror[s]
                       /\ mSlots'[s].mGraphicBuffer = mSlots[s].mGraphicBuffer

(* ... if the queue is abandoned, ...                                      *)
ApartKept(s) ==
  mirror'[s] \in {mirror[s], NoBuffer} /\ (MayHold(s)' => MayHold(s))

(* ... and about a slot beyond the number it has set.                      *)
UnusedKept(s) ==
  mSlots[s].mBufferState = "FREE" /\ mSlots[s].mGraphicBuffer = NoBuffer =>
    mSlots'[s].mBufferState = "FREE" /\ mSlots'[s].mGraphicBuffer = NoBuffer

(* A thread rests, or takes the news of what was freed with it.            *)
NewsKept(q) ==
  \/ Rests(q) /\ (held' \subseteq held \/ ~InHand(q)')
  \/ /\ Asleep(q)' /\ call'[q].req.released => mOverrideMaxBufferCount = 0
     /\ InHand(q)' /\ call'[q].released =>
          mOverrideMaxBufferCount = 0 /\ (mIsAbandoned' \/ held' = {})

(* What a step has to keep for the mirror to stay good, slot by slot.      *)
LEMMA StepKeepsMirror ==
  ASSUME HandsInv, MirrorInv, UNCHANGED <<mOverrideMaxBufferCount, mIsAbandoned>>,
         held' \subseteq Slots,
         mIsAbandoned => mQueue' = mQueue /\ acquired' \subseteq acquired,
         \A q \in Producers : NewsKept(q),
         \A s \in Slots : /\ ~mIsAbandoned => MirrorKept(s)
                          /\ mIsAbandoned => ApartKept(s)
                          /\ mOverrideMaxBufferCount # 0 /\ s >= mOverrideMaxBufferCount
                               => UnusedKept(s)
  PROVE  MirrorInv'
<1>1. OverrideIsKept'
  <2>1. CASE mOverrideMaxBufferCount = 0
    BY <2>1 DEF OverrideIsKept
  <2>2. CASE mOverrideMaxBufferCount # 0
    <3>1. \A s \in Slots : s >= mOverrideMaxBufferCount =>
            mSlots'[s].mBufferState = "FREE" /\ mSlots'[s].mGraphicBuffer = NoBuffer
      BY <2>2 DEF MirrorInv, OverrideIsKept, UnusedKept
    <3>2. ASSUME NEW q \in Producers
          PROVE  /\ Asleep(q)' => ~call'[q].req.released
                 /\ InHand(q)' => ~call'[q].released
      <4>1. /\ Asleep(q) => ~call[q].req.released
            /\ InHand(q) => ~call[q].released
        BY <2>2 DEF MirrorInv, OverrideIsKept
      <4>2. CASE Rests(q)
        BY <4>1, <4>2, RestFacts
      <4>3. CASE ~Rests(q)
        BY <2>2, <4>3 DEF NewsKept
      <4> QED BY <4>2, <4>3
    <3> QED BY <3>1, <3>2 DEF OverrideIsKept
  <2> QED BY <2>1, <2>2
<1>2. MirrorIsFresh' /\ MirrorAgrees'
  <2>1. ASSUME ~mIsAbandoned, NEW s \in Slots
        PROVE  /\ \/ mSlots'[s].mGraphicBuffer = NoBuffer
                  \/ mirror'[s] \in {NoBuffer, mSlots'[s].mGraphicBuffer}
                  \/ Told(s)'
               /\ s \in held' => mirror'[s] = mSlots'[s].mGraphicBuffer
    BY <2>1 DEF MirrorKept, MirrorInv, MirrorIsFresh, MirrorAgrees
  <2>2. MirrorIsFresh'
    BY <2>1 DEF MirrorIsFresh
  <2>3. MirrorAgrees'
    BY <2>1 DEF MirrorAgrees
  <2> QED BY <2>2, <2>3
<1>3. AllForgotten'
  <2> SUFFICES ASSUME NEW q \in Producers, InHand(q)', call'[q].released, ~mIsAbandoned
               PROVE  held' = {}
    BY DEF AllForgotten
  <2>1. CASE Rests(q) /\ held' \subseteq held
    <3>1. InHand(q) /\ call[q].released
      BY <2>1, RestFacts
    <3> QED BY <2>1, <3>1 DEF MirrorInv, AllForgotten
  <2>2. CASE ~(Rests(q) /\ held' \subseteq held)
    BY <2>2 DEF NewsKept
  <2> QED BY <2>1, <2>2
<1>4. AbandonedApart'
  <2> SUFFICES ASSUME mIsAbandoned
               PROVE  /\ mQueue' = << >>
                      /\ \A s \in Slots, h \in acquired' : MayHold(s)' => mirror'[s] # h.buffer
    BY DEF AbandonedApart
  <2>1. \A h \in acquired : h.buffer # NoBuffer
    BY DEF HandsInv, AcquiredOnce
  <2> QED BY <2>1 DEF MirrorInv, AbandonedApart, ApartKept
<1> QED BY <1>1, <1>2, <1>3, <1>4 DEF MirrorInv

(* Steps that bring no buffer into a slot, and tell the client nothing.    *)
LEMMA BlankKeepsMirror ==
  ASSUME TypeOK, HandsInv, MirrorInv, ~mIsAbandoned,
         UNCHANGED <<mOverrideMaxBufferCount, mIsAbandoned, mirror>>,
         held' \subseteq held, \A q \in Producers : NewsKept(q),
         \A s \in Slots :
           /\ Told(s) => Told(s)'
           /\ \/ mSlots'[s].mGraphicBuffer = mSlots[s].mGraphicBuffer
              \/ mSlots'[s].mGraphicBuffer = NoBuffer /\ s \notin held'
           /\ mOverrideMaxBufferCount # 0 /\ s >= mOverrideMaxBufferCount => UnusedKept(s)
  PROVE  MirrorInv'
<1>1. held' \subseteq Slots
  BY TypeFacts
<1>2. \A s \in Slots : MirrorKept(s)
  BY DEF MirrorKept
<1> QED BY <1>1, <1>2, StepKeepsMirror

(* Steps that leave every slot its buffer.                                 *)
LEMMA SameKeepsMirror ==
  ASSUME TypeOK, HandsInv, MirrorInv,
         UNCHANGED <<mOverrideMaxBufferCount, mIsAbandoned, mirror>>,
         held' \subseteq held, acquired' \subseteq acquired \/ ~mIsAbandoned,
         mIsAbandoned => mQueue' = mQueue,
         \A q \in Producers : Rests(q) /\ (call[q].op = "returned" => call'[q] = call[q]),
         \A s \in Slots :
           /\ mSlots'[s].mGraphicBuffer = mSlots[s].mGraphicBuffer
           /\ mSlots[s].mBufferState = "FREE" => mSlots'[s].mBufferState = "FREE"
  PROVE  MirrorInv'
<1>1. \A q \in Producers : NewsKept(q)
  BY DEF NewsKept
<1>2. \A s \in Slots : Told(s) => Told(s)'
  BY DEF Told
<1>3. \A s \in Slots : UnusedKept(s)
  BY DEF UnusedKept
<1>4. CASE ~mIsAbandoned
  BY <1>1, <1>2, <1>3, <1>4, BlankKeepsMirror
<1>5. CASE mIsAbandoned
  <2>1. \A s \in Slots : ApartKept(s)
    <3> SUFFICES ASSUME NEW s \in Slots, MayHold(s)' PROVE MayHold(s)
      BY DEF ApartKept
    <3>1. CASE s \in held'
      BY <3>1 DEF MayHold
    <3>2. CASE s \notin held'
      <4>1. PICK q \in Producers : /\ call'[q].op = "returned" /\ call'[q].slot = s
                                   /\ ~call'[q].realloc
        BY <3>2 DEF MayHold
      <4>2. call'[q] = call[q]
        BY <4>1, RestFacts DEF InHand
      <4> QED BY <4>1, <4>2 DEF MayHold
    <3> QED BY <3>1, <3>2
  <2>2. held' \subseteq Slots
    BY TypeFacts
  <2> QED BY <1>1, <1>3, <1>5, <2>1, <2>2, StepKeepsMirror
<1> QED BY <1>4, <1>5

(* No slot is found, and the client told to forget its buffers, while it   *)
(* holds one: without an override TooManyDequeued refuses it, and with one *)
(* there is nothing to free.                                               *)
LEMMA NewsFacts ==
  ASSUME TypeOK, OwnersInv, MirrorInv, ~mIsAbandoned, NEW async \in BOOLEAN, NEW max,
         max = getMaxBufferCountLocked(async)
  PROVE  /\ mOverrideMaxBufferCount # 0 =>
              max = mOverrideMaxBufferCount /\ BeyondMax(max) = {}
         /\ ~TooManyDequeued(async, max) /\ mOverrideMaxBufferCount = 0 => held = {}
<1>1. CASE mOverrideMaxBufferCount # 0
  <2>1. \A s \in Slots : s >= mOverrideMaxBufferCount =>
          mSlots[s].mBufferState = "FREE" /\ mSlots[s].mGraphicBuffer = NoBuffer
    BY <1>1 DEF MirrorInv, OverrideIsKept
  <2>2. BaseMaxBufferCount(async) = mOverrideMaxBufferCount
    BY <1>1 DEF BaseMaxBufferCount
  <2>3. {s \in SlotsIn(mSlots, {"QUEUED", "DEQUEUED"}) : s >= mOverrideMaxBufferCount} = {}
    BY <2>1 DEF SlotsIn
  <2>4. max = mOverrideMaxBufferCount
    BY <2>2, <2>3 DEF getMaxBufferCountLocked
  <2> QED BY <1>1, <2>1, <2>4 DEF BeyondMax
<1>2. ASSUME ~TooManyDequeued(async, max), mOverrideMaxBufferCount = 0, NEW s \in held
      PROVE  FALSE
  <2>1. s \in Slots /\ mSlots[s].mBufferState = "DEQUEUED"
    BY TypeFacts DEF OwnersInv, HeldAreDequeued
  <2>2. PICK slots : slots = TrimmedSlots(max)
    OBVIOUS
  <2>3. slots[s] = mSlots[s]
    BY <2>1, <2>2, TrimmedFacts DEF TypeOK
  <2>4. s < max
    BY <2>1, BusyBelowMax DEF TypeOK, SlotsIn
  <2>5. s \in Below(max, "DEQUEUED")
    BY <2>1, <2>2, <2>3, <2>4 DEF Below, SlotsIn
  <2>6. IsFiniteSet(Below(max, "DEQUEUED"))
    <3>1. IsFiniteSet(Slots)
      BY FS_Interval, CoreAssumption DEF Slots
    <3> QED BY <3>1, FS_Subset DEF Below, SlotsIn
  <2>7. Cardinality(Below(max, "DEQUEUED")) = 0
    BY <1>2 DEF TooManyDequeued
  <2> QED BY <2>5, <2>6, <2>7, FS_EmptySet
<1> QED BY <1>1, <1>2

(* A thread that asks for a slot: what it frees and finds is not the       *)
(* client's, and what it frees is news only to a client that holds nothing.*)
LEMMA AskingKeepsMirror ==
  ASSUME TypeOK, OwnersInv, HandsInv, MirrorInv, OneThread, NEW p \in Producers,
         Retry(p) \/ dequeueBuffer(p) \/ attachBuffer(p)
  PROVE  MirrorInv'
<1>1. PICK req : /\ waitForFreeSlotThenRelock(p, req)
                 /\ req \in Request /\ call[p].op \notin {"returned", "allocating"}
                 /\ mOverrideMaxBufferCount # 0 => ~req.released
  <2>1. CASE Retry(p)
    <3>1. PICK req : req = call[p].req
      OBVIOUS
    <3>2. /\ Asleep(p) /\ req \in Request /\ waitForFreeSlotThenRelock(p, req)
          /\ call[p].op \notin {"returned", "allocating"}
      BY <2>1, <3>1, TypeFacts DEF Retry, Asleep
    <3>3. mOverrideMaxBufferCount # 0 => ~req.released
      BY <3>1, <3>2 DEF MirrorInv, OverrideIsKept
    <3> QED BY <3>2, <3>3
  <2>2. CASE dequeueBuffer(p)
    <3>1. PICK req : /\ req.released = FALSE /\ req \in Request
                     /\ waitForFreeSlotThenRelock(p, req)
      BY <2>2, ProducerAssumption DEF dequeueBuffer, Request
    <3> QED BY <2>2, <3>1 DEF dequeueBuffer, Idle
  <2>3. CASE attachBuffer(p)
    <3>1. PICK b \in Buffers :
            waitForFreeSlotThenRelock(p,
              [kind |-> "attach", async |-> FALSE, size |-> SizeOf[b],
               buffer |-> b, released |-> FALSE])
      BY <2>3 DEF attachBuffer
    <3>2. PICK req : req = [kind |-> "attach", async |-> FALSE, size |-> SizeOf[b],
                            buffer |-> b, released |-> FALSE]
      OBVIOUS
    <3>3. req \in Request /\ req.released = FALSE /\ waitForFreeSlotThenRelock(p, req)
      BY <3>1, <3>2, CoreAssumption DEF Request
    <3> QED BY <2>3, <3>3 DEF attachBuffer, Idle
  <2> QED BY <2>1, <2>2, <2>3
<1>2. PICK max, slots, released :
        /\ max = getMaxBufferCountLocked(req.async) /\ slots = TrimmedSlots(max)
        /\ released = (req.released \/ BeyondMax(max) # {})
  OBVIOUS
<1>3. /\ slots \in [Slots -> BufferSlot]
      /\ \A s \in Slots :
           \/ slots[s] = mSlots[s]
           \/ /\ slots[s].mBufferState = "FREE" /\ slots[s].mGraphicBuffer = NoBuffer
              /\ mSlots[s].mBufferState \in {"FREE", "ACQUIRED"}
  BY <1>2, TrimmedFacts DEF TypeOK
<1>4. /\ UNCHANGED <<mQueue, acquired, mIsAbandoned, mOverrideMaxBufferCount>>
      /\ acquired' \subseteq acquired
  BY <1>1 DEF waitForFreeSlotThenRelock, connectionVars, limitVars
<1>5. \A s \in Slots : ~Told(s)
  BY <1>1 DEF OneThread, Told
<1>6. CASE mIsAbandoned \/ OverrideTooSmall(req.async, max)
  <2>1. Return(p) /\ UNCHANGED <<mSlots, held, mirror>>
    BY <1>1, <1>2, <1>6 DEF waitForFreeSlotThenRelock
  <2>2. \A q \in Producers : Rests(q) /\ call[q].op # "returned"
    BY <1>1, <2>1, CallRests DEF OneThread
  <2>3. held' \subseteq held
    BY <2>1
  <2> QED BY <1>4, <2>1, <2>2, <2>3, SameKeepsMirror
<1>7. CASE ~mIsAbandoned /\ ~OverrideTooSmall(req.async, max)
  <2>1. mOverrideMaxBufferCount # 0 => max = mOverrideMaxBufferCount /\ ~released
    <3>1. req.async \in BOOLEAN
      BY <1>1 DEF Request
    <3>2. mOverrideMaxBufferCount # 0 =>
            max = mOverrideMaxBufferCount /\ BeyondMax(max) = {}
      BY <1>2, <1>7, <3>1, NewsFacts
    <3> QED BY <1>1, <1>2, <3>2
  <2>2. ~TooManyDequeued(req.async, max) => (released => held = {})
    <3>1. req.async \in BOOLEAN
      BY <1>1 DEF Request
    <3>2. ~TooManyDequeued(req.async, max) /\ mOverrideMaxBufferCount = 0 => held = {}
      BY <1>2, <1>7, <3>1, NewsFacts
    <3> QED BY <2>1, <3>2
  <2>3. \A s \in held : /\ s \in Slots /\ mSlots[s].mBufferState = "DEQUEUED"
                        /\ slots[s] = mSlots[s]
    BY <1>3, <1>7, TypeFacts DEF OwnersInv, HeldAreDequeued
  <2>4. \A s \in Slots :
          \/ slots[s] = mSlots[s]
          \/ slots[s].mBufferState = "FREE" /\ slots[s].mGraphicBuffer = NoBuffer
    BY <1>3
  <2>5. ASSUME mSlots' = slots, UNCHANGED <<held, mirror>>, \A q \in Producers : NewsKept(q)
        PROVE  MirrorInv'
    <3>1. \A s \in Slots : UnusedKept(s)
      BY <2>4, <2>5 DEF UnusedKept
    <3>2. \A s \in Slots :
            \/ mSlots'[s].mGraphicBuffer = mSlots[s].mGraphicBuffer
            \/ mSlots'[s].mGraphicBuffer = NoBuffer /\ s \notin held'
      BY <2>3, <2>4, <2>5
    <3>3. held' \subseteq held
      BY <2>5
    <3> QED BY <1>4, <1>5, <1>7, <2>5, <3>1, <3>2, <3>3, BlankKeepsMirror
  <2>6. CASE mSlots' = slots /\ Return(p) /\ UNCHANGED <<held, mirror>>
    <3>1. \A q \in Producers : NewsKept(q)
      BY <2>6, CallRests DEF NewsKept
    <3> QED BY <2>5, <2>6, <3>1
  <2>7. CASE /\ mSlots' = slots /\ UNCHANGED <<held, mirror>>
             /\ call' = [call EXCEPT ![p] = [op |-> "waiting",
                           req |-> [req EXCEPT !.released = released]]]
    <3>1. PICK c : c = [op |-> "waiting", req |-> [req EXCEPT !.released = released]]
      OBVIOUS
    <3>2. c.op = "waiting" /\ c.req.released = released
      BY <1>1, <3>1 DEF Request
    <3>3. call'[p] = c /\ \A q \in Producers \ {p} : Rests(q)
      BY <2>7, <3>1, CallRests
    <3>4. NewsKept(p)
      BY <2>1, <3>2, <3>3 DEF NewsKept, InHand
    <3>5. \A q \in Producers : NewsKept(q)
      BY <3>4 DEF OneThread
    <3> QED BY <2>5, <2>7, <3>5
  <2>8. ASSUME NEW s \in Slots, slots[s].mBufferState = "FREE", s < max,
               ~TooManyDequeued(req.async, max),
               DequeueFound(p, req, slots, s, released), UNCHANGED <<held, mirror>>
        PROVE  MirrorInv'
    <3>1. Finds(p, slots, s, released)
      BY <1>3, <2>8, FoundFacts
    <3>2. s \notin held
      BY <2>3, <2>8
    <3>3. \A t \in Slots :
            \/ mSlots'[t].mGraphicBuffer = mSlots[t].mGraphicBuffer
            \/ mSlots'[t].mGraphicBuffer = NoBuffer /\ t \notin held'
      BY <2>3, <2>4, <2>8, <3>1, <3>2 DEF Finds
    <3>4. \A t \in Slots :
            mOverrideMaxBufferCount # 0 /\ t >= mOverrideMaxBufferCount => UnusedKept(t)
      <4> SUFFICES ASSUME NEW t \in Slots, mOverrideMaxBufferCount # 0,
                          t >= mOverrideMaxBufferCount
                   PROVE  UnusedKept(t)
        OBVIOUS
      <4>1. t # s
        <5>1. s < mOverrideMaxBufferCount  BY <2>1, <2>8
        <5>2. s \in Int /\ mOverrideMaxBufferCount \in Int
          BY DEF Slots, TypeOK, CoreTypeOK
        <5> QED BY <5>1, <5>2
      <4>2. mSlots'[t] = slots[t]
        BY <3>1, <4>1 DEF Finds
      <4> QED BY <2>4, <4>2 DEF UnusedKept
    <3>5. call'[p].released = released /\ ~Asleep(p)'
      BY <3>1 DEF Finds, Asleep
    <3>6. released => mOverrideMaxBufferCount = 0 /\ held' = {}
      BY <2>1, <2>2, <2>8
    <3>7. \A q \in Producers : NewsKept(q)
      BY <3>5, <3>6 DEF OneThread, NewsKept
    <3>8. held' \subseteq held
      BY <2>8
    <3> QED BY <1>4, <1>5, <1>7, <2>8, <3>3, <3>4, <3>7, <3>8, BlankKeepsMirror
  <2>9. ASSUME NEW s \in Slots, slots[s].mBufferState = "FREE", s < max,
               ~TooManyDequeued(req.async, max),
               AttachFound(p, req, slots, s, released)
        PROVE  MirrorInv'
    <3>1. /\ mSlots'[s].mGraphicBuffer = req.buffer
          /\ \A t \in Slots \ {s} : mSlots'[t] = slots[t]
      BY <1>3, <2>9 DEF AttachFound, BufferSlot
    <3>2. /\ mirror'[s] = req.buffer
          /\ \A t \in Slots \ {s} : mirror'[t] = IF released THEN NoBuffer ELSE mirror[t]
      BY <2>9 DEF AttachFound, NoMirror, TypeOK, ProducerTypeOK
    <3>3. held' = held \cup {s} /\ held' \subseteq Slots
      BY <2>9, TypeFacts DEF AttachFound
    <3>4. ASSUME NEW t \in Slots PROVE MirrorKept(t)
      <4>1. CASE t = s
        BY <3>1, <3>2, <4>1 DEF MirrorKept
      <4>2. CASE t # s
        <5>1. t \in held' => t \in held /\ ~released /\ slots[t] = mSlots[t]
          BY <2>2, <2>3, <2>9, <3>3, <4>2
        <5>2. mSlots'[t] = slots[t] /\ mirror'[t] = IF released THEN NoBuffer ELSE mirror[t]
          BY <3>1, <3>2, <4>2
        <5> QED BY <1>5, <2>4, <5>1, <5>2 DEF MirrorKept
      <4> QED BY <4>1, <4>2
    <3>5. \A t \in Slots :
            mOverrideMaxBufferCount # 0 /\ t >= mOverrideMaxBufferCount => UnusedKept(t)
      <4> SUFFICES ASSUME NEW t \in Slots, mOverrideMaxBufferCount # 0,
                          t >= mOverrideMaxBufferCount
                   PROVE  UnusedKept(t)
        OBVIOUS
      <4>1. t # s
        <5>1. s < mOverrideMaxBufferCount  BY <2>1, <2>9
        <5>2. s \in Int /\ mOverrideMaxBufferCount \in Int
          BY DEF Slots, TypeOK, CoreTypeOK
        <5> QED BY <5>1, <5>2
      <4> QED BY <2>4, <3>1, <4>1 DEF UnusedKept
    <3>6. Return(p) /\ ~InHand(p)'
      BY <2>9, TypeFacts DEF AttachFound, Return, InHand, Idle
    <3>7. \A q \in Producers : NewsKept(q)
      BY <3>6, CallRests DEF NewsKept, OneThread
    <3> QED BY <1>4, <1>7, <3>3, <3>4, <3>5, <3>7, StepKeepsMirror
  <2>10. ASSUME NEW s \in Slots, IsOldest(slots, s, Below(max, "FREE"))
         PROVE  slots[s].mBufferState = "FREE" /\ s < max
    BY <1>2, <2>10 DEF IsOldest, Below, SlotsIn
  <2> QED BY <1>1, <1>2, <1>7, <2>6, <2>7, <2>8, <2>9, <2>10 DEF waitForFreeSlotThenRelock
<1> QED BY <1>6, <1>7

(* A slot that gets a buffer is not held yet, and the client will be told. *)
LEMMA AllocatedKeepsMirror ==
  ASSUME TypeOK, OwnersInv, HandsInv, MirrorInv, OneThread, NEW p \in Producers,
         dequeueBufferAllocated(p)
  PROVE  MirrorInv'
<1>1. /\ UNCHANGED <<mQueue, acquired, mIsAbandoned, mOverrideMaxBufferCount, held, mirror>>
      /\ call[p].op = "allocating" /\ held' \subseteq held /\ acquired' \subseteq acquired
  BY DEF dequeueBufferAllocated, connectionVars, limitVars
<1>2. CASE mIsAbandoned
  <2>1. Return(p) /\ UNCHANGED mSlots
    BY <1>2 DEF dequeueBufferAllocated
  <2>2. \A q \in Producers : Rests(q) /\ call[q].op # "returned"
    BY <1>1, <2>1, CallRests DEF OneThread
  <2> QED BY <1>1, <2>1, <2>2, SameKeepsMirror
<1>3. CASE ~mIsAbandoned
  <2>1. PICK s, c : /\ s = call[p].slot
                    /\ c = [op |-> "returned", slot |-> s, released |-> call[p].released,
                            realloc |-> TRUE]
    OBVIOUS
  <2>2. PICK b \in Fresh(call[p].size) :
          /\ call' = [call EXCEPT ![p] = c]
          /\ mSlots' = [mSlots EXCEPT ![s] = [@ EXCEPT !.mFrameNumber = UINT32_MAX,
                                                       !.mGraphicBuffer = b]]
    BY <1>3, <2>1 DEF dequeueBufferAllocated
  <2>3. s \in Slots /\ mSlots[s].mBufferState = "DEQUEUED" /\ s \notin held
    BY <1>1, <1>3, <2>1, TypeFacts DEF OwnersInv, ThreadsOwn, ThreadOwns, InHand
  <2>4. \A t \in Slots \ {s} : mSlots'[t] = mSlots[t]
    BY <2>2
  <2>5. /\ call'[p] = c /\ c.op = "returned" /\ c.slot = s /\ c.realloc
        /\ c.released = call[p].released
    BY <2>1, <2>2, CallRests
  <2>6. Told(s)'
    BY <2>5 DEF Told
  <2>7. \A t \in Slots : ~Told(t)
    BY <1>1 DEF OneThread, Told
  <2>8. \A t \in Slots : MirrorKept(t)
    BY <1>1, <2>3, <2>4, <2>6, <2>7 DEF MirrorKept
  <2>9. \A t \in Slots : UnusedKept(t)
    BY <2>3, <2>4 DEF UnusedKept
  <2>10. c.released => mOverrideMaxBufferCount = 0 /\ held' = {}
    BY <1>1, <1>3, <2>5 DEF MirrorInv, OverrideIsKept, AllForgotten, InHand
  <2>11. \A q \in Producers : NewsKept(q)
    BY <2>5, <2>10 DEF NewsKept, OneThread, Asleep
  <2>12. held' \subseteq Slots
    BY <1>1, TypeFacts
  <2> QED BY <1>1, <1>3, <2>8, <2>9, <2>11, <2>12, StepKeepsMirror
<1> QED BY <1>2, <1>3

(* Surface forgets what it is told to forget, asks for what it is told is  *)
(* new, and for the rest its mirror is good.                               *)
LEMMA RequestKeepsMirror ==
  ASSUME TypeOK, OwnersInv, HandsInv, MirrorInv, OneThread, NEW p \in Producers,
         requestBuffer(p)
  PROVE  MirrorInv'
<1>1. /\ UNCHANGED <<mQueue, acquired, mIsAbandoned, mOverrideMaxBufferCount>>
      /\ acquired' \subseteq acquired /\ call[p].op = "returned"
  BY DEF requestBuffer, connectionVars, limitVars
<1>2. PICK s \in Slots : s = call[p].slot
  BY <1>1, TypeFacts DEF InHand
<1>3. PICK mine : mine = IF call[p].released THEN NoMirror ELSE mirror
  OBVIOUS
<1>4. /\ mine \in [Slots -> Buffers \cup {NoBuffer}]
      /\ \A t \in Slots : mine[t] = IF call[p].released THEN NoBuffer ELSE mirror[t]
  BY <1>3 DEF NoMirror, TypeOK, ProducerTypeOK
<1>5. PICK ask \in BOOLEAN : ask <=> AsksForBuffer(call[p], mine)
  BY DEF AsksForBuffer
<1>6. ~ask => ~call[p].realloc /\ mine[s] # NoBuffer
  BY <1>2, <1>5 DEF AsksForBuffer
<1>7. \/ /\ ask /\ ~mIsAbandoned
         /\ mSlots' = [mSlots EXCEPT ![s].mRequestBufferCalled = TRUE]
         /\ mirror' = [mine EXCEPT ![s] = mSlots[s].mGraphicBuffer]
         /\ held' = held \cup {s} /\ Return(p)
      \/ /\ ask /\ ~(~mIsAbandoned /\ mSlots[s].mBufferState = "DEQUEUED")
         /\ mirror' = mine /\ UNCHANGED <<mSlots, held>>
         /\ call' = [call EXCEPT ![p] = [op |-> "refused", slot |-> s]]
      \/ /\ ~ask /\ mirror' = mine /\ held' = held \cup {s} /\ Return(p)
         /\ UNCHANGED mSlots
  BY <1>2, <1>3, <1>5 DEF requestBuffer
<1>8. held' \subseteq held \cup {s} /\ held' \subseteq Slots
  BY <1>7, TypeFacts
<1>9. \A t \in Slots : /\ mSlots'[t].mGraphicBuffer = mSlots[t].mGraphicBuffer
                       /\ mSlots'[t].mBufferState = mSlots[t].mBufferState
  BY <1>7, TypeFacts DEF BufferSlot
<1>10. \A t \in Slots : UnusedKept(t)
  BY <1>9 DEF UnusedKept
<1>11. ~InHand(p)' /\ ~Asleep(p)'
  <2>1. CASE Return(p)
    BY <2>1, TypeFacts DEF Return, Idle, InHand, Asleep
  <2>2. CASE call' = [call EXCEPT ![p] = [op |-> "refused", slot |-> s]]
    <3>1. PICK c : c = [op |-> "refused", slot |-> s]
      OBVIOUS
    <3>2. call'[p] = c /\ c.op = "refused"
      BY <2>2, <3>1, TypeFacts
    <3> QED BY <3>2 DEF InHand, Asleep
  <2> QED BY <1>7, <2>1, <2>2
<1>12. \A q \in Producers : NewsKept(q)
  BY <1>11 DEF NewsKept, OneThread
<1>13. CASE mIsAbandoned
  <2>1. ASSUME NEW t \in Slots PROVE ApartKept(t)
    <3>1. mirror'[t] \in {mirror[t], NoBuffer}
      BY <1>4, <1>7, <1>13
    <3>2. ASSUME MayHold(t)' PROVE MayHold(t)
      <4>1. t \in held'
        BY <1>11, <3>2 DEF MayHold, OneThread, InHand
      <4>2. t \in held \/ (t = s /\ ~call[p].realloc)
        <5>1. CASE ask
          <6>1. held' = held  BY <1>7, <1>13, <5>1
          <6> QED BY <4>1, <6>1
        <5>2. CASE ~ask
          <6>1. ~call[p].realloc /\ (t \in held \/ t = s)
            BY <1>6, <1>8, <4>1, <5>2
          <6> QED BY <6>1
        <5> QED BY <5>1, <5>2
      <4> QED BY <1>1, <1>2, <4>2 DEF MayHold
    <3> QED BY <3>1, <3>2 DEF ApartKept
  <2> QED BY <1>1, <1>8, <1>10, <1>12, <1>13, <2>1, StepKeepsMirror
<1>14. CASE ~mIsAbandoned
  <2>1. mSlots[s].mBufferState = "DEQUEUED" /\ mSlots[s].mGraphicBuffer # NoBuffer
    BY <1>1, <1>2, <1>14 DEF OwnersInv, ThreadsOwn, ThreadOwns, InHand
  <2>2. \A t \in Slots \ {s} : ~Told(t) /\ mirror'[t] = mine[t]
    BY <1>2, <1>4, <1>7 DEF Told, OneThread
  <2>3. call[p].released => held = {}
    BY <1>1, <1>14 DEF MirrorInv, AllForgotten, InHand
  <2>4. \A t \in Slots \ {s} : MirrorKept(t)
    BY <1>4, <1>8, <1>9, <2>2, <2>3 DEF MirrorKept
  <2>5. mirror'[s] = mSlots[s].mGraphicBuffer
    <3>1. CASE ask
      BY <1>4, <1>7, <2>1, <3>1, <1>14
    <3>2. CASE ~ask
      <4>1. mirror'[s] = mirror[s] /\ mirror[s] # NoBuffer /\ ~call[p].realloc
        BY <1>4, <1>6, <1>7, <3>2
      <4>2. ~Told(s)
        BY <4>1 DEF Told, OneThread
      <4> QED BY <1>14, <2>1, <4>1, <4>2 DEF MirrorInv, MirrorIsFresh
    <3> QED BY <3>1, <3>2
  <2>6. MirrorKept(s)
    BY <1>9, <2>5 DEF MirrorKept
  <2>7. \A t \in Slots : MirrorKept(t)
    BY <2>4, <2>6
  <2> QED BY <1>1, <1>8, <1>10, <1>12, <1>14, <2>7, StepKeepsMirror
<1> QED BY <1>13, <1>14

(* What the client gives back or detaches is no longer its own.            *)
LEMMA GivingKeepsMirror ==
  ASSUME TypeOK, OwnersInv, HandsInv, MirrorInv, OneThread, NEW p \in Producers,
         \/ cancelRefused(p) \/ cancelBuffer(p) \/ detachBuffer(p) \/ detachNextBuffer(p)
  PROVE  MirrorInv'
<1>1. /\ UNCHANGED <<mQueue, acquired, mIsAbandoned, mOverrideMaxBufferCount>>
      /\ acquired' \subseteq acquired
  BY DEF cancelRefused, cancelBuffer, detachBuffer, detachNextBuffer, connectionVars,
     limitVars
<1>2. call[p].op # "returned"
  <2>1. call[p].op = "refused" \/ call[p] = Idle
    BY DEF cancelRefused, cancelBuffer, detachBuffer, detachNextBuffer, CanGiveBack
  <2> QED BY <2>1 DEF Idle
<1>3. \A q \in Producers : Rests(q) /\ call[q].op # "returned"
  <2>1. Return(p) \/ BroadcastAndReturn(p) \/ UNCHANGED call
    BY DEF cancelRefused, cancelBuffer, detachBuffer, detachNextBuffer
  <2> QED BY <1>2, <2>1, CallRests DEF OneThread
<1>4. CASE cancelRefused(p)
  <2>1. mIsAbandoned
    BY <1>4 DEF cancelRefused, OwnersInv, ThreadsOwn, ThreadOwns
  <2>2. UNCHANGED <<mSlots, held, mirror>> /\ held' \subseteq held
    BY <1>4, <2>1 DEF cancelRefused
  <2> QED BY <1>1, <1>3, <2>2, SameKeepsMirror
<1>5. CASE cancelBuffer(p)
  <2>1. PICK s \in Slots : mSlots' = CancelledSlot(s) /\ held' = held \ {s}
    BY <1>5 DEF cancelBuffer
  <2>2. \A t \in Slots :
          /\ mSlots'[t].mGraphicBuffer = mSlots[t].mGraphicBuffer
          /\ mSlots[t].mBufferState = "FREE" => mSlots'[t].mBufferState = "FREE"
    BY <2>1, TypeFacts DEF CancelledSlot, BufferSlot
  <2>3. UNCHANGED mirror /\ held' \subseteq held
    BY <1>5, <2>1 DEF cancelBuffer
  <2> QED BY <1>1, <1>3, <2>2, <2>3, SameKeepsMirror
<1>6. ASSUME ~mIsAbandoned, NEW s \in Slots, mSlots' = freeBufferLocked(mSlots, s),
             mirror' = [mirror EXCEPT ![s] = NoBuffer],
             held' \subseteq held, s \notin held'
      PROVE  MirrorInv'
  <2>1. /\ mSlots'[s].mBufferState = "FREE" /\ mSlots'[s].mGraphicBuffer = NoBuffer
        /\ \A t \in Slots \ {s} : mSlots'[t] = mSlots[t]
    BY <1>6, TypeFacts DEF freeBufferLocked, FreedSlot, BufferSlot
  <2>2. \A t \in Slots \ {s} : mirror'[t] = mirror[t]
    BY <1>6
  <2>3. \A t \in Slots : ~Told(t)
    BY <1>3 DEF Told
  <2>4. \A t \in Slots : MirrorKept(t)
    BY <1>6, <2>1, <2>2, <2>3 DEF MirrorKept
  <2>5. \A t \in Slots : UnusedKept(t)
    BY <2>1 DEF UnusedKept
  <2>6. \A q \in Producers : NewsKept(q)
    BY <1>3, <1>6 DEF NewsKept
  <2>7. held' \subseteq Slots
    BY <1>6, TypeFacts
  <2> QED BY <1>1, <1>6, <2>4, <2>5, <2>6, <2>7, StepKeepsMirror
<1>7. CASE detachBuffer(p)
  <2>1. PICK s \in Slots : /\ ~mIsAbandoned /\ mSlots' = freeBufferLocked(mSlots, s)
                           /\ mirror' = [mirror EXCEPT ![s] = NoBuffer]
                           /\ held' = held \ {s}
    BY <1>7 DEF detachBuffer, CanGiveBack
  <2>2. held' \subseteq held /\ s \notin held'
    BY <2>1
  <2> QED BY <1>6, <2>1, <2>2
<1>8. CASE detachNextBuffer(p)
  <2>1. PICK s \in Slots : /\ ~mIsAbandoned /\ mSlots' = freeBufferLocked(mSlots, s)
                           /\ mirror' = [mirror EXCEPT ![s] = NoBuffer]
                           /\ held' = held /\ mSlots[s].mBufferState = "FREE"
    BY <1>8 DEF detachNextBuffer, IsOldest, SlotsIn
  <2>2. held' \subseteq held /\ s \notin held'
    BY <2>1 DEF OwnersInv, HeldAreDequeued
  <2> QED BY <1>6, <2>1, <2>2
<1> QED BY <1>4, <1>5, <1>7, <1>8

(* setBufferCount and disconnect tell the client to forget everything, when*)
(* it holds nothing.                                                       *)
LEMMA FreeingAllKeepsMirror ==
  ASSUME TypeOK, OwnersInv, HandsInv, MirrorInv, OneThread, NEW p \in Producers,
         setBufferCount(p) \/ disconnect(p)
  PROVE  MirrorInv'
<1>1. /\ UNCHANGED <<mQueue, acquired, mIsAbandoned>> /\ ~mIsAbandoned /\ call[p] = Idle
      /\ mirror' = NoMirror
  BY DEF setBufferCount, disconnect, connectionVars
<1>2. \A s \in Slots : mirror'[s] = NoBuffer
  BY <1>1 DEF NoMirror
<1>3. \A q \in Producers : ~InHand(q)' /\ ~Asleep(q)'
  <2>1. PICK c : c = IF mConsumerListener THEN [op |-> "buffersReleased"] ELSE Idle
    OBVIOUS
  <2>2. c.op \in EndOps
    BY <2>1 DEF Idle, EndOps
  <2>3. BroadcastAndReturn(p) \/ call' = [Broadcast(call) EXCEPT ![p] = c]
    BY <2>1 DEF setBufferCount, disconnect
  <2>4. Rests(p)
    BY <2>2, <2>3, CallRests, EndRests
  <2>5. ~InHand(p)' /\ ~Asleep(p)'
    BY <1>1, <2>4, RestFacts DEF InHand, Asleep, Idle
  <2> QED BY <2>5 DEF OneThread
<1>4. held' = {}
  <2>1. CASE setBufferCount(p)
    <3>1. \A s \in Slots : mSlots[s].mBufferState # "DEQUEUED"
      BY <2>1 DEF setBufferCount, NoBufferDequeued, SlotsIn
    <3>2. \A s \in held : s \in Slots /\ mSlots[s].mBufferState = "DEQUEUED"
      BY <1>1, TypeFacts DEF OwnersInv, HeldAreDequeued
    <3> QED BY <2>1, <3>1, <3>2 DEF setBufferCount
  <2> QED BY <2>1 DEF disconnect
<1>5. OverrideIsKept'
  <2>1. CASE freeAllBuffersLocked
    BY <1>3, <2>1, FreeAllFacts DEF OverrideIsKept
  <2>2. CASE ~freeAllBuffersLocked
    <3>1. mOverrideMaxBufferCount' = 0
      BY <2>2 DEF setBufferCount, disconnect
    <3> QED BY <3>1 DEF OverrideIsKept
  <2> QED BY <2>1, <2>2
<1>6. MirrorIsFresh' /\ MirrorAgrees'
  BY <1>2, <1>4 DEF MirrorIsFresh, MirrorAgrees
<1>7. AllForgotten' /\ AbandonedApart'
  BY <1>1, <1>4 DEF AllForgotten, AbandonedApart
<1> QED BY <1>5, <1>6, <1>7 DEF MirrorInv

(* queueBuffer, acquireBuffer and releaseBuffer leave the buffers in their *)
(* slots.                                                                  *)
LEMMA PassingKeepsMirror ==
  ASSUME TypeOK, OwnersInv, HandsInv, MirrorInv, OneThread,
         \/ \E p \in Producers : queueBuffer(p)
         \/ acquireBuffer
         \/ \E h \in acquired : releaseBuffer(h)
  PROVE  MirrorInv'
<1>1. ASSUME NEW p \in Producers, queueBuffer(p)
      PROVE  MirrorInv'
  <2>1. /\ UNCHANGED <<acquired, mIsAbandoned, mirror>> /\ ~mIsAbandoned
        /\ \A q \in Producers : Rests(q)
    BY <1>1, QueueFactsOf
  <2>2. PICK s, item : Puts(s, item)
    BY <1>1, QueueFactsOf
  <2>3. UNCHANGED mOverrideMaxBufferCount /\ call[p].op # "returned"
    <3>1. UNCHANGED mOverrideMaxBufferCount /\ call[p] = Idle
      BY <1>1 DEF queueBuffer, limitVars, CanGiveBack
    <3> QED BY <3>1 DEF Idle
  <2>4. \A q \in Producers : call[q].op # "returned"
    BY <2>3 DEF OneThread
  <2>5. \A t \in Slots :
          /\ mSlots'[t].mGraphicBuffer = mSlots[t].mGraphicBuffer
          /\ mSlots[t].mBufferState = "FREE" => mSlots'[t].mBufferState = "FREE"
    BY <2>2 DEF Puts
  <2>6. held' \subseteq held
    BY <2>2 DEF Puts
  <2> QED BY <2>1, <2>3, <2>4, <2>5, <2>6, SameKeepsMirror
<1>2. CASE acquireBuffer
  <2>1. /\ UNCHANGED <<mIsAbandoned, held, mirror>> /\ held' \subseteq held
        /\ \A q \in Producers : Rests(q)
    BY <1>2, AcquireFacts
  <2>2. UNCHANGED mOverrideMaxBufferCount /\ mQueue # << >> /\ WakeProducers
    BY <1>2 DEF acquireBuffer, limitVars
  <2>3. ~mIsAbandoned
    BY <2>2 DEF MirrorInv, AbandonedApart
  <2>4. \A q \in Producers : call[q].op = "returned" => call'[q] = call[q]
    BY <2>2 DEF WakeProducers, Broadcast
  <2>5. PICK n \in 0 .. Len(mQueue) - 1 : Acquires(n)
    BY <1>2, AcquireFacts
  <2>6. 1 .. n + 1 \subseteq 1 .. Len(mQueue) /\ n + 1 \in 1 .. n + 1 /\ 1 .. n \subseteq 1 .. n + 1
    BY TypeFacts
  <2>7. ASSUME NEW t \in Slots, mSlots[t].mBufferState = "FREE"
        PROVE  mSlots'[t].mBufferState = "FREE"
    <3>1. ~TakenFrom(n, t) /\ ~DroppedFrom(n, t)
      BY <2>6, <2>7 DEF TakenFrom, DroppedFrom, OwnersInv, TrackedItemsAreQueued
    <3> QED BY <2>5, <2>7, <3>1 DEF Acquires
  <2>8. \A t \in Slots : mSlots'[t].mGraphicBuffer = mSlots[t].mGraphicBuffer
    BY <2>5 DEF Acquires
  <2> QED BY <2>1, <2>2, <2>3, <2>4, <2>7, <2>8, SameKeepsMirror
<1>3. ASSUME NEW h \in acquired, releaseBuffer(h)
      PROVE  MirrorInv'
  <2>1. /\ UNCHANGED <<mQueue, mIsAbandoned, mOverrideMaxBufferCount, held, mirror>>
        /\ held' \subseteq held /\ acquired' \subseteq acquired
    BY <1>3 DEF releaseBuffer, connectionVars, limitVars, clientVars
  <2>2. UNCHANGED call \/ WakeProducers
    BY <1>3 DEF releaseBuffer, ReleaseSlot
  <2>3. \A q \in Producers : call[q].op = "returned" => call'[q] = call[q]
    BY <2>2 DEF WakeProducers, Broadcast
  <2>4. \A q \in Producers : Rests(q)
    BY <2>2, CallRests
  <2>5. PICK s \in Slots : s = h.slot
    BY TypeFacts DEF Handle
  <2>6. \/ mSlots' = [mSlots EXCEPT ![s].mBufferState = "FREE"]
        \/ mSlots' = [mSlots EXCEPT ![s].mNeedsCleanupOnRelease = FALSE]
        \/ mSlots' = mSlots
    BY <1>3, <2>5 DEF releaseBuffer, ReleaseSlot
  <2>7. \A t \in Slots :
          /\ mSlots'[t].mGraphicBuffer = mSlots[t].mGraphicBuffer
          /\ mSlots[t].mBufferState = "FREE" => mSlots'[t].mBufferState = "FREE"
    <3>1. CASE mSlots' = [mSlots EXCEPT ![s].mBufferState = "FREE"]
      BY <3>1, TypeFacts DEF BufferSlot
    <3>2. CASE mSlots' = [mSlots EXCEPT ![s].mNeedsCleanupOnRelease = FALSE]
      BY <3>2, TypeFacts DEF BufferSlot
    <3>3. CASE mSlots' = mSlots
      BY <3>3
    <3> QED BY <2>6, <3>1, <3>2, <3>3
  <2> QED BY <2>1, <2>3, <2>4, <2>7, SameKeepsMirror
<1> QED BY <1>1, <1>2, <1>3

(* When the consumer leaves, what it still has is not what the client has, *)
(* nor what the client is about to get.                                    *)
LEMMA LeaveKeepsMirror ==
  ASSUME TypeOK, OwnersInv, HandsInv, MirrorInv, OneThread, consumerDisconnect
  PROVE  MirrorInv'
<1>1. /\ UNCHANGED <<acquired, mOverrideMaxBufferCount, held, mirror>>
      /\ mIsAbandoned' /\ mQueue' = << >> /\ freeAllBuffersLocked /\ WakeProducers
      /\ \A q \in Producers : Rests(q)
  BY CallRests DEF consumerDisconnect, limitVars, clientVars
<1>2. \A s \in Slots : /\ mSlots'[s].mBufferState = "FREE"
                       /\ mSlots'[s].mGraphicBuffer = NoBuffer
  BY <1>1, FreeAllFacts
<1>3. OverrideIsKept'
  BY <1>1, <1>2, RestFacts DEF MirrorInv, OverrideIsKept
<1>4. MirrorIsFresh' /\ MirrorAgrees' /\ AllForgotten'
  BY <1>1 DEF MirrorIsFresh, MirrorAgrees, AllForgotten
<1>5. ASSUME NEW s \in Slots, NEW h \in acquired, MayHold(s) PROVE mirror[s] # h.buffer
  <2>1. CASE mIsAbandoned
    BY <1>5, <2>1 DEF MirrorInv, AbandonedApart
  <2>2. CASE ~mIsAbandoned
    <3>1. h.buffer # NoBuffer /\ (mSlots[s].mGraphicBuffer = h.buffer =>
                                    mSlots[s].mBufferState = "ACQUIRED")
      BY DEF HandsInv, AcquiredOnce
    <3>2. CASE s \in held
      BY <2>2, <3>1, <3>2 DEF MirrorInv, MirrorAgrees, OwnersInv, HeldAreDequeued
    <3>3. CASE s \notin held
      <4>1. PICK p \in Producers : /\ call[p].op = "returned" /\ call[p].slot = s
                                   /\ ~call[p].realloc
        BY <1>5, <3>3 DEF MayHold
      <4>2. mSlots[s].mBufferState = "DEQUEUED" /\ mSlots[s].mGraphicBuffer # NoBuffer
        BY <2>2, <4>1 DEF OwnersInv, ThreadsOwn, ThreadOwns, InHand
      <4>3. ~Told(s)
        BY <4>1 DEF Told, OneThread
      <4>4. mirror[s] \in {NoBuffer, mSlots[s].mGraphicBuffer}
        BY <2>2, <4>2, <4>3 DEF MirrorInv, MirrorIsFresh
      <4> QED BY <3>1, <4>2, <4>4
    <3> QED BY <3>2, <3>3
  <2> QED BY <2>1, <2>2
<1>6. \A s \in Slots : MayHold(s)' => MayHold(s)
  <2>1. \A q \in Producers : call'[q].op = "returned" => call'[q] = call[q]
    BY <1>1 DEF WakeProducers, Broadcast
  <2> QED BY <1>1, <2>1 DEF MayHold
<1>7. AbandonedApart'
  BY <1>1, <1>5, <1>6 DEF AbandonedApart
<1> QED BY <1>3, <1>4, <1>7 DEF MirrorInv

(* The other steps leave slots and mirror alone.                           *)
LEMMA OthersKeepMirror ==
  ASSUME TypeOK, HandsInv, MirrorInv, OneThread,
         \/ \E p \in Producers :
              \/ dequeueBufferAllocationFailed(p) \/ queueBufferCallback(p) \/ connect(p)
              \/ buffersReleasedCallback(p)
         \/ consumerConnect \/ setDefaultMaxBufferCount \/ setMaxAcquiredBufferCount
         \/ disableAsyncBuffer \/ setDefaultBufferSize
         \/ UNCHANGED vars
  PROVE  MirrorInv'
<1>1. ASSUME UNCHANGED <<mQueue, mSlots, acquired, mIsAbandoned, mOverrideMaxBufferCount,
                         held, mirror>>,
             \A q \in Producers : Rests(q) /\ (call[q].op = "returned" => call'[q] = call[q])
      PROVE  MirrorInv'
  <2>1. held' \subseteq held /\ acquired' \subseteq acquired  BY <1>1
  <2> QED BY <1>1, <2>1, SameKeepsMirror
<1>2. ASSUME UNCHANGED <<mQueue, mSlots, acquired, mIsAbandoned, mOverrideMaxBufferCount,
                         held, mirror>>,
             UNCHANGED call \/ WakeProducers
      PROVE  MirrorInv'
  <2>1. \A q \in Producers : call[q].op = "returned" => call'[q] = call[q]
    BY <1>2 DEF WakeProducers, Broadcast
  <2>2. \A q \in Producers : Rests(q)
    BY <1>2, CallRests
  <2> QED BY <1>1, <1>2, <2>1, <2>2
<1>3. ASSUME NEW p \in Producers,
             \/ dequeueBufferAllocationFailed(p) \/ queueBufferCallback(p)
             \/ buffersReleasedCallback(p)
      PROVE  MirrorInv'
  <2>1. /\ UNCHANGED <<mQueue, mSlots, acquired, mIsAbandoned, mOverrideMaxBufferCount,
                       held, mirror>>
        /\ Return(p) /\ call[p].op # "returned"
    BY <1>3 DEF dequeueBufferAllocationFailed, queueBufferCallback,
       buffersReleasedCallback, coreVars, connectionVars, limitVars
  <2>2. \A q \in Producers : call[q].op # "returned"
    BY <2>1 DEF OneThread
  <2>3. \A q \in Producers : Rests(q)
    BY <2>1, CallRests
  <2> QED BY <1>1, <2>1, <2>2, <2>3
<1>4. ASSUME NEW p \in Producers, connect(p)
      PROVE  MirrorInv'
  <2>1. UNCHANGED <<mQueue, mSlots, acquired, mIsAbandoned, mOverrideMaxBufferCount,
                    held, mirror, call>>
    BY <1>4 DEF connect, limitVars, producerVars
  <2> QED BY <1>2, <2>1
<1>5. CASE \/ consumerConnect \/ setDefaultMaxBufferCount \/ setMaxAcquiredBufferCount
           \/ disableAsyncBuffer \/ setDefaultBufferSize
  <2>1. /\ UNCHANGED <<mQueue, mSlots, acquired, mIsAbandoned, mOverrideMaxBufferCount,
                       held, mirror>>
        /\ UNCHANGED call \/ WakeProducers
    BY <1>5 DEF consumerConnect, setDefaultMaxBufferCount, setMaxAcquiredBufferCount,
       disableAsyncBuffer, setDefaultBufferSize, connectionVars, producerVars, clientVars,
       limitVars
  <2> QED BY <1>2, <2>1
<1>6. CASE UNCHANGED vars
  <2>1. UNCHANGED <<mQueue, mSlots, acquired, mIsAbandoned, mOverrideMaxBufferCount,
                    held, mirror, call>>
    BY <1>6 DEF vars, coreVars, connectionVars, limitVars, producerVars
  <2> QED BY <1>2, <2>1
<1> QED BY <1>3, <1>4, <1>5, <1>6

(* A thread that stays where it is does not enter allocateBuffers.         *)
LEMMA StaysOut ==
  ASSUME NotAllocating, NEW q \in Producers, Stays(q)
  PROVE  call'[q].op \notin {"allocateBuffers", "preallocating"}
<1>1. CASE call'[q] = call[q]
  BY <1>1 DEF NotAllocating
<1>2. CASE call'[q] = [op |-> "woken", req |-> call[q].req]
  BY <1>2
<1> QED BY <1>1, <1>2 DEF Stays

(* A client that never calls allocateBuffers is never inside of it.        *)
LEMMA NextKeepsNotAllocating ==
  ASSUME ~Preallocates, TypeOK, NotAllocating, [Next]_vars
  PROVE  NotAllocating'
<1>1. ASSUME NEW p \in Producers, ProducerStep(p)
      PROVE  NotAllocating'
  <2>1. \A q \in Producers \ {p} : Stays(q)
    BY <1>1, EveryCallMoves, MovesOnly
  <2>2. \A q \in Producers \ {p} : call'[q].op \notin {"allocateBuffers", "preallocating"}
    BY <2>1, StaysOut
  <2>3. ASSUME call'[p].op \notin {"allocateBuffers", "preallocating"}
        PROVE  NotAllocating'
    BY <2>2, <2>3 DEF NotAllocating
  <2>4. ASSUME Return(p) \/ BroadcastAndReturn(p) \/ UNCHANGED call
        PROVE  NotAllocating'
    <3>1. DOMAIN call = Producers /\ DOMAIN Broadcast(call) = Producers
      BY TypeFacts DEF Broadcast
    <3>2. call'[p] = Idle \/ call'[p] = call[p]
      BY <2>4, <3>1 DEF Return, BroadcastAndReturn
    <3> QED BY <2>3, <3>2 DEF Idle, NotAllocating
  <2>5. ASSUME NEW c, c.op \notin {"allocateBuffers", "preallocating"},
               \/ call' = [call EXCEPT ![p] = c]
               \/ call' = [Broadcast(call) EXCEPT ![p] = c]
        PROVE  NotAllocating'
    <3>1. DOMAIN call = Producers /\ DOMAIN Broadcast(call) = Producers
      BY TypeFacts DEF Broadcast
    <3>2. call'[p] = c
      BY <2>5, <3>1
    <3> QED BY <2>3, <2>5, <3>2
  <2>6. CASE Retry(p) \/ dequeueBuffer(p) \/ attachBuffer(p)
    <3>1. PICK req : waitForFreeSlotThenRelock(p, req)
      BY <2>6 DEF Retry, dequeueBuffer, attachBuffer
    <3>2. PICK slots, released :
            /\ slots = TrimmedSlots(getMaxBufferCountLocked(req.async))
            /\ released = (req.released \/ BeyondMax(getMaxBufferCountLocked(req.async)) # {})
      OBVIOUS
    <3>3. slots \in [Slots -> BufferSlot]
      BY <3>2, TrimmedFacts DEF TypeOK
    <3>4. ASSUME NEW s \in Slots, DequeueFound(p, req, slots, s, released)
          PROVE  NotAllocating'
      <4>1. Finds(p, slots, s, released)
        BY <3>3, <3>4, FoundFacts
      <4> QED BY <2>3, <4>1 DEF Finds
    <3>5. ASSUME NEW s \in Slots, AttachFound(p, req, slots, s, released)
          PROVE  NotAllocating'
      BY <2>4, <3>5 DEF AttachFound
    <3>6. CASE call' = [call EXCEPT ![p] = [op |-> "waiting",
                          req |-> [req EXCEPT !.released = released]]]
      <4>1. PICK c : c = [op |-> "waiting", req |-> [req EXCEPT !.released = released]]
        OBVIOUS
      <4>2. c.op = "waiting" /\ call' = [call EXCEPT ![p] = c]
        BY <3>6, <4>1
      <4> QED BY <2>5, <4>2
    <3> QED BY <2>4, <3>1, <3>2, <3>4, <3>5, <3>6 DEF waitForFreeSlotThenRelock
  <2>7. CASE dequeueBufferAllocated(p)
    <3>1. PICK c : c = [op |-> "returned", slot |-> call[p].slot,
                        released |-> call[p].released, realloc |-> TRUE]
      OBVIOUS
    <3>2. Return(p) \/ call' = [call EXCEPT ![p] = c]
      BY <2>7, <3>1 DEF dequeueBufferAllocated
    <3> QED BY <2>4, <2>5, <3>1, <3>2
  <2>8. CASE requestBuffer(p)
    <3>1. PICK c : c = [op |-> "refused", slot |-> call[p].slot]
      OBVIOUS
    <3>2. Return(p) \/ call' = [call EXCEPT ![p] = c]
      BY <2>8, <3>1 DEF requestBuffer
    <3> QED BY <2>4, <2>5, <3>1, <3>2
  <2>9. CASE queueBuffer(p)
    <3>1. PICK c : c = [op |-> "callback", ticket |-> mNextCallbackTicket,
                        frame |-> mFrameCounter + 1, event |-> CallbackEvent]
      OBVIOUS
    <3>2. c.op = "callback" /\ call' = [Broadcast(call) EXCEPT ![p] = c]
      BY <2>9, <3>1 DEF queueBuffer
    <3> QED BY <2>5, <3>2
  <2>10. CASE setBufferCount(p) \/ disconnect(p)
    <3>1. PICK c : c = IF mConsumerListener THEN [op |-> "buffersReleased"] ELSE Idle
      OBVIOUS
    <3>2. c.op \notin {"allocateBuffers", "preallocating"}
      BY <3>1 DEF Idle
    <3>3. BroadcastAndReturn(p) \/ call' = [Broadcast(call) EXCEPT ![p] = c]
      BY <2>10, <3>1 DEF setBufferCount, disconnect
    <3> QED BY <2>4, <2>5, <3>2, <3>3
  <2>11. CASE \/ dequeueBufferAllocationFailed(p) \/ cancelRefused(p) \/ cancelBuffer(p)
              \/ queueBufferCallback(p) \/ detachBuffer(p) \/ detachNextBuffer(p)
              \/ connect(p) \/ buffersReleasedCallback(p)
    <3>1. Return(p) \/ BroadcastAndReturn(p) \/ UNCHANGED call
      BY <2>11 DEF dequeueBufferAllocationFailed, cancelRefused, cancelBuffer,
         queueBufferCallback, detachBuffer, detachNextBuffer, connect,
         buffersReleasedCallback, producerVars
    <3> QED BY <2>4, <3>1
  <2>12. ~allocateBuffers(p) /\ ~allocateBuffersAllocated(p) /\ ~allocateBuffersFailed(p)
    BY DEF allocateBuffers, allocateBuffersAllocated, allocateBuffersFailed, NotAllocating
  <2> QED BY <1>1, <2>6, <2>7, <2>8, <2>9, <2>10, <2>11, <2>12 DEF ProducerStep, ProducerCall
<1>2. CASE ConsumerStep
  BY <1>2, ConsumerMovesNobody, StaysOut DEF NotAllocating
<1>3. CASE UNCHANGED vars
  <2>1. UNCHANGED call
    BY <1>3 DEF vars, producerVars
  <2> QED BY <2>1 DEF NotAllocating
<1> QED BY <1>1, <1>2, <1>3 DEF Next

(* In the beginning the client remembers nothing and nobody allocates.     *)
LEMMA InitMirror == Init => MirrorInv /\ NotAllocating
<1> SUFFICES ASSUME Init PROVE MirrorInv /\ NotAllocating
  OBVIOUS
<1>1. /\ \A s \in Slots : mSlots[s] = EmptySlot
      /\ mOverrideMaxBufferCount = 0 /\ ~mIsAbandoned /\ held = {}
      /\ \A p \in Producers : call[p].op = "idle"
  BY DEF Init, CoreInit, ProducerInit, Idle
<1>2. OverrideIsKept /\ MirrorIsFresh /\ AllForgotten
  BY <1>1 DEF OverrideIsKept, MirrorIsFresh, AllForgotten, EmptySlot
<1>3. MirrorAgrees /\ AbandonedApart /\ NotAllocating
  BY <1>1 DEF MirrorAgrees, AbandonedApart, NotAllocating
<1> QED BY <1>2, <1>3 DEF MirrorInv

(* MirrorInv is inductive, given the other layers and one thread.          *)
LEMMA NextKeepsMirror ==
  ASSUME OneThread, ~ConsumerAttaches, ~Preallocates, TypeOK, OwnersInv, HandsInv,
         NotAllocating, MirrorInv, [Next]_vars
  PROVE  MirrorInv'
<1>1. ASSUME NEW p \in Producers, ProducerStep(p)
      PROVE  MirrorInv'
  <2>1. CASE Retry(p) \/ dequeueBuffer(p) \/ attachBuffer(p)
    BY <2>1, AskingKeepsMirror
  <2>2. CASE dequeueBufferAllocated(p)
    BY <2>2, AllocatedKeepsMirror
  <2>3. CASE requestBuffer(p)
    BY <2>3, RequestKeepsMirror
  <2>4. CASE cancelRefused(p) \/ cancelBuffer(p) \/ detachBuffer(p) \/ detachNextBuffer(p)
    BY <2>4, GivingKeepsMirror
  <2>5. CASE queueBuffer(p)
    BY <2>5, PassingKeepsMirror
  <2>6. CASE setBufferCount(p) \/ disconnect(p)
    BY <2>6, FreeingAllKeepsMirror
  <2>7. CASE \/ dequeueBufferAllocationFailed(p) \/ queueBufferCallback(p) \/ connect(p)
             \/ buffersReleasedCallback(p)
    BY <2>7, OthersKeepMirror
  <2>8. ~allocateBuffers(p) /\ ~allocateBuffersAllocated(p) /\ ~allocateBuffersFailed(p)
    BY DEF allocateBuffers, allocateBuffersAllocated, allocateBuffersFailed, NotAllocating
  <2> QED BY <1>1, <2>1, <2>2, <2>3, <2>4, <2>5, <2>6, <2>7, <2>8
          DEF ProducerStep, ProducerCall
<1>2. CASE ConsumerStep
  <2>1. CASE acquireBuffer \/ \E h \in acquired : releaseBuffer(h) \/ detachAcquired(h)
    BY <2>1, PassingKeepsMirror DEF detachAcquired
  <2>2. CASE consumerDisconnect
    BY <2>2, LeaveKeepsMirror
  <2>3. CASE \/ consumerConnect \/ setDefaultMaxBufferCount \/ setMaxAcquiredBufferCount
             \/ disableAsyncBuffer \/ setDefaultBufferSize
    BY <2>3, OthersKeepMirror
  <2> QED BY <1>2, <2>1, <2>2, <2>3 DEF ConsumerStep, ConsumerConfigure, attachAcquired
<1>3. CASE UNCHANGED vars
  BY <1>3, OthersKeepMirror
<1> QED BY <1>1, <1>2, <1>3 DEF Next

(* Until the queue is abandoned, what the client holds is in DEQUEUED slots*)
(* and what the consumer has in ACQUIRED ones; afterwards they are apart   *)
(* because they were.                                                      *)
LEMMA KnownBuffers ==
  ASSUME TypeOK, OwnersInv, HandsInv, MirrorInv
  PROVE  BuffersAreKnown
<1>1. MirrorAgrees /\ RequestedSlotsHaveBuffers
  BY DEF MirrorInv, OwnersInv
<1>2. ASSUME NEW s \in held, NEW h \in acquired PROVE mirror[s] # h.buffer
  <2>1. s \in Slots
    BY TypeFacts
  <2>2. CASE mIsAbandoned
    BY <2>1, <2>2 DEF MirrorInv, AbandonedApart, MayHold
  <2>3. CASE ~mIsAbandoned
    <3>1. mirror[s] = mSlots[s].mGraphicBuffer /\ mSlots[s].mBufferState = "DEQUEUED"
      BY <2>3 DEF MirrorInv, MirrorAgrees, OwnersInv, HeldAreDequeued
    <3> QED BY <2>1, <3>1 DEF HandsInv, AcquiredOnce
  <2> QED BY <2>2, <2>3
<1> QED BY <1>1, <1>2 DEF BuffersAreKnown, ExclusiveBuffers

(* A client with one thread, whose mirror dequeueBuffer's flags keep, draws*)
(* into the buffers the queue will give to the consumer, and into none the *)
(* consumer has, whether or not the queue has been abandoned meanwhile     *)
(* (Surface.cpp:180-300, BufferQueueProducer.cpp:64-100, 271-390).         *)
THEOREM ClientKnowsItsBuffers ==
  ASSUME OneThread, ~ConcurrentDisconnect, ~ReattachQueued, ~ConsumerAttaches,
         ~Preallocates
  PROVE  Spec => []BuffersAreKnown
<1>1. NotAllocating /\ TypeOK /\ [Next]_vars => NotAllocating'
  BY NextKeepsNotAllocating
<1>2. /\ TypeOK /\ OwnersInv /\ HandsInv /\ NotAllocating /\ MirrorInv
      /\ [Next]_vars
      => MirrorInv'
  BY NextKeepsMirror
<1>3. TypeOK /\ OwnersInv /\ HandsInv /\ MirrorInv => BuffersAreKnown
  BY KnownBuffers
<1> QED BY <1>1, <1>2, <1>3, InitMirror, TypeCorrect, OwnersInvariant, HandsInvariant,
        PTL DEF Spec
-----------------------------------------------------------------------------
(* The life of a slot, step by step.                                       *)
Lives(s) ==
  \/ mSlots'[s].mBufferState = mSlots[s].mBufferState
  \/ <<mSlots[s].mBufferState, mSlots'[s].mBufferState>> \in SlotTransitions

(* The edges of the life of a slot.                                        *)
LEMMA LifeFacts ==
  ASSUME TypeOK, NEW s \in Slots
  PROVE  /\ mSlots'[s].mBufferState = "FREE" => Lives(s)
         /\ mSlots[s].mBufferState = "FREE" /\ mSlots'[s].mBufferState = "DEQUEUED" => Lives(s)
         /\ mSlots[s].mBufferState = "FREE" /\ mSlots'[s].mBufferState = "ACQUIRED" => Lives(s)
         /\ mSlots[s].mBufferState = "DEQUEUED" /\ mSlots'[s].mBufferState = "QUEUED" => Lives(s)
         /\ mSlots[s].mBufferState = "QUEUED" /\ mSlots'[s].mBufferState = "ACQUIRED" => Lives(s)
<1>1. mSlots[s].mBufferState \in BufferState
  BY TypeFacts DEF BufferSlot
<1> QED BY <1>1 DEF Lives, SlotTransitions

(* A slot is found FREE, and becomes DEQUEUED; trimmed slots become FREE.  *)
LEMMA AskingLives ==
  ASSUME TypeOK, NEW p \in Producers, NEW s \in Slots,
         Retry(p) \/ dequeueBuffer(p) \/ attachBuffer(p)
  PROVE  Lives(s)
<1>1. PICK req : waitForFreeSlotThenRelock(p, req)
  BY DEF Retry, dequeueBuffer, attachBuffer
<1>2. PICK max, slots, released :
        /\ max = getMaxBufferCountLocked(req.async) /\ slots = TrimmedSlots(max)
        /\ released = (req.released \/ BeyondMax(max) # {})
  OBVIOUS
<1>3. slots \in [Slots -> BufferSlot] /\ max \in Nat
      /\ \A t \in Slots : slots[t] = mSlots[t] \/ slots[t].mBufferState = "FREE"
  BY <1>2, TrimmedFacts, BusyBelowMax DEF TypeOK
<1>4. CASE mSlots' \in {mSlots, slots}
  BY <1>3, <1>4, LifeFacts DEF Lives
<1>5. ASSUME NEW t \in Slots, IsOldest(slots, t, Below(max, "FREE"))
      PROVE  mSlots[t].mBufferState = "FREE"
  <2>1. slots[t].mBufferState = "FREE" /\ t < max
    BY <1>2, <1>5 DEF IsOldest, Below, SlotsIn
  <2>2. t \notin BeyondMax(max)
    BY <1>3, <2>1 DEF BeyondMax, Slots
  <2> QED BY <1>2, <2>1, <2>2 DEF TrimmedSlots
<1>6. ASSUME NEW t \in Slots, mSlots[t].mBufferState = "FREE",
             mSlots'[t].mBufferState = "DEQUEUED",
             \A u \in Slots \ {t} : mSlots'[u] = slots[u]
      PROVE  Lives(s)
  <2>1. CASE s = t
    BY <1>6, <2>1, LifeFacts
  <2>2. CASE s # t
    BY <1>3, <1>6, <2>2, LifeFacts DEF Lives
  <2> QED BY <2>1, <2>2
<1>7. ASSUME NEW t \in Slots, DequeueFound(p, req, slots, t, released),
             mSlots[t].mBufferState = "FREE"
      PROVE  Lives(s)
  <2>1. Finds(p, slots, t, released)
    BY <1>3, <1>7, FoundFacts
  <2> QED BY <1>6, <1>7, <2>1 DEF Finds
<1>8. ASSUME NEW t \in Slots, AttachFound(p, req, slots, t, released),
             mSlots[t].mBufferState = "FREE"
      PROVE  Lives(s)
  <2>1. /\ mSlots'[t].mBufferState = "DEQUEUED"
        /\ \A u \in Slots \ {t} : mSlots'[u] = slots[u]
    BY <1>3, <1>8 DEF AttachFound, BufferSlot
  <2> QED BY <1>6, <1>8, <2>1
<1> QED BY <1>1, <1>2, <1>4, <1>5, <1>7, <1>8 DEF waitForFreeSlotThenRelock

(* The calls of the producer.                                              *)
LEMMA ProducerLives ==
  ASSUME TypeOK, NEW p \in Producers, ProducerStep(p), NEW s \in Slots
  PROVE  Lives(s)
<1>1. CASE Retry(p) \/ dequeueBuffer(p) \/ attachBuffer(p)
  BY <1>1, AskingLives
<1>2. CASE dequeueBufferAllocated(p)
  <2>1. call[p].slot \in Slots
    BY <1>2, TypeFacts DEF dequeueBufferAllocated, InHand
  <2>2. CASE UNCHANGED mSlots
    BY <2>2 DEF Lives
  <2>3. CASE ~UNCHANGED mSlots
    <3>1. PICK t \in Slots : t = call[p].slot
      BY <2>1
    <3>2. PICK b \in Fresh(call[p].size) :
            mSlots' = [mSlots EXCEPT ![t] = [@ EXCEPT !.mFrameNumber = UINT32_MAX,
                                                      !.mGraphicBuffer = b]]
      BY <1>2, <2>3, <3>1 DEF dequeueBufferAllocated
    <3> QED BY <3>2, TypeFacts DEF Lives, BufferSlot
  <2> QED BY <2>2, <2>3
<1>3. CASE requestBuffer(p)
  <2>1. PICK t \in Slots : t = call[p].slot
    BY <1>3, TypeFacts DEF requestBuffer, InHand
  <2>2. mSlots' = [mSlots EXCEPT ![t].mRequestBufferCalled = TRUE] \/ UNCHANGED mSlots
    BY <1>3, <2>1 DEF requestBuffer
  <2>3. mSlots'[s].mBufferState = mSlots[s].mBufferState
    BY <2>2, TypeFacts DEF BufferSlot
  <2> QED BY <2>3 DEF Lives
<1>4. CASE queueBuffer(p)
  <2>1. PICK t, item : Puts(t, item)
    BY <1>4, QueueFactsOf
  <2>2. CASE FrontFreed(s)
    BY <2>1, <2>2, LifeFacts DEF Puts
  <2>3. CASE ~FrontFreed(s) /\ s = t
    BY <2>1, <2>3, LifeFacts DEF Puts
  <2>4. CASE ~FrontFreed(s) /\ s # t
    BY <2>1, <2>4 DEF Puts, Lives
  <2> QED BY <2>2, <2>3, <2>4
<1>5. CASE cancelRefused(p) \/ cancelBuffer(p) \/ detachBuffer(p) \/ detachNextBuffer(p)
  <2>1. \/ UNCHANGED mSlots
        \/ \E t : mSlots' = CancelledSlot(t)
        \/ \E t : mSlots' = freeBufferLocked(mSlots, t)
    BY <1>5 DEF cancelRefused, cancelBuffer, detachBuffer, detachNextBuffer
  <2>2. CASE UNCHANGED mSlots
    BY <2>2 DEF Lives
  <2>3. ASSUME NEW t, mSlots' = CancelledSlot(t) PROVE Lives(s)
    <3>1. mSlots'[s] = mSlots[s] \/ mSlots'[s].mBufferState = "FREE"
      BY <2>3, TypeFacts DEF CancelledSlot, BufferSlot
    <3> QED BY <3>1, LifeFacts DEF Lives
  <2>4. ASSUME NEW t, mSlots' = freeBufferLocked(mSlots, t) PROVE Lives(s)
    <3>1. mSlots'[s] = mSlots[s] \/ mSlots'[s].mBufferState = "FREE"
      BY <2>4, TypeFacts DEF freeBufferLocked, FreedSlot, BufferSlot
    <3> QED BY <3>1, LifeFacts DEF Lives
  <2> QED BY <2>1, <2>2, <2>3, <2>4
<1>6. CASE setBufferCount(p) \/ disconnect(p)
  <2>1. UNCHANGED mSlots \/ freeAllBuffersLocked
    BY <1>6 DEF setBufferCount, disconnect
  <2>2. UNCHANGED mSlots \/ mSlots'[s].mBufferState = "FREE"
    BY <2>1, FreeAllFacts
  <2> QED BY <2>2, LifeFacts DEF Lives
<1>7. CASE allocateBuffersAllocated(p)
  <2>1. CASE UNCHANGED mSlots
    BY <2>1 DEF Lives
  <2>2. CASE ~UNCHANGED mSlots
    <3>1. PICK fill : fill = call[p].slots \cap SlotsIn(mSlots, {"FREE"})
      OBVIOUS
    <3>2. PICK new \in [fill -> Fresh(call[p].size)] :
            /\ \A u, t \in fill : new[u] = new[t] => u = t
            /\ mSlots' = [t \in Slots |->
                            IF t \in fill
                            THEN [FreedSlot(mSlots[t]) EXCEPT !.mGraphicBuffer = new[t],
                                                              !.mFrameNumber = 0]
                            ELSE mSlots[t]]
      BY <1>7, <2>2, <3>1 DEF allocateBuffersAllocated
    <3>3. PICK slot : slot = FreedSlot(mSlots[s])
      OBVIOUS
    <3>4. slot \in BufferSlot /\ slot.mBufferState = "FREE"
      BY <3>3, TypeFacts, FreedSlotType DEF FreedSlot, BufferSlot
    <3>5. mSlots'[s] = IF s \in fill
                       THEN [slot EXCEPT !.mGraphicBuffer = new[s], !.mFrameNumber = 0]
                       ELSE mSlots[s]
      BY <3>3, <3>2
    <3>6. mSlots'[s] = mSlots[s] \/ mSlots'[s].mBufferState = "FREE"
      BY <3>4, <3>5 DEF BufferSlot
    <3> QED BY <3>6, LifeFacts DEF Lives
  <2> QED BY <2>1, <2>2
<1>8. CASE \/ dequeueBufferAllocationFailed(p) \/ queueBufferCallback(p) \/ connect(p)
           \/ allocateBuffers(p) \/ allocateBuffersFailed(p) \/ buffersReleasedCallback(p)
  <2>1. UNCHANGED mSlots
    BY <1>8 DEF dequeueBufferAllocationFailed, queueBufferCallback, connect, allocateBuffers,
       AllocateBuffersTurn, allocateBuffersFailed, buffersReleasedCallback, coreVars
  <2> QED BY <2>1 DEF Lives
<1> QED BY <1>1, <1>2, <1>3, <1>4, <1>5, <1>6, <1>7, <1>8 DEF ProducerStep, ProducerCall

(* The calls of the consumer, which needs the items to own their slots.    *)
LEMMA ConsumerLives ==
  ASSUME TypeOK, TrackedItemsAreQueued, ConsumerStep, NEW s \in Slots
  PROVE  Lives(s)
<1>1. CASE acquireBuffer
  <2>1. PICK n \in 0 .. Len(mQueue) - 1 : Acquires(n)
    BY <1>1, AcquireFacts
  <2>2. n + 1 \in 1 .. Len(mQueue)
    BY TypeFacts
  <2>3. CASE TakenFrom(n, s)
    <3>1. mSlots[s].mBufferState = "QUEUED"
      BY <2>2, <2>3 DEF TakenFrom, TrackedItemsAreQueued
    <3> QED BY <2>1, <2>3, <3>1, LifeFacts DEF Acquires
  <2>4. CASE ~TakenFrom(n, s) /\ DroppedFrom(n, s)
    BY <2>1, <2>4, LifeFacts DEF Acquires
  <2>5. CASE ~TakenFrom(n, s) /\ ~DroppedFrom(n, s)
    BY <2>1, <2>5 DEF Acquires, Lives
  <2> QED BY <2>3, <2>4, <2>5
<1>2. ASSUME NEW h \in acquired, releaseBuffer(h) \/ detachAcquired(h)
      PROVE  Lives(s)
  <2>1. PICK t \in Slots : t = h.slot
    BY TypeFacts DEF Handle
  <2>2. \/ mSlots' = [mSlots EXCEPT ![t].mBufferState = "FREE"]
        \/ mSlots' = [mSlots EXCEPT ![t].mNeedsCleanupOnRelease = FALSE]
        \/ mSlots' = freeBufferLocked(mSlots, t)
        \/ mSlots' = mSlots
    BY <1>2, <2>1 DEF releaseBuffer, ReleaseSlot, detachAcquired
  <2>3. CASE mSlots' = [mSlots EXCEPT ![t].mBufferState = "FREE"]
    <3>1. mSlots'[s] = mSlots[s] \/ mSlots'[s].mBufferState = "FREE"
      BY <2>3, TypeFacts DEF BufferSlot
    <3> QED BY <3>1, LifeFacts DEF Lives
  <2>4. CASE mSlots' = [mSlots EXCEPT ![t].mNeedsCleanupOnRelease = FALSE]
    BY <2>4, TypeFacts DEF Lives, BufferSlot
  <2>5. CASE mSlots' = freeBufferLocked(mSlots, t)
    <3>1. mSlots'[s] = mSlots[s] \/ mSlots'[s].mBufferState = "FREE"
      BY <2>5, TypeFacts DEF freeBufferLocked, FreedSlot, BufferSlot
    <3> QED BY <3>1, LifeFacts DEF Lives
  <2> QED BY <2>2, <2>3, <2>4, <2>5 DEF Lives
<1>3. CASE attachAcquired
  <2>1. PICK t \in Slots :
          /\ IsOldest(mSlots, t, SlotsIn(mSlots, {"FREE"}))
          /\ \E b : mSlots' = [mSlots EXCEPT ![t] =
                                 [@ EXCEPT !.mGraphicBuffer = b,
                                           !.mBufferState = "ACQUIRED",
                                           !.mAttachedByConsumer = TRUE,
                                           !.mNeedsCleanupOnRelease = FALSE,
                                           !.mFrameNumber = 0,
                                           !.mAcquireCalled = FALSE]]
    BY <1>3 DEF attachAcquired
  <2>2. mSlots[t].mBufferState = "FREE" /\ mSlots'[t].mBufferState = "ACQUIRED"
        /\ \A u \in Slots \ {t} : mSlots'[u] = mSlots[u]
    BY <2>1, TypeFacts DEF IsOldest, SlotsIn, BufferSlot
  <2> QED BY <2>2, LifeFacts DEF Lives
<1>4. CASE consumerDisconnect
  BY <1>4, FreeAllFacts, LifeFacts DEF consumerDisconnect
<1>5. CASE \/ consumerConnect \/ setDefaultMaxBufferCount \/ setMaxAcquiredBufferCount
           \/ disableAsyncBuffer \/ setDefaultBufferSize
  BY <1>5 DEF consumerConnect, setDefaultMaxBufferCount, setMaxAcquiredBufferCount,
     disableAsyncBuffer, setDefaultBufferSize, Lives
<1> QED BY <1>1, <1>2, <1>3, <1>4, <1>5 DEF ConsumerStep, ConsumerConfigure

(* Every slot goes through the states BufferSlot.h:54-91 describes: only   *)
(* queueBuffer makes one QUEUED, from DEQUEUED, and acquireBuffer takes    *)
(* none from the producer.                                                 *)
THEOREM SlotsFollowTheirLife ==
  ASSUME ~ConcurrentDisconnect, ~ReattachQueued
  PROVE  Spec => SlotLifeCycle
<1>1. TypeOK /\ OwnersInv /\ [Next]_vars =>
        [\A s \in Slots :
           \/ mSlots'[s].mBufferState = mSlots[s].mBufferState
           \/ <<mSlots[s].mBufferState, mSlots'[s].mBufferState>>
                \in SlotTransitions]_vars
  <2> SUFFICES ASSUME TypeOK, OwnersInv, Next, NEW s \in Slots PROVE Lives(s)
    BY DEF Lives
  <2>1. TrackedItemsAreQueued
    BY DEF OwnersInv
  <2> QED BY <2>1, ProducerLives, ConsumerLives DEF Next
<1> QED BY <1>1, TypeCorrect, OwnersInvariant, PTL DEF Spec, SlotLifeCycle
-----------------------------------------------------------------------------
(* Threads between queueBuffer's unlock and its callback.                  *)
InCallback(p) == call[p].op = "callback"

(* Their tickets are the ones given out and not yet called, and tickets    *)
(* and frames are in the same order, after the frame last notified.        *)
Before(p, q) ==
  call[p].ticket < call[q].ticket /\ call[p].frame < call[q].frame

(* The inductive invariant of the tickets.                                 *)
TurnsInv ==
  /\ mCurrentCallbackTicket <= mNextCallbackTicket
  /\ notified <= mFrameCounter
  /\ \A p \in Producers : InCallback(p) =>
       /\ mCurrentCallbackTicket <= call[p].ticket
       /\ call[p].ticket < mNextCallbackTicket
       /\ notified < call[p].frame
       /\ call[p].frame <= mFrameCounter
       /\ \A q \in Producers \ {p} : InCallback(q) => Before(p, q) \/ Before(q, p)

(* A thread that begins no callback                                        *)
BeginsNone(q) == call'[q].op = "callback" => call'[q] = call[q]

(* Tickets and frames are numbers.                                         *)
LEMMA CallbackFacts ==
  ASSUME TypeOK, NEW p \in Producers, InCallback(p)
  PROVE  call[p].ticket \in Nat /\ call[p].frame \in Nat
<1>1. call[p] \in Call
  BY DEF TypeOK, ProducerTypeOK
<1> QED BY <1>1 DEF Call, Idle, InCallback

(* A thread that stays where it is begins no callback.                     *)
LEMMA StayersBeginNone ==
  ASSUME NEW q, Stays(q)
  PROVE  BeginsNone(q)
<1>1. CASE call'[q] = call[q]
  BY <1>1 DEF BeginsNone
<1>2. CASE call'[q] = [op |-> "woken", req |-> call[q].req]
  BY <1>2 DEF BeginsNone
<1> QED BY <1>1, <1>2 DEF Stays

(* Only queueBuffer takes a ticket.                                        *)
LEMMA OnlyQueueBegins ==
  ASSUME TypeOK, NEW p \in Producers, ProducerStep(p), ~queueBuffer(p)
  PROVE  \A q \in Producers : BeginsNone(q)
<1>1. DOMAIN call = Producers /\ DOMAIN Broadcast(call) = Producers
  BY TypeFacts DEF Broadcast
<1>2. Moves(p)
  BY EveryCallMoves
<1>3. ASSUME NEW q \in Producers \ {p} PROVE BeginsNone(q)
  <2>1. Stays(q)
    BY <1>2, MovesOnly
  <2> QED BY <2>1, StayersBeginNone
<1> SUFFICES BeginsNone(p)
  BY <1>3
<1>4. Return(p) \/ BroadcastAndReturn(p) => BeginsNone(p)
  BY <1>1 DEF Return, BroadcastAndReturn, Idle, BeginsNone
<1>5. CASE Retry(p) \/ dequeueBuffer(p) \/ attachBuffer(p)
  <2>1. PICK req : waitForFreeSlotThenRelock(p, req)
    BY <1>5 DEF Retry, dequeueBuffer, attachBuffer
  <2>2. ASSUME NEW slots, NEW s, NEW released, DequeueFound(p, req, slots, s, released)
        PROVE  BeginsNone(p)
    BY <1>1, <2>2 DEF DequeueFound, BeginsNone
  <2>3. ASSUME NEW slots, NEW s, NEW released, AttachFound(p, req, slots, s, released)
        PROVE  BeginsNone(p)
    BY <1>4, <2>3 DEF AttachFound
  <2>4. ASSUME NEW r, call' = [call EXCEPT ![p] = [op |-> "waiting", req |-> r]]
        PROVE  BeginsNone(p)
    BY <1>1, <2>4 DEF BeginsNone
  <2> QED BY <1>4, <2>1, <2>2, <2>3, <2>4 DEF waitForFreeSlotThenRelock
<1>6. CASE dequeueBufferAllocated(p) \/ requestBuffer(p) \/ cancelRefused(p)
  <2>1. CASE dequeueBufferAllocated(p)
    <3>1. ASSUME NEW slot, NEW released,
                 call' = [call EXCEPT ![p] = [op |-> "returned", slot |-> slot,
                                              released |-> released, realloc |-> TRUE]]
          PROVE  BeginsNone(p)
      BY <1>1, <3>1 DEF BeginsNone
    <3> QED BY <1>4, <2>1, <3>1 DEF dequeueBufferAllocated
  <2>2. CASE requestBuffer(p)
    <3>1. ASSUME NEW slot, call' = [call EXCEPT ![p] = [op |-> "refused", slot |-> slot]]
          PROVE  BeginsNone(p)
      BY <1>1, <3>1 DEF BeginsNone
    <3> QED BY <1>4, <2>2, <3>1 DEF requestBuffer
  <2>3. CASE cancelRefused(p)
    BY <1>4, <2>3 DEF cancelRefused
  <2> QED BY <1>6, <2>1, <2>2, <2>3
<1>7. CASE \/ dequeueBufferAllocationFailed(p) \/ queueBufferCallback(p) \/ cancelBuffer(p)
           \/ detachBuffer(p) \/ allocateBuffersFailed(p) \/ buffersReleasedCallback(p)
  BY <1>4, <1>7 DEF dequeueBufferAllocationFailed, queueBufferCallback, cancelBuffer,
     detachBuffer, allocateBuffersFailed, buffersReleasedCallback
<1>8. CASE detachNextBuffer(p)
  BY <1>1, <1>4, <1>8 DEF detachNextBuffer, BeginsNone
<1>9. CASE setBufferCount(p)
  <2>1. CASE BroadcastAndReturn(p)
    BY <1>4, <2>1
  <2>2. CASE call' = [Broadcast(call) EXCEPT ![p] =
                        IF mConsumerListener THEN [op |-> "buffersReleased"] ELSE Idle]
    BY <1>1, <2>2 DEF Idle, BeginsNone
  <2> QED BY <1>9, <2>1, <2>2 DEF setBufferCount
<1>10. CASE connect(p)
  BY <1>10 DEF connect, producerVars, BeginsNone
<1>11. CASE disconnect(p)
  BY <1>1, <1>4, <1>11 DEF disconnect, Idle, BeginsNone
<1>12. CASE allocateBuffers(p)
  BY <1>1, <1>4, <1>12 DEF allocateBuffers, AllocateBuffersTurn, BeginsNone
<1>13. CASE allocateBuffersAllocated(p)
  BY <1>1, <1>13 DEF allocateBuffersAllocated, BeginsNone
<1> QED BY <1>5, <1>6, <1>7, <1>8, <1>9, <1>10, <1>11, <1>12, <1>13
        DEF ProducerStep, ProducerCall

(* A step that begins no callback and ends none keeps the turns.           *)
LEMMA QuietKeepsTurns ==
  ASSUME TurnsInv, UNCHANGED <<mFrameCounter, ticketVars>>,
         \A q \in Producers : BeginsNone(q)
  PROVE  TurnsInv'
  BY DEF TurnsInv, BeginsNone, InCallback, Before, ticketVars

(* queueBuffer takes the last ticket for the newest frame.                 *)
LEMMA QueueKeepsTurns ==
  ASSUME TypeOK, TurnsInv, NEW p \in Producers, queueBuffer(p)
  PROVE  TurnsInv'
<1>1. PICK e, c : /\ e = CallbackEvent
                  /\ c = [op |-> "callback", ticket |-> mNextCallbackTicket,
                          frame |-> mFrameCounter + 1, event |-> e]
  OBVIOUS
<1>2. /\ call' = [Broadcast(call) EXCEPT ![p] = c]
      /\ mFrameCounter' = mFrameCounter + 1
      /\ mNextCallbackTicket' = mNextCallbackTicket + 1
      /\ UNCHANGED <<mCurrentCallbackTicket, notified>>
      /\ ~InCallback(p)
  BY <1>1 DEF queueBuffer, CanGiveBack, InCallback, Idle
<1>3. DOMAIN call = Producers /\ DOMAIN Broadcast(call) = Producers
  BY TypeFacts DEF Broadcast
<1>4. /\ c.ticket = mNextCallbackTicket /\ c.frame = mFrameCounter + 1
      /\ call'[p] = c
      /\ \A q \in Producers \ {p} : InCallback(q)' => InCallback(q) /\ call'[q] = call[q]
  BY <1>1, <1>2, <1>3 DEF InCallback, Broadcast
<1>5. /\ mFrameCounter \in Nat /\ notified \in Nat
      /\ mNextCallbackTicket \in Nat /\ mCurrentCallbackTicket \in Nat
      /\ mCurrentCallbackTicket <= mNextCallbackTicket
  BY DEF TypeOK, CoreTypeOK, ProducerTypeOK, TurnsInv
<1>6. \A q \in Producers : InCallback(q) => call[q].ticket \in Nat /\ call[q].frame \in Nat
  BY CallbackFacts
<1> QED BY <1>2, <1>4, <1>5, <1>6 DEF TurnsInv, Before

(* A callback is the first of those pending, and the others are of later   *)
(* frames.                                                                 *)
LEMMA CallingKeepsTurns ==
  ASSUME TypeOK, TurnsInv, NEW p \in Producers, queueBufferCallback(p)
  PROVE  TurnsInv' /\ notified' >= notified
<1>1. /\ InCallback(p) /\ call[p].ticket = mCurrentCallbackTicket
      /\ call' = [call EXCEPT ![p] = Idle]
      /\ mCurrentCallbackTicket' = mCurrentCallbackTicket + 1
      /\ UNCHANGED <<mFrameCounter, mNextCallbackTicket>>
      /\ notified' \in {notified, call[p].frame}
  BY DEF queueBufferCallback, InCallback, Return, coreVars
<1>2. DOMAIN call = Producers
  BY TypeFacts
<1>3. /\ ~InCallback(p)'
      /\ \A q \in Producers \ {p} : call'[q] = call[q]
  BY <1>1, <1>2 DEF InCallback, Idle
<1>4. /\ mFrameCounter \in Nat /\ notified \in Nat
      /\ mNextCallbackTicket \in Nat /\ mCurrentCallbackTicket \in Nat
      /\ mCurrentCallbackTicket <= mNextCallbackTicket
  BY DEF TypeOK, CoreTypeOK, ProducerTypeOK, TurnsInv
<1>5. \A q \in Producers : InCallback(q) => call[q].ticket \in Nat /\ call[q].frame \in Nat
  BY CallbackFacts
<1>6. /\ mCurrentCallbackTicket < mNextCallbackTicket
      /\ notified < call[p].frame /\ call[p].frame <= mFrameCounter
  BY <1>1 DEF TurnsInv
<1>7. ASSUME NEW q \in Producers \ {p}, InCallback(q)
      PROVE  /\ mCurrentCallbackTicket < call[q].ticket
             /\ call[p].frame < call[q].frame
  BY <1>1, <1>4, <1>5, <1>7 DEF TurnsInv, Before
<1>8. ASSUME NEW q \in Producers, InCallback(q)'
      PROVE  q # p /\ InCallback(q) /\ call'[q] = call[q]
  BY <1>3, <1>8 DEF InCallback
<1>9. notified' <= mFrameCounter /\ notified' >= notified
      /\ \A q \in Producers \ {p} : InCallback(q) => notified' < call[q].frame
  BY <1>1, <1>4, <1>5, <1>6, <1>7 DEF TurnsInv
<1>10. \A q \in Producers \ {p} : InCallback(q) => mCurrentCallbackTicket' <= call[q].ticket
  BY <1>1, <1>4, <1>5, <1>7
<1>11. mCurrentCallbackTicket' <= mNextCallbackTicket'
  BY <1>1, <1>4, <1>6
<1> QED BY <1>1, <1>8, <1>9, <1>10, <1>11 DEF TurnsInv, Before

(* TurnsInv is inductive, and the frame last notified never decreases.     *)
LEMMA NextKeepsTurns ==
  ASSUME TypeOK, TurnsInv, [Next]_vars
  PROVE  TurnsInv' /\ notified' >= notified
<1>1. notified \in Nat
  BY DEF TypeOK, ProducerTypeOK
<1>2. CASE \E p \in Producers : queueBuffer(p)
  <2>1. PICK p \in Producers : queueBuffer(p)
    BY <1>2
  <2>2. UNCHANGED notified
    BY <2>1 DEF queueBuffer
  <2> QED BY <1>1, <2>1, <2>2, QueueKeepsTurns
<1>3. CASE \E p \in Producers : queueBufferCallback(p)
  BY <1>3, CallingKeepsTurns
<1>4. ASSUME NEW p \in Producers, ProducerStep(p), ~queueBuffer(p), ~queueBufferCallback(p)
      PROVE  UNCHANGED <<mFrameCounter, ticketVars>>
  <2>1. CASE Retry(p) \/ dequeueBuffer(p) \/ attachBuffer(p)
    <3>1. PICK req : waitForFreeSlotThenRelock(p, req)
      BY <2>1 DEF Retry, dequeueBuffer, attachBuffer
    <3> QED BY <3>1 DEF waitForFreeSlotThenRelock, ticketVars
  <2>2. CASE \/ dequeueBufferAllocated(p) \/ dequeueBufferAllocationFailed(p)
             \/ requestBuffer(p) \/ cancelRefused(p)
             \/ cancelBuffer(p) \/ detachBuffer(p) \/ detachNextBuffer(p)
    BY <2>2 DEF dequeueBufferAllocated, dequeueBufferAllocationFailed, requestBuffer,
       cancelRefused, cancelBuffer, detachBuffer, detachNextBuffer, coreVars
  <2>3. CASE \/ setBufferCount(p) \/ disconnect(p) \/ buffersReleasedCallback(p)
             \/ connect(p) \/ allocateBuffers(p) \/ allocateBuffersAllocated(p)
             \/ allocateBuffersFailed(p)
    BY <2>3 DEF setBufferCount, disconnect, buffersReleasedCallback, connect, producerVars,
       allocateBuffers, AllocateBuffersTurn, allocateBuffersAllocated,
       allocateBuffersFailed, coreVars, ticketVars
  <2> QED BY <1>4, <2>1, <2>2, <2>3 DEF ProducerStep, ProducerCall
<1>5. ASSUME NEW p \in Producers, ProducerStep(p), ~queueBuffer(p), ~queueBufferCallback(p)
      PROVE  TurnsInv' /\ notified' >= notified
  <2>1. UNCHANGED <<mFrameCounter, ticketVars>>
    BY <1>4, <1>5
  <2>2. TurnsInv'
    BY <1>5, <2>1, OnlyQueueBegins, QuietKeepsTurns
  <2> QED BY <1>1, <2>1, <2>2 DEF ticketVars
<1>6. CASE ConsumerStep
  <2>1. UNCHANGED <<mFrameCounter, ticketVars>>
    BY <1>6 DEF ConsumerStep, ConsumerConfigure, acquireBuffer, releaseBuffer,
       detachAcquired, attachAcquired, consumerConnect, consumerDisconnect,
       setDefaultMaxBufferCount, setMaxAcquiredBufferCount, disableAsyncBuffer,
       setDefaultBufferSize, producerVars, clientVars, ticketVars
  <2>2. \A q \in Producers : BeginsNone(q)
    BY <1>6, ConsumerMovesNobody, StayersBeginNone
  <2> QED BY <1>1, <2>1, <2>2, QuietKeepsTurns DEF ticketVars
<1>7. CASE UNCHANGED vars
  <2>1. UNCHANGED <<mFrameCounter, ticketVars, call>>
    BY <1>7 DEF vars, coreVars, producerVars, ticketVars
  <2>2. \A q \in Producers : BeginsNone(q)
    BY <2>1 DEF BeginsNone
  <2> QED BY <1>1, <2>1, <2>2, QuietKeepsTurns DEF ticketVars
<1> QED BY <1>2, <1>3, <1>5, <1>6, <1>7 DEF Next

(* The consumer's listener hears of frames in the order they were queued,  *)
(* though queueBuffer calls it with no lock held: the tickets taken under  *)
(* mMutex order the calls (BufferQueueProducer.cpp:772-809).               *)
THEOREM FramesNotifiedInOrder == Spec => NotifiedInOrder
<1>1. Init => TurnsInv
  BY DEF Init, CoreInit, ProducerInit, TurnsInv, InCallback, Idle
<1>2. TypeOK /\ TurnsInv /\ [Next]_vars => TurnsInv' /\ [notified' >= notified]_vars
  BY NextKeepsTurns
<1> QED BY <1>1, <1>2, TypeCorrect, PTL DEF Spec, NotifiedInOrder
-----------------------------------------------------------------------------
(* Threads asleep in mDequeueCondition.                                    *)
Sleeps(p) == call[p].op = "waiting"

(* The maximum a sleeper goes by.                                          *)
SleepersMax == getMaxBufferCountLocked(FALSE)

(* Why a thread sleeps, as it found when it last looked: it may block, and *)
(* there was no FREE slot, or the queue was too long. If the client has set*)
(* no number of slots, no slot was in its hands.                           *)
MaySleep ==
  /\ ~mIsAbandoned
  /\ MustTryAgain(SleepersMax)
  /\ mOverrideMaxBufferCount = 0 => SlotsIn(mSlots, {"DEQUEUED"}) = {}

SleepInv ==
  \A p \in Producers :
    /\ Asleep(p) => call[p].req.async = FALSE
    /\ Sleeps(p) => MaySleep

(* A slot's state as long as nobody is woken.                              *)
Rearranged(s) ==
  \/ mSlots'[s].mBufferState = mSlots[s].mBufferState
  \/ mSlots[s].mBufferState = "FREE" /\ mSlots'[s].mBufferState = "ACQUIRED"
  \/ /\ mSlots[s].mBufferState = "ACQUIRED" /\ mSlots'[s].mBufferState = "FREE"
     /\ s >= SleepersMax

(* The thread does not fall asleep.                                        *)
StaysAwake(q) ==
  /\ Asleep(q)' => Asleep(q) /\ call'[q].req = call[q].req
  /\ Sleeps(q)' => Sleeps(q)

(* The part of waitForFreeSlotThenRelock's condition that slots decide.    *)
LEMMA NoFreeBelow ==
  ASSUME CoreTypeOK, NEW max \in Nat
  PROVE  /\ MustTryAgain(max) <=>
              \/ \A s \in Slots : s < max => mSlots[s].mBufferState # "FREE"
              \/ Len(mQueue) > max
         /\ Below(max, "DEQUEUED") =
              {s \in SlotsIn(mSlots, {"DEQUEUED"}) : s < max}
<1>1. \A s \in Slots : s < max => TrimmedSlots(max)[s] = mSlots[s]
  <2>1. ASSUME NEW s \in Slots, s < max PROVE s \notin BeyondMax(max)
    <3>1. s \in Nat  BY DEF Slots
    <3> QED BY <2>1, <3>1 DEF BeyondMax
  <2> QED BY <2>1 DEF TrimmedSlots
<1>2. Below(max, "FREE") = {} <=>
        \A s \in Slots : s < max => mSlots[s].mBufferState # "FREE"
  BY <1>1 DEF Below, SlotsIn
<1> QED BY <1>1, <1>2 DEF MustTryAgain, Below, SlotsIn

(* The maximum depends on three limits and on which slots are in use.      *)
LEMMA SameMax ==
  ASSUME CoreTypeOK,
         UNCHANGED <<mOverrideMaxBufferCount, mDefaultMaxBufferCount, mMaxAcquiredBufferCount>>,
         mDequeueBufferCannotBlock = FALSE, mDequeueBufferCannotBlock' = FALSE,
         SlotsIn(mSlots, {"QUEUED", "DEQUEUED"})' = SlotsIn(mSlots, {"QUEUED", "DEQUEUED"})
  PROVE  SleepersMax' = SleepersMax /\ SleepersMax \in Nat
<1>1. BaseMaxBufferCount(FALSE)' = BaseMaxBufferCount(FALSE)
  BY DEF BaseMaxBufferCount, getMinMaxBufferCountLocked, getMinUndequeuedBufferCountLocked
<1>2. {s \in SlotsIn(mSlots, {"QUEUED", "DEQUEUED"}) : s >= BaseMaxBufferCount(FALSE)}' =
      {s \in SlotsIn(mSlots, {"QUEUED", "DEQUEUED"}) : s >= BaseMaxBufferCount(FALSE)}
  BY <1>1
<1> DEFINE Last(S) == CHOOSE s \in S : \A t \in S : t <= s
<1>3. SleepersMax' = SleepersMax
  <2>1. PICK base, now, later :
          /\ base = BaseMaxBufferCount(FALSE)
          /\ now = {s \in SlotsIn(mSlots, {"QUEUED", "DEQUEUED"}) :
                     s >= BaseMaxBufferCount(FALSE)}
          /\ later = {s \in SlotsIn(mSlots', {"QUEUED", "DEQUEUED"}) :
                       s >= BaseMaxBufferCount(FALSE)'}
    OBVIOUS
  <2>2. SleepersMax = IF now = {} THEN base ELSE Last(now) + 1
    BY <2>1 DEF SleepersMax, getMaxBufferCountLocked
  <2>3. SleepersMax' = IF later = {} THEN BaseMaxBufferCount(FALSE)' ELSE Last(later) + 1
    BY <2>1 DEF SleepersMax, getMaxBufferCountLocked
  <2>4. BaseMaxBufferCount(FALSE)' = base /\ later = now
    BY <1>1, <1>2, <2>1
  <2> HIDE DEF Last
  <2> QED BY <2>2, <2>3, <2>4
<1> QED BY <1>3, BusyBelowMax DEF SleepersMax

(* Whoever sleeps goes on to, with good reason.                            *)
LEMMA RearrangedKeepsSleep ==
  ASSUME CoreTypeOK, CoreTypeOK', SleepInv,
         UNCHANGED <<mQueue, mIsAbandoned, mOverrideMaxBufferCount, mDefaultMaxBufferCount,
                     mMaxAcquiredBufferCount>>,
         mDequeueBufferCannotBlock = FALSE, mDequeueBufferCannotBlock' = FALSE,
         \A s \in Slots : Rearranged(s),
         \A q \in Producers :
           StaysAwake(q) \/ (call'[q].req.async = FALSE /\ MaySleep)
  PROVE  SleepInv'
<1>1. \A s \in Slots : mSlots'[s].mBufferState \in {"QUEUED", "DEQUEUED"} \/ mSlots[s].mBufferState \in {"QUEUED", "DEQUEUED"} =>
                 mSlots'[s].mBufferState = mSlots[s].mBufferState
  BY DEF Rearranged
<1>2. SlotsIn(mSlots, {"QUEUED", "DEQUEUED"})' = SlotsIn(mSlots, {"QUEUED", "DEQUEUED"})
      /\ SlotsIn(mSlots, {"DEQUEUED"})' = SlotsIn(mSlots, {"DEQUEUED"})
  BY <1>1 DEF SlotsIn
<1>3. SleepersMax' = SleepersMax /\ SleepersMax \in Nat
  BY <1>2, SameMax
<1>4. MustTryAgain(SleepersMax) => MustTryAgain(SleepersMax)'
  <2>1. PICK max \in Nat : max = SleepersMax
    BY <1>3
  <2>2. MustTryAgain(max) <=> \/ \A s \in Slots : s < max => mSlots[s].mBufferState # "FREE"
                              \/ Len(mQueue) > max
    BY NoFreeBelow
  <2>3. MustTryAgain(max)' <=> \/ \A s \in Slots : s < max => mSlots'[s].mBufferState # "FREE"
                               \/ Len(mQueue') > max
    <3>1. \A s \in Slots : s < max => TrimmedSlots(max)'[s] = mSlots'[s]
      <4>1. ASSUME NEW s \in Slots, s < max PROVE s \notin BeyondMax(max)'
        <5>1. s \in Nat  BY DEF Slots
        <5> QED BY <4>1, <5>1 DEF BeyondMax
      <4> QED BY <4>1 DEF TrimmedSlots
    <3>2. Below(max, "FREE")' = {} <=>
            \A s \in Slots : s < max => mSlots'[s].mBufferState # "FREE"
      BY <3>1 DEF Below, SlotsIn
    <3> QED BY <3>2 DEF MustTryAgain
  <2>4. ASSUME NEW s \in Slots, s < max, mSlots[s].mBufferState # "FREE"
        PROVE  mSlots'[s].mBufferState # "FREE"
    <3>1. s \in Nat /\ ~(s >= SleepersMax)
      BY <2>1, <2>4 DEF Slots
    <3> QED BY <2>4, <3>1 DEF Rearranged
  <2>5. MustTryAgain(max) => MustTryAgain(max)'
    BY <2>2, <2>3, <2>4
  <2>6. MustTryAgain(SleepersMax)' <=> MustTryAgain(max)'
    BY <1>3, <2>1 DEF MustTryAgain
  <2> QED BY <2>1, <2>5, <2>6
<1>5. MaySleep => MaySleep'
  BY <1>2, <1>4 DEF MaySleep
<1> QED BY <1>5 DEF SleepInv, StaysAwake

(* A thread at rest does not fall asleep, nor one that does something else.*)
LEMMA RestStaysAwake ==
  ASSUME NEW q, Rests(q) \/ call'[q].op \notin {"waiting", "woken"}
  PROVE  StaysAwake(q)
  BY RestFacts DEF StaysAwake, Rests, Asleep, Sleeps, EndOps

(* A broadcast leaves nobody asleep.                                       *)
LEMMA AwakeKeepsSleep ==
  ASSUME SleepInv, NEW p \in Producers, NEW c, c.op \notin {"waiting", "woken"},
         WakeProducers \/ call' = [Broadcast(call) EXCEPT ![p] = c]
  PROVE  SleepInv'
<1>1. /\ \A q \in Producers : /\ Broadcast(call)[q].op # "waiting"
                              /\ Broadcast(call)[q].op = "woken" =>
                                   Asleep(q) /\ Broadcast(call)[q].req = call[q].req
      /\ DOMAIN Broadcast(call) = Producers
  BY DEF Broadcast, Asleep
<1>2. \A q \in Producers : ~Sleeps(q)'
  BY <1>1 DEF Sleeps, WakeProducers
<1>3. \A q \in Producers : Asleep(q)' => Asleep(q) /\ call'[q].req = call[q].req
  BY <1>1 DEF Asleep, WakeProducers
<1> QED BY <1>2, <1>3 DEF SleepInv

(* What a step that concerns no limit and wakes nobody may do to slots.    *)
LimitsKept ==
  UNCHANGED <<mQueue, mIsAbandoned, mOverrideMaxBufferCount, mDefaultMaxBufferCount,
              mMaxAcquiredBufferCount, mDequeueBufferCannotBlock>>

(* Who looks for a slot finds one only when nobody sleeps.                 *)
LEMMA WaitKeepsSleep ==
  ASSUME TypeOK, CoreTypeOK', SleepInv, mDequeueBufferCannotBlock = FALSE,
         NEW p \in Producers, NEW req \in Request, req.async = FALSE,
         waitForFreeSlotThenRelock(p, req)
  PROVE  SleepInv'
<1>1. CoreTypeOK /\ DOMAIN call = Producers
  BY TypeFacts DEF TypeOK
<1>2. LimitsKept
  BY DEF waitForFreeSlotThenRelock, LimitsKept, connectionVars, limitVars
<1>3. PICK max \in Nat : /\ max = SleepersMax /\ max = getMaxBufferCountLocked(FALSE)
                         /\ max = getMaxBufferCountLocked(req.async)
  BY <1>1, BusyBelowMax DEF SleepersMax
<1>4. PICK slots : slots = TrimmedSlots(max)
  OBVIOUS
<1>5. /\ Return(p) => \A q \in Producers : StaysAwake(q)
      /\ \A c : call' = [call EXCEPT ![p] = c] =>
           call'[p] = c /\ \A q \in Producers \ {p} : StaysAwake(q)
  BY CallRests, RestStaysAwake
<1>6. ASSUME NEW s \in Slots, mSlots' \in {mSlots, slots} PROVE Rearranged(s)
  <2>1. \/ slots[s] = mSlots[s]
        \/ /\ slots[s].mBufferState = "FREE"
           /\ mSlots[s].mBufferState \in {"FREE", "ACQUIRED"}
    BY <1>1, <1>3, <1>4, TrimmedFacts
  <2>2. ~(s >= max) => slots[s] = mSlots[s]
    BY <1>4 DEF TrimmedSlots, BeyondMax
  <2> QED BY <1>3, <1>6, <2>1, <2>2 DEF Rearranged
<1>7. CASE Return(p) /\ mSlots' \in {mSlots, slots}
  BY <1>1, <1>2, <1>5, <1>6, <1>7, RearrangedKeepsSleep DEF LimitsKept
<1>8. ASSUME NEW released, mSlots' = slots,
             ~mIsAbandoned, ~TooManyDequeued(FALSE, max), MustTryAgain(max),
             call' = [call EXCEPT ![p] =
                        [op |-> "waiting", req |-> [req EXCEPT !.released = released]]]
      PROVE  SleepInv'
  <2>1. PICK c : /\ c = [op |-> "waiting", req |-> [req EXCEPT !.released = released]]
                 /\ call' = [call EXCEPT ![p] = c]
    BY <1>8
  <2>2. c.req.async = FALSE
    BY <2>1 DEF Request
  <2>3. mOverrideMaxBufferCount = 0 => SlotsIn(mSlots, {"DEQUEUED"}) = {}
    <3>1. SUFFICES ASSUME mOverrideMaxBufferCount = 0, NEW s \in SlotsIn(mSlots, {"DEQUEUED"})
                   PROVE  FALSE
      OBVIOUS
    <3>2. s \in Below(max, "DEQUEUED")
      <4>1. s < max
        BY <1>1, <1>3, BusyBelowMax DEF SlotsIn
      <4>2. Below(max, "DEQUEUED") = {t \in SlotsIn(mSlots, {"DEQUEUED"}) : t < max}
        BY <1>1, NoFreeBelow
      <4> QED BY <4>1, <4>2
    <3>3. Cardinality(Below(max, "DEQUEUED")) = 0
      BY <1>8, <3>1 DEF TooManyDequeued
    <3>4. IsFiniteSet(Below(max, "DEQUEUED"))
      <4>1. Below(max, "DEQUEUED") \subseteq Slots /\ IsFiniteSet(Slots)
        BY CoreAssumption, FS_Interval DEF Below, SlotsIn, Slots
      <4> QED BY <4>1, FS_Subset
    <3> QED BY <3>2, <3>3, <3>4, FS_EmptySet
  <2>4. MaySleep
    BY <1>3, <1>8, <2>3 DEF MaySleep
  <2>5. \A q \in Producers : StaysAwake(q) \/ (call'[q].req.async = FALSE /\ MaySleep)
    BY <1>5, <2>1, <2>2, <2>4
  <2> QED BY <1>1, <1>2, <1>6, <1>8, <2>5, RearrangedKeepsSleep DEF LimitsKept
<1>9. CASE ~MustTryAgain(max) /\ \A q \in Producers : StaysAwake(q)
  <2>1. \A q \in Producers : ~Sleeps(q)
    BY <1>3, <1>9 DEF SleepInv, MaySleep
  <2> QED BY <1>9, <2>1 DEF SleepInv, StaysAwake
<1>10. ASSUME NEW s, NEW released, DequeueFound(p, req, slots, s, released)
       PROVE  \A q \in Producers : StaysAwake(q)
  <2>1. \E c : c.op \notin {"waiting", "woken"} /\ call' = [call EXCEPT ![p] = c]
    BY <1>10 DEF DequeueFound
  <2> QED BY <1>5, <2>1, RestStaysAwake
<1>11. ASSUME NEW s, NEW released, AttachFound(p, req, slots, s, released)
       PROVE  \A q \in Producers : StaysAwake(q)
  BY <1>5, <1>11 DEF AttachFound
<1> QED BY <1>3, <1>4, <1>7, <1>8, <1>9, <1>10, <1>11 DEF waitForFreeSlotThenRelock

(* Whoever asks for a slot, or asks again.                                 *)
LEMMA AskingKeepsSleep ==
  ASSUME NeverDroppable, OrderInv, CoreTypeOK', SleepInv, NEW p \in Producers,
         Retry(p) \/ dequeueBuffer(p) \/ attachBuffer(p)
  PROVE  SleepInv'
<1>1. TypeOK /\ mDequeueBufferCannotBlock = FALSE
  BY DEF OrderInv, BlockingQueue
<1>2. CASE Retry(p)
  <2>1. PICK req : req = call[p].req
    OBVIOUS
  <2>2. Asleep(p) /\ req \in Request /\ waitForFreeSlotThenRelock(p, req)
    BY <1>1, <1>2, <2>1, TypeFacts DEF Retry, Asleep
  <2>3. req.async = FALSE
    BY <2>1, <2>2 DEF SleepInv
  <2> QED BY <1>1, <2>2, <2>3, WaitKeepsSleep
<1>3. CASE dequeueBuffer(p)
  <2>1. PICK req \in Request : req.async = FALSE /\ waitForFreeSlotThenRelock(p, req)
    <3>1. PICK async \in AsyncModes, size \in Sizes :
            waitForFreeSlotThenRelock(p,
              [kind |-> "dequeue", async |-> async, size |-> size,
               buffer |-> NoBuffer, released |-> FALSE])
      BY <1>3 DEF dequeueBuffer
    <3>2. PICK req : req = [kind |-> "dequeue", async |-> async, size |-> size,
                            buffer |-> NoBuffer, released |-> FALSE]
      OBVIOUS
    <3>3. async = FALSE
      BY <3>1 DEF NeverDroppable
    <3>4. req \in Request /\ req.async = FALSE
      BY <3>2, <3>3 DEF Request
    <3> QED BY <3>1, <3>2, <3>4
  <2> QED BY <1>1, <2>1, WaitKeepsSleep
<1>4. CASE attachBuffer(p)
  <2>1. PICK req \in Request : req.async = FALSE /\ waitForFreeSlotThenRelock(p, req)
    <3>1. PICK b \in Buffers :
            waitForFreeSlotThenRelock(p,
              [kind |-> "attach", async |-> FALSE, size |-> SizeOf[b],
               buffer |-> b, released |-> FALSE])
      BY <1>4 DEF attachBuffer
    <3>2. PICK req : req = [kind |-> "attach", async |-> FALSE, size |-> SizeOf[b],
                            buffer |-> b, released |-> FALSE]
      OBVIOUS
    <3>3. req \in Request /\ req.async = FALSE
      BY <3>2, CoreAssumption DEF Request
    <3> QED BY <3>1, <3>2, <3>3
  <2> QED BY <1>1, <2>1, WaitKeepsSleep
<1> QED BY <1>2, <1>3, <1>4

(* Steps that leave the slots' states alone.                               *)
LEMMA StatesKeepSleep ==
  ASSUME TypeOK, CoreTypeOK', SleepInv, mDequeueBufferCannotBlock = FALSE, LimitsKept,
         \A s \in Slots : mSlots'[s].mBufferState = mSlots[s].mBufferState,
         \A q \in Producers : StaysAwake(q)
  PROVE  SleepInv'
<1>1. \A s \in Slots : Rearranged(s)
  BY DEF Rearranged
<1> QED BY <1>1, RearrangedKeepsSleep DEF TypeOK, LimitsKept

(* The rest of dequeueBuffer, and the calls that give a slot back.         *)
LEMMA HandingKeepsSleep ==
  ASSUME TypeOK, CoreTypeOK', SleepInv, mDequeueBufferCannotBlock = FALSE, NEW p \in Producers,
         \/ dequeueBufferAllocated(p) \/ dequeueBufferAllocationFailed(p)
         \/ requestBuffer(p) \/ cancelRefused(p) \/ cancelBuffer(p)
         \/ detachBuffer(p) \/ detachNextBuffer(p)
  PROVE  SleepInv'
<1>1. DOMAIN mSlots = Slots /\ \A s \in Slots : mSlots[s] \in BufferSlot
  BY TypeFacts
<1>2. /\ Return(p) \/ UNCHANGED call => \A q \in Producers : StaysAwake(q)
      /\ \A c : call' = [call EXCEPT ![p] = c] /\ c.op \notin {"waiting", "woken"} =>
           \A q \in Producers : StaysAwake(q)
  BY CallRests, RestStaysAwake
<1>3. BroadcastAndReturn(p) => SleepInv'
  BY AwakeKeepsSleep DEF BroadcastAndReturn, Idle
<1>4. CASE dequeueBufferAllocated(p)
  <2>1. \A s \in Slots : mSlots'[s].mBufferState = mSlots[s].mBufferState
    <3>1. ASSUME NEW t, NEW b, mSlots' = [mSlots EXCEPT ![t] =
                                  [@ EXCEPT !.mFrameNumber = UINT32_MAX, !.mGraphicBuffer = b]]
          PROVE  \A s \in Slots : mSlots'[s].mBufferState = mSlots[s].mBufferState
      BY <1>1, <3>1 DEF BufferSlot
    <3> QED BY <1>4, <3>1 DEF dequeueBufferAllocated
  <2>2. \A q \in Producers : StaysAwake(q)
    <3>1. ASSUME NEW slot, NEW released,
                 call' = [call EXCEPT ![p] = [op |-> "returned", slot |-> slot,
                                              released |-> released, realloc |-> TRUE]]
          PROVE  \A q \in Producers : StaysAwake(q)
      <4>1. \E c : c.op \notin {"waiting", "woken"} /\ call' = [call EXCEPT ![p] = c]
        BY <3>1
      <4> QED BY <1>2, <4>1
    <3> QED BY <1>2, <1>4, <3>1 DEF dequeueBufferAllocated
  <2>3. LimitsKept
    BY <1>4 DEF dequeueBufferAllocated, LimitsKept, connectionVars, limitVars
  <2> QED BY <2>1, <2>2, <2>3, StatesKeepSleep
<1>5. CASE dequeueBufferAllocationFailed(p)
  <2>1. LimitsKept /\ UNCHANGED mSlots /\ Return(p)
    BY <1>5 DEF dequeueBufferAllocationFailed, LimitsKept, coreVars, connectionVars, limitVars
  <2> QED BY <1>2, <2>1, StatesKeepSleep
<1>6. CASE requestBuffer(p)
  <2>1. \A s \in Slots : mSlots'[s].mBufferState = mSlots[s].mBufferState
    BY <1>1, <1>6 DEF requestBuffer, BufferSlot
  <2>2. \A q \in Producers : StaysAwake(q)
    <3>1. ASSUME NEW slot, call' = [call EXCEPT ![p] = [op |-> "refused", slot |-> slot]]
          PROVE  \A q \in Producers : StaysAwake(q)
      <4>1. \E c : c.op \notin {"waiting", "woken"} /\ call' = [call EXCEPT ![p] = c]
        BY <3>1
      <4> QED BY <1>2, <4>1
    <3> QED BY <1>2, <1>6, <3>1 DEF requestBuffer
  <2>3. LimitsKept
    BY <1>6 DEF requestBuffer, LimitsKept, connectionVars, limitVars
  <2> QED BY <2>1, <2>2, <2>3, StatesKeepSleep
<1>7. CASE cancelRefused(p)
  <2>1. LimitsKept
    BY <1>7 DEF cancelRefused, LimitsKept, connectionVars, limitVars
  <2> QED BY <1>2, <1>3, <1>7, <2>1, StatesKeepSleep DEF cancelRefused
<1>8. CASE cancelBuffer(p) \/ detachBuffer(p)
  BY <1>3, <1>8 DEF cancelBuffer, detachBuffer
<1>9. CASE detachNextBuffer(p)
  <2>1. PICK s \in Slots : /\ mSlots[s].mBufferState = "FREE"
                           /\ mSlots' = freeBufferLocked(mSlots, s)
    BY <1>9 DEF detachNextBuffer, IsOldest, SlotsIn
  <2>2. \A t \in Slots : mSlots'[t].mBufferState = mSlots[t].mBufferState
    BY <1>1, <2>1 DEF freeBufferLocked, FreedSlot, BufferSlot
  <2>3. LimitsKept /\ UNCHANGED call
    BY <1>9 DEF detachNextBuffer, LimitsKept, connectionVars, limitVars
  <2> QED BY <1>2, <2>2, <2>3, StatesKeepSleep
<1> QED BY <1>4, <1>5, <1>6, <1>7, <1>8, <1>9

(* The other calls of the producer.                                        *)
LEMMA OtherCallsKeepSleep ==
  ASSUME NeverDroppable, TypeOK, CoreTypeOK', SleepInv, mDequeueBufferCannotBlock = FALSE,
         NEW p \in Producers,
         \/ queueBuffer(p) \/ queueBufferCallback(p) \/ setBufferCount(p) \/ connect(p)
         \/ disconnect(p) \/ buffersReleasedCallback(p) \/ allocateBuffers(p)
         \/ allocateBuffersAllocated(p) \/ allocateBuffersFailed(p)
  PROVE  SleepInv'
<1>1. DOMAIN mSlots = Slots /\ \A s \in Slots : mSlots[s] \in BufferSlot
  BY TypeFacts
<1>2. /\ Return(p) \/ UNCHANGED call => \A q \in Producers : StaysAwake(q)
      /\ \A c : call' = [call EXCEPT ![p] = c] /\ c.op \notin {"waiting", "woken"} =>
           \A q \in Producers : StaysAwake(q)
  BY CallRests, RestStaysAwake
<1>3. /\ BroadcastAndReturn(p) => SleepInv'
      /\ \A c : call' = [Broadcast(call) EXCEPT ![p] = c] /\ c.op \notin {"waiting", "woken"} =>
           SleepInv'
  BY AwakeKeepsSleep DEF BroadcastAndReturn, Idle
<1>4. CASE queueBuffer(p)
  <2>1. \E c : /\ c.op \notin {"waiting", "woken"}
               /\ call' = [Broadcast(call) EXCEPT ![p] = c]
    BY <1>4 DEF queueBuffer
  <2> QED BY <1>3, <2>1
<1>5. CASE setBufferCount(p) \/ disconnect(p)
  <2>1. CASE call' = [Broadcast(call) EXCEPT ![p] =
                        IF mConsumerListener THEN [op |-> "buffersReleased"] ELSE Idle]
    <3>1. \E c : /\ c.op \notin {"waiting", "woken"}
                 /\ call' = [Broadcast(call) EXCEPT ![p] = c]
      <4>1. PICK c : c = IF mConsumerListener THEN [op |-> "buffersReleased"] ELSE Idle
        OBVIOUS
      <4>2. c.op \notin {"waiting", "woken"}
        BY <4>1 DEF Idle
      <4> QED BY <2>1, <4>1, <4>2
    <3> QED BY <1>3, <3>1
  <2> QED BY <1>3, <1>5, <2>1 DEF setBufferCount, disconnect
<1>6. CASE connect(p)
  <2>1. /\ UNCHANGED <<mSlots, mQueue, mIsAbandoned, mOverrideMaxBufferCount,
                       mDefaultMaxBufferCount, mMaxAcquiredBufferCount, call>>
        /\ mDequeueBufferCannotBlock' = FALSE
    BY <1>6 DEF connect, NeverDroppable, limitVars, producerVars
  <2>2. \A s \in Slots : Rearranged(s)
    BY <2>1 DEF Rearranged
  <2> QED BY <1>2, <2>1, <2>2, RearrangedKeepsSleep DEF TypeOK
<1>7. CASE \/ queueBufferCallback(p) \/ buffersReleasedCallback(p)
           \/ allocateBuffersFailed(p)
  <2>1. LimitsKept /\ UNCHANGED mSlots /\ Return(p)
    BY <1>7 DEF queueBufferCallback, buffersReleasedCallback, allocateBuffersFailed,
       LimitsKept, coreVars, connectionVars, limitVars
  <2> QED BY <1>2, <2>1, StatesKeepSleep
<1>8. CASE allocateBuffers(p)
  <2>1. PICK async : AllocateBuffersTurn(p, async)
    BY <1>8 DEF allocateBuffers
  <2>2. LimitsKept /\ UNCHANGED mSlots
    BY <2>1 DEF AllocateBuffersTurn, LimitsKept, connectionVars, limitVars
  <2>3. \A q \in Producers : StaysAwake(q)
    <3>1. ASSUME NEW slots, NEW size,
                 call' = [call EXCEPT ![p] = [op |-> "preallocating", async |-> async,
                                              slots |-> slots, size |-> size]]
          PROVE  \A q \in Producers : StaysAwake(q)
      <4>1. \E c : c.op \notin {"waiting", "woken"} /\ call' = [call EXCEPT ![p] = c]
        BY <3>1
      <4> QED BY <1>2, <4>1
    <3> QED BY <1>2, <2>1, <3>1 DEF AllocateBuffersTurn
  <2> QED BY <2>2, <2>3, StatesKeepSleep
<1>9. CASE allocateBuffersAllocated(p)
  <2>1. LimitsKept
    BY <1>9 DEF allocateBuffersAllocated, LimitsKept, connectionVars, limitVars
  <2>2. \A q \in Producers : StaysAwake(q)
    <3>1. \E c : c.op \notin {"waiting", "woken"} /\ call' = [call EXCEPT ![p] = c]
      BY <1>9 DEF allocateBuffersAllocated
    <3> QED BY <1>2, <3>1
  <2>3. \A s \in Slots : mSlots'[s].mBufferState = mSlots[s].mBufferState
    <3>1. CASE UNCHANGED mSlots
      BY <3>1
    <3>2. CASE mDefaultSize = call[p].size
      <4>1. PICK new : mSlots' = [s \in Slots |->
                     IF s \in call[p].slots \cap SlotsIn(mSlots, {"FREE"})
                     THEN [FreedSlot(mSlots[s]) EXCEPT !.mGraphicBuffer = new[s],
                                                       !.mFrameNumber = 0]
                     ELSE mSlots[s]]
        BY <1>9, <3>2 DEF allocateBuffersAllocated
      <4>2. ASSUME NEW s \in Slots PROVE mSlots'[s].mBufferState = mSlots[s].mBufferState
        BY <1>1, <4>1 DEF FreedSlot, BufferSlot, SlotsIn
      <4> QED BY <4>2
    <3> QED BY <1>9, <3>1, <3>2 DEF allocateBuffersAllocated
  <2> QED BY <2>1, <2>2, <2>3, StatesKeepSleep
<1> QED BY <1>4, <1>5, <1>6, <1>7, <1>8, <1>9

(* The consumer wakes the producers, or gives them nothing.                *)
LEMMA ConsumerKeepsSleep ==
  ASSUME MaxAcquiredCounts = {}, TypeOK, CoreTypeOK', SleepInv,
         mDequeueBufferCannotBlock = FALSE, ConsumerStep
  PROVE  SleepInv'
<1>1. DOMAIN mSlots = Slots /\ \A s \in Slots : mSlots[s] \in BufferSlot
  BY TypeFacts
<1>2. UNCHANGED call => \A q \in Producers : StaysAwake(q)
  BY CallRests, RestStaysAwake
<1>3. WakeProducers => SleepInv'
  <2>1. ASSUME NEW p \in Producers, WakeProducers PROVE SleepInv'
    <3>1. Idle.op \notin {"waiting", "woken"}  BY DEF Idle
    <3> QED BY <2>1, <3>1, AwakeKeepsSleep
  <2>2. Producers = {} => SleepInv'
    BY DEF SleepInv
  <2> QED BY <2>1, <2>2
<1>4. CASE acquireBuffer \/ consumerDisconnect \/ setDefaultMaxBufferCount
  BY <1>3, <1>4 DEF acquireBuffer, consumerDisconnect, setDefaultMaxBufferCount
<1>5. ASSUME NEW h \in acquired, releaseBuffer(h) PROVE SleepInv'
  <2>1. CASE ReleaseAnswer(h.slot, h.frame) # "NO_ERROR"
    <3>1. LimitsKept /\ UNCHANGED call
      BY <1>5, <2>1 DEF releaseBuffer, ReleaseSlot, LimitsKept, connectionVars, limitVars
    <3>2. \A s \in Slots : mSlots'[s].mBufferState = mSlots[s].mBufferState
      BY <1>1, <1>5, <2>1 DEF releaseBuffer, ReleaseSlot, BufferSlot
    <3> QED BY <1>2, <3>1, <3>2, StatesKeepSleep
  <2> QED BY <1>3, <1>5, <2>1 DEF releaseBuffer, ReleaseSlot
<1>6. ASSUME NEW h \in acquired, detachAcquired(h) PROVE SleepInv'
  BY <1>3, <1>6 DEF detachAcquired
<1>7. CASE attachAcquired
  <2>1. PICK s \in Slots : /\ mSlots[s].mBufferState = "FREE"
                           /\ mSlots'[s].mBufferState = "ACQUIRED"
                           /\ \A t \in Slots \ {s} : mSlots'[t] = mSlots[t]
    BY <1>1, <1>7 DEF attachAcquired, IsOldest, SlotsIn, BufferSlot
  <2>2. LimitsKept /\ UNCHANGED call
    BY <1>7 DEF attachAcquired, LimitsKept, connectionVars, limitVars, producerVars
  <2>3. \A t \in Slots : Rearranged(t)
    BY <2>1 DEF Rearranged
  <2> QED BY <1>2, <2>2, <2>3, RearrangedKeepsSleep DEF LimitsKept, TypeOK
<1>8. CASE consumerConnect \/ disableAsyncBuffer \/ setDefaultBufferSize
  <2>1. LimitsKept /\ UNCHANGED <<call, mSlots>>
    BY <1>8 DEF consumerConnect, disableAsyncBuffer, setDefaultBufferSize, LimitsKept,
       connectionVars, limitVars, producerVars
  <2> QED BY <1>2, <2>1, StatesKeepSleep
<1>9. ~setMaxAcquiredBufferCount
  BY DEF setMaxAcquiredBufferCount
<1> QED BY <1>4, <1>5, <1>6, <1>7, <1>8, <1>9 DEF ConsumerStep, ConsumerConfigure

(* Whoever sleeps has reason to, at every moment: SleepInv is inductive.   *)
LEMMA SleepInvariant ==
  ASSUME NeverDroppable, MaxAcquiredCounts = {}
  PROVE  Spec => []SleepInv
<1>1. Init => SleepInv
  BY DEF Init, ProducerInit, SleepInv, Asleep, Sleeps, Idle
<1>2. OrderInv /\ OrderInv' /\ SleepInv /\ [Next]_vars => SleepInv'
  <2> SUFFICES ASSUME OrderInv, OrderInv', SleepInv, [Next]_vars PROVE SleepInv'
    OBVIOUS
  <2>1. TypeOK /\ CoreTypeOK' /\ mDequeueBufferCannotBlock = FALSE
    BY DEF OrderInv, TypeOK, BlockingQueue
  <2>2. ASSUME NEW p \in Producers, ProducerStep(p) PROVE SleepInv'
    BY <2>1, <2>2, AskingKeepsSleep, HandingKeepsSleep, OtherCallsKeepSleep
       DEF ProducerStep, ProducerCall
  <2>3. CASE ConsumerStep
    BY <2>1, <2>3, ConsumerKeepsSleep
  <2>4. CASE UNCHANGED vars
    <3>1. LimitsKept /\ UNCHANGED <<mSlots, call>>
      BY <2>4 DEF vars, coreVars, producerVars, LimitsKept, connectionVars, limitVars
    <3>2. \A q \in Producers : StaysAwake(q)
      BY <2>1, <3>1, CallRests, RestStaysAwake
    <3> QED BY <2>1, <3>1, <3>2, StatesKeepSleep
  <2> QED BY <2>2, <2>3, <2>4 DEF Next
<1>3. NeverMixed
  BY DEF NeverMixed
<1> QED BY <1>1, <1>2, <1>3, OrderInvariant, PTL DEF Spec

(* No wakeup is lost: whoever sleeps in mDequeueCondition would find no    *)
(* FREE slot, or too long a queue, if it looked again, although a dozen    *)
(* calls free slots, shorten the queue or raise the maximum                *)
(* (BufferQueueProducer.cpp:151-270, 262).  The modes are not mixed: a     *)
(* thread may block.                                                       *)
THEOREM NoWakeupIsLost ==
  ASSUME NeverDroppable, MaxAcquiredCounts = {}
  PROVE  Spec => []SleepersMustSleep
<1>1. OrderInv /\ SleepInv => SleepersMustSleep
  <2> SUFFICES ASSUME OrderInv, SleepInv, NEW p \in Producers, Sleeps(p)
               PROVE  LET max == getMaxBufferCountLocked(call[p].req.async)
                      IN  ~mIsAbandoned /\ MustTryAgain(max) /\ ~WouldBlock(max)
    BY DEF SleepersMustSleep, Sleeps
  <2>1. call[p].req.async = FALSE /\ MaySleep
    BY DEF SleepInv, Sleeps, Asleep
  <2>2. ~mDequeueBufferCannotBlock
    BY DEF OrderInv, BlockingQueue
  <2> QED BY <2>1, <2>2 DEF MaySleep, SleepersMax, WouldBlock
<1>2. NeverMixed
  BY DEF NeverMixed
<1> QED BY <1>1, <1>2, OrderInvariant, SleepInvariant, PTL

(* The client sets no number of slots.                                     *)
LEMMA NoOverride ==
  ASSUME BufferCounts \subseteq {0}
  PROVE  Spec => [](mOverrideMaxBufferCount = 0)
<1>1. Init => mOverrideMaxBufferCount = 0
  BY DEF Init, CoreInit
<1>2. mOverrideMaxBufferCount = 0 /\ [Next]_vars => (mOverrideMaxBufferCount = 0)'
  <2> SUFFICES ASSUME mOverrideMaxBufferCount = 0, [Next]_vars
               PROVE  mOverrideMaxBufferCount' = 0
    OBVIOUS
  <2>1. ASSUME NEW p \in Producers, ProducerStep(p) PROVE mOverrideMaxBufferCount' = 0
    <3>1. CASE Retry(p) \/ dequeueBuffer(p) \/ attachBuffer(p)
      <4>1. PICK req : waitForFreeSlotThenRelock(p, req)
        BY <3>1 DEF Retry, dequeueBuffer, attachBuffer
      <4> QED BY <4>1 DEF waitForFreeSlotThenRelock, limitVars
    <3>2. CASE \/ dequeueBufferAllocated(p) \/ dequeueBufferAllocationFailed(p)
               \/ requestBuffer(p) \/ cancelRefused(p) \/ queueBuffer(p)
               \/ queueBufferCallback(p) \/ cancelBuffer(p) \/ detachBuffer(p)
               \/ detachNextBuffer(p)
      BY <3>2 DEF dequeueBufferAllocated, dequeueBufferAllocationFailed, requestBuffer,
         cancelRefused, queueBuffer, queueBufferCallback, cancelBuffer, detachBuffer,
         detachNextBuffer, coreVars, limitVars
    <3>3. CASE setBufferCount(p)
      BY <3>3 DEF setBufferCount
    <3>4. CASE \/ connect(p) \/ disconnect(p) \/ buffersReleasedCallback(p)
               \/ allocateBuffers(p) \/ allocateBuffersAllocated(p) \/ allocateBuffersFailed(p)
      BY <3>4 DEF connect, disconnect, buffersReleasedCallback, allocateBuffers,
         AllocateBuffersTurn, allocateBuffersAllocated, allocateBuffersFailed,
         coreVars, limitVars
    <3> QED BY <2>1, <3>1, <3>2, <3>3, <3>4 DEF ProducerStep, ProducerCall
  <2>2. CASE ConsumerStep
    <3>1. CASE acquireBuffer \/ attachAcquired \/ \E h \in acquired : releaseBuffer(h) \/ detachAcquired(h)
      BY <3>1 DEF acquireBuffer, attachAcquired, releaseBuffer, detachAcquired, limitVars
    <3>2. CASE ConsumerConfigure
      BY <3>2 DEF ConsumerConfigure, consumerConnect, consumerDisconnect,
         setDefaultMaxBufferCount, setMaxAcquiredBufferCount, disableAsyncBuffer,
         setDefaultBufferSize, limitVars
    <3> QED BY <2>2, <3>1, <3>2 DEF ConsumerStep
  <2>3. CASE UNCHANGED vars
    BY <2>3 DEF vars, coreVars, limitVars
  <2> QED BY <2>1, <2>2, <2>3 DEF Next
<1> QED BY <1>1, <1>2, PTL DEF Spec

(* No call waits in vain: neither for a wakeup that was lost, nor, as long *)
(* as the client leaves the number of slots alone, for the caller itself.  *)
(* While it sleeps no slot is DEQUEUED, so that with an empty queue every  *)
(* slot below the maximum is ACQUIRED, one more than the consumer may keep *)
(* (BufferQueueProducer.cpp:151-270, BufferQueueCore.cpp:100-180).         *)
THEOREM CallsDoNotWaitInVain ==
  ASSUME NeverDroppable, MaxAcquiredCounts = {}, BufferCounts \subseteq {0},
         ~ConcurrentDisconnect, ~ReattachQueued, ~AllocationFails, ~ConsumerAttaches
  PROVE  Spec => []NobodyWaitsInVain
<1>1. TypeOK /\ HoldersInv /\ SleepInv /\ mOverrideMaxBufferCount = 0 => SleepersAwaitConsumer
  <2> SUFFICES ASSUME TypeOK, HoldersInv, SleepInv, mOverrideMaxBufferCount = 0,
                      NEW p \in Producers, Sleeps(p), mQueue = << >>
               PROVE  Cardinality(SlotsIn(mSlots, {"ACQUIRED"})) > mMaxAcquiredBufferCount
    BY DEF SleepersAwaitConsumer, Sleeps
  <2>1. CoreTypeOK /\ MaySleep
    BY DEF SleepInv, TypeOK
  <2>2. PICK max \in Nat : max = SleepersMax /\ max = getMaxBufferCountLocked(FALSE)
    BY <2>1, BusyBelowMax DEF SleepersMax
  <2>3. PICK most : most = mMaxAcquiredBufferCount /\ most \in 1 .. NUM_BUFFER_SLOTS - 2
    BY <2>1 DEF CoreTypeOK, MAX_MAX_ACQUIRED_BUFFERS
  <2>4. max >= most + 1
    <3>1. PICK base, keep :
            /\ base = BaseMaxBufferCount(FALSE)
            /\ keep = {s \in SlotsIn(mSlots, {"QUEUED", "DEQUEUED"}) : s >= base}
      OBVIOUS
    <3>2. base \in Nat /\ base >= most + 1
      BY <2>1, <2>3, <3>1 DEF BaseMaxBufferCount, getMinMaxBufferCountLocked,
         getMinUndequeuedBufferCountLocked, CoreTypeOK
    <3>3. max = IF keep = {} THEN base ELSE (CHOOSE s \in keep : \A t \in keep : t <= s) + 1
      BY <2>2, <3>1 DEF getMaxBufferCountLocked
    <3>4. CASE keep # {}
      <4>1. keep \in SUBSET Slots
        BY <3>1 DEF SlotsIn
      <4>2. PICK last : last = CHOOSE s \in keep : \A t \in keep : t <= s
        OBVIOUS
      <4>3. last \in keep
        BY <3>4, <4>1, <4>2, LastSlot
      <4>4. last >= base /\ last \in Nat
        <5>1. last \in SlotsIn(mSlots, {"QUEUED", "DEQUEUED"}) /\ last >= base
          BY <3>1, <4>3
        <5> QED BY <5>1 DEF SlotsIn, Slots
      <4>5. max = last + 1
        BY <3>3, <3>4, <4>2
      <4> QED BY <2>3, <3>2, <4>4, <4>5
    <3> QED BY <3>2, <3>3, <3>4
  <2>5. ASSUME NEW s \in 0 .. most PROVE s \in SlotsIn(mSlots, {"ACQUIRED"})
    <3>1. s \in Slots /\ s < max
      <4>1. NUM_BUFFER_SLOTS \in Nat
        BY CoreAssumption
      <4>2. /\ s \in Nat /\ s <= most /\ most \in Nat
            /\ most <= NUM_BUFFER_SLOTS - 2
        BY <2>3
      <4>3. s < max
        BY <2>4, <4>2
      <4>4. s \in 0 .. NUM_BUFFER_SLOTS - 1
        BY <4>1, <4>2
      <4> QED BY <4>3, <4>4 DEF Slots
    <3>2. mSlots[s].mBufferState # "FREE"
      <4>1. MustTryAgain(max)
        BY <2>1, <2>2 DEF MaySleep
      <4>2. ~(Len(mQueue) > max)
        <5>1. Len(mQueue) = 0
          OBVIOUS
        <5>2. max \in Nat /\ ~(0 > max)
          OBVIOUS
        <5> QED BY <5>1, <5>2
      <4> QED BY <2>1, <2>2, <3>1, <4>1, <4>2, NoFreeBelow
    <3>3. mSlots[s].mBufferState # "QUEUED"
      BY <3>1 DEF HoldersInv, SlotsHaveHolders, QueuedSlotsHaveItems, SlotsIn
    <3>4. mSlots[s].mBufferState # "DEQUEUED"
      BY <2>1, <3>1 DEF MaySleep, SlotsIn
    <3>5. mSlots[s].mBufferState \in BufferState
      BY <3>1, TypeFacts DEF BufferSlot
    <3> QED BY <3>1, <3>2, <3>3, <3>4, <3>5 DEF BufferState, SlotsIn
  <2>6. /\ IsFiniteSet(SlotsIn(mSlots, {"ACQUIRED"}))
        /\ Cardinality(0 .. most) = most + 1
    <3>1. IsFiniteSet(Slots) /\ SlotsIn(mSlots, {"ACQUIRED"}) \subseteq Slots
      BY CoreAssumption, FS_Interval DEF Slots, SlotsIn
    <3>2. 0 \in Int /\ most \in Int /\ ~(0 > most)
      BY <2>3
    <3> QED BY <2>3, <3>1, <3>2, FS_Interval, FS_Subset
  <2>7. Cardinality(0 .. most) <= Cardinality(SlotsIn(mSlots, {"ACQUIRED"}))
    <3>1. 0 .. most \subseteq SlotsIn(mSlots, {"ACQUIRED"})
      BY <2>5
    <3> QED BY <2>6, <3>1, FS_Subset
  <2>8. Cardinality(SlotsIn(mSlots, {"ACQUIRED"})) \in Nat
    BY <2>6, FS_CardinalityType
  <2> QED BY <2>3, <2>6, <2>7, <2>8
<1>2. NeverMixed
  BY DEF NeverMixed
<1>3. Spec => []HoldersInv
  <2>1. OrderInv /\ OrderInv' /\ OwnersInv /\ HoldersInv /\ [Next]_vars => HoldersInv'
    BY <1>2, NextKeepsHolders
  <2> QED BY <1>2, <2>1, InitHolders, OrderInvariant, OwnersInvariant, PTL DEF Spec
<1>4. SleepersMustSleep /\ SleepersAwaitConsumer => NobodyWaitsInVain
  BY DEF NobodyWaitsInVain
<1> QED BY <1>1, <1>3, <1>4, TypeCorrect, SleepInvariant, NoOverride, NoWakeupIsLost, PTL
=============================================================================
