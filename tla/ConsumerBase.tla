---------------------------- MODULE ConsumerBase ----------------------------
(***************************************************************************)
(* ConsumerBase (libs/gui/ConsumerBase.cpp), which GLConsumer, CpuConsumer *)
(* and BufferItemConsumer derive from, on top of a BufferQueue.            *)
(*                                                                         *)
(* A buffer crosses to the consumer once per slot: when mAcquireCalled is  *)
(* set, acquireBuffer sends NULL and the consumer takes the buffer from    *)
(* its own mSlots.  That cache is emptied by onBuffersReleased, which runs *)
(* on the producer's thread after the queue's lock is released, so it      *)
(* races with acquireBufferLocked.                                         *)
(*                                                                         *)
(* Each method holds ConsumerBase::mMutex throughout and has at most one   *)
(* critical section of the queue inside, so it is one step here.           *)
(***************************************************************************)
EXTENDS BufferQueue

VARIABLES
  cbSlots, \* ConsumerBase::mSlots
  using    \* what the user got from acquireBufferLocked: as `acquired`, with
           \* the buffer the user looks at

cbVars == <<cbSlots, using>>
allVars == <<vars, cbVars>>

CbSlot == [mGraphicBuffer: Buffers \cup {NoBuffer}, mFrameNumber: Nat]

CbTypeOK == cbSlots \in [Slots -> CbSlot] /\ using \in SUBSET Handle

EmptyCbSlot == [mGraphicBuffer |-> NoBuffer, mFrameNumber |-> 0]

CbInit ==
  /\ Init
  /\ cbSlots = [s \in Slots |-> EmptyCbSlot]
  /\ using = {}

(* The item acquireBuffer hands out: the last of those it takes off mQueue *)
Acquired == mQueue[Len(mQueue) - Len(mQueue')]

acquireBufferLocked ==
  /\ ~mIsAbandoned
  /\ acquireBuffer
  /\ LET s      == Acquired.mSlot
         buffer == IF Acquired.mAcquireCalled THEN cbSlots[s].mGraphicBuffer
                                              ELSE Acquired.mGraphicBuffer
     IN  /\ cbSlots' = [cbSlots EXCEPT ![s] =
                          [mGraphicBuffer |-> buffer,
                           mFrameNumber |-> Acquired.mFrameNumber]]
         /\ using' = using \cup {[slot |-> s, buffer |-> buffer,
                                  frame |-> Acquired.mFrameNumber]}

cbStillTracking(s, buffer) ==
  /\ cbSlots[s].mGraphicBuffer # NoBuffer
  /\ cbSlots[s].mGraphicBuffer = buffer

(* The handle h is given up.  What is not tracked any more is not given    *)
(* back to the queue.                                                      *)
releaseBufferLocked(s, buffer, h) ==
  LET frame == cbSlots[s].mFrameNumber
  IN  /\ IF cbStillTracking(s, buffer)
         THEN /\ ReleaseSlot(s, frame)
              /\ cbSlots' = IF ReleaseAnswer(s, frame) = "STALE_BUFFER_SLOT"
                            THEN [cbSlots EXCEPT ![s] = EmptyCbSlot]
                            ELSE cbSlots
         ELSE UNCHANGED <<mSlots, call, cbSlots>>
      /\ using' = using \ {h}
      /\ acquired' = {g \in acquired : g.slot # h.slot \/ g.frame # h.frame}
      /\ UNCHANGED <<mQueue, connectionVars, limitVars, mBufferHasBeenQueued,
                     mFrameCounter, mIsAllocating, clientVars, lastAcquired>>

(* The slots whose buffers the consumer may forget: never acquired since   *)
(* they were freed, and not queued with the promise of a cached buffer.    *)
(* Mutants: without the mask of queued buffers; all slots.                 *)
NeverAcquired == {s \in Slots : ~mSlots[s].mAcquireCalled}
EverySlot == Slots

getReleasedBuffers ==
  {s \in Slots : ~mSlots[s].mAcquireCalled}
    \ {mQueue[i].mSlot : i \in {j \in 1 .. Len(mQueue) : mQueue[j].mAcquireCalled}}

onBuffersReleased(p) ==
  /\ buffersReleasedCallback(p)
  /\ cbSlots' = [s \in Slots |->
                   IF ~mIsAbandoned /\ s \in getReleasedBuffers
                   THEN EmptyCbSlot ELSE cbSlots[s]]
  /\ UNCHANGED <<using, lastAcquired>>

abandon ==
  /\ consumerDisconnect
  /\ cbSlots' = [s \in Slots |-> EmptyCbSlot]
  /\ UNCHANGED using

CbNext ==
  \/ \E p \in Producers : ProducerCall(p) /\ UNCHANGED <<lastAcquired, cbVars>>
  \/ \E p \in Producers : onBuffersReleased(p)
  \/ acquireBufferLocked
  \/ \E h \in using : releaseBufferLocked(h.slot, h.buffer, h)
  \/ consumerConnect /\ UNCHANGED cbVars
  \/ abandon

CbSpec == CbInit /\ [][CbNext]_allVars
-----------------------------------------------------------------------------
(* The user looks at the buffer the producer queued, although the queue    *)
(* sends it only once.                                                     *)
UsesQueuedBuffer == using = acquired

(* What the user holds of an ACQUIRED slot is enough to give it back: the  *)
(* cache still tracks it and will name the frame number the queue expects. *)
AcquiredSlotsAreReleasable ==
  \A s \in SlotsIn(mSlots, {"ACQUIRED"}) :
    \E h \in using : /\ h.slot = s
                     /\ cbStillTracking(s, h.buffer)
                     /\ cbSlots[s].mFrameNumber = mSlots[s].mFrameNumber

(* The cache of slots serves the user: it sees the buffer that was queued  *)
(* and can give it back (ConsumerBase.cpp:116-250).                        *)
CacheServesTheUser == UsesQueuedBuffer /\ AcquiredSlotsAreReleasable
=============================================================================
