----------------------------- MODULE CpuConsumer -----------------------------
(***************************************************************************)
(* The consumers that hand their buffers out: CpuConsumer                  *)
(* (libs/gui/CpuConsumer.cpp), which locks each for reading by the CPU,    *)
(* and BufferItemConsumer (libs/gui/BufferItemConsumer.cpp), which hands   *)
(* out the items.                                                          *)
(*                                                                         *)
(* lockNextBuffer looks at mCurrentLockedBuffers before it takes mMutex;   *)
(* the rest of it, and unlockBuffer, run under mMutex with one call of the *)
(* queue.  The queue lets a consumer acquire one buffer more than the      *)
(* maximum CpuConsumer sets.                                               *)
(***************************************************************************)
EXTENDS ConsumerBase

CONSTANTS
  Threads,   \* threads that call lockNextBuffer
  LockFails  \* may gralloc fail to lock, or a fence to signal?

VARIABLES
  locksBuffers,          \* a CpuConsumer, or a BufferItemConsumer?
  mAcquiredBuffers,      \* the entries in use: the handles locked
  mCurrentLockedBuffers,
  checked                \* threads between the check and mMutex

cpuVars == <<locksBuffers, mAcquiredBuffers, mCurrentLockedBuffers, checked>>

(* The constructor sets the queue's maximum to the number of entries.      *)
mMaxLockedBuffers == mMaxAcquiredBufferCount

CpuInit ==
  /\ CbInit
  /\ locksBuffers \in BOOLEAN
  /\ mAcquiredBuffers = {}
  /\ mCurrentLockedBuffers = 0
  /\ checked = {}

-----------------------------------------------------------------------------
AdmitsLock(t) == mCurrentLockedBuffers # mMaxLockedBuffers

checkLocked(t) ==
  /\ locksBuffers
  /\ t \notin checked
  /\ AdmitsLock(t)
  /\ checked' = checked \union {t}
  /\ UNCHANGED <<allVars, locksBuffers, mAcquiredBuffers, mCurrentLockedBuffers>>

(* A buffer is acquired; if it cannot be locked it stays acquired, in no   *)
(* entry.                                                                  *)
lockNextBuffer(t) ==
  /\ t \in checked
  /\ checked' = checked \ {t}
  /\ acquireBufferLocked
  /\ \/ /\ mAcquiredBuffers' = mAcquiredBuffers \union (using' \ using)
        /\ mCurrentLockedBuffers' = mCurrentLockedBuffers + 1
     \/ /\ LockFails
        /\ UNCHANGED <<mAcquiredBuffers, mCurrentLockedBuffers>>
  /\ UNCHANGED locksBuffers

lockFindsNoBuffer(t) ==
  /\ t \in checked
  /\ mIsAbandoned \/ TooManyAcquired \/ mQueue = << >>
  /\ checked' = checked \ {t}
  /\ UNCHANGED <<allVars, locksBuffers, mAcquiredBuffers, mCurrentLockedBuffers>>

(* Mutant: whatever the slot has now is released.                          *)
ReleasedWhatever(h) == cbSlots[h.slot].mGraphicBuffer

ReleasedEntry(h) == h.buffer

unlockBuffer(h) ==
  /\ h \in mAcquiredBuffers
  /\ releaseBufferLocked(h.slot, ReleasedEntry(h), h)
  /\ mAcquiredBuffers' = mAcquiredBuffers \ {h}
  /\ mCurrentLockedBuffers' = mCurrentLockedBuffers - 1
  /\ UNCHANGED <<locksBuffers, checked>>

-----------------------------------------------------------------------------
(* BufferItemConsumer::acquireBuffer; when the wait for the fence fails    *)
(* the buffer is acquired and the item has it only if the queue sent it.   *)
acquireItem ==
  /\ ~locksBuffers
  /\ acquireBufferLocked
  /\ UNCHANGED cpuVars

acquireWithoutFence ==
  /\ ~locksBuffers /\ LockFails
  /\ acquireBuffer
  /\ LET s == Acquired.mSlot IN
     /\ cbSlots' = [cbSlots EXCEPT ![s].mFrameNumber = Acquired.mFrameNumber]
     /\ Acquired.mAcquireCalled
     /\ using' = using \union {[slot |-> s, buffer |-> NoBuffer,
                                frame |-> Acquired.mFrameNumber]}
  /\ UNCHANGED cpuVars

releaseItem(h) ==
  /\ ~locksBuffers
  /\ releaseBufferLocked(h.slot, h.buffer, h)
  /\ UNCHANGED cpuVars

-----------------------------------------------------------------------------
CpuNext ==
  \/ \E t \in Threads : checkLocked(t) \/ lockNextBuffer(t) \/ lockFindsNoBuffer(t)
  \/ \E h \in using : unlockBuffer(h) \/ releaseItem(h)
  \/ acquireItem \/ acquireWithoutFence
  \/ \E p \in Producers : onBuffersReleased(p) /\ UNCHANGED cpuVars
  \/ abandon /\ UNCHANGED cpuVars
  \/ \E p \in Producers :
       ProducerCall(p) /\ UNCHANGED <<lastAcquired, cbVars, cpuVars>>
  \/ consumerConnect /\ UNCHANGED <<cbVars, cpuVars>>

CpuSpec == CpuInit /\ [][CpuNext]_<<allVars, cpuVars>>

-----------------------------------------------------------------------------
(* "Only a fixed number of buffers can be locked at a time, determined by  *)
(* the construction-time maxLockedBuffers parameter." (CpuConsumer.h:99),  *)
(* and assert(lockedIdx < mMaxLockedBuffers) (CpuConsumer.cpp:182).        *)
LocksFit == Cardinality(mAcquiredBuffers) <= mMaxLockedBuffers

(* What the CPU reads is a buffer no producer writes: if a slot of the     *)
(* queue has it, the slot is ACQUIRED, whoever freed or reallocated slots  *)
(* while it was locked (CpuConsumer.cpp:232-268).                          *)
LockedIsHeld ==
  \A h \in mAcquiredBuffers, s \in Slots :
    mSlots[s].mGraphicBuffer = h.buffer => mSlots[s].mBufferState = "ACQUIRED"
=============================================================================
