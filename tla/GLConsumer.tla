------------------------------ MODULE GLConsumer ------------------------------
(***************************************************************************)
(* The consumers that keep one buffer current until they have the next:    *)
(* GLConsumer (libs/gui/GLConsumer.cpp), whose buffer is bound to a GL     *)
(* texture, and FramebufferSurface (services/surfaceflinger/DisplayHardware*)
(* /FramebufferSurface.cpp), whose buffer is posted to the display.        *)
(*                                                                         *)
(* Both hold ConsumerBase::mMutex while they acquire the next buffer and   *)
(* release the current one, but the queue's lock is free in between: a     *)
(* producer may disconnect there, or reallocate the slot.  The EGL image   *)
(* of a slot is set and cleared with the buffer in ConsumerBase::mSlots;   *)
(* the fences are of the native kind.                                      *)
(***************************************************************************)
EXTENDS ConsumerBase

CONSTANTS
  Contexts,   \* GL contexts, each current in a thread of its own
  NoContext,
  EglFails    \* may EGL fail to create an image or a fence?

VARIABLES
  isTexture,              \* a GLConsumer, or a FramebufferSurface?
  mAttached, mEglContext,
  mCurrentTexture,        \* mCurrentBufferSlot: a slot, or NoSlot
  mCurrentTextureImage,   \* mCurrentBuffer: the handle that was acquired
  updating,               \* the one acquired now, while mMutex is held
  reading                 \* the buffers GL reads, and no fence says how long

contextVars == <<mAttached, mEglContext>>
currentVars == <<mCurrentTexture, mCurrentTextureImage>>
glVars == <<allVars, isTexture, contextVars, currentVars, updating, reading>>

NoSlot == NUM_BUFFER_SLOTS   \* INVALID_BUFFER_SLOT
NoHandle == [slot |-> NoSlot, frame |-> 0, buffer |-> NoBuffer]

GlInit ==
  /\ CbInit
  /\ isTexture \in BOOLEAN
  /\ mAttached \in {isTexture, FALSE}
  /\ mEglContext = NoContext
  /\ mCurrentTexture = NoSlot
  /\ mCurrentTextureImage = NoHandle
  /\ updating = NoHandle
  /\ reading = {}

MutexIsFree == updating = NoHandle
IsCurrent == mCurrentTexture # NoSlot

(* freeBufferLocked: what is not in mSlots any more is not current, though *)
(* its image stays bound.                                                  *)
CurrentAfterFree(slots) ==
  IF IsCurrent /\ slots[mCurrentTexture].mGraphicBuffer = NoBuffer
  THEN NoSlot ELSE mCurrentTexture

(* The last reference to a handle goes, without a call of the queue.       *)
forget(h) ==
  /\ using' = using \ {h}
  /\ acquired' = acquired \ {h}
  /\ UNCHANGED <<mSlots, call, cbSlots, mQueue, connectionVars, limitVars,
                 mBufferHasBeenQueued, mFrameCounter, mIsAllocating, clientVars,
                 lastAcquired>>

-----------------------------------------------------------------------------
(* checkAndUpdateEglStateLocked: the context is the one of the first call. *)
EglStateIsValid(context) ==
  context # NoContext /\ mEglContext \in {NoContext, context}

(* A new buffer is acquired ...                                            *)
acquireNext ==
  /\ MutexIsFree
  /\ acquireBufferLocked
  /\ updating' = CHOOSE h \in using' : h \notin using
  /\ UNCHANGED <<isTexture, mAttached, currentVars, reading>>

updateTexImage(context) ==
  /\ isTexture
  /\ EglStateIsValid(context)
  /\ acquireNext
  /\ mEglContext' = context

(* There may be no buffer: the context is taken all the same.              *)
updateWithoutBuffer(context) ==
  /\ isTexture /\ MutexIsFree /\ ~mIsAbandoned
  /\ EglStateIsValid(context)
  /\ mQueue = << >> \/ TooManyAcquired
  /\ mEglContext' = context
  /\ UNCHANGED <<allVars, isTexture, mAttached, currentVars, updating, reading>>

nextBuffer == ~isTexture /\ acquireNext /\ UNCHANGED mEglContext

(* A slot without an image ends the process.                               *)
HasImage == updating.buffer # NoBuffer

(* ... and released at once, if there is no context or EGL fails, ...      *)
(* Mutant: the call just returns.                                          *)
keepNext == forget(updating)

returnNext ==
  releaseBufferLocked(updating.slot, cbSlots[updating.slot].mGraphicBuffer, updating)

releaseNext ==
  /\ isTexture /\ updating # NoHandle
  /\ ~mAttached \/ (EglFails /\ HasImage)
  /\ returnNext
  /\ mCurrentTexture' = CurrentAfterFree(cbSlots')
  /\ updating' = NoHandle
  /\ UNCHANGED <<isTexture, contextVars, mCurrentTextureImage, reading>>

(* ... or takes the place of the current one, which is fenced and released *)
(* unless the same slot has been acquired again.  GLConsumer would release *)
(* it, but it does not track the old buffer any more.  The queue refuses   *)
(* neither release.                                                        *)
ReleasesCurrent ==
  IsCurrent /\ (isTexture \/ updating.slot # mCurrentTexture)

(* Mutant: whatever the slot now has is released.                          *)
ReleasedFromSlot == cbSlots[mCurrentTexture].mGraphicBuffer

ReleasedBuffer == mCurrentTextureImage.buffer

releaseCurrent ==
  IF ReleasesCurrent
  THEN releaseBufferLocked(mCurrentTexture, ReleasedBuffer, mCurrentTextureImage)
  ELSE forget(mCurrentTextureImage)

updateAndReleaseLocked ==
  /\ updating # NoHandle
  /\ isTexture => mAttached /\ HasImage
  /\ releaseCurrent
  /\ mCurrentTexture' = updating.slot
  /\ mCurrentTextureImage' = updating
  /\ updating' = NoHandle
  /\ reading' = IF isTexture THEN {updating.buffer} ELSE {}
  /\ UNCHANGED <<isTexture, contextVars>>

IsRefused(s, buffer) ==
  /\ cbStillTracking(s, buffer)
  /\ ReleaseAnswer(s, cbSlots[s].mFrameNumber) = "BAD_VALUE"

(* The release names what the slot has now; a debug image is bound then.   *)
releaseTexImage(context) ==
  /\ isTexture /\ MutexIsFree /\ ~mIsAbandoned
  /\ mAttached => context # NoContext /\ mEglContext = context
  /\ IsCurrent
  /\ LET buffer == cbSlots[mCurrentTexture].mGraphicBuffer IN
     /\ ~IsRefused(mCurrentTexture, buffer)
     /\ releaseBufferLocked(mCurrentTexture, buffer, mCurrentTextureImage)
  /\ mCurrentTexture' = NoSlot
  /\ mCurrentTextureImage' = NoHandle
  /\ reading' = IF mAttached THEN {} ELSE reading
  /\ UNCHANGED <<isTexture, contextVars, updating>>

-----------------------------------------------------------------------------
(* syncForReleaseLocked, by the thread of the context.                     *)
ReadingAfterSync(context) == IF context = NoContext THEN reading ELSE {}

detachFromContext(context) ==
  /\ isTexture /\ MutexIsFree /\ ~mIsAbandoned
  /\ mAttached
  /\ mEglContext \in {NoContext, context}
  /\ mAttached' = FALSE
  /\ mEglContext' = NoContext
  /\ reading' = ReadingAfterSync(context)
  /\ UNCHANGED <<allVars, isTexture, currentVars, updating>>

attachToContext(context) ==
  /\ isTexture /\ MutexIsFree /\ ~mIsAbandoned
  /\ ~mAttached
  /\ context # NoContext
  /\ mAttached' = TRUE
  /\ mEglContext' = context
  /\ reading' = {mCurrentTextureImage.buffer} \ {NoBuffer}
  /\ UNCHANGED <<allVars, isTexture, currentVars, updating>>

-----------------------------------------------------------------------------
glOnBuffersReleased(p) ==
  /\ MutexIsFree
  /\ onBuffersReleased(p)
  /\ mCurrentTexture' = CurrentAfterFree(cbSlots')
  /\ UNCHANGED <<isTexture, contextVars, mCurrentTextureImage, updating, reading>>

glAbandon ==
  /\ MutexIsFree
  /\ abandon
  /\ mCurrentTexture' = NoSlot
  /\ mCurrentTextureImage' = IF isTexture THEN NoHandle ELSE mCurrentTextureImage
  /\ UNCHANGED <<isTexture, contextVars, updating, reading>>

GlUserNext ==
  \/ \E context \in Contexts \union {NoContext} :
       \/ updateTexImage(context)
       \/ updateWithoutBuffer(context)
       \/ releaseTexImage(context)
       \/ detachFromContext(context)
       \/ attachToContext(context)
  \/ nextBuffer
  \/ releaseNext
  \/ updateAndReleaseLocked

GlQueueNext ==
  \/ \E p \in Producers : ProducerCall(p) /\ UNCHANGED <<lastAcquired, cbVars>>
  \/ consumerConnect /\ UNCHANGED cbVars

GlNext ==
  \/ GlUserNext
  \/ \E p \in Producers : glOnBuffersReleased(p)
  \/ glAbandon
  \/ GlQueueNext /\ UNCHANGED <<isTexture, contextVars, currentVars, updating, reading>>

GlSpec == GlInit /\ [][GlNext]_glVars

-----------------------------------------------------------------------------
(* No producer writes what is shown or read: the buffer of the current     *)
(* image, and one that GL still reads, is ACQUIRED if a slot of the queue  *)
(* has it, whoever freed or reallocated the slot meanwhile                 *)
(* (GLConsumer.cpp:365-443, FramebufferSurface.cpp:86-122).                *)
CurrentIsHeld ==
  \A b \in (reading \union {mCurrentTextureImage.buffer}) \ {NoBuffer} :
    \A s \in Slots : mSlots[s].mGraphicBuffer = b => mSlots[s].mBufferState = "ACQUIRED"

(* "We may have to do this even when item.mGraphicBuffer == NULL (which    *)
(* means the buffer was previously acquired)." (GLConsumer.cpp:390): the   *)
(* slot of a buffer that comes as NULL has an image.                       *)
ImagesExist == updating # NoHandle => HasImage

(* No more buffers are kept than the one shown: another ACQUIRED slot      *)
(* would be lost to the producers.  An exception is a slot that mSlots has *)
(* lost, see ImagesExist (FramebufferSurface.cpp:96-113).                  *)
OneIsHeld ==
  MutexIsFree => \A s \in SlotsIn(mSlots, {"ACQUIRED"}) :
                   s = mCurrentTexture \/ cbSlots[s].mGraphicBuffer = NoBuffer
=============================================================================
