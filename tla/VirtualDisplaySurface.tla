----------------------- MODULE VirtualDisplaySurface -----------------------
(***************************************************************************)
(* The surface of a virtual display that the hardware composer writes      *)
(* (services/surfaceflinger/DisplayHardware/VirtualDisplaySurface.cpp): it *)
(* stands as the producer of the GLES driver between the sink, the queue   *)
(* of the display's consumer, and a scratch queue of its own.              *)
(*                                                                         *)
(* SurfaceFlinger takes it through one frame after another (mDbgState);    *)
(* on frames with GLES the driver dequeues and queues in between, or       *)
(* fails to.  The consumer of the sink takes buffers, returns them late,   *)
(* and may go away.  A slot of the sink is a producer slot of the same     *)
(* number; those of the scratch queue are counted from the end.  Slots and *)
(* buffers are allocated as in module BufferQueueProducer; here a queue is *)
(* only the state of its slots.                                            *)
(***************************************************************************)
EXTENDS Naturals, FiniteSets

CONSTANTS
  NumSlots,       \* NUM_BUFFER_SLOTS
  SinkSlots,      \* how many of them the sink uses, and the scratch queue
  ScratchSlots,
  Buffers,        \* numbers of the buffers of a slot, more than are in use
  NoBuffer

(* NUM_BUFFER_SLOTS is 32, and each queue takes its lowest slots: the two  *)
(* kinds of producer slot stay apart.                                      *)
ASSUME VdsAssumption ==
  /\ NumSlots \in Nat /\ SinkSlots \in Nat /\ ScratchSlots \in Nat
  /\ SinkSlots + ScratchSlots <= NumSlots

VARIABLES
  mDbgState, mCompositionType, mMustRecompose, mOutputFormat,
  mOutputProducerSlot, mFbProducerSlot,
  mProducerSlotSource, mProducerBuffers,
  sink, scratch,     \* the slots of the queues
  abandoned,         \* the sink's consumer is gone
  mirror, held,      \* the driver's copy of the buffers, and its slot
  drawn,             \* what it has drawn in, in this frame
  outbuf, fbTarget,  \* what the hardware composer has been given
  failed             \* history: something has failed in this frame

slotVars == <<mOutputProducerSlot, mFbProducerSlot, mProducerSlotSource,
              mProducerBuffers>>
frameVars == <<mDbgState, mCompositionType, mMustRecompose, mOutputFormat>>
glesVars == <<mirror, held, drawn>>
hwcVars == <<outbuf, fbTarget>>
vdsVars == <<frameVars, slotVars, sink, scratch, abandoned, glesVars, hwcVars, failed>>

ProducerSlots == 0 .. NumSlots - 1
SinkIds == 0 .. SinkSlots - 1
ScratchIds == 0 .. ScratchSlots - 1
NoSlot == NumSlots

mapScratch(slot) == NumSlots - slot - 1

(* mDefaultOutputFormat, or what the driver asks for.                      *)
Formats == {"default", "gles"}

EmptySlot == [state |-> "free", buffer |-> NoBuffer]

VdsInit ==
  /\ mDbgState = "IDLE" /\ mCompositionType = "UNKNOWN"
  /\ mMustRecompose = FALSE /\ mOutputFormat = "default"
  /\ mOutputProducerSlot = NoSlot /\ mFbProducerSlot = NoSlot
  /\ mProducerSlotSource = [p \in ProducerSlots |-> "sink"]
  /\ mProducerBuffers = [p \in ProducerSlots |-> NoBuffer]
  /\ sink = [s \in SinkIds |-> EmptySlot]
  /\ scratch = [s \in ScratchIds |-> EmptySlot]
  /\ abandoned = FALSE
  /\ mirror = [p \in ProducerSlots |-> NoBuffer]
  /\ held = NoSlot /\ drawn = NoBuffer
  /\ outbuf = NoBuffer /\ fbTarget = NoBuffer
  /\ failed = FALSE

-----------------------------------------------------------------------------
(* The queues.                                                             *)

ReferencesTo(f) == {f[x] : x \in DOMAIN f}

InUse ==
  {slot.buffer : slot \in ReferencesTo(sink) \union ReferencesTo(scratch)}
    \union ReferencesTo(mProducerBuffers) \union ReferencesTo(mirror)
    \union {outbuf, fbTarget}

(* The lowest of Buffers that no other buffer of the slot in use has.       *)
NewBuffer(p, format) ==
  LET taken == {b.id : b \in {c \in InUse \ {NoBuffer} : c.slot = p}}
  IN [slot |-> p, format |-> format,
      id |-> CHOOSE i \in Buffers \ taken : \A j \in Buffers \ taken : i <= j]

NeedsReallocation(slot, format) ==
  slot.buffer = NoBuffer \/ slot.buffer.format # format

Dequeued(p, slot, format) ==
  [state |-> "dequeued",
   buffer |-> IF NeedsReallocation(slot, format) THEN NewBuffer(p, format)
              ELSE slot.buffer]

FreeSlots(queue) == {s \in DOMAIN queue : queue[s].state = "free"}

(* An asynchronous queueBuffer replaces the frame that waits.              *)
Queued(queue, s) ==
  [t \in DOMAIN queue |->
     CASE t = s -> [queue[t] EXCEPT !.state = "queued"]
       [] queue[t].state = "queued" -> [queue[t] EXCEPT !.state = "free"]
       [] OTHER -> queue[t]]

(* dequeueBuffer(source, ...), once the queue has given a slot: the buffer *)
(* is requested if it is new or the slot was the other source's.  The flag *)
(* that says so is not returned.                                           *)
Requested(source, p, before, after) ==
  /\ mProducerSlotSource' = [mProducerSlotSource EXCEPT ![p] = source]
  /\ mProducerBuffers' = [mProducerBuffers EXCEPT ![p] =
       IF before.buffer # after.buffer \/ mProducerSlotSource[p] # source
       THEN after.buffer ELSE @]

(* Mutant: the buffer that is replaced is kept.                            *)
NotCancelled == sink

Cancelled ==
  IF mOutputProducerSlot # NoSlot /\ sink[mOutputProducerSlot].state = "dequeued"
  THEN [sink EXCEPT ![mOutputProducerSlot].state = "free"] ELSE sink

(* If the sink has no buffer, mOutputProducerSlot stays what it was.       *)
refreshOutputBuffer(format) ==
  \/ /\ ~abandoned
     /\ \E s \in FreeSlots(Cancelled) :
          LET slot == Dequeued(s, sink[s], format) IN
          /\ sink' = [Cancelled EXCEPT ![s] = slot]
          /\ Requested("sink", s, sink[s], slot)
          /\ mOutputProducerSlot' = s
     /\ outbuf' = mProducerBuffers'[mOutputProducerSlot']
     /\ UNCHANGED failed
  \/ /\ abandoned \/ FreeSlots(Cancelled) = {}
     /\ sink' = Cancelled
     /\ failed' = TRUE
     /\ UNCHANGED <<mProducerSlotSource, mProducerBuffers, mOutputProducerSlot, outbuf>>

-----------------------------------------------------------------------------
(* SurfaceFlinger begins a frame and says how it is composed.              *)

beginFrame(mustRecompose) ==
  /\ mDbgState = "IDLE"
  /\ mDbgState' = "BEGUN"
  /\ mMustRecompose' = mustRecompose
  /\ refreshOutputBuffer(mOutputFormat)
  /\ UNCHANGED <<mCompositionType, mOutputFormat, mFbProducerSlot, scratch,
                 abandoned, glesVars, fbTarget>>

(* Mutant: the format is reset and the buffer kept.                        *)
NeverStale(type) == FALSE

IsStale(type) == type # "GLES" /\ mOutputFormat # "default"

prepareFrame(type) ==
  /\ mDbgState = "BEGUN"
  /\ mDbgState' = "PREPARED"
  /\ mCompositionType' = type
  /\ IF IsStale(type)
     THEN mOutputFormat' = "default" /\ refreshOutputBuffer("default")
     ELSE UNCHANGED <<mOutputFormat, mProducerSlotSource, mProducerBuffers,
                      mOutputProducerSlot, sink, outbuf, failed>>
  /\ UNCHANGED <<mMustRecompose, mFbProducerSlot, scratch, abandoned, glesVars,
                 fbTarget>>

-----------------------------------------------------------------------------
(* The GLES driver.  It asks for a buffer it has no copy of, or is told to *)
(* request.                                                                *)

TakesSlot(p) ==
  /\ held' = p
  /\ mirror' = IF mirror[p] = NoBuffer
               THEN [mirror EXCEPT ![p] = mProducerBuffers'[p]] ELSE mirror

dequeueFromSink ==
  /\ mCompositionType = "GLES"
  /\ mOutputProducerSlot # NoSlot
  /\ IF mProducerBuffers[mOutputProducerSlot].format # "gles"
     THEN /\ mOutputFormat' = "gles"
          /\ refreshOutputBuffer("gles")
          /\ IF failed' THEN UNCHANGED <<held, mirror>>
                        ELSE TakesSlot(mOutputProducerSlot')
     ELSE /\ UNCHANGED <<mOutputFormat, mProducerSlotSource, mProducerBuffers,
                         mOutputProducerSlot, sink, outbuf, failed>>
          /\ TakesSlot(mOutputProducerSlot)
  /\ UNCHANGED scratch

dequeueWithoutOutput ==
  /\ mCompositionType = "GLES" /\ mOutputProducerSlot = NoSlot
  /\ failed' = TRUE
  /\ UNCHANGED <<mOutputFormat, mProducerSlotSource, mProducerBuffers,
                 mOutputProducerSlot, sink, scratch, outbuf, held, mirror>>

dequeueFromScratch ==
  /\ mCompositionType = "MIXED"
  /\ \E s \in FreeSlots(scratch) :
       LET slot == Dequeued(mapScratch(s), scratch[s], "gles") IN
       /\ scratch' = [scratch EXCEPT ![s] = slot]
       /\ Requested("scratch", mapScratch(s), scratch[s], slot)
       /\ TakesSlot(mapScratch(s))
  /\ UNCHANGED <<mOutputFormat, mOutputProducerSlot, sink, outbuf, failed>>

dequeueBuffer ==
  /\ mDbgState = "PREPARED"
  /\ mDbgState' = "GLES"
  /\ dequeueFromSink \/ dequeueWithoutOutput \/ dequeueFromScratch
  /\ UNCHANGED <<mCompositionType, mMustRecompose, mFbProducerSlot, abandoned,
                 drawn, fbTarget>>

(* The driver has drawn.  A scratch buffer is queued and acquired at once. *)
queueBuffer ==
  /\ mDbgState = "GLES" /\ held # NoSlot
  /\ mDbgState' = "GLES_DONE"
  /\ drawn' = mirror[held]
  /\ held' = NoSlot
  /\ mFbProducerSlot' = held
  /\ scratch' = IF mCompositionType = "MIXED"
                THEN [scratch EXCEPT ![mapScratch(held)].state = "acquired"]
                ELSE scratch
  /\ UNCHANGED <<mCompositionType, mMustRecompose, mOutputFormat, mirror, sink,
                 mOutputProducerSlot, mProducerSlotSource, mProducerBuffers,
                 abandoned, hwcVars, failed>>

(* Or it has failed to draw, and gives the buffer back.                    *)
cancelBuffer ==
  /\ mDbgState = "GLES" /\ held # NoSlot
  /\ IF mCompositionType = "MIXED"
     THEN /\ scratch' = [scratch EXCEPT ![mapScratch(held)].state = "free"]
          /\ UNCHANGED sink
     ELSE /\ sink' = [sink EXCEPT ![held].state =
                        IF @ = "dequeued" THEN "free" ELSE @]
          /\ UNCHANGED scratch
  /\ held' = NoSlot
  /\ failed' = TRUE
  /\ UNCHANGED <<frameVars, slotVars, abandoned, mirror, drawn, hwcVars>>

-----------------------------------------------------------------------------
(* SurfaceFlinger goes on whatever the driver did; but if it could not     *)
(* make the display current there is no advanceFrame.                      *)

HasBuffers ==
  /\ mOutputProducerSlot # NoSlot
  /\ mCompositionType = "HWC" \/ mFbProducerSlot # NoSlot

advanceFrame ==
  /\ \/ mDbgState = "PREPARED" /\ mCompositionType = "HWC"
     \/ mDbgState \in {"GLES", "GLES_DONE"} /\ held = NoSlot
  /\ mDbgState' = "HWC"
  /\ IF HasBuffers
     THEN /\ outbuf' = mProducerBuffers[mOutputProducerSlot]
          /\ fbTarget' = IF mFbProducerSlot # NoSlot
                         THEN mProducerBuffers[mFbProducerSlot] ELSE fbTarget
          /\ UNCHANGED failed
     ELSE failed' = TRUE /\ UNCHANGED hwcVars
  /\ UNCHANGED <<mCompositionType, mMustRecompose, mOutputFormat, slotVars, sink,
                 scratch, abandoned, glesVars>>

makeCurrentFails ==
  /\ mDbgState = "PREPARED" /\ mCompositionType # "HWC"
  /\ mDbgState' = "HWC"
  /\ failed' = TRUE
  /\ UNCHANGED <<mCompositionType, mMustRecompose, mOutputFormat, slotVars, sink,
                 scratch, abandoned, glesVars, hwcVars>>

(* The output is queued, or cancelled if nothing had to be recomposed.     *)
OutputReturned ==
  IF mMustRecompose THEN Queued(sink, mOutputProducerSlot)
  ELSE [sink EXCEPT ![mOutputProducerSlot].state = "free"]

onFrameCommitted ==
  /\ mDbgState = "HWC"
  /\ mDbgState' = "IDLE"
  /\ scratch' = IF mCompositionType = "MIXED" /\ mFbProducerSlot # NoSlot
                THEN [scratch EXCEPT ![mapScratch(mFbProducerSlot)].state = "free"]
                ELSE scratch
  /\ sink' = IF mOutputProducerSlot # NoSlot
                /\ sink[mOutputProducerSlot].state = "dequeued"
             THEN OutputReturned ELSE sink
  /\ mCompositionType' = "UNKNOWN"
  /\ mOutputProducerSlot' = NoSlot /\ mFbProducerSlot' = NoSlot
  /\ drawn' = NoBuffer /\ failed' = FALSE
  /\ UNCHANGED <<mMustRecompose, mOutputFormat, mProducerSlotSource,
                 mProducerBuffers, abandoned, mirror, held, hwcVars>>

-----------------------------------------------------------------------------
(* The consumer of the sink.                                               *)

sinkMoves(s, from, to) ==
  /\ sink[s].state = from
  /\ sink' = [sink EXCEPT ![s].state = to]
  /\ UNCHANGED <<frameVars, slotVars, scratch, abandoned, glesVars, hwcVars, failed>>

acquireFromSink(s) == sinkMoves(s, "queued", "acquired")
releaseToSink(s) == sinkMoves(s, "acquired", "free")

abandonSink ==
  /\ ~abandoned
  /\ abandoned' = TRUE
  /\ sink' = [s \in SinkIds |-> EmptySlot]
  /\ UNCHANGED <<frameVars, slotVars, scratch, glesVars, hwcVars, failed>>

VdsNext ==
  \/ \E mustRecompose \in BOOLEAN : beginFrame(mustRecompose)
  \/ \E type \in {"GLES", "HWC", "MIXED"} : prepareFrame(type)
  \/ dequeueBuffer
  \/ queueBuffer
  \/ cancelBuffer
  \/ advanceFrame
  \/ makeCurrentFails
  \/ onFrameCommitted
  \/ \E s \in SinkIds : acquireFromSink(s) \/ releaseToSink(s)
  \/ abandonSink

VdsSpec == VdsInit /\ [][VdsNext]_vdsVars

-----------------------------------------------------------------------------
(* No buffer is lost: of the sink at most the output buffer is dequeued,   *)
(* and between frames neither queue has given a buffer away, however the   *)
(* frame ended (VirtualDisplaySurface.cpp:102-253).                        *)
BuffersAreBalanced ==
  /\ \A s \in SinkIds : sink[s].state = "dequeued" => s = mOutputProducerSlot
  /\ \A s \in ScratchIds : scratch[s].state # "free" =>
       mapScratch(s) \in {held, mFbProducerSlot} /\ mCompositionType = "MIXED"

(* Unless something failed, the hardware is given for a frame the buffer   *)
(* that is dequeued from the sink, in its own format unless GLES has to    *)
(* draw in it, and on a mixed frame the scratch buffer that was queued     *)
(* last (DisplayHardware/VirtualDisplaySurface.h:44-70).                   *)
HardwareHasTheOutput ==
  mDbgState = "HWC" /\ ~failed /\ ~abandoned =>
    /\ sink[mOutputProducerSlot].state = "dequeued"
    /\ outbuf = sink[mOutputProducerSlot].buffer
    /\ mCompositionType # "GLES" => outbuf.format = "default"
    /\ mCompositionType = "GLES" => fbTarget = outbuf
    /\ mCompositionType = "MIXED" =>
         fbTarget = scratch[mapScratch(mFbProducerSlot)].buffer

(* "the GLES driver is given a buffer from the sink to render into ...     *)
(* After composition is complete, the buffer is queued to the sink"        *)
(* (DisplayHardware/VirtualDisplaySurface.h:48-54): on a GLES frame the    *)
(* driver draws in the buffer that is queued.                              *)
DrawsTheOutput ==
  mDbgState = "HWC" /\ ~failed /\ ~abandoned /\ mCompositionType = "GLES" =>
    drawn = sink[mOutputProducerSlot].buffer
=============================================================================
