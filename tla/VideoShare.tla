----------------------------- MODULE VideoShare -----------------------------
(***************************************************************************)
(* The videoshare pipeline.  BufferQueueProducer::queueBuffer, with the    *)
(* video hook on, copies each frame into one of the slots of a shared      *)
(* memory (include/videoshare/CblkVideo.h) and tells the service           *)
(* (libs/videoshare/VideoShare.cpp), whose compressor thread turns it into *)
(* a JPEG in a ring buffer (libs/videoshare/DataBuffer.cpp), from which    *)
(* the transmitter thread sends it to the slave.                           *)
(*                                                                         *)
(* hook[q] is where the hook of BufferQueue q is.  It runs with that       *)
(* queue's mMutex held, so while it is at another place than new or idle   *)
(* the queue stands still.                                                 *)
(*   new       video_share_client is NULL                                  *)
(*   connecting  in setUpSlaveIp, which has set mSocketFd and may be       *)
(*             blocked in connect         starting  between the starts of  *)
(*                                                  the two threads        *)
(*   idle      not in queueBuffer         copying   in memcpy to slot id   *)
(*   signal    about to signalNewData     full      about to               *)
(*                                                  signalBufferFull       *)
(* compressor and transmitter are the two threads, by the place in their   *)
(* threadLoop.  Both evaluate exitPending() (top), then lock and wait      *)
(* unconditionally (entering), so a signal in between is lost.  The        *)
(* compressor holds mCompressLock, and the transmitter mTransmitLock, at   *)
(* every place but these, off, waiting, woken and exited.                  *)
(*                                                                         *)
(* Sizes are in units of the header that precedes a frame in the ring.     *)
(* Module DataBuffer shows that the ring returns the bytes written.        *)
(***************************************************************************)
EXTENDS Integers, Sequences

CONSTANTS
  VIDEO_SHARE_FRAME_COUNT, \* slots of the shared memory (4)
  Hooks,                   \* the BufferQueues with the video hook on
  bufsize,                 \* capacity of the ring
  FrameSizes,              \* sizes of a JPEG; 0 when compression fails
  ConnectFails,            \* may setUpSlaveIp's connect fail?
  SendFails,               \* may sendData fail?
  MaxResets,               \* bound: calls of resetSendFlag
  MaxFrames                \* bound: frames that are told apart

ASSUME VideoAssumption ==
  /\ VIDEO_SHARE_FRAME_COUNT \in Nat \ {0}
  /\ bufsize \in Nat
  /\ FrameSizes \subseteq Nat
  /\ MaxResets \in Nat
  /\ MaxFrames \in Nat \ {0}

VARIABLES
  mMemoryStates, \* the states of the slots, shared without a lock
  mBuffer,       \* the frame in each slot; 0 while it is being written
  captured,      \* the last frame the hooks took
  hook,
  mSocketFd,     \* "null", or set: "connecting", "connected" or "failed"
  index_pool,
  mYUV,          \* TRUE while mYUV_width and mYUV_height are not 0
  planes,        \* mData_u, mData_v, mData_YUV_420p: "null", or allocated
                 \* for a "frame", or for a size of 0: "empty"
  compressor, transmitter,
  exitPending,   \* of the two threads
  mSendBuffer,   \* the frames whose header is in the ring
  used,          \* write_ptr - read_ptr
  sent,          \* the last frame sent
  reset,         \* progress of resetSendFlag
  resets,        \* calls of it
  exitLost       \* history: one asked the compressor to exit before it ran

poolVars == <<index_pool, mYUV, planes>>
resetVars == <<reset, resets, exitLost>>
ringVars == <<mSendBuffer, used>>
slotVars == <<mMemoryStates, mBuffer, captured>>
videoVars == <<slotVars, hook, mSocketFd, poolVars, compressor, transmitter,
               exitPending, ringVars, sent, resetVars>>

Ids == 0 .. VIDEO_SHARE_FRAME_COUNT - 1
Frames == 0 .. MaxFrames
Header == 1

Frame == [frame: Frames, size: FrameSizes]
Place(places) == [at: places]

Hook ==
       Place({"new", "connecting", "starting", "idle", "full"})
  \cup [at: {"copying"}, id: Ids, frame: Frames] \cup [at: {"signal"}, id: Ids]
Compressor ==
       Place({"off", "top", "entering", "waiting", "woken", "turn", "exited"})
  \cup [at: {"compressing"}, id: Ids, frame: Frames]
  \cup [at: {"room", "nudge", "payload", "tell"}, id: Ids, frame: Frames,
        size: FrameSizes]
Transmitter ==
       Place({"off", "top", "entering", "waiting", "woken", "drain", "exited"})
  \cup [at: {"payload", "sending"}, frame: Frames, size: FrameSizes]

VideoTypeOK ==
  /\ mMemoryStates \in [Ids -> {"can_read", "can_write"}]
  /\ mBuffer \in [Ids -> Frames]
  /\ captured \in Frames
  /\ hook \in [Hooks -> Hook]
  /\ mSocketFd \in {"null", "connecting", "connected", "failed"}
  /\ index_pool \in Seq(Ids)
  /\ mYUV \in BOOLEAN
  /\ planes \in {"null", "empty", "frame"}
  /\ compressor \in Compressor
  /\ transmitter \in Transmitter
  /\ exitPending \in [compressor: BOOLEAN, transmitter: BOOLEAN]
  /\ mSendBuffer \in Seq(Frame)
  /\ used \in Nat
  /\ sent \in Frames
  /\ reset \in {"none", "compressor", "transmitter", "wakeCompressor",
                "wakeTransmitter", "done"}
  /\ resets \in 0 .. MaxResets
  /\ exitLost \in BOOLEAN

VideoAt(place) == [at |-> place]

VideoInit ==
  /\ mMemoryStates = [i \in Ids |-> "can_write"]
  /\ mBuffer = [i \in Ids |-> 0]
  /\ captured = 0
  /\ hook = [q \in Hooks |-> VideoAt("new")]
  /\ mSocketFd = "null"
  /\ index_pool = << >>
  /\ mYUV = FALSE /\ planes = "null"
  /\ compressor = VideoAt("off") /\ transmitter = VideoAt("off")
  /\ exitPending = [compressor |-> FALSE, transmitter |-> FALSE]
  /\ mSendBuffer = << >> /\ used = 0
  /\ sent = 0
  /\ reset = "none" /\ resets = 0 /\ exitLost = FALSE

mCompressLockFree ==
  compressor.at \in {"off", "top", "entering", "waiting", "woken", "exited"}
mTransmitLockFree ==
  transmitter.at \in {"off", "top", "entering", "waiting", "woken", "exited"}

(* A condition's signal: it wakes the thread that waits, or is lost. *)
Signalled(thread) == IF thread.at = "waiting" THEN VideoAt("woken") ELSE thread
-----------------------------------------------------------------------------
(* The hook in queueBuffer.  The first time, it gets the service and has   *)
(* it connect to the slave.  mSocketFd is set before connect, and no later *)
(* call of any queue tries again.                                          *)
getVideoShare(q) ==
  /\ hook[q].at = "new"
  /\ IF mSocketFd = "null"
     THEN /\ mSocketFd' = "connecting"
          /\ hook' = [hook EXCEPT ![q] = VideoAt("connecting")]
     ELSE /\ hook' = [hook EXCEPT ![q] = VideoAt("idle")]
          /\ UNCHANGED mSocketFd
  /\ UNCHANGED <<slotVars, poolVars, compressor, transmitter, exitPending,
                 ringVars, sent, resetVars>>

(* connect returns.  Thread::run (external) forgets what was asked of the  *)
(* thread before.                                                          *)
setUpSlaveIp(q) ==
  /\ hook[q].at = "connecting"
  /\ \/ /\ mSocketFd' = "connected"
        /\ compressor' = VideoAt("top")
        /\ exitPending' = [exitPending EXCEPT !.compressor = FALSE]
        /\ hook' = [hook EXCEPT ![q] = VideoAt("starting")]
     \/ /\ ConnectFails
        /\ mSocketFd' = "failed"
        /\ hook' = [hook EXCEPT ![q] = VideoAt("idle")]
        /\ UNCHANGED <<compressor, exitPending>>
  /\ UNCHANGED <<slotVars, poolVars, transmitter, ringVars, sent, resetVars>>

start_threads(q) ==
  /\ hook[q].at = "starting"
  /\ transmitter' = VideoAt("top")
  /\ exitPending' = [exitPending EXCEPT !.transmitter = FALSE]
  /\ hook' = [hook EXCEPT ![q] = VideoAt("idle")]
  /\ UNCHANGED <<slotVars, mSocketFd, poolVars, compressor, ringVars, sent, resetVars>>

(* Mutant: any slot will do. *)
AnySlot == Ids

Writable == {i \in Ids : mMemoryStates[i] = "can_write"}

(* getCanWriteID: the first slot that can be written, and the copy begins  *)
getCanWriteID(q) ==
  /\ hook[q].at = "idle"
  /\ IF Writable = {}
     THEN /\ hook' = [hook EXCEPT ![q] = VideoAt("full")]
          /\ UNCHANGED <<mBuffer, captured>>
     ELSE \E i \in Writable :
            /\ \A j \in Writable : i <= j
            /\ mBuffer' = [mBuffer EXCEPT ![i] = 0]
            /\ captured' = IF captured < MaxFrames THEN captured + 1 ELSE captured
            /\ hook' = [hook EXCEPT ![q] =
                          [at |-> "copying", id |-> i, frame |-> captured']]
  /\ UNCHANGED <<mMemoryStates, mSocketFd, poolVars, compressor, transmitter,
                 exitPending, ringVars, sent, resetVars>>

(* The copy ends and the slot is published.                                *)
publish(q) ==
  /\ hook[q].at = "copying"
  /\ LET i == hook[q].id
     IN  /\ mBuffer' = [mBuffer EXCEPT ![i] = hook[q].frame]
         /\ mMemoryStates' = [mMemoryStates EXCEPT ![i] = "can_read"]
         /\ hook' = [hook EXCEPT ![q] = [at |-> "signal", id |-> i]]
  /\ UNCHANGED <<captured, mSocketFd, poolVars, compressor, transmitter,
                 exitPending, ringVars, sent, resetVars>>

(* Mutant: the index is put before the others. *)
NewDataFirst(q) ==
  /\ hook[q].at = "signal"
  /\ mCompressLockFree
  /\ index_pool' = <<hook[q].id>> \o index_pool
  /\ mYUV' = TRUE
  /\ compressor' = Signalled(compressor)
  /\ hook' = [hook EXCEPT ![q] = VideoAt("idle")]
  /\ UNCHANGED <<slotVars, mSocketFd, planes, transmitter, exitPending, ringVars,
                 sent, resetVars>>

signalNewData(q) ==
  /\ hook[q].at = "signal"
  /\ mCompressLockFree
  /\ index_pool' = Append(index_pool, hook[q].id)
  /\ mYUV' = TRUE
  /\ compressor' = Signalled(compressor)
  /\ hook' = [hook EXCEPT ![q] = VideoAt("idle")]
  /\ UNCHANGED <<slotVars, mSocketFd, planes, transmitter, exitPending, ringVars,
                 sent, resetVars>>

(* Mutant: the compressor is not signalled. *)
IgnoreBufferFull(q) ==
  /\ hook[q].at = "full"
  /\ mCompressLockFree
  /\ hook' = [hook EXCEPT ![q] = VideoAt("idle")]
  /\ UNCHANGED <<slotVars, mSocketFd, poolVars, compressor, transmitter,
                 exitPending, ringVars, sent, resetVars>>

signalBufferFull(q) ==
  /\ hook[q].at = "full"
  /\ mCompressLockFree
  /\ compressor' = Signalled(compressor)
  /\ hook' = [hook EXCEPT ![q] = VideoAt("idle")]
  /\ UNCHANGED <<slotVars, mSocketFd, poolVars, transmitter, exitPending,
                 ringVars, sent, resetVars>>
-----------------------------------------------------------------------------
(* VideoCompressor::threadLoop *)
Compress(next) ==
  /\ compressor' = next
  /\ UNCHANGED <<mBuffer, captured, hook, mSocketFd, mYUV, exitPending, sent, resetVars>>

compressorTop ==
  \/ /\ compressor.at = "top"
     /\ Compress(VideoAt(IF exitPending.compressor THEN "exited" ELSE "entering"))
     /\ UNCHANGED <<mMemoryStates, index_pool, planes, transmitter, ringVars>>
  \/ /\ compressor.at = "entering"
     /\ Compress(VideoAt("waiting"))
     /\ UNCHANGED <<mMemoryStates, index_pool, planes, transmitter, ringVars>>
  \/ /\ compressor.at = "woken"
     /\ Compress(VideoAt("turn"))
     /\ UNCHANGED <<mMemoryStates, index_pool, planes, transmitter, ringVars>>

(* Mutant: the compressor empties the pool before it exits. *)
ExitsWhenEmpty == index_pool = << >> /\ exitPending.compressor

ExitsTurn == exitPending.compressor

(* One turn of the loop that empties index_pool.  Planes that are missing  *)
(* are allocated, of the size that is known now.                           *)
compressorTurn ==
  /\ compressor.at = "turn"
  /\ \/ /\ index_pool = << >>
        /\ Compress(VideoAt("top"))
        /\ UNCHANGED <<index_pool, planes>>
     \/ /\ index_pool # << >> /\ ExitsTurn
        /\ Compress(VideoAt("exited"))
        /\ UNCHANGED <<index_pool, planes>>
     \/ /\ index_pool # << >> /\ ~ExitsTurn
        /\ index_pool' = Tail(index_pool)
        /\ planes' = IF planes # "null" THEN planes
                     ELSE IF mYUV THEN "frame" ELSE "empty"
        /\ LET i == Head(index_pool)
           IN  Compress(IF mMemoryStates[i] = "can_read"
                        THEN [at |-> "compressing", id |-> i, frame |-> mBuffer[i]]
                        ELSE VideoAt("turn"))
  /\ UNCHANGED <<mMemoryStates, transmitter, ringVars>>

(* compressToJPEG returns; an empty result gives the slot back at once.    *)
(* Mutant: it is not given back. *)
CompressAndKeepSlot ==
  /\ compressor.at = "compressing"
  /\ \E size \in FrameSizes :
       Compress(IF size > 0
                THEN [at |-> "room", id |-> compressor.id,
                      frame |-> compressor.frame, size |-> size]
                ELSE VideoAt("turn"))
  /\ UNCHANGED <<mMemoryStates, index_pool, planes, transmitter, ringVars>>

compressToJPEG ==
  /\ compressor.at = "compressing"
  /\ \E size \in FrameSizes :
       IF size > 0
       THEN /\ Compress([at |-> "room", id |-> compressor.id,
                         frame |-> compressor.frame, size |-> size])
            /\ UNCHANGED mMemoryStates
       ELSE /\ Compress(VideoAt("turn"))
            /\ mMemoryStates' = [mMemoryStates EXCEPT ![compressor.id] = "can_write"]
  /\ UNCHANGED <<index_pool, planes, transmitter, ringVars>>

(* Mutant: the room for the header is forgotten. *)
RoomForPayload(size) == bufsize - used >= size

RoomInRing(size) == bufsize - used >= size + Header

(* Wait for room in the ring, waking the transmitter every millisecond,    *)
(* and write the header.                                                   *)
compressorRoom ==
  /\ compressor.at = "room"
  /\ \/ /\ exitPending.compressor
        /\ Compress(VideoAt("exited"))
        /\ UNCHANGED ringVars
     \/ /\ ~exitPending.compressor
        /\ ~RoomInRing(compressor.size)
        /\ Compress([compressor EXCEPT !.at = "nudge"])
        /\ UNCHANGED ringVars
     \/ /\ ~exitPending.compressor
        /\ RoomInRing(compressor.size)
        /\ used' = used + Header
        /\ mSendBuffer' = Append(mSendBuffer, [frame |-> compressor.frame,
                                               size |-> compressor.size])
        /\ Compress([compressor EXCEPT !.at = "payload"])
  /\ UNCHANGED <<mMemoryStates, index_pool, planes, transmitter>>

compressorPayload ==
  /\ compressor.at = "payload"
  /\ used' = used + compressor.size
  /\ Compress([compressor EXCEPT !.at = "tell"])
  /\ UNCHANGED <<mMemoryStates, index_pool, planes, transmitter, mSendBuffer>>

(* signalDataTransmitor: from the wait for room, or with a frame written,  *)
(* after which the slot is given back                                      *)
(* Mutant: the transmitter is not signalled. *)
ReleaseSlotOnly ==
  /\ compressor.at \in {"nudge", "tell"}
  /\ mTransmitLockFree
  /\ IF compressor.at = "nudge"
     THEN Compress([compressor EXCEPT !.at = "room"]) /\ UNCHANGED mMemoryStates
     ELSE /\ Compress(VideoAt("turn"))
          /\ mMemoryStates' = [mMemoryStates EXCEPT ![compressor.id] = "can_write"]
  /\ UNCHANGED <<index_pool, planes, transmitter, ringVars>>

signalDataTransmitor ==
  /\ compressor.at \in {"nudge", "tell"}
  /\ mTransmitLockFree
  /\ transmitter' = Signalled(transmitter)
  /\ IF compressor.at = "nudge"
     THEN Compress([compressor EXCEPT !.at = "room"]) /\ UNCHANGED mMemoryStates
     ELSE /\ Compress(VideoAt("turn"))
          /\ mMemoryStates' = [mMemoryStates EXCEPT ![compressor.id] = "can_write"]
  /\ UNCHANGED <<index_pool, planes, ringVars>>

CompressorStep ==
  \/ compressorTop \/ compressorTurn \/ compressToJPEG \/ compressorRoom
  \/ compressorPayload \/ signalDataTransmitor
-----------------------------------------------------------------------------
(* VideoTransmitor::threadLoop *)
Transmit(next) ==
  /\ transmitter' = next
  /\ UNCHANGED <<slotVars, hook, mSocketFd, poolVars, compressor, exitPending, resetVars>>

transmitterTop ==
  \/ /\ transmitter.at = "top"
     /\ Transmit(VideoAt(IF exitPending.transmitter THEN "exited" ELSE "entering"))
     /\ UNCHANGED <<ringVars, sent>>
  \/ /\ transmitter.at = "entering"
     /\ Transmit(VideoAt("waiting"))
     /\ UNCHANGED <<ringVars, sent>>
  \/ /\ transmitter.at = "woken"
     /\ Transmit(VideoAt(IF exitPending.transmitter THEN "exited" ELSE "drain"))
     /\ UNCHANGED <<ringVars, sent>>

(* The header is read when there is more than a header.                    *)
transmitterDrain ==
  /\ transmitter.at = "drain"
  /\ IF used > Header
     THEN /\ used' = used - Header
          /\ mSendBuffer' = Tail(mSendBuffer)
          /\ Transmit([at |-> "payload", frame |-> Head(mSendBuffer).frame,
                       size |-> Head(mSendBuffer).size])
     ELSE Transmit(VideoAt("top")) /\ UNCHANGED ringVars
  /\ UNCHANGED sent

transmitterPayload ==
  /\ transmitter.at = "payload"
  /\ used >= transmitter.size
  /\ used' = used - transmitter.size
  /\ Transmit([transmitter EXCEPT !.at = "sending"])
  /\ UNCHANGED <<mSendBuffer, sent>>

sendData ==
  /\ transmitter.at = "sending"
  /\ Transmit(VideoAt("drain"))
  /\ sent' = transmitter.frame \/ (SendFails /\ UNCHANGED sent)
  /\ UNCHANGED ringVars

TransmitterStep ==
  transmitterTop \/ transmitterDrain \/ transmitterPayload \/ sendData
-----------------------------------------------------------------------------
(* resetSendFlag: stop_threads asks both threads to exit, then signals     *)
(* them with an index 0 and a size of 0 that are no frame's, and the       *)
(* planes are freed, without a lock.  All a client needs for it is a queue *)
(* that knows the service: the threads may not run yet, because connect    *)
(* blocks, and may never run.  (A call that overtakes InitParam finds no   *)
(* threads to ask, which comes to the same.)                               *)
ResetIndex == 0

ResetStep(from, to) ==
  /\ reset \in from /\ reset' = to
  /\ UNCHANGED <<slotVars, hook, mSocketFd, ringVars, sent>>

stop_threads ==
  \/ /\ \E q \in Hooks : hook[q].at # "new"
     /\ resets < MaxResets /\ resets' = resets + 1
     /\ ResetStep({"none", "done"}, "compressor")
     /\ exitPending' = [exitPending EXCEPT !.compressor = TRUE]
     /\ exitLost' = (exitLost \/ compressor.at = "off")
     /\ UNCHANGED <<poolVars, compressor, transmitter>>
  \/ /\ ResetStep({"compressor"}, "transmitter")
     /\ exitPending' = [exitPending EXCEPT !.transmitter = TRUE]
     /\ UNCHANGED <<poolVars, compressor, transmitter, resets, exitLost>>
  \/ /\ ResetStep({"transmitter"}, "wakeCompressor")
     /\ mCompressLockFree
     /\ index_pool' = Append(index_pool, ResetIndex)
     /\ mYUV' = FALSE
     /\ compressor' = Signalled(compressor)
     /\ UNCHANGED <<planes, transmitter, exitPending, resets, exitLost>>
  \/ /\ ResetStep({"wakeCompressor"}, "wakeTransmitter")
     /\ mTransmitLockFree
     /\ transmitter' = Signalled(transmitter)
     /\ UNCHANGED <<poolVars, compressor, exitPending, resets, exitLost>>

resetSendFlag ==
  \/ stop_threads
  \/ /\ ResetStep({"wakeTransmitter"}, "done")
     /\ planes' = "null"
     /\ UNCHANGED <<index_pool, mYUV, compressor, transmitter, exitPending,
                    resets, exitLost>>

HookStep(q) ==
  \/ getVideoShare(q) \/ setUpSlaveIp(q) \/ start_threads(q)
  \/ getCanWriteID(q) \/ publish(q) \/ signalNewData(q) \/ signalBufferFull(q)

VideoNext ==
  \/ \E q \in Hooks : HookStep(q)
  \/ CompressorStep \/ TransmitterStep
  \/ resetSendFlag

VideoSpec == VideoInit /\ [][VideoNext]_videoVars

(* The threads are scheduled and the slave reads what it is sent; a hook   *)
(* that has begun goes on when the lock lets it, and its connect returns,  *)
(* if only with ETIMEDOUT.                                                 *)
HookGoesOn(q) ==
  \/ setUpSlaveIp(q) \/ start_threads(q)
  \/ publish(q) \/ signalNewData(q) \/ signalBufferFull(q)

VideoFairness ==
  /\ WF_videoVars(CompressorStep)
  /\ WF_videoVars(TransmitterStep)
  /\ \A q \in Hooks : WF_videoVars(HookGoesOn(q))

VideoFairSpec == VideoSpec /\ VideoFairness

(* ... and the application keeps queueing buffers                          *)
Playing == \A q \in Hooks : WF_videoVars(getCanWriteID(q))
-----------------------------------------------------------------------------
(* The compressor reads a whole frame: the hook never writes into the slot *)
(* being compressed.  Only mMemoryStates keeps them apart, and index_pool  *)
(* can hold an index for which no frame is waiting.                        *)
NoTornFrame ==
  compressor.at = "compressing" =>
    compressor.frame # 0 /\ mBuffer[compressor.id] = compressor.frame

(* The planes a frame is compressed into have the size of a frame, and are *)
(* not freed, which resetSendFlag does without a lock: a frame is never    *)
(* compressed after the threads are asked to stop.  A request that was     *)
(* lost stops nothing: the compressor goes on while its planes are freed.  *)
CompressesIntoPlanes ==
  compressor.at = "compressing" /\ ~exitLost => mYUV /\ planes = "frame"

(* A frame is published as can_read until its index reaches the pool and   *)
(* the compressor is done with it: while the compressor runs, no slot is   *)
(* lost to the pipeline.                                                   *)
ReadableSlotsArePending ==
  ~exitPending.compressor =>
    \A i \in Ids : mMemoryStates[i] = "can_read" =>
      \/ \E q \in Hooks : hook[q] = [at |-> "signal", id |-> i]
      \/ \E k \in 1 .. Len(index_pool) : index_pool[k] = i
      \/ /\ compressor.at \in {"compressing", "room", "nudge", "payload", "tell"}
         /\ compressor.id = i

(* The ring is never overfilled, and once the transmitter has read a       *)
(* header the frame is there: it never enters the sleep in which it would  *)
(* hold mTransmitLock against the compressor.                              *)
RingHoldsWholeFrames ==
  /\ used <= bufsize
  /\ transmitter.at = "payload" => used >= transmitter.size

(* The slave gets the frames in the order they were captured.  The index 0 *)
(* of a reset whose request was lost is taken for a frame's: slot 0 is     *)
(* read before its turn.                                                   *)
SentInOrder == [][exitLost \/ sent' >= sent]_videoVars

(* What the slave gets is what was captured: frames go through the pool,   *)
(* the planes and the ring whole, none is dropped on the way while the     *)
(* threads run, and, unless a reset came before the threads ran, they are  *)
(* sent in order and compressed into planes of their size                  *)
(* (VideoShare.cpp:252-276, 333-350, 370-520).                             *)
FramesArriveWhole ==
  /\ SentInOrder
  /\ [](CompressesIntoPlanes /\ ReadableSlotsArePending /\ RingHoldsWholeFrames)

(* A reset that runs while connect returns: the compressor has forgotten   *)
(* its request, the transmitter obeys the one it is sent.  Nobody empties  *)
(* the ring any more, for which the compressor waits with mCompressLock    *)
(* held, and the hook for the compressor.                                  *)
TransmitterAloneStopped == transmitter.at = "exited" /\ ~exitPending.compressor

(* The hook, and with it the queue's mMutex, is released: a slow slave     *)
(* delays queueBuffer but does not block it for good.                      *)
HooksReturn ==
  \A q \in Hooks :
    hook[q].at \notin {"new", "idle"}
      ~> hook[q].at = "idle" \/ TransmitterAloneStopped

(* While the application keeps playing and the slave was reached, no frame *)
(* stays behind because of a lost signal: the next one, or                 *)
(* signalBufferFull, makes up for it.                                      *)
PublishedAreConsumed ==
  Playing =>
    \A i \in Ids :
      mMemoryStates[i] = "can_read"
        ~> \/ mMemoryStates[i] = "can_write"
           \/ mSocketFd = "failed"
           \/ exitPending.compressor \/ TransmitterAloneStopped

(* Nothing in the pipeline waits for ever: neither a hook nor a frame it   *)
(* has published, unless the threads were stopped by halves                *)
(* (VideoShare.cpp:252-276, 333-350, 381-400).                             *)
PipelineGoesOn == HooksReturn /\ PublishedAreConsumed
=============================================================================
