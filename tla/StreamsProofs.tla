--------------------------- MODULE StreamsProofs ----------------------------
(***************************************************************************)
(* Theorems about the two ways frames leave the queue they were drawn for: *)
(* shared with another device (VideoShare), and split to several outputs   *)
(* (StreamSplitter).                                                       *)
(***************************************************************************)
EXTENDS VideoShare, StreamSplitter, SequenceFacts, TLAPS

-----------------------------------------------------------------------------
(***************************************************************************)
(* Theorems about VideoShare, for any number of slots, any ring and any    *)
(* number of frames.                                                       *)
(*                                                                         *)
(* A slot changes hands by one unlocked write of its state.  What keeps    *)
(* the two sides apart is an ownership argument: only the hook makes a     *)
(* slot can_read, only the compressor makes it can_write, and each writes  *)
(* or reads it only while the state is its own.  With two hooks the first  *)
(* half is false: both may be copying into the same can_write slot.        *)
(***************************************************************************)

(* One hook copies frames.                                                 *)
OneHook == \A q, r \in Hooks : q = r

(* The places of the compressor between its check of a slot and its        *)
(* release.                                                                *)
Processing == {"compressing", "room", "nudge", "payload", "tell"}

(* The slot a hook copies into is can_write.                               *)
HookOwnsWritable ==
  \A q \in Hooks : hook[q].at = "copying" =>
    /\ hook[q].id \in Ids /\ hook[q].frame \in Frames \ {0}
    /\ mMemoryStates[hook[q].id] = "can_write"

(* A hook that signals has a slot.                                         *)
SignalHasId == \A q \in Hooks : hook[q].at = "signal" => hook[q].id \in Ids

(* The slot the compressor works on is can_read.                           *)
CompressorOwnsReadable ==
  compressor.at \in Processing =>
    /\ {"at", "id"} \subseteq DOMAIN compressor
    /\ compressor.id \in Ids /\ mMemoryStates[compressor.id] = "can_read"

(* A slot that is can_read holds a frame.                                  *)
ReadableIsWhole ==
  \A i \in Ids : mMemoryStates[i] = "can_read" => mBuffer[i] # 0

(* The pool holds slots.                                                   *)
PoolHoldsIds == index_pool \in Seq(Ids)

(* The inductive invariant of the slots.                                   *)
OwnershipInv ==
  /\ mMemoryStates \in [Ids -> {"can_read", "can_write"}]
  /\ mBuffer \in [Ids -> Frames] /\ captured \in Frames
  /\ DOMAIN hook = Hooks
  /\ PoolHoldsIds
  /\ HookOwnsWritable /\ SignalHasId
  /\ CompressorOwnsReadable
  /\ ReadableIsWhole
  /\ NoTornFrame

(* The first id, and the numbers of frames.                                *)
LEMMA Arithmetic ==
  ASSUME captured \in Frames
  PROVE  /\ 0 \in Ids /\ 0 \in Frames
         /\ captured < MaxFrames => captured + 1 \in Frames /\ captured + 1 # 0
         /\ ~(captured < MaxFrames) => captured # 0
  BY VideoAssumption DEF Frames, Ids

(* A place of a thread.                                                    *)
LEMMA AtPlaces == \A place : VideoAt(place).at = place
  BY DEF VideoAt

(* The hooks: a slot that is can_write is not the compressor's             *)
LEMMA HookKeepsOwnership ==
  ASSUME OneHook, OwnershipInv, NEW q \in Hooks, HookStep(q)
  PROVE  OwnershipInv'
<1>1. CASE getCanWriteID(q)
  <2>1. CASE Writable = {}
    BY <1>1, <2>1, AtPlaces DEF getCanWriteID, poolVars, ringVars, OwnershipInv, PoolHoldsIds,
       HookOwnsWritable, SignalHasId, CompressorOwnsReadable, ReadableIsWhole, NoTornFrame
  <2>2. CASE Writable # {}
    <3>1. PICK i \in Writable :
            /\ mBuffer' = [mBuffer EXCEPT ![i] = 0]
            /\ captured' = IF captured < MaxFrames THEN captured + 1 ELSE captured
            /\ hook' = [hook EXCEPT ![q] =
                          [at |-> "copying", id |-> i, frame |-> captured']]
      BY <1>1, <2>2 DEF getCanWriteID
    <3>2. i \in Ids /\ mMemoryStates[i] = "can_write"
      BY DEF Writable
    <3>3. captured' \in Frames /\ captured' # 0 /\ 0 \in Frames
      BY <3>1, Arithmetic DEF OwnershipInv
    <3>4. UNCHANGED <<mMemoryStates, index_pool, compressor>>
      BY <1>1 DEF getCanWriteID, poolVars
    <3>5. HookOwnsWritable' /\ SignalHasId'
      BY <3>1, <3>2, <3>3, <3>4 DEF OwnershipInv, HookOwnsWritable, SignalHasId
    <3>6. CompressorOwnsReadable' /\ PoolHoldsIds'
      BY <3>4 DEF OwnershipInv, CompressorOwnsReadable, PoolHoldsIds
    <3>7. ReadableIsWhole' /\ NoTornFrame'
      BY <3>1, <3>2, <3>4 DEF OwnershipInv, ReadableIsWhole, NoTornFrame,
         CompressorOwnsReadable, Processing
    <3>8. QED
      BY <3>1, <3>2, <3>3, <3>4, <3>5, <3>6, <3>7 DEF OwnershipInv
  <2>3. QED BY <2>1, <2>2
<1>2. CASE publish(q)
  <2> DEFINE i == hook[q].id
  <2>1. /\ i \in Ids /\ hook[q].frame \in Frames \ {0} /\ mMemoryStates[i] = "can_write"
        /\ mBuffer' = [mBuffer EXCEPT ![i] = hook[q].frame]
        /\ mMemoryStates' = [mMemoryStates EXCEPT ![i] = "can_read"]
        /\ hook' = [hook EXCEPT ![q] = [at |-> "signal", id |-> i]]
        /\ UNCHANGED <<captured, index_pool, compressor>>
    BY <1>2 DEF publish, OwnershipInv, HookOwnsWritable, poolVars
  <2>2. HookOwnsWritable' /\ SignalHasId'
    BY <2>1 DEF HookOwnsWritable, SignalHasId, OneHook, OwnershipInv
  <2>3. CompressorOwnsReadable' /\ PoolHoldsIds'
    BY <2>1 DEF OwnershipInv, CompressorOwnsReadable, PoolHoldsIds
  <2>4. ReadableIsWhole' /\ NoTornFrame'
    BY <2>1 DEF OwnershipInv, ReadableIsWhole, NoTornFrame,
       CompressorOwnsReadable, Processing
  <2>5. QED
    BY <2>1, <2>2, <2>3, <2>4 DEF OwnershipInv
<1>3. CASE signalNewData(q) \/ signalBufferFull(q)
  <2>1. /\ hook' = [hook EXCEPT ![q] = VideoAt("idle")]
        /\ compressor' = Signalled(compressor)
        /\ UNCHANGED slotVars
    BY <1>3 DEF signalNewData, signalBufferFull
  <2>2. PoolHoldsIds'
    <3>1. hook[q].at = "signal" => hook[q].id \in Ids
      BY DEF OwnershipInv, SignalHasId
    <3>2. QED
      BY <1>3, <3>1 DEF signalNewData, signalBufferFull, poolVars, OwnershipInv, PoolHoldsIds
  <2>3. compressor' = compressor \/ compressor'.at = "woken"
    BY <2>1, AtPlaces DEF Signalled
  <2>4. CompressorOwnsReadable' /\ NoTornFrame'
    BY <2>1, <2>3 DEF OwnershipInv, CompressorOwnsReadable, NoTornFrame,
       Processing, slotVars
  <2>5. HookOwnsWritable' /\ SignalHasId' /\ ReadableIsWhole'
    BY <2>1, AtPlaces DEF OwnershipInv, HookOwnsWritable, SignalHasId,
       ReadableIsWhole, slotVars
  <2>6. QED
    BY <2>1, <2>2, <2>4, <2>5 DEF OwnershipInv, slotVars
<1>4. CASE getVideoShare(q) \/ setUpSlaveIp(q) \/ start_threads(q)
  <2>1. \E place \in {"connecting", "starting", "idle"} :
          hook' = [hook EXCEPT ![q] = VideoAt(place)]
    BY <1>4 DEF getVideoShare, setUpSlaveIp, start_threads
  <2>2. /\ UNCHANGED <<slotVars, index_pool>>
        /\ compressor' = compressor \/ compressor'.at = "top"
    BY <1>4, AtPlaces DEF getVideoShare, setUpSlaveIp, start_threads, poolVars
  <2>3. HookOwnsWritable' /\ SignalHasId' /\ DOMAIN hook' = Hooks
    BY <2>1, <2>2, AtPlaces DEF OwnershipInv, HookOwnsWritable, SignalHasId, slotVars
  <2>4. CompressorOwnsReadable' /\ NoTornFrame'
    BY <2>2 DEF OwnershipInv, CompressorOwnsReadable, NoTornFrame, Processing, slotVars
  <2>5. QED
    BY <2>2, <2>3, <2>4 DEF OwnershipInv, PoolHoldsIds, ReadableIsWhole, slotVars
<1>5. QED BY <1>1, <1>2, <1>3, <1>4 DEF HookStep

(* The compressor: it gives back only the slot it processes, which is      *)
(* can_read and so nobody's that is copying.                               *)
LEMMA CompressorKeepsOwnership ==
  ASSUME OwnershipInv, CompressorStep
  PROVE  OwnershipInv'
<1>0. UNCHANGED <<mBuffer, captured, hook>>
  BY DEF CompressorStep, compressorTop, compressorTurn, compressToJPEG, compressorRoom,
     compressorPayload, signalDataTransmitor, Compress
<1>1. CASE compressorTop
  <2>1. compressor'.at \notin Processing /\ UNCHANGED <<mMemoryStates, index_pool>>
    BY <1>1, AtPlaces DEF compressorTop, Compress, Processing
  <2>2. QED
    BY <1>0, <2>1 DEF OwnershipInv, PoolHoldsIds, HookOwnsWritable, SignalHasId,
       CompressorOwnsReadable, ReadableIsWhole, NoTornFrame, Processing
<1>2. CASE compressorTurn
  <2>1. UNCHANGED mMemoryStates
    BY <1>2 DEF compressorTurn
  <2>2. CASE index_pool' = index_pool /\ compressor'.at \notin Processing
    BY <1>0, <2>1, <2>2 DEF OwnershipInv, PoolHoldsIds, HookOwnsWritable, SignalHasId,
       CompressorOwnsReadable, ReadableIsWhole, NoTornFrame, Processing
  <2>3. CASE /\ index_pool # << >> /\ index_pool' = Tail(index_pool)
             /\ compressor' = IF mMemoryStates[Head(index_pool)] = "can_read"
                  THEN [at |-> "compressing", id |-> Head(index_pool),
                        frame |-> mBuffer[Head(index_pool)]]
                  ELSE VideoAt("turn")
    <3>1. Head(index_pool) \in Ids /\ index_pool' \in Seq(Ids)
      BY <2>3 DEF OwnershipInv, PoolHoldsIds
    <3>2. CompressorOwnsReadable' /\ NoTornFrame'
      BY <1>0, <2>1, <2>3, <3>1, AtPlaces DEF CompressorOwnsReadable, NoTornFrame,
         OwnershipInv, ReadableIsWhole, Processing
    <3>3. QED
      BY <1>0, <2>1, <3>1, <3>2 DEF OwnershipInv, PoolHoldsIds, HookOwnsWritable,
         SignalHasId, ReadableIsWhole
  <2>4. QED
    BY <1>2, <2>2, <2>3, AtPlaces DEF compressorTurn, Compress, Processing
<1>3. CASE compressToJPEG \/ signalDataTransmitor \/ compressorRoom \/ compressorPayload
  <2>1. compressor.at \in Processing /\ {"at", "id"} \subseteq DOMAIN compressor
    BY <1>3 DEF compressToJPEG, signalDataTransmitor, compressorRoom, compressorPayload,
       Processing, OwnershipInv, CompressorOwnsReadable
  <2>2. \A place : /\ [compressor EXCEPT !.at = place].at = place
                   /\ [compressor EXCEPT !.at = place].id = compressor.id
                   /\ DOMAIN [compressor EXCEPT !.at = place] = DOMAIN compressor
    BY <2>1
  <2> DEFINE
        Keeps(c) == /\ c.at \in Processing \ {"compressing"} /\ c.id = compressor.id
                    /\ {"at", "id"} \subseteq DOMAIN c
  <2>3. /\ UNCHANGED index_pool
        /\ \/ /\ UNCHANGED mMemoryStates
              /\ Keeps(compressor') \/ compressor'.at \notin Processing
           \/ /\ mMemoryStates' = [mMemoryStates EXCEPT ![compressor.id] = "can_write"]
              /\ compressor'.at \notin Processing
    <3>1. CASE compressToJPEG
      BY <3>1, AtPlaces DEF compressToJPEG, Compress, Processing
    <3>2. CASE signalDataTransmitor
      <4>1. CASE compressor.at = "nudge"
        <5>1. compressor' = [compressor EXCEPT !.at = "room"] /\ UNCHANGED mMemoryStates
          BY <3>2, <4>1 DEF signalDataTransmitor, Compress
        <5>2. Keeps(compressor')
          BY <2>1, <2>2, <5>1 DEF Processing
        <5>3. QED BY <3>2, <5>1, <5>2 DEF signalDataTransmitor
      <4>2. CASE compressor.at # "nudge"
        BY <3>2, <4>2, AtPlaces DEF signalDataTransmitor, Compress, Processing
      <4>3. QED BY <4>1, <4>2
    <3>3. CASE compressorRoom
      <4>1. \E place \in {"nudge", "payload"} :
              compressor' = [compressor EXCEPT !.at = place] \/ compressor' = VideoAt("exited")
        BY <3>3 DEF compressorRoom, Compress
      <4>2. Keeps(compressor') \/ compressor'.at \notin Processing
        BY <2>1, <2>2, <4>1, AtPlaces DEF Processing
      <4>3. QED BY <3>3, <4>2 DEF compressorRoom
    <3>4. CASE compressorPayload
      <4>1. compressor' = [compressor EXCEPT !.at = "tell"]
        BY <3>4 DEF compressorPayload, Compress
      <4>2. Keeps(compressor')
        BY <2>1, <2>2, <4>1 DEF Processing
      <4>3. QED BY <3>4, <4>2 DEF compressorPayload
    <3>5. QED BY <1>3, <3>1, <3>2, <3>3, <3>4
  <2>4. HookOwnsWritable' /\ ReadableIsWhole'
        /\ mMemoryStates' \in [Ids -> {"can_read", "can_write"}]
    <3>1. CASE UNCHANGED mMemoryStates
      BY <1>0, <3>1 DEF OwnershipInv, HookOwnsWritable, ReadableIsWhole
    <3>2. CASE mMemoryStates' = [mMemoryStates EXCEPT ![compressor.id] = "can_write"]
      BY <1>0, <3>2 DEF OwnershipInv, HookOwnsWritable, ReadableIsWhole
    <3>3. QED BY <2>3, <3>1, <3>2
  <2>5. CompressorOwnsReadable' /\ NoTornFrame'
    BY <2>1, <2>3 DEF OwnershipInv, CompressorOwnsReadable, NoTornFrame, Processing
  <2>6. QED
    BY <1>0, <2>3, <2>4, <2>5 DEF OwnershipInv, PoolHoldsIds, SignalHasId
<1>4. QED BY <1>1, <1>2, <1>3 DEF CompressorStep

(* The other actions touch no slot.                                        *)
LEMMA OthersKeepOwnership ==
  ASSUME OwnershipInv, TransmitterStep \/ resetSendFlag
  PROVE  OwnershipInv'
<1>1. UNCHANGED <<slotVars, hook>>
  BY DEF TransmitterStep, transmitterTop, transmitterDrain, transmitterPayload, sendData,
     Transmit, resetSendFlag, stop_threads, ResetStep
<1>2. compressor' = compressor \/ compressor'.at = "woken"
  BY AtPlaces DEF TransmitterStep, transmitterTop, transmitterDrain, transmitterPayload,
     sendData, Transmit, resetSendFlag, stop_threads, Signalled
<1>3. index_pool' = index_pool \/ index_pool' = Append(index_pool, 0)
  BY DEF TransmitterStep, transmitterTop, transmitterDrain, transmitterPayload, sendData,
     Transmit, resetSendFlag, stop_threads, ResetIndex, poolVars
<1>4. PoolHoldsIds'
  BY <1>3, Arithmetic DEF OwnershipInv, PoolHoldsIds
<1>5. CompressorOwnsReadable' /\ NoTornFrame'
  BY <1>1, <1>2 DEF OwnershipInv, CompressorOwnsReadable, NoTornFrame, Processing, slotVars
<1>6. QED
  BY <1>1, <1>4, <1>5 DEF OwnershipInv, HookOwnsWritable, SignalHasId, ReadableIsWhole, slotVars

(* With one hook, the compressor never reads a frame that is being         *)
(* written, although the state of a slot is read and written without a     *)
(* lock (BufferQueueProducer.cpp:703-733, VideoShare.cpp:374-415).         *)
THEOREM FramesAreWhole ==
  ASSUME OneHook
  PROVE  VideoSpec => []NoTornFrame
<1>1. VideoInit => OwnershipInv
  BY Arithmetic, AtPlaces, VideoAssumption DEF VideoInit, OwnershipInv, PoolHoldsIds, HookOwnsWritable,
     SignalHasId, CompressorOwnsReadable, ReadableIsWhole, NoTornFrame, Processing, Frames, Ids
<1>2. OwnershipInv /\ [VideoNext]_videoVars => OwnershipInv'
  <2>1. CASE VideoNext
    BY <2>1, HookKeepsOwnership, CompressorKeepsOwnership, OthersKeepOwnership DEF VideoNext
  <2>2. CASE UNCHANGED videoVars
    BY <2>2 DEF videoVars, slotVars, poolVars, OwnershipInv, PoolHoldsIds, HookOwnsWritable,
       SignalHasId, CompressorOwnsReadable, ReadableIsWhole, NoTornFrame
  <2>3. QED BY <2>1, <2>2
<1>3. OwnershipInv => NoTornFrame
  BY DEF OwnershipInv
<1>4. QED BY <1>1, <1>2, <1>3, PTL DEF VideoSpec

-----------------------------------------------------------------------------
(***************************************************************************)
(* What is captured arrives, whole and in order.                           *)
(*                                                                         *)
(* A frame goes through the pool of indices, the hands of the compressor,  *)
(* the ring and the hands of the transmitter.  ShareInv says of each of    *)
(* these stations what it may hold.                                        *)
(***************************************************************************)

(* The frame a thread has in its hands.                                    *)
Written == {"room", "nudge", "payload", "tell"}
CompressorShape ==
  /\ compressor.at \in Processing =>
       {"at", "id", "frame"} \subseteq DOMAIN compressor /\ compressor.frame \in Frames
  /\ compressor.at \in Written =>
       /\ "size" \in DOMAIN compressor
       /\ compressor.size \in FrameSizes /\ compressor.size > 0

Transmitting == {"payload", "sending"}
TransmitterShape ==
  transmitter.at \in Transmitting =>
    /\ DOMAIN transmitter = {"at", "frame", "size"}
    /\ transmitter.frame \in Nat /\ transmitter.size \in Nat

(* Once the compressor was asked to stop, even in vain, less is promised.  *)
Asked == exitPending.compressor \/ exitLost

(* Unless it was in vain, what is reset is reset after the compressor was  *)
(* asked to stop and has let go of its lock; the planes have the size of a *)
(* frame.                                                                  *)
StopInv ==
  /\ exitPending \in [compressor: BOOLEAN, transmitter: BOOLEAN]
  /\ ~exitLost =>
       /\ Asked <=> reset # "none"
       /\ Asked => compressor.at # "off"
       /\ compressor.at \in Processing =>
            mYUV /\ reset \in {"none", "compressor", "transmitter"}
       /\ ~Asked /\ index_pool # << >> => mYUV
       /\ planes \in {"null", "frame"}
       /\ compressor.at = "compressing" => planes = "frame"

(* The threads run only after a connect.                                   *)
OffInv ==
  \A q \in Hooks :
    /\ hook[q].at \in {"new", "connecting"} =>
         compressor.at = "off" /\ transmitter.at = "off"
    /\ hook[q].at = "starting" => transmitter.at = "off"

(* Until then a slot that can be read is in one place: signalled, pooled   *)
(* or in the compressor's hands.                                           *)
InHand == IF compressor.at \in Processing THEN {compressor.id} ELSE {}
Signalling == {hook[q].id : q \in {r \in Hooks : hook[r].at = "signal"}}
Pooled == {index_pool[k] : k \in 1 .. Len(index_pool)}
PlacesInv ==
  ~Asked =>
    /\ \A k, l \in 1 .. Len(index_pool) : index_pool[k] = index_pool[l] => k = l
    /\ InHand \intersect Pooled = {}
    /\ Signalling \intersect (InHand \union Pooled) = {}
    /\ \A i \in Ids : mMemoryStates[i] = "can_read" <=>
                        i \in InHand \union Pooled \union Signalling

(* Whatever was asked in vain, a slot that can be read is in some place    *)
(* until the compressor is asked again, or for the first time.             *)
Heeds == ~exitPending.compressor \/ compressor.at = "off"
PendingInv ==
  Heeds => \A i \in Ids : mMemoryStates[i] = "can_read" =>
                            i \in InHand \union Pooled \union Signalling

(* The bytes in the ring are the rest of the frame being read, and the     *)
(* frames with a header, but for what is still to be written of the last.  *)
(* ends has the number of bytes up to the end of each.                     *)
Writing == IF compressor.at = "payload" THEN compressor.size ELSE 0
Reading == IF transmitter.at = "payload" THEN transmitter.size ELSE 0

AreEnds(ends, ring) ==
  /\ ends \in [0 .. Len(ring) -> Nat]
  /\ ends[0] = 0
  /\ \A k \in 1 .. Len(ring) : ends[k] = ends[k - 1] + Header + ring[k].size
  /\ \A k, l \in 0 .. Len(ring) : k <= l => ends[k] <= ends[l]

BytesInv ==
  /\ mSendBuffer \in Seq(Frame) /\ used \in Nat
  /\ Writing # 0 =>
       mSendBuffer # << >> /\ mSendBuffer[Len(mSendBuffer)].size = Writing
  /\ used + Writing <= bufsize
  /\ \E ends : /\ AreEnds(ends, mSendBuffer)
               /\ used + Writing = Reading + ends[Len(mSendBuffer)]

(* The frames at each station, as numbers.                                 *)
InTransmitter == IF transmitter.at \in Transmitting THEN {transmitter.frame} ELSE {}
InRing == {mSendBuffer[k].frame : k \in 1 .. Len(mSendBuffer)}
InCompressor == IF compressor.at \in Processing THEN {compressor.frame} ELSE {}
InPool == IF Asked THEN {} ELSE {mBuffer[i] : i \in Pooled}
AtHook == {hook[q].frame : q \in {r \in Hooks : hook[r].at = "copying"}}
            \union {mBuffer[i] : i \in Signalling}

Within(low, some, high) == \A f \in some : low <= f /\ f <= high

(* Between two stations there is a number that the frames at the one do    *)
(* not exceed and those at the other do not fall below.                    *)
IsBetween(t, r, c, p) ==
  /\ sent <= t /\ t <= r /\ r <= c /\ c <= p /\ p <= captured
  /\ Within(sent, InTransmitter, t) /\ Within(t, InRing, r)
  /\ Within(r, InCompressor, c) /\ Within(c, InPool, p) /\ Within(p, AtHook, captured)

RingInOrder ==
  \A k, l \in 1 .. Len(mSendBuffer) :
    k <= l => mSendBuffer[k].frame <= mSendBuffer[l].frame
PoolInOrder ==
  ~Asked => \A k, l \in 1 .. Len(index_pool) :
              k <= l => mBuffer[index_pool[k]] <= mBuffer[index_pool[l]]

InSequence ==
  /\ sent \in Nat
  /\ RingInOrder /\ PoolInOrder
  /\ \E t, r, c, p \in Nat : IsBetween(t, r, c, p)
SequenceInv == ~exitLost => InSequence

(* The inductive invariant of the pipeline.                                *)
ShareInv ==
  /\ OwnershipInv
  /\ CompressorShape /\ TransmitterShape
  /\ StopInv
  /\ PlacesInv
  /\ BytesInv
  /\ SequenceInv

(* What does not touch a station leaves it as it was.                      *)
LEMMA PlacesKept ==
  ASSUME PlacesInv, ~Asked' => ~Asked,
         \/ Asked'
         \/ /\ UNCHANGED <<mMemoryStates, index_pool>>
            /\ InHand' = InHand /\ Signalling' = Signalling
  PROVE  PlacesInv'
<1>1. CASE Asked'
  BY <1>1 DEF PlacesInv
<1>2. CASE ~Asked'
  <2>1. Pooled' = Pooled
    BY <1>2 DEF Pooled
  <2> QED BY <1>2, <2>1 DEF PlacesInv
<1> QED BY <1>1, <1>2

LEMMA BytesKept ==
  ASSUME BytesInv, UNCHANGED <<mSendBuffer, used>>, Writing' = Writing, Reading' = Reading
  PROVE  BytesInv'
  BY DEF BytesInv

LEMMA SequenceKept ==
  ASSUME SequenceInv, OwnershipInv, UNCHANGED <<sent, mSendBuffer>>,
         captured' \in Nat, captured <= captured',
         InTransmitter' \subseteq InTransmitter, InCompressor' \subseteq InCompressor,
         AtHook' \subseteq AtHook, ~Asked' => ~Asked,
         Asked' \/ (index_pool' = index_pool /\ \A i \in Pooled : mBuffer'[i] = mBuffer[i]),
         AtHook \subseteq Nat, ~exitLost' => ~exitLost
  PROVE  SequenceInv'
<1>0. SUFFICES ASSUME InSequence PROVE InSequence'
  BY DEF SequenceInv
<1>1. PICK t, r, c, p \in Nat : IsBetween(t, r, c, p)
  BY <1>0 DEF InSequence
<1>2. InRing' = InRing /\ RingInOrder'
  BY <1>0 DEF InRing, InSequence, RingInOrder
<1>3. InPool' \subseteq InPool
  BY DEF InPool, Pooled
<1>4. PoolInOrder'
  BY <1>0 DEF InSequence, PoolInOrder, Pooled
<1>5. captured \in Nat
  BY DEF OwnershipInv, Frames
<1>6. IsBetween(t, r, c, p)'
  <2>1. /\ sent' <= t /\ t <= r /\ r <= c /\ c <= p /\ p <= captured'
    BY <1>1, <1>5 DEF IsBetween
  <2>2. /\ Within(sent, InTransmitter, t)' /\ Within(t, InRing, r)'
        /\ Within(r, InCompressor, c)' /\ Within(c, InPool, p)'
    BY <1>1, <1>2, <1>3 DEF IsBetween, Within
  <2>3. Within(p, AtHook, captured)'
    BY <1>1, <1>5 DEF IsBetween, Within
  <2> QED BY <2>1, <2>2, <2>3 DEF IsBetween
<1>7. \E u, v, w, x \in Nat : IsBetween(u, v, w, x)'
  BY <1>1, <1>6
<1> QED BY <1>0, <1>2, <1>4, <1>7 DEF InSequence

(* Frame numbers at the hook and in slots.                                 *)
LEMMA FrameNumbers ==
  ASSUME OwnershipInv
  PROVE  /\ Frames \subseteq Nat /\ captured \in Nat
         /\ \A i \in Ids : mBuffer[i] \in Nat
         /\ Signalling \subseteq Ids /\ Pooled \subseteq Ids
         /\ AtHook \subseteq Nat
<1>1. Frames \subseteq Nat /\ captured \in Nat /\ \A i \in Ids : mBuffer[i] \in Nat
  BY VideoAssumption DEF OwnershipInv, Frames
<1>2. Signalling \subseteq Ids
  BY DEF Signalling, OwnershipInv, SignalHasId
<1>3. Pooled \subseteq Ids
  BY DEF Pooled, OwnershipInv, PoolHoldsIds
<1>4. AtHook \subseteq Nat
  BY <1>1, <1>2 DEF AtHook, OwnershipInv, HookOwnsWritable
<1> QED BY <1>1, <1>2, <1>3, <1>4

(* While nobody has asked it to stop, what is pooled or signalled is a     *)
(* slot that can be read.                                                  *)
LEMMA WaitingAreReadable ==
  ASSUME OwnershipInv, PlacesInv, ~Asked
  PROVE  \A i \in InHand \union Pooled \union Signalling : mMemoryStates[i] = "can_read"
<1>1. InHand \subseteq Ids
  BY DEF InHand, OwnershipInv, CompressorOwnsReadable
<1> QED BY <1>1, FrameNumbers DEF PlacesInv

(* The compressor or the transmitter is woken, or stays.                   *)
LEMMA SignalledFacts ==
  ASSUME NEW thread
  PROVE  /\ Signalled(thread) = thread
              \/ (thread.at = "waiting" /\ Signalled(thread).at = "woken")
  BY AtPlaces DEF Signalled

(* Waking leaves the compressor's hands and the ring alone.                *)
LEMMA WokenCompressor ==
  ASSUME CompressorShape, compressor' \in {compressor, Signalled(compressor)}
  PROVE  /\ CompressorShape'
         /\ InHand' = InHand /\ InCompressor' = InCompressor /\ Writing' = Writing
         /\ compressor'.at \in Processing => compressor.at \in Processing
<1>1. CASE compressor' = compressor
  BY <1>1 DEF CompressorShape, InHand, InCompressor, Writing
<1>2. CASE compressor.at = "waiting" /\ compressor'.at = "woken"
  BY <1>2 DEF CompressorShape, InHand, InCompressor, Writing, Processing, Written
<1> QED BY <1>1, <1>2, SignalledFacts

LEMMA WokenTransmitter ==
  ASSUME TransmitterShape, transmitter' \in {transmitter, Signalled(transmitter)}
  PROVE  TransmitterShape' /\ InTransmitter' = InTransmitter /\ Reading' = Reading
<1>1. CASE transmitter' = transmitter
  BY <1>1 DEF TransmitterShape, InTransmitter, Reading
<1>2. CASE transmitter.at = "waiting" /\ transmitter'.at = "woken"
  BY <1>2 DEF TransmitterShape, InTransmitter, Reading, Transmitting
<1> QED BY <1>1, <1>2, SignalledFacts

(* A hook that connects has no frame yet, and starts threads that are off. *)
LEMMA ConnectKeepsShare ==
  ASSUME OneHook, ShareInv, OffInv, NEW q \in Hooks,
         getVideoShare(q) \/ setUpSlaveIp(q) \/ start_threads(q)
  PROVE  ShareInv'
<1>1. /\ hook[q].at \in {"new", "connecting", "starting"}
      /\ DOMAIN hook = Hooks /\ \A h \in Hooks : h = q
      /\ UNCHANGED <<slotVars, poolVars, ringVars, sent, resetVars>>
  BY DEF getVideoShare, setUpSlaveIp, start_threads, ShareInv, OwnershipInv, OneHook
<1>2. OwnershipInv'
  BY HookKeepsOwnership DEF ShareInv, HookStep
<1>3. /\ compressor' = compressor \/ (compressor.at = "off" /\ compressor'.at = "top")
      /\ transmitter' = transmitter \/ (transmitter.at = "off" /\ transmitter'.at = "top")
  BY AtPlaces DEF getVideoShare, setUpSlaveIp, start_threads, OffInv
<1>4. CompressorShape' /\ TransmitterShape'
  BY <1>3 DEF ShareInv, CompressorShape, TransmitterShape, Processing, Written, Transmitting
<1>5. /\ InHand' = InHand /\ InCompressor' = InCompressor /\ Writing' = Writing
      /\ InTransmitter' = InTransmitter /\ Reading' = Reading /\ Pooled' = Pooled
  BY <1>1, <1>3 DEF InHand, InCompressor, Writing, InTransmitter, Reading,
              Pooled, Processing, Transmitting, poolVars
<1>6. Signalling' = {} /\ AtHook' = {} /\ Signalling = {} /\ AtHook = {}
  <2>1. \E place \in {"connecting", "starting", "idle"} :
          hook' = [hook EXCEPT ![q] = VideoAt(place)]
    BY DEF getVideoShare, setUpSlaveIp, start_threads
  <2>2. hook'[q].at \notin {"copying", "signal"}
    BY <1>1, <2>1, AtPlaces
  <2> QED BY <1>1, <2>2 DEF Signalling, AtHook
<1>7. /\ exitPending' \in [compressor: BOOLEAN, transmitter: BOOLEAN] /\ exitLost' = exitLost
      /\ exitLost \/ exitPending'.compressor = exitPending.compressor
      /\ exitLost \/ Asked' = Asked
      /\ ~Asked' => ~Asked
  <2>1. exitPending \in [compressor: BOOLEAN, transmitter: BOOLEAN] /\ exitLost' = exitLost
    BY <1>1 DEF ShareInv, StopInv, resetVars
  <2>2. CASE exitPending' = exitPending
    BY <2>1, <2>2 DEF Asked
  <2>3. CASE exitPending' = [exitPending EXCEPT !.transmitter = FALSE]
    BY <2>1, <2>3 DEF Asked
  <2>4. CASE exitPending' = [exitPending EXCEPT !.compressor = FALSE] /\ compressor.at = "off"
    <3>1. ~exitLost => ~exitPending.compressor
      BY <2>4 DEF ShareInv, StopInv, Asked
    <3> QED BY <2>1, <2>4, <3>1 DEF Asked
  <2> QED BY <2>2, <2>3, <2>4 DEF getVideoShare, setUpSlaveIp, start_threads, OffInv
<1>8. StopInv'
  BY <1>1, <1>3, <1>7 DEF ShareInv, StopInv, Processing, poolVars, resetVars
<1>9. PlacesInv'
  BY <1>1, <1>5, <1>6, <1>7, PlacesKept DEF ShareInv, slotVars, poolVars
<1>10. BytesInv'
  BY <1>1, <1>5, BytesKept DEF ShareInv, ringVars
<1>11. SequenceInv'
  BY <1>1, <1>5, <1>6, <1>7, SequenceKept, FrameNumbers DEF ShareInv, slotVars, poolVars, ringVars
<1> QED BY <1>2, <1>4, <1>8, <1>9, <1>10, <1>11 DEF ShareInv

(* getCanWriteID finds a slot that nobody has, or none.                    *)
LEMMA GetKeepsShare ==
  ASSUME OneHook, ShareInv, NEW q \in Hooks, getCanWriteID(q)
  PROVE  ShareInv'
<1>1. /\ hook[q].at = "idle" /\ DOMAIN hook = Hooks /\ \A h \in Hooks : h = q
      /\ UNCHANGED <<mMemoryStates, mSocketFd, poolVars, compressor, transmitter,
                     exitPending, ringVars, sent, resetVars>>
  BY DEF getCanWriteID, ShareInv, OwnershipInv, OneHook
<1>2. OwnershipInv'
  BY HookKeepsOwnership DEF ShareInv, HookStep
<1>3. /\ CompressorShape' /\ TransmitterShape' /\ StopInv'
      /\ InHand' = InHand /\ InCompressor' = InCompressor /\ Writing' = Writing
      /\ InTransmitter' = InTransmitter /\ Reading' = Reading /\ Pooled' = Pooled
  BY <1>1 DEF resetVars, ShareInv, CompressorShape, TransmitterShape, StopInv, Asked, InHand,
     InCompressor, Writing, InTransmitter, Reading, Pooled, poolVars
<1>4. BytesInv'
  BY <1>1, <1>3, BytesKept DEF ShareInv, ringVars
<1>5. Signalling = {} /\ AtHook = {}
  BY <1>1 DEF Signalling, AtHook
<1>6. CASE Writable = {}
  <2>1. hook' = [hook EXCEPT ![q] = VideoAt("full")] /\ UNCHANGED <<mBuffer, captured>>
    BY <1>6 DEF getCanWriteID
  <2>2. Signalling' = {} /\ AtHook' = {}
    BY <1>1, <2>1, AtPlaces DEF Signalling, AtHook
  <2>3. PlacesInv'
    BY <1>1, <1>3, <1>5, <2>2, PlacesKept DEF resetVars, ShareInv, poolVars, Asked
  <2>4. SequenceInv'
    BY <1>1, <1>3, <1>5, <2>1, <2>2, SequenceKept, FrameNumbers
    DEF resetVars, ShareInv, poolVars, ringVars, Asked
  <2> QED BY <1>2, <1>3, <1>4, <2>3, <2>4 DEF ShareInv
<1>7. CASE Writable # {}
  <2>1. PICK i \in Writable :
          /\ mBuffer' = [mBuffer EXCEPT ![i] = 0]
          /\ captured' = IF captured < MaxFrames THEN captured + 1 ELSE captured
          /\ hook' = [hook EXCEPT ![q] = [at |-> "copying", id |-> i, frame |-> captured']]
    BY <1>7 DEF getCanWriteID
  <2>2. i \in Ids /\ mMemoryStates[i] = "can_write"
    BY DEF Writable
  <2>3. captured \in Nat /\ captured' \in Nat /\ captured <= captured'
    BY <2>1, FrameNumbers DEF ShareInv
  <2>4. Signalling' = {} /\ AtHook' = {captured'}
    <3>1. hook'[q] = [at |-> "copying", id |-> i, frame |-> captured']
      BY <1>1, <2>1
    <3> QED BY <1>1, <3>1 DEF Signalling, AtHook
  <2>5. PlacesInv'
    BY <1>1, <1>3, <1>5, <2>4, PlacesKept DEF resetVars, ShareInv, poolVars, Asked
  <2>6. ~Asked => \A j \in Pooled : mBuffer'[j] = mBuffer[j]
    BY <2>1, <2>2, WaitingAreReadable DEF ShareInv, OwnershipInv
  <2>7. SequenceInv'
    <3>0. SUFFICES ASSUME InSequence PROVE InSequence'
      BY <1>1 DEF resetVars, ShareInv, SequenceInv
    <3>1. PICK t, r, c, p \in Nat : IsBetween(t, r, c, p)
      BY <3>0 DEF InSequence
    <3>2. InRing' = InRing /\ RingInOrder' /\ sent' \in Nat
      BY <1>1, <3>0 DEF InSequence, InRing, RingInOrder, ringVars
    <3>3. InPool' \subseteq InPool /\ PoolInOrder'
      <4>1. index_pool' = index_pool /\ Asked' = Asked /\ Pooled' = Pooled
        BY <1>1, <1>3 DEF resetVars, poolVars, Asked
      <4>2. InPool' \subseteq InPool
        BY <2>6, <4>1 DEF InPool
      <4>3. ~Asked => \A k \in 1 .. Len(index_pool) :
                        mBuffer'[index_pool[k]] = mBuffer[index_pool[k]]
        BY <2>6 DEF Pooled
      <4>4. PoolInOrder
        BY <3>0 DEF InSequence
      <4> QED BY <4>1, <4>2, <4>3, <4>4 DEF PoolInOrder
    <3>4. IsBetween(t, r, c, p)'
      BY <1>1, <1>3, <2>3, <2>4, <3>1, <3>2, <3>3 DEF IsBetween, Within
    <3>5. \E u, v, w, x \in Nat : IsBetween(u, v, w, x)'
      BY <3>1, <3>4
    <3> QED BY <3>2, <3>3, <3>5 DEF InSequence
  <2> QED BY <1>2, <1>3, <1>4, <2>5, <2>7 DEF ShareInv
<1> QED BY <1>6, <1>7

(* publish makes it the one that is signalled.                             *)
LEMMA PublishKeepsShare ==
  ASSUME OneHook, ShareInv, NEW q \in Hooks, publish(q)
  PROVE  ShareInv'
<1> DEFINE i == hook[q].id
<1>1. /\ hook[q].at = "copying" /\ DOMAIN hook = Hooks /\ \A h \in Hooks : h = q
      /\ i \in Ids /\ mMemoryStates[i] = "can_write" /\ hook[q].frame \in Nat
      /\ mBuffer' = [mBuffer EXCEPT ![i] = hook[q].frame]
      /\ mMemoryStates' = [mMemoryStates EXCEPT ![i] = "can_read"]
      /\ hook' = [hook EXCEPT ![q] = [at |-> "signal", id |-> i]]
      /\ UNCHANGED <<captured, mSocketFd, poolVars, compressor, transmitter,
                     exitPending, ringVars, sent, resetVars>>
  BY FrameNumbers DEF publish, ShareInv, OwnershipInv, HookOwnsWritable, OneHook
<1>2. OwnershipInv'
  BY HookKeepsOwnership DEF ShareInv, HookStep
<1>3. /\ CompressorShape' /\ TransmitterShape' /\ StopInv'
      /\ InHand' = InHand /\ InCompressor' = InCompressor /\ Writing' = Writing
      /\ InTransmitter' = InTransmitter /\ Reading' = Reading /\ Pooled' = Pooled
      /\ Asked' = Asked
  BY <1>1 DEF resetVars, ShareInv, CompressorShape, TransmitterShape, StopInv, Asked, InHand,
     InCompressor, Writing, InTransmitter, Reading, Pooled, poolVars
<1>4. BytesInv'
  BY <1>1, <1>3, BytesKept DEF ShareInv, ringVars
<1>5. Signalling = {} /\ AtHook = {hook[q].frame}
  BY <1>1 DEF Signalling, AtHook
<1> HIDE DEF i
<1>6. /\ mBuffer \in [Ids -> Frames] /\ mMemoryStates \in [Ids -> {"can_read", "can_write"}]
  BY DEF ShareInv, OwnershipInv
<1>7. Signalling' = {i} /\ AtHook' = {hook[q].frame}
  <2>1. hook'[q] = [at |-> "signal", id |-> i] /\ mBuffer'[i] = hook[q].frame
    BY <1>1, <1>6
  <2> QED BY <1>1, <2>1 DEF Signalling, AtHook
<1>8. ~Asked => i \notin InHand \union Pooled
  BY <1>1, WaitingAreReadable DEF ShareInv
<1>9. PlacesInv'
  BY <1>1, <1>3, <1>5, <1>6, <1>7, <1>8 DEF resetVars, ShareInv, PlacesInv, poolVars
<1>10. SequenceInv'
  BY <1>1, <1>3, <1>5, <1>6, <1>7, <1>8, SequenceKept, FrameNumbers
  DEF resetVars, ShareInv, poolVars, ringVars
<1> QED BY <1>2, <1>3, <1>4, <1>9, <1>10 DEF ShareInv

(* signalNewData puts it into the pool, behind the others.                 *)
LEMMA NewDataKeepsShare ==
  ASSUME OneHook, ShareInv, NEW q \in Hooks, signalNewData(q)
  PROVE  ShareInv'
<1> DEFINE i == hook[q].id
<1>1. /\ hook[q].at = "signal" /\ DOMAIN hook = Hooks /\ \A h \in Hooks : h = q
      /\ i \in Ids /\ index_pool' = Append(index_pool, i) /\ index_pool \in Seq(Ids)
      /\ mYUV' = TRUE /\ compressor' = Signalled(compressor)
      /\ hook' = [hook EXCEPT ![q] = VideoAt("idle")]
      /\ UNCHANGED <<slotVars, mSocketFd, planes, transmitter, exitPending, ringVars, sent,
                     resetVars>>
  BY DEF signalNewData, ShareInv, OwnershipInv, SignalHasId, OneHook, PoolHoldsIds
<1>2. OwnershipInv'
  BY HookKeepsOwnership DEF ShareInv, HookStep
<1>3. /\ CompressorShape' /\ InHand' = InHand /\ InCompressor' = InCompressor
      /\ Writing' = Writing
      /\ compressor'.at \in Processing => compressor.at \in Processing
  BY <1>1, WokenCompressor DEF ShareInv
<1>4. TransmitterShape' /\ InTransmitter' = InTransmitter /\ Reading' = Reading /\ Asked' = Asked
  BY <1>1 DEF resetVars, ShareInv, TransmitterShape, InTransmitter, Reading, Asked
<1>5. StopInv'
  <2>1. /\ compressor'.at = "off" <=> compressor.at = "off"
        /\ compressor'.at = "compressing" => compressor.at = "compressing"
    BY <1>1, SignalledFacts
  <2> QED BY <1>1, <1>3, <1>4, <2>1 DEF resetVars, ShareInv, StopInv, Asked
<1>6. BytesInv'
  BY <1>1, <1>3, <1>4, BytesKept DEF ShareInv, ringVars
<1>7. Signalling = {i} /\ AtHook = {mBuffer[i]}
  BY <1>1 DEF Signalling, AtHook
<1>8. Signalling' = {} /\ AtHook' = {}
  BY <1>1, AtPlaces DEF Signalling, AtHook
<1> HIDE DEF i
<1>9. Len(index_pool) \in Nat /\ Len(index_pool') = Len(index_pool) + 1
  BY <1>1
<1>10. /\ index_pool'[Len(index_pool) + 1] = i
       /\ \A k \in 1 .. Len(index_pool) : index_pool'[k] = index_pool[k]
  BY <1>1
<1>11. Pooled' = Pooled \union {i}
  BY <1>9, <1>10 DEF Pooled
<1>12. ~Asked => i \notin InHand \union Pooled
  BY <1>7 DEF resetVars, ShareInv, PlacesInv
<1>13. PlacesInv'
  <2>1. SUFFICES ASSUME ~Asked PROVE PlacesInv'
    BY <1>4 DEF resetVars, PlacesInv
  <2>2. \A k, l \in 1 .. Len(index_pool') : index_pool'[k] = index_pool'[l] => k = l
    <3>1. \A k \in 1 .. Len(index_pool) : index_pool[k] # i
      BY <1>12, <2>1 DEF Pooled
    <3> QED BY <1>9, <1>10, <2>1, <3>1 DEF resetVars, ShareInv, PlacesInv
  <2>3. \A j \in Ids : mMemoryStates[j] = "can_read" <=> j \in InHand \union Pooled \union {i}
    BY <1>7, <2>1 DEF resetVars, ShareInv, PlacesInv
  <2>4. InHand \intersect Pooled = {}
    BY <2>1 DEF resetVars, ShareInv, PlacesInv
  <2> QED BY <1>1, <1>3, <1>8, <1>11, <1>12, <2>1, <2>2, <2>3, <2>4 DEF resetVars, PlacesInv, slotVars
<1>14. SequenceInv'
  <2>0. SUFFICES ASSUME InSequence PROVE InSequence'
    BY <1>1 DEF resetVars, ShareInv, SequenceInv
  <2>1. PICK t, r, c, p \in Nat : IsBetween(t, r, c, p)
    BY <2>0 DEF InSequence
  <2>2. InRing' = InRing /\ RingInOrder' /\ sent' \in Nat
    BY <1>1, <2>0 DEF InSequence, InRing, RingInOrder, ringVars
  <2>3. mBuffer' = mBuffer /\ captured' = captured /\ captured \in Nat /\ mBuffer[i] \in Nat
    BY <1>1, FrameNumbers DEF ShareInv, slotVars
  <2>4. p <= mBuffer[i] /\ mBuffer[i] <= captured
    BY <1>7, <2>1 DEF IsBetween, Within
  <2>5. ~Asked => \A k \in 1 .. Len(index_pool) :
                    mBuffer[index_pool[k]] \in Nat /\ mBuffer[index_pool[k]] <= p
    BY <2>1, FrameNumbers DEF IsBetween, Within, InPool, Pooled, ShareInv
  <2>6. PoolInOrder'
    <3>1. SUFFICES ASSUME ~Asked, NEW k \in 1 .. Len(index_pool'), NEW l \in 1 .. Len(index_pool'),
                          k <= l
                   PROVE  mBuffer[index_pool'[k]] <= mBuffer[index_pool'[l]]
      BY <1>4, <2>3 DEF PoolInOrder
    <3>2. CASE l \in 1 .. Len(index_pool)
      BY <1>9, <1>10, <2>0, <3>1, <3>2 DEF InSequence, PoolInOrder
    <3>3. CASE l = Len(index_pool) + 1
      BY <1>9, <1>10, <2>3, <2>4, <2>5, <3>1, <3>3
    <3> QED BY <1>9, <3>2, <3>3
  <2>7. Within(c, InPool', captured)
    <3>1. SUFFICES ASSUME ~Asked, NEW j \in Pooled \union {i}
                   PROVE  c <= mBuffer[j] /\ mBuffer[j] <= captured
      BY <1>4, <1>11, <2>3 DEF Within, InPool
    <3>2. p \in Nat /\ c <= p /\ p <= captured
      BY <2>1 DEF IsBetween
    <3>3. CASE j = i
      BY <2>3, <2>4, <3>2, <3>3
    <3>4. CASE j \in Pooled
      <4>1. mBuffer[j] \in Nat /\ c <= mBuffer[j] /\ mBuffer[j] <= p
        BY <2>1, <3>1, <3>4, FrameNumbers DEF IsBetween, Within, InPool, ShareInv
      <4> QED BY <2>3, <3>2, <4>1
    <3> QED BY <3>3, <3>4
  <2>8. IsBetween(t, r, c, captured)'
    <3>1. /\ sent' <= t /\ t <= r /\ r <= c /\ c <= captured' /\ captured' <= captured'
      BY <1>1, <2>1, <2>3 DEF IsBetween
    <3>2. /\ Within(sent, InTransmitter, t)' /\ Within(t, InRing, r)'
          /\ Within(r, InCompressor, c)' /\ Within(captured, AtHook, captured)'
      BY <1>1, <1>3, <1>4, <1>8, <2>1, <2>2 DEF IsBetween, Within
    <3>3. Within(c, InPool, captured)'
      BY <2>3, <2>7 DEF Within
    <3> QED BY <3>1, <3>2, <3>3 DEF IsBetween
  <2>9. \E u, v, w, x \in Nat : IsBetween(u, v, w, x)'
    BY <2>1, <2>3, <2>8
  <2> QED BY <2>2, <2>6, <2>9 DEF InSequence
<1> QED BY <1>2, <1>3, <1>4, <1>5, <1>6, <1>13, <1>14 DEF ShareInv

(* signalBufferFull only wakes the compressor.                             *)
LEMMA BufferFullKeepsShare ==
  ASSUME OneHook, ShareInv, NEW q \in Hooks, signalBufferFull(q)
  PROVE  ShareInv'
<1>1. /\ hook[q].at = "full" /\ DOMAIN hook = Hooks /\ \A h \in Hooks : h = q
      /\ compressor' = Signalled(compressor)
      /\ hook' = [hook EXCEPT ![q] = VideoAt("idle")]
      /\ UNCHANGED <<slotVars, mSocketFd, poolVars, transmitter, exitPending, ringVars, sent,
                     resetVars>>
  BY DEF signalBufferFull, ShareInv, OwnershipInv, OneHook
<1>2. OwnershipInv'
  BY HookKeepsOwnership DEF ShareInv, HookStep
<1>3. /\ CompressorShape' /\ InHand' = InHand /\ InCompressor' = InCompressor
      /\ Writing' = Writing
      /\ compressor'.at \in Processing => compressor.at \in Processing
  BY <1>1, WokenCompressor DEF ShareInv
<1>4. TransmitterShape' /\ InTransmitter' = InTransmitter /\ Reading' = Reading /\ Asked' = Asked
  BY <1>1 DEF resetVars, ShareInv, TransmitterShape, InTransmitter, Reading, Asked
<1>5. StopInv'
  <2>1. /\ compressor'.at = "off" <=> compressor.at = "off"
        /\ compressor'.at = "compressing" => compressor.at = "compressing"
    BY <1>1, SignalledFacts
  <2> QED BY <1>1, <1>3, <1>4, <2>1 DEF resetVars, ShareInv, StopInv, Asked, poolVars
<1>6. BytesInv'
  BY <1>1, <1>3, <1>4, BytesKept DEF ShareInv, ringVars
<1>7. Signalling = {} /\ AtHook = {} /\ Signalling' = {} /\ AtHook' = {}
  BY <1>1, AtPlaces DEF Signalling, AtHook
<1>8. PlacesInv'
  BY <1>1, <1>3, <1>4, <1>7, PlacesKept DEF ShareInv, poolVars, slotVars
<1>9. SequenceInv'
  BY <1>1, <1>3, <1>4, <1>7, SequenceKept, FrameNumbers DEF resetVars, ShareInv, poolVars, slotVars, ringVars
<1> QED BY <1>2, <1>3, <1>4, <1>5, <1>6, <1>8, <1>9 DEF ShareInv

(* What the compressor leaves alone, and so does the transmitter.          *)
LEMMA CompressLeaves ==
  ASSUME NEW next, Compress(next)
  PROVE  /\ compressor' = next
         /\ UNCHANGED <<mBuffer, captured, hook, mSocketFd, mYUV, exitPending, sent, resetVars>>
         /\ Asked' = Asked /\ Signalling' = Signalling /\ AtHook' = AtHook
  BY DEF resetVars, Compress, Asked, Signalling, AtHook

LEMMA TransmitLeaves ==
  ASSUME ShareInv, NEW next, Transmit(next)
  PROVE  /\ transmitter' = next
         /\ UNCHANGED <<slotVars, hook, mSocketFd, poolVars, compressor, exitPending, resetVars>>
         /\ Asked' = Asked /\ Signalling' = Signalling /\ AtHook' = AtHook
         /\ InHand' = InHand /\ InCompressor' = InCompressor /\ Writing' = Writing
         /\ CompressorShape' /\ PlacesInv'
         /\ (transmitter.at # "off" => StopInv')
<1>1. /\ transmitter' = next
      /\ UNCHANGED <<slotVars, hook, mSocketFd, poolVars, compressor, exitPending, resetVars>>
  BY DEF Transmit
<1>2. /\ Asked' = Asked /\ Signalling' = Signalling /\ AtHook' = AtHook
      /\ InHand' = InHand /\ InCompressor' = InCompressor /\ Writing' = Writing
      /\ CompressorShape'
  BY <1>1 DEF resetVars, Asked, Signalling, AtHook, InHand, InCompressor, Writing, CompressorShape,
     slotVars, ShareInv
<1>3. PlacesInv'
  BY <1>1, <1>2, PlacesKept DEF ShareInv, slotVars, poolVars
<1>4. transmitter.at # "off" => StopInv'
  BY <1>1, <1>2 DEF resetVars, ShareInv, StopInv, Asked, poolVars
<1> QED BY <1>1, <1>2, <1>3, <1>4

(* The compressor between two places where it has nothing in its hands.    *)
LEMMA CompressorMoves ==
  ASSUME ShareInv, NEW place, place \notin Processing \union {"off"}, compressor.at # "off",
         Compress(VideoAt(place)), UNCHANGED <<index_pool, planes, ringVars>>,
         transmitter' \in {transmitter, Signalled(transmitter)},
         CompressorStep,
         compressor.at \in Processing =>
           \/ Asked /\ UNCHANGED mMemoryStates
           \/ mMemoryStates' = [mMemoryStates EXCEPT ![compressor.id] = "can_write"],
         compressor.at \notin Processing => UNCHANGED mMemoryStates,
         compressor.at # "payload"
  PROVE  ShareInv'
<1>1. /\ compressor'.at = place
      /\ UNCHANGED <<mBuffer, captured, hook, mSocketFd, mYUV, exitPending, sent, resetVars>>
      /\ Asked' = Asked /\ Signalling' = Signalling /\ AtHook' = AtHook
  BY CompressLeaves, AtPlaces
<1>2. OwnershipInv'
  BY CompressorKeepsOwnership DEF ShareInv
<1>3. /\ CompressorShape' /\ InHand' = {} /\ InCompressor' = {} /\ Writing' = 0 /\ Writing = 0
  BY <1>1 DEF CompressorShape, InHand, InCompressor, Writing, Processing, Written
<1>4. TransmitterShape' /\ InTransmitter' = InTransmitter /\ Reading' = Reading
  BY WokenTransmitter DEF ShareInv
<1>5. StopInv'
  <2>1. place # "compressing"
    BY DEF Processing
  <2> QED BY <1>1, <2>1 DEF resetVars, ShareInv, StopInv, Asked
<1>6. BytesInv'
  BY <1>3, <1>4, BytesKept DEF ShareInv, ringVars
<1>7. Pooled' = Pooled
  BY DEF Pooled
<1>8. PlacesInv'
  <2>1. SUFFICES ASSUME ~Asked PROVE PlacesInv'
    BY <1>1 DEF resetVars, PlacesInv
  <2>2. CASE compressor.at \notin Processing
    BY <1>1, <1>3, <2>2, PlacesKept DEF ShareInv, InHand
  <2>3. CASE compressor.at \in Processing
    <3>1. mMemoryStates' = [mMemoryStates EXCEPT ![compressor.id] = "can_write"]
      BY <2>1, <2>3
    <3>2. InHand = {compressor.id} /\ compressor.id \in Ids /\ DOMAIN mMemoryStates = Ids
      BY <2>3 DEF InHand, ShareInv, OwnershipInv, CompressorOwnsReadable
    <3>3. compressor.id \notin Pooled \union Signalling
      BY <2>1, <3>2 DEF resetVars, ShareInv, PlacesInv
    <3>4. \A j \in Ids : mMemoryStates'[j] = "can_read" <=> j \in Pooled \union Signalling
      BY <2>1, <3>1, <3>2, <3>3 DEF resetVars, ShareInv, PlacesInv
    <3> QED BY <1>1, <1>3, <1>7, <2>1, <3>4 DEF resetVars, ShareInv, PlacesInv
  <2> QED BY <2>2, <2>3
<1>9. SequenceInv'
  BY <1>1, <1>3, <1>4, SequenceKept, FrameNumbers DEF resetVars, ShareInv, ringVars
<1> QED BY <1>2, <1>3, <1>4, <1>5, <1>6, <1>8, <1>9 DEF ShareInv

(* The compressor between two places with the same frame in its hands.     *)
LEMMA CompressorCarries ==
  ASSUME ShareInv, NEW next, next.at \in Written,
         {"at", "id", "frame", "size"} \subseteq DOMAIN next,
         compressor.at \in Processing, next.id = compressor.id,
         next.frame = compressor.frame, next.size \in FrameSizes, next.size > 0,
         Compress(next), CompressorStep,
         UNCHANGED <<mMemoryStates, index_pool, planes>>,
         transmitter' \in {transmitter, Signalled(transmitter)}
  PROVE  /\ OwnershipInv' /\ CompressorShape' /\ TransmitterShape' /\ StopInv' /\ PlacesInv'
         /\ InTransmitter' = InTransmitter /\ Reading' = Reading
         /\ mSendBuffer' = mSendBuffer => SequenceInv'
         /\ UNCHANGED ringVars /\ compressor.at # "payload" /\ next.at # "payload" => BytesInv'
<1>1. /\ compressor' = next
      /\ UNCHANGED <<mBuffer, captured, hook, mSocketFd, mYUV, exitPending, sent, resetVars>>
      /\ Asked' = Asked /\ Signalling' = Signalling /\ AtHook' = AtHook
  BY CompressLeaves
<1>2. OwnershipInv'
  BY CompressorKeepsOwnership DEF ShareInv
<1>3. next.at \in Processing
  BY DEF Written, Processing
<1>4. CompressorShape'
  BY <1>1 DEF CompressorShape, ShareInv
<1>5. InHand' = InHand /\ InCompressor' = InCompressor
  BY <1>1, <1>3 DEF InHand, InCompressor
<1>6. TransmitterShape' /\ InTransmitter' = InTransmitter /\ Reading' = Reading
  BY WokenTransmitter DEF ShareInv
<1>7. StopInv'
  <2>1. compressor.at # "off" /\ next.at \notin {"off", "compressing"}
    BY <1>3 DEF Processing, Written
  <2> QED BY <1>1, <2>1 DEF resetVars, ShareInv, StopInv, Asked
<1>8. PlacesInv'
  BY <1>1, <1>5, PlacesKept DEF ShareInv
<1>9. mSendBuffer' = mSendBuffer => SequenceInv'
  BY <1>1, <1>5, <1>6, SequenceKept, FrameNumbers DEF resetVars, ShareInv
<1>10. ASSUME UNCHANGED ringVars, compressor.at # "payload", next.at # "payload"
       PROVE  BytesInv'
  BY <1>1, <1>6, <1>10, BytesKept DEF ShareInv, ringVars, Writing
<1> QED BY <1>2, <1>4, <1>6, <1>7, <1>8, <1>9, <1>10

(* A place is all that changes of what the compressor has in its hands.    *)
LEMMA SameFrame ==
  ASSUME CompressorShape, compressor.at \in Written, NEW place,
         NEW next, next = [compressor EXCEPT !.at = place]
  PROVE  /\ next.at = place /\ next.id = compressor.id /\ next.frame = compressor.frame
         /\ next.size = compressor.size /\ next.size \in FrameSizes /\ next.size > 0
         /\ {"at", "id", "frame", "size"} \subseteq DOMAIN next
         /\ compressor.at \in Processing /\ compressor.frame \in Nat
<1>1. compressor.at \in Processing
  BY DEF Written, Processing
<1>2. /\ {"at", "id", "frame", "size"} \subseteq DOMAIN compressor
      /\ compressor.size \in FrameSizes /\ compressor.size > 0 /\ compressor.frame \in Nat
  BY <1>1 DEF CompressorShape, Frames
<1> QED BY <1>1, <1>2

(* Top, where the compressor waits, and the end of a turn.                 *)
LEMMA TopKeepsShare ==
  ASSUME ShareInv, compressorTop
  PROVE  ShareInv'
<1>1. /\ compressor.at \in {"top", "entering", "woken"}
      /\ \E place \in {"exited", "entering", "waiting", "turn"} : Compress(VideoAt(place))
      /\ UNCHANGED <<mMemoryStates, index_pool, planes, transmitter, ringVars>>
  BY DEF compressorTop
<1>2. PICK place \in {"exited", "entering", "waiting", "turn"} : Compress(VideoAt(place))
  BY <1>1
<1>3. place \notin Processing \union {"off"}
  BY <1>2 DEF Processing
<1>4. compressor.at \notin Processing \union {"off", "payload"}
  BY <1>1 DEF Processing
<1>5. CompressorStep
  BY DEF CompressorStep
<1> QED BY <1>1, <1>2, <1>3, <1>4, <1>5, CompressorMoves

(* A turn takes the slot at the head of the pool.  Until resetSendFlag it  *)
(* can always be read, whatever the check of its state says, and there are *)
(* planes for it.                                                          *)
LEMMA TurnKeepsShare ==
  ASSUME ShareInv, compressorTurn
  PROVE  ShareInv'
<1>0. /\ compressor.at = "turn" /\ UNCHANGED <<mMemoryStates, transmitter, ringVars>>
      /\ CompressorStep
  BY DEF compressorTurn, CompressorStep
<1>1. CASE /\ UNCHANGED <<index_pool, planes>>
           /\ \E place \in {"top", "exited"} : Compress(VideoAt(place))
  <2>1. PICK place \in {"top", "exited"} : Compress(VideoAt(place))
    BY <1>1
  <2>2. place \notin Processing \union {"off"} /\ compressor.at \notin Processing \union {"off", "payload"}
    BY <1>0, <2>1 DEF Processing
  <2> QED BY <1>0, <1>1, <2>1, <2>2, CompressorMoves
<1> DEFINE
  Takes == /\ index_pool # << >> /\ ~exitPending.compressor /\ index_pool' = Tail(index_pool)
           /\ planes' = IF planes # "null" THEN planes
                        ELSE IF mYUV THEN "frame" ELSE "empty"
           /\ Compress(IF mMemoryStates[Head(index_pool)] = "can_read"
                       THEN [at |-> "compressing", id |-> Head(index_pool),
                             frame |-> mBuffer[Head(index_pool)]]
                       ELSE VideoAt("turn"))
<1>2. CASE Takes /\ ~exitLost
  <2>0. ~Asked
    BY <1>2 DEF Asked
  <2> DEFINE i == index_pool[1]
  <2>1. /\ index_pool \in Seq(Ids) /\ Head(index_pool) = i /\ i \in Ids
        /\ Len(index_pool) \in Nat \ {0} /\ Len(index_pool') = Len(index_pool) - 1
        /\ \A k \in 1 .. Len(index_pool') : index_pool'[k] = index_pool[k + 1]
    BY <1>2 DEF ShareInv, OwnershipInv, PoolHoldsIds
  <2> HIDE DEF i
  <2>2. i \in Pooled /\ index_pool[1] = i
    BY <2>1 DEF Pooled, i
  <2>3. mMemoryStates[i] = "can_read"
    BY <2>0, <2>2, WaitingAreReadable DEF ShareInv
  <2>4. Compress([at |-> "compressing", id |-> i, frame |-> mBuffer[i]])
    BY <1>2, <2>1, <2>3
  <2>5. /\ compressor' = [at |-> "compressing", id |-> i, frame |-> mBuffer[i]]
        /\ UNCHANGED <<mBuffer, captured, hook, mSocketFd, mYUV, exitPending, sent, resetVars>>
        /\ Asked' = Asked /\ Signalling' = Signalling /\ AtHook' = AtHook
    BY <2>4, CompressLeaves
  <2>6. OwnershipInv'
    BY <1>0, CompressorKeepsOwnership DEF ShareInv
  <2>7. /\ mBuffer[i] \in Frames /\ mBuffer[i] \in Nat /\ captured \in Nat
        /\ \A j \in Pooled : mBuffer[j] \in Nat
    BY <2>1, FrameNumbers DEF ShareInv, OwnershipInv
  <2>8. /\ CompressorShape' /\ InHand' = {i} /\ InCompressor' = {mBuffer[i]}
        /\ Writing' = 0 /\ Writing = 0 /\ InHand = {}
    BY <1>0, <2>5, <2>7 DEF CompressorShape, InHand, InCompressor, Writing, Processing, Written
  <2>9. TransmitterShape' /\ InTransmitter' = InTransmitter /\ Reading' = Reading
    BY <1>0 DEF ShareInv, TransmitterShape, InTransmitter, Reading
  <2>10. StopInv'
    <3>1. /\ reset = "none" /\ mYUV /\ planes' = "frame" /\ ~exitPending.compressor
          /\ exitPending \in [compressor: BOOLEAN, transmitter: BOOLEAN]
      BY <1>2, <2>0 DEF ShareInv, StopInv
    <3> QED BY <2>0, <2>5, <3>1 DEF resetVars, StopInv
  <2>11. BytesInv'
    BY <1>0, <2>8, <2>9, BytesKept DEF ShareInv, ringVars
  <2>12. \A k, l \in 1 .. Len(index_pool) : index_pool[k] = index_pool[l] => k = l
    BY <2>0 DEF resetVars, ShareInv, PlacesInv
  <2>13. Pooled' = Pooled \ {i}
    <3>1. ASSUME NEW j \in Pooled' PROVE j \in Pooled \ {i}
      <4>1. PICK k \in 1 .. Len(index_pool') : j = index_pool'[k]
        BY <3>1 DEF Pooled
      <4>2. j = index_pool[k + 1] /\ k + 1 \in 1 .. Len(index_pool) /\ k + 1 # 1
        BY <2>1, <4>1
      <4>3. j # index_pool[1]
        BY <2>1, <2>12, <4>2
      <4> QED BY <2>2, <4>2, <4>3 DEF Pooled
    <3>2. ASSUME NEW j \in Pooled, j # i PROVE j \in Pooled'
      <4>1. PICK k \in 1 .. Len(index_pool) : j = index_pool[k]
        BY <3>2 DEF Pooled
      <4>2. k - 1 \in 1 .. Len(index_pool') /\ (k - 1) + 1 = k
        BY <2>1, <2>2, <3>2, <4>1
      <4>3. j = index_pool'[k - 1]
        BY <2>1, <4>1, <4>2
      <4> QED BY <4>2, <4>3 DEF Pooled
    <3> QED BY <3>1, <3>2
  <2>14. PlacesInv'
    <3>1. \A k, l \in 1 .. Len(index_pool') : index_pool'[k] = index_pool'[l] => k = l
      <4>1. TAKE k, l \in 1 .. Len(index_pool')
      <4>2. k + 1 \in 1 .. Len(index_pool) /\ l + 1 \in 1 .. Len(index_pool)
        BY <2>1
      <4> QED BY <2>1, <2>12, <4>2
    <3>2. /\ Signalling \intersect Pooled = {}
          /\ \A j \in Ids : mMemoryStates[j] = "can_read" <=> j \in Pooled \union Signalling
      BY <2>0, <2>8 DEF resetVars, ShareInv, PlacesInv
    <3> QED BY <1>0, <2>2, <2>5, <2>8, <2>13, <3>1, <3>2 DEF resetVars, PlacesInv
  <2>15. SequenceInv'
    <3>0. SUFFICES ASSUME InSequence PROVE InSequence'
      BY <1>2, <2>5 DEF resetVars, ShareInv, SequenceInv
    <3>1. PICK t, r, c, p \in Nat : IsBetween(t, r, c, p)
      BY <3>0 DEF InSequence
    <3>2. InRing' = InRing /\ RingInOrder' /\ sent' \in Nat
      BY <1>0, <2>5, <3>0 DEF InSequence, InRing, RingInOrder, ringVars
    <3>3. \A k, l \in 1 .. Len(index_pool) :
             k <= l => mBuffer[index_pool[k]] <= mBuffer[index_pool[l]]
      BY <2>0, <3>0 DEF InSequence, PoolInOrder
    <3>4. PoolInOrder'
      <4>1. SUFFICES ASSUME NEW k \in 1 .. Len(index_pool'), NEW l \in 1 .. Len(index_pool'),
                            k <= l
                     PROVE  mBuffer[index_pool'[k]] <= mBuffer[index_pool'[l]]
        BY <2>5 DEF PoolInOrder
      <4>2. /\ k + 1 \in 1 .. Len(index_pool) /\ l + 1 \in 1 .. Len(index_pool)
            /\ k + 1 <= l + 1
        BY <2>1, <4>1
      <4> QED BY <2>1, <3>3, <4>1, <4>2
    <3>5. \A j \in Pooled : c <= mBuffer[j] /\ mBuffer[j] <= p /\ mBuffer[i] <= mBuffer[j]
      <4>1. TAKE j \in Pooled
      <4>2. mBuffer[j] \in InPool
        BY <2>0 DEF InPool
      <4>3. PICK k \in 1 .. Len(index_pool) : j = index_pool[k]
        BY DEF Pooled
      <4>4. mBuffer[i] <= mBuffer[j]
        BY <2>1, <2>2, <3>3, <4>3
      <4> QED BY <3>1, <4>2, <4>4 DEF IsBetween, Within
    <3>6. InPool' \subseteq {mBuffer[j] : j \in Pooled}
      BY <2>5, <2>13 DEF InPool
    <3>7. c <= mBuffer[i] /\ mBuffer[i] <= p
      BY <2>2, <3>5
    <3>8. PICK b \in Nat : b = mBuffer[i]
      BY <2>7
    <3>9. IsBetween(t, r, b, p)'
      <4>1. /\ sent' <= t /\ t <= r /\ r <= b /\ b <= p /\ p <= captured'
        BY <2>5, <3>1, <3>7, <3>8 DEF IsBetween
      <4>2. Within(sent, InTransmitter, t)' /\ Within(t, InRing, r)' /\ Within(p, AtHook, captured)'
        BY <2>5, <2>9, <3>1, <3>2 DEF IsBetween, Within
      <4>3. Within(r, InCompressor, b)'
        BY <2>8, <3>8, <4>1 DEF Within
      <4>4. Within(b, InPool, p)'
        BY <3>5, <3>6, <3>8 DEF Within
      <4> QED BY <4>1, <4>2, <4>3, <4>4 DEF IsBetween
    <3>10. \E u, v, w, x \in Nat : IsBetween(u, v, w, x)'
      BY <3>1, <3>8, <3>9
    <3> QED BY <3>2, <3>4, <3>10 DEF InSequence
  <2> QED BY <2>6, <2>8, <2>9, <2>10, <2>11, <2>14, <2>15 DEF ShareInv
<1>3. CASE Takes /\ exitLost
  <2>1. Compress(compressor') /\ UNCHANGED <<exitPending, exitLost>>
    BY <1>3 DEF Compress, resetVars
  <2>2. OwnershipInv'
    BY <1>0, CompressorKeepsOwnership DEF ShareInv
  <2>3. /\ compressor'.at \in {"compressing", "turn"}
        /\ compressor'.at = "compressing" =>
             {"at", "id", "frame"} \subseteq DOMAIN compressor' /\ compressor'.frame \in Frames
    <3>1. index_pool \in Seq(Ids) /\ index_pool # << >> /\ mBuffer \in [Ids -> Frames]
      BY <1>3 DEF ShareInv, OwnershipInv, PoolHoldsIds
    <3>2. mBuffer[Head(index_pool)] \in Frames
      BY <3>1
    <3> QED BY <1>3, <3>2, AtPlaces DEF Compress
  <2>4. CompressorShape' /\ Writing' = 0 /\ Writing = 0
    BY <1>0, <2>3 DEF CompressorShape, Writing, Processing, Written
  <2>5. TransmitterShape' /\ Reading' = Reading
    BY <1>0 DEF ShareInv, TransmitterShape, Reading
  <2>6. StopInv' /\ PlacesInv' /\ SequenceInv'
    BY <1>3, <2>1 DEF ShareInv, StopInv, PlacesInv, SequenceInv, Asked
  <2>7. BytesInv'
    BY <1>0, <2>4, <2>5, BytesKept DEF ShareInv, ringVars
  <2> QED BY <2>2, <2>4, <2>5, <2>6, <2>7 DEF ShareInv
<1>4. QED
  BY <1>1, <1>2, <1>3 DEF compressorTurn, ExitsTurn

(* compressToJPEG hands on the frame, or gives the slot back.              *)
LEMMA CompressKeepsShare ==
  ASSUME ShareInv, compressToJPEG
  PROVE  ShareInv'
<1>1. /\ compressor.at = "compressing" /\ compressor.at \in Processing
      /\ UNCHANGED <<index_pool, planes, transmitter, ringVars>> /\ CompressorStep
  BY DEF compressToJPEG, CompressorStep, Processing
<1>2. PICK size \in FrameSizes :
        IF size > 0
        THEN /\ Compress([at |-> "room", id |-> compressor.id,
                          frame |-> compressor.frame, size |-> size])
             /\ UNCHANGED mMemoryStates
        ELSE /\ Compress(VideoAt("turn"))
             /\ mMemoryStates' = [mMemoryStates EXCEPT ![compressor.id] = "can_write"]
  BY DEF compressToJPEG
<1>3. CASE size > 0
  <2> DEFINE next == [at |-> "room", id |-> compressor.id, frame |-> compressor.frame,
                      size |-> size]
  <2>1. Compress(next) /\ UNCHANGED mMemoryStates
    BY <1>2, <1>3
  <2>2. /\ next.at = "room" /\ next.id = compressor.id /\ next.frame = compressor.frame
        /\ next.size = size /\ {"at", "id", "frame", "size"} \subseteq DOMAIN next
    OBVIOUS
  <2> HIDE DEF next
  <2>3. next.at \in Written /\ next.at # "payload" /\ compressor.at # "payload"
    BY <1>1, <2>2 DEF Written
  <2>4. /\ OwnershipInv' /\ CompressorShape' /\ TransmitterShape' /\ StopInv' /\ PlacesInv'
        /\ SequenceInv' /\ BytesInv'
    BY <1>1, <1>2, <1>3, <2>1, <2>2, <2>3, CompressorCarries DEF ringVars
  <2> QED BY <2>4 DEF ShareInv
<1>4. CASE ~(size > 0)
  <2>1. "turn" \notin Processing \union {"off"} /\ compressor.at # "off" /\ compressor.at # "payload"
    BY <1>1 DEF Processing
  <2> QED BY <1>1, <1>2, <1>4, <2>1, CompressorMoves
<1> QED BY <1>3, <1>4

(* There is room for a header and what follows it.                         *)
LEMMA RoomForBoth ==
  ASSUME NEW u \in Nat, NEW size \in Nat, NEW s \in Nat, size - u >= s + 1
  PROVE  u + 1 \in Nat /\ (u + 1) + s <= size
  OBVIOUS

(* What is not above a number is not above a larger one.                   *)
LEMMA StaysBelow == \A a, b, c \in Nat : a <= b /\ b <= c => a <= c
  OBVIOUS

(* What is behind the first of a sequence.                                 *)
LEMMA RestOfRing ==
  ASSUME NEW S, NEW q \in Seq(S), NEW n \in Nat, n = Len(q), n # 0
  PROVE  /\ Tail(q) \in Seq(S) /\ Len(Tail(q)) = n - 1
         /\ \A k \in 1 .. n - 1 : Tail(q)[k] = q[k + 1]
  OBVIOUS

(* The number before a successor.                                          *)
LEMMA Preceding ==
  ASSUME NEW n \in Nat, NEW k, k = n + 1
  PROVE  n \in 0 .. n /\ k - 1 = n
  OBVIOUS

(* What the ring takes over fits, and comes after what is in it.           *)
LEMMA HeaderKeepsShare ==
  ASSUME ShareInv, compressor.at = "room",
         UNCHANGED <<mMemoryStates, index_pool, planes, transmitter>>, CompressorStep,
         RoomInRing(compressor.size), used' = used + Header,
         mSendBuffer' = Append(mSendBuffer, [frame |-> compressor.frame,
                                             size |-> compressor.size]),
         Compress([compressor EXCEPT !.at = "payload"])
  PROVE  ShareInv'
<1> DEFINE next == [compressor EXCEPT !.at = "payload"]
<1>1. compressor.at \in Written /\ next.at = "payload" /\ "payload" \in Written /\ Compress(next)
  BY SameFrame DEF Written, ShareInv
<1>2. /\ next.id = compressor.id /\ next.frame = compressor.frame
      /\ next.size = compressor.size /\ next.size \in FrameSizes /\ next.size > 0
      /\ {"at", "id", "frame", "size"} \subseteq DOMAIN next
      /\ compressor.at \in Processing /\ compressor.frame \in Frames
      /\ compressor.frame \in Nat
  BY <1>1, SameFrame DEF ShareInv, CompressorShape
<1>3. compressor' = next /\ sent' = sent /\ captured' = captured
      /\ Asked' = Asked /\ AtHook' = AtHook /\ mBuffer' = mBuffer /\ exitLost' = exitLost
  BY <1>1, CompressLeaves DEF resetVars
<1> HIDE DEF next
<1>4. /\ OwnershipInv' /\ CompressorShape' /\ TransmitterShape' /\ StopInv' /\ PlacesInv'
      /\ InTransmitter' = InTransmitter /\ Reading' = Reading
  BY <1>1, <1>2, CompressorCarries
<1>5. /\ mSendBuffer \in Seq(Frame) /\ used \in Nat /\ Len(mSendBuffer) \in Nat
      /\ compressor.size \in Nat
  BY <1>2, VideoAssumption DEF ShareInv, BytesInv
<1>6. PICK n \in Nat, ring \in Seq(Frame) : ring = mSendBuffer /\ n = Len(ring)
  BY <1>5
<1>7. PICK f \in Nat, s \in Nat :
        f = compressor.frame /\ s = compressor.size /\ s > 0 /\ s \in FrameSizes
  BY <1>2, <1>5
<1>8. PICK item : /\ mSendBuffer' = Append(ring, item)
                  /\ item = [frame |-> f, size |-> s] /\ item.frame = f /\ item.size = s
  BY <1>6, <1>7
<1>10. InCompressor = {f} /\ InCompressor' = {f}
  <2>1. InCompressor = {f}
    BY <1>2, <1>7 DEF InCompressor
  <2>2. InCompressor' = {f}
    BY <1>1, <1>2, <1>3, <1>7 DEF InCompressor, Processing, Written
  <2> QED BY <2>1, <2>2
<1>11. item \in Frame
  <2>2. f \in Frames
    BY <1>2, <1>7
  <2> QED BY <1>7, <1>8, <2>2 DEF Frame
<1>12. /\ mSendBuffer' \in Seq(Frame) /\ Len(mSendBuffer') = n + 1
       /\ mSendBuffer'[n + 1] = item /\ \A k \in 1 .. n : mSendBuffer'[k] = ring[k]
  BY <1>6, <1>8, <1>11
<1>13. Writing = 0 /\ Writing' = s
  BY <1>1, <1>2, <1>3, <1>7 DEF Writing
<1>14. BytesInv'
  <2>1. PICK ends : AreEnds(ends, ring) /\ used + Writing = Reading + ends[n]
    BY <1>6 DEF ShareInv, BytesInv
  <2>2. /\ ends \in [0 .. n -> Nat] /\ ends[0] = 0
        /\ \A k \in 1 .. n : ends[k] = ends[k - 1] + Header + ring[k].size
        /\ \A k, l \in 0 .. n : k <= l => ends[k] <= ends[l]
    BY <1>6, <2>1 DEF AreEnds
  <2> DEFINE more == [k \in 0 .. n + 1 |-> IF k <= n THEN ends[k] ELSE ends[n] + Header + s]
  <2>3. /\ more \in [0 .. n + 1 -> Nat] /\ more[0] = 0 /\ more[n + 1] = ends[n] + Header + s
        /\ \A k \in 0 .. n : more[k] = ends[k] /\ more[k] <= more[n + 1]
    <3>1. ends[n] \in Nat /\ n \in 0 .. n /\ \A k \in 0 .. n : ends[k] \in Nat /\ ends[k] <= ends[n]
      BY <2>2
    <3>2. Header \in Nat
      BY DEF Header
    <3>3. PICK last \in Nat : last = ends[n] + Header + s /\ ends[n] <= last
      <4>1. PICK e \in Nat, h \in Nat : e = ends[n] /\ h = Header
        BY <3>1, <3>2
      <4>2. e + h + s \in Nat /\ e <= e + h + s
        OBVIOUS
      <4> QED BY <4>1, <4>2
    <3>4. more[n + 1] = last
      BY <3>3
    <3>5. \A k \in 0 .. n : k \in 0 .. n + 1 /\ more[k] = ends[k]
      OBVIOUS
    <3>6. \A k \in 0 .. n : ends[k] <= last
      BY <3>1, <3>3
    <3>7. more \in [0 .. n + 1 -> Nat]
      BY <3>1, <3>3
    <3> HIDE DEF more
    <3>8. \A k \in 0 .. n : more[k] <= more[n + 1]
      BY <3>4, <3>5, <3>6
    <3>9. more[0] = 0
      BY <2>2, <3>1, <3>5
    <3> QED BY <3>3, <3>4, <3>5, <3>7, <3>8, <3>9
  <2> HIDE DEF more
  <2>4. \A k \in 1 .. n + 1 : more[k] = more[k - 1] + Header + mSendBuffer'[k].size
    <3>1. TAKE k \in 1 .. n + 1
    <3>2. CASE k \in 1 .. n
      <4>1. k \in 0 .. n /\ k - 1 \in 0 .. n
        BY <3>2
      <4> QED BY <1>12, <2>2, <2>3, <3>2, <4>1
    <3>3. CASE k = n + 1
      <4>1. n \in 0 .. n /\ k - 1 = n
        BY <3>3, Preceding
      <4>2. mSendBuffer'[k].size = s
        BY <1>8, <1>12, <3>3
      <4>3. more[k] = ends[n] + Header + s /\ more[k - 1] = ends[n]
        BY <2>3, <3>3, <4>1
      <4> QED BY <4>2, <4>3
    <3> QED BY <1>6, <3>2, <3>3
  <2>5. \A k, l \in 0 .. n + 1 : k <= l => more[k] <= more[l]
    <3>1. SUFFICES ASSUME NEW k \in 0 .. n + 1, NEW l \in 0 .. n + 1, k <= l
                   PROVE  more[k] <= more[l]
      OBVIOUS
    <3>2. CASE l \in 0 .. n
      <4>1. k \in 0 .. n
        BY <3>1, <3>2
      <4> QED BY <2>2, <2>3, <3>1, <3>2, <4>1
    <3>3. CASE l = n + 1 /\ k \in 0 .. n
      BY <2>3, <3>3
    <3>4. CASE l = n + 1 /\ k = n + 1
      BY <2>3, <3>4
    <3> QED BY <3>2, <3>3, <3>4
  <2>6. AreEnds(more, mSendBuffer')
    BY <1>12, <2>3, <2>4, <2>5 DEF AreEnds
  <2>7. Reading \in Nat
    BY VideoAssumption DEF ShareInv, TransmitterShape, Reading, Transmitting
  <2>8. ends[n] \in Nat
    BY <2>2
  <2>9. used' + Writing' = Reading' + more[n + 1]
    <3>1. Reading' = Reading /\ used' = used + 1 /\ Writing' = s /\ Writing = 0
      BY <1>4, <1>13 DEF Header
    <3>2. more[n + 1] = ends[n] + 1 + s
      BY <2>3 DEF Header
    <3>3. PICK u \in Nat, w \in Nat, x \in Nat : u = used /\ w = Reading /\ x = ends[n]
      BY <1>5, <2>7, <2>8
    <3>4. u = w + x
      BY <2>1, <3>1, <3>3
    <3>5. (u + 1) + s = w + (x + 1 + s)
      <4>1. u \in Nat /\ w \in Nat /\ x \in Nat /\ s \in Nat
        BY <1>7, <3>3
      <4> QED BY <3>4, <4>1
    <3> QED BY <3>1, <3>2, <3>3, <3>5
  <2>10. used' + Writing' <= bufsize /\ used' \in Nat
    <3>1. bufsize \in Nat /\ bufsize - used >= s + 1 /\ used' = used + 1
      BY <1>7, VideoAssumption DEF RoomInRing, Header
    <3>2. PICK u \in Nat, size \in Nat : u = used /\ size = bufsize
      BY <1>5, <3>1
    <3>3. u + 1 \in Nat /\ (u + 1) + s <= size
      <4>1. size - u >= s + 1
        BY <3>1, <3>2
      <4> QED BY <4>1, RoomForBoth
    <3>4. used' = u + 1 /\ Writing' = s
      BY <1>13, <3>1, <3>2
    <3> QED BY <3>2, <3>3, <3>4
  <2>11. mSendBuffer' # << >> /\ mSendBuffer'[Len(mSendBuffer')].size = Writing'
    BY <1>8, <1>12, <1>13
  <2>12. \E e : AreEnds(e, mSendBuffer') /\ used' + Writing' = Reading' + e[Len(mSendBuffer')]
    BY <1>12, <2>6, <2>9
  <2> QED BY <1>12, <2>10, <2>11, <2>12 DEF BytesInv
<1>15. SequenceInv'
  <2>20. SUFFICES ASSUME InSequence PROVE InSequence'
    BY <1>3 DEF ShareInv, SequenceInv
  <2>21. PICK t, r, c, p \in Nat : IsBetween(t, r, c, p)
    BY <2>20 DEF InSequence
  <2>22. r <= f /\ f <= c
    BY <1>10, <2>21 DEF IsBetween, Within
  <2>1. \A k \in 1 .. n : t <= ring[k].frame /\ ring[k].frame <= r /\ ring[k].frame \in Nat
    <3>1. TAKE k \in 1 .. n
    <3>2. ring[k].frame \in InRing
      BY <1>6 DEF InRing
    <3>3. ring[k] \in Frame
      BY <1>6
    <3>4. ring[k].frame \in Nat
      BY <3>3 DEF Frame, Frames
    <3> QED BY <2>21, <3>2, <3>4 DEF IsBetween, Within
  <2>2. RingInOrder'
    <3>1. SUFFICES ASSUME NEW k \in 1 .. n + 1, NEW l \in 1 .. n + 1, k <= l
                   PROVE  mSendBuffer'[k].frame <= mSendBuffer'[l].frame
      BY <1>12 DEF RingInOrder
    <3>2. CASE l \in 1 .. n
      <4>1. k \in 1 .. n
        BY <3>1, <3>2
      <4>2. ring[k].frame <= ring[l].frame
        BY <1>6, <2>20, <3>1, <3>2, <4>1 DEF InSequence, RingInOrder
      <4> QED BY <1>12, <3>2, <4>1, <4>2
    <3>3. CASE l = n + 1 /\ k \in 1 .. n
      <4>1. PICK g \in Nat : g = ring[k].frame /\ g <= r
        BY <2>1, <3>3
      <4>2. mSendBuffer'[l].frame = f /\ mSendBuffer'[k].frame = g
        BY <1>8, <1>12, <3>3, <4>1
      <4>3. r <= f
        BY <1>10, <2>22
      <4>4. g <= f
        BY <4>1, <4>3, StaysBelow, Zenon
      <4> QED BY <4>2, <4>4
    <3>4. CASE l = n + 1 /\ k = n + 1
      BY <1>8, <1>12, <3>4
    <3> QED BY <1>6, <3>2, <3>3, <3>4
  <2>3. Within(t, InRing', f)
    <3>1. SUFFICES ASSUME NEW k \in 1 .. n + 1
                   PROVE  t <= mSendBuffer'[k].frame /\ mSendBuffer'[k].frame <= f
      BY <1>12 DEF Within, InRing
    <3>2. t <= r /\ t <= f
      BY <2>21, <1>10, <2>22 DEF IsBetween
    <3>3. CASE k \in 1 .. n
      <4>1. PICK g \in Nat : g = ring[k].frame /\ t <= g /\ g <= r
        BY <2>1, <3>3
      <4>2. r <= f /\ mSendBuffer'[k].frame = g
        BY <1>10, <2>22, <1>12, <3>3, <4>1
      <4>3. g <= f
        BY <4>1, <4>2
      <4> QED BY <4>1, <4>2, <4>3
    <3>4. CASE k = n + 1
      BY <1>8, <1>12, <3>2, <3>4
    <3> QED BY <1>6, <3>3, <3>4
  <2>4. sent <= t /\ t <= f /\ f <= c /\ c <= p /\ p <= captured
    BY <2>21, <1>10, <2>22 DEF IsBetween
  <2>5. InPool' = InPool
    BY <1>3 DEF InPool, Pooled
  <2>6. /\ Within(sent', InTransmitter', t) /\ Within(f, InCompressor', c)
        /\ Within(c, InPool', p) /\ Within(p, AtHook', captured')
    BY <1>3, <1>4, <2>21, <1>10, <2>22, <2>4, <2>5 DEF IsBetween, Within
  <2>7. \E u, v, w, x \in Nat : IsBetween(u, v, w, x)'
    <3>1. \A v : v = f => IsBetween(t, v, c, p)'
      BY <1>3, <2>3, <2>4, <2>6 DEF IsBetween
    <3> QED BY <2>21, <3>1
  <2>8. sent' \in Nat /\ PoolInOrder'
    BY <1>3, <2>20 DEF InSequence, PoolInOrder
  <2> QED BY <2>2, <2>7, <2>8 DEF InSequence
<1> QED BY <1>4, <1>14, <1>15 DEF ShareInv

(* The wait for room; after resetSendFlag the frame is given up.           *)
LEMMA RoomKeepsShare ==
  ASSUME ShareInv, compressorRoom
  PROVE  ShareInv'
<1>1. /\ compressor.at = "room" /\ compressor.at \in Processing /\ compressor.at \in Written
      /\ UNCHANGED <<mMemoryStates, index_pool, planes, transmitter>> /\ CompressorStep
  BY DEF compressorRoom, CompressorStep, Processing, Written
<1>2. CASE exitPending.compressor /\ Compress(VideoAt("exited")) /\ UNCHANGED ringVars
  <2>1. /\ "exited" \notin Processing \union {"off"} /\ compressor.at # "off"
        /\ compressor.at # "payload"
    BY <1>1 DEF Processing
  <2> QED BY <1>1, <1>2, <2>1, CompressorMoves DEF resetVars, Asked
<1>3. CASE Compress([compressor EXCEPT !.at = "nudge"]) /\ UNCHANGED ringVars
  <2> DEFINE next == [compressor EXCEPT !.at = "nudge"]
  <2>1. /\ next.at = "nudge" /\ next.id = compressor.id /\ next.frame = compressor.frame
        /\ next.size \in FrameSizes /\ next.size > 0
        /\ {"at", "id", "frame", "size"} \subseteq DOMAIN next
    BY <1>1, SameFrame DEF ShareInv
  <2>2. Compress(next)
    BY <1>3
  <2> HIDE DEF next
  <2>3. next.at \in Written /\ next.at # "payload" /\ compressor.at # "payload"
    BY <1>1, <2>1 DEF Written
  <2>4. /\ OwnershipInv' /\ CompressorShape' /\ TransmitterShape' /\ StopInv' /\ PlacesInv'
        /\ SequenceInv' /\ BytesInv'
    BY <1>1, <1>3, <2>1, <2>2, <2>3, CompressorCarries DEF ringVars
  <2> QED BY <2>4 DEF ShareInv
<1>4. CASE /\ RoomInRing(compressor.size) /\ used' = used + Header
           /\ mSendBuffer' = Append(mSendBuffer, [frame |-> compressor.frame,
                                                  size |-> compressor.size])
           /\ Compress([compressor EXCEPT !.at = "payload"])
  BY <1>1, <1>4, HeaderKeepsShare
<1> QED BY <1>2, <1>3, <1>4 DEF compressorRoom

(* The frame follows its header.                                           *)
LEMMA PayloadKeepsShare ==
  ASSUME ShareInv, compressorPayload
  PROVE  ShareInv'
<1> DEFINE next == [compressor EXCEPT !.at = "tell"]
<1>1. /\ compressor.at = "payload" /\ compressor.at \in Processing /\ compressor.at \in Written
      /\ UNCHANGED <<mMemoryStates, index_pool, planes, transmitter, mSendBuffer>>
      /\ CompressorStep
      /\ used' = used + compressor.size /\ Compress(next)
  BY DEF compressorPayload, CompressorStep, Processing, Written
<1>2. /\ next.at = "tell" /\ next.id = compressor.id /\ next.frame = compressor.frame
      /\ next.size \in FrameSizes /\ next.size > 0 /\ next.size = compressor.size
      /\ {"at", "id", "frame", "size"} \subseteq DOMAIN next
  BY <1>1, SameFrame DEF ShareInv
<1>3. compressor' = next
  BY <1>1, CompressLeaves
<1> HIDE DEF next
<1>4. next.at \in Written
  BY <1>2 DEF Written
<1>5. /\ OwnershipInv' /\ CompressorShape' /\ TransmitterShape' /\ StopInv' /\ PlacesInv'
      /\ SequenceInv' /\ Reading' = Reading
  BY <1>1, <1>2, <1>4, CompressorCarries
<1>6. Writing = compressor.size /\ Writing' = 0
  BY <1>1, <1>2, <1>3 DEF Writing
<1>7. BytesInv'
  <2>1. /\ mSendBuffer \in Seq(Frame) /\ used \in Nat /\ used + Writing <= bufsize
        /\ compressor.size \in Nat
    BY <1>2, VideoAssumption DEF ShareInv, BytesInv
  <2>2. PICK ends : AreEnds(ends, mSendBuffer) /\ used + Writing = Reading + ends[Len(mSendBuffer)]
    BY DEF ShareInv, BytesInv
  <2>3. used' \in Nat /\ used' + Writing' = used + Writing
    BY <1>1, <1>6, <2>1
  <2>4. /\ mSendBuffer' = mSendBuffer /\ used' + Writing' <= bufsize
        /\ AreEnds(ends, mSendBuffer) /\ used' + Writing' = Reading' + ends[Len(mSendBuffer')]
    BY <1>1, <1>5, <2>1, <2>2, <2>3
  <2> QED BY <1>6, <2>1, <2>3, <2>4 DEF BytesInv
<1> QED BY <1>5, <1>7 DEF ShareInv

(* signalDataTransmitor goes on waiting, or gives the slot back.           *)
LEMMA TellKeepsShare ==
  ASSUME ShareInv, signalDataTransmitor
  PROVE  ShareInv'
<1>1. /\ compressor.at \in {"nudge", "tell"} /\ compressor.at \in Processing
      /\ compressor.at \in Written /\ transmitter' = Signalled(transmitter)
      /\ UNCHANGED <<index_pool, planes, ringVars>> /\ CompressorStep
  BY DEF signalDataTransmitor, CompressorStep, Processing, Written
<1>2. CASE compressor.at = "nudge"
  <2> DEFINE next == [compressor EXCEPT !.at = "room"]
  <2>1. /\ next.at = "room" /\ next.id = compressor.id /\ next.frame = compressor.frame
        /\ next.size \in FrameSizes /\ next.size > 0
        /\ {"at", "id", "frame", "size"} \subseteq DOMAIN next
    BY <1>1, SameFrame DEF ShareInv
  <2>2. Compress(next) /\ UNCHANGED mMemoryStates
    BY <1>2 DEF signalDataTransmitor
  <2> HIDE DEF next
  <2>3. next.at \in Written /\ next.at # "payload" /\ compressor.at # "payload"
    BY <1>2, <2>1 DEF Written
  <2>4. /\ OwnershipInv' /\ CompressorShape' /\ TransmitterShape' /\ StopInv' /\ PlacesInv'
        /\ SequenceInv' /\ BytesInv'
    BY <1>1, <2>1, <2>2, <2>3, CompressorCarries DEF ringVars
  <2> QED BY <2>4 DEF ShareInv
<1>3. CASE compressor.at # "nudge"
  <2>1. /\ "turn" \notin Processing \union {"off"} /\ compressor.at # "off"
        /\ compressor.at # "payload"
    BY <1>1 DEF Processing
  <2>2. /\ Compress(VideoAt("turn"))
        /\ mMemoryStates' = [mMemoryStates EXCEPT ![compressor.id] = "can_write"]
    BY <1>3 DEF signalDataTransmitor
  <2> QED BY <1>1, <2>1, <2>2, CompressorMoves
<1> QED BY <1>2, <1>3

(* The transmitter, when it neither takes a frame nor lets go of one that  *)
(* it sent.                                                                *)
LEMMA TransmitterMoves ==
  ASSUME ShareInv, TransmitterStep, NEW next, Transmit(next), transmitter.at # "off",
         TransmitterShape', InTransmitter' \subseteq InTransmitter,
         UNCHANGED <<mSendBuffer, sent>>,
         BytesInv' \/ (used' = used /\ Reading' = Reading)
  PROVE  ShareInv'
<1>1. /\ UNCHANGED <<slotVars, hook, mSocketFd, poolVars, compressor, exitPending, resetVars>>
      /\ Asked' = Asked /\ Signalling' = Signalling /\ AtHook' = AtHook
      /\ InHand' = InHand /\ InCompressor' = InCompressor /\ Writing' = Writing
      /\ CompressorShape' /\ PlacesInv' /\ StopInv'
  BY TransmitLeaves
<1>2. OwnershipInv'
  BY OthersKeepOwnership DEF ShareInv
<1>3. BytesInv'
  BY <1>1, BytesKept DEF ShareInv
<1>4. SequenceInv'
  BY <1>1, SequenceKept, FrameNumbers DEF resetVars, ShareInv, slotVars, poolVars
<1> QED BY <1>1, <1>2, <1>3, <1>4 DEF ShareInv

LEMMA TransmitterTopKeepsShare ==
  ASSUME ShareInv, transmitterTop
  PROVE  ShareInv'
<1>1. /\ transmitter.at \in {"top", "entering", "woken"}
      /\ \E place \in {"exited", "entering", "waiting", "drain"} : Transmit(VideoAt(place))
      /\ UNCHANGED <<ringVars, sent>> /\ TransmitterStep
  BY DEF transmitterTop, TransmitterStep
<1>2. PICK place \in {"exited", "entering", "waiting", "drain"} : Transmit(VideoAt(place))
  BY <1>1
<1>3. transmitter'.at = place
  BY <1>2, AtPlaces DEF Transmit
<1>4. TransmitterShape' /\ InTransmitter' = {} /\ Reading' = 0 /\ Reading = 0
  BY <1>1, <1>2, <1>3 DEF TransmitterShape, InTransmitter, Reading, Transmitting
<1> QED BY <1>1, <1>2, <1>4, TransmitterMoves DEF ringVars

(* A payload that is read was in the ring.                                 *)
LEMMA ReadKeepsShare ==
  ASSUME ShareInv, transmitterPayload
  PROVE  ShareInv'
<1> DEFINE next == [transmitter EXCEPT !.at = "sending"]
<1>1. /\ transmitter.at = "payload" /\ used >= transmitter.size
      /\ used' = used - transmitter.size /\ Transmit(next)
      /\ UNCHANGED <<mSendBuffer, sent>> /\ TransmitterStep
  BY DEF transmitterPayload, TransmitterStep
<1>2. DOMAIN transmitter = {"at", "frame", "size"} /\ transmitter.frame \in Nat
      /\ transmitter.size \in Nat
  BY <1>1 DEF ShareInv, TransmitterShape, Transmitting
<1>3. /\ next.at = "sending" /\ next.frame = transmitter.frame /\ next.size = transmitter.size
      /\ DOMAIN next = {"at", "frame", "size"}
  BY <1>2
<1>4. transmitter' = next /\ compressor' = compressor
  BY <1>1 DEF Transmit
<1> HIDE DEF next
<1>5. TransmitterShape' /\ InTransmitter' = InTransmitter
  BY <1>1, <1>2, <1>3, <1>4 DEF TransmitterShape, InTransmitter, Transmitting
<1>6. Reading' = 0 /\ Reading = transmitter.size /\ Writing' = Writing
  BY <1>1, <1>3, <1>4 DEF Reading, Writing
<1>7. BytesInv'
  <2>1. mSendBuffer \in Seq(Frame) /\ used \in Nat /\ used + Writing <= bufsize /\ Writing \in Nat
    BY VideoAssumption DEF ShareInv, BytesInv, CompressorShape, Writing, Written, Processing
  <2>2. PICK ends : AreEnds(ends, mSendBuffer) /\ used + Writing = Reading + ends[Len(mSendBuffer)]
    BY DEF ShareInv, BytesInv
  <2>3. ends[Len(mSendBuffer)] \in Nat
    BY <2>1, <2>2 DEF AreEnds
  <2>4. PICK w \in Nat, x \in Nat, u \in Nat, m \in Nat :
          w = Writing /\ x = ends[Len(mSendBuffer)] /\ u = used /\ m = transmitter.size
    BY <1>2, <2>1, <2>3
  <2>5. u + w = m + x /\ u >= m /\ u + w <= bufsize
    BY <1>1, <1>6, <2>1, <2>2, <2>4
  <2>6. (u - m) + w = 0 + x /\ u - m \in Nat /\ (u - m) + w <= bufsize
    <3>1. u \in Nat /\ w \in Nat /\ m \in Nat /\ x \in Nat /\ bufsize \in Nat
      BY <2>4, VideoAssumption
    <3> QED BY <2>5, <3>1
  <2>7. used' = u - m /\ Writing' = w /\ mSendBuffer' = mSendBuffer
    BY <1>1, <1>6, <2>4
  <2>8. used' + Writing' = Reading' + ends[Len(mSendBuffer')] /\ AreEnds(ends, mSendBuffer')
    BY <1>6, <2>2, <2>4, <2>6, <2>7
  <2>9. Writing' # 0 => /\ mSendBuffer' # << >>
                        /\ mSendBuffer'[Len(mSendBuffer')].size = Writing'
    BY <1>6, <2>7 DEF ShareInv, BytesInv
  <2> QED BY <2>1, <2>6, <2>7, <2>8, <2>9 DEF BytesInv
<1> QED BY <1>1, <1>5, <1>7, TransmitterMoves

(* What is sent is no earlier than what was sent.                          *)
LEMMA SendKeepsShare ==
  ASSUME ShareInv, sendData
  PROVE  ShareInv' /\ (exitLost \/ sent <= sent')
<1>1. /\ transmitter.at = "sending" /\ Transmit(VideoAt("drain"))
      /\ sent' = transmitter.frame \/ sent' = sent
      /\ UNCHANGED ringVars /\ TransmitterStep
  BY DEF sendData, TransmitterStep
<1>2. /\ UNCHANGED <<slotVars, hook, mSocketFd, poolVars, compressor, exitPending, resetVars>>
      /\ Asked' = Asked /\ Signalling' = Signalling /\ AtHook' = AtHook
      /\ InHand' = InHand /\ InCompressor' = InCompressor /\ Writing' = Writing
      /\ CompressorShape' /\ PlacesInv' /\ StopInv' /\ transmitter'.at = "drain"
  BY <1>1, TransmitLeaves, AtPlaces
<1>3. OwnershipInv'
  BY <1>1, OthersKeepOwnership DEF ShareInv
<1>4. TransmitterShape' /\ InTransmitter' = {} /\ Reading' = 0 /\ Reading = 0
  BY <1>1, <1>2 DEF TransmitterShape, InTransmitter, Reading, Transmitting
<1>5. BytesInv'
  BY <1>1, <1>2, <1>4, BytesKept DEF ShareInv, ringVars
<1>6. transmitter.frame \in InTransmitter /\ transmitter.frame \in Nat
  BY <1>1 DEF resetVars, InTransmitter, ShareInv, TransmitterShape, Transmitting
<1>7. ASSUME InSequence PROVE InSequence' /\ sent <= sent'
  <2>10. PICK t, r, c, p \in Nat : IsBetween(t, r, c, p)
    BY <1>7 DEF InSequence
  <2>11. sent <= sent' /\ sent' <= t /\ sent' \in Nat
    BY <1>1, <1>6, <1>7, <2>10 DEF IsBetween, Within, InSequence
  <2>1. /\ InRing' = InRing /\ InPool' = InPool /\ RingInOrder' /\ PoolInOrder'
        /\ captured' = captured
    BY <1>1, <1>2, <1>7 DEF InRing, InPool, Pooled, InSequence, RingInOrder, PoolInOrder,
       ringVars, slotVars, poolVars
  <2>2. Within(sent', InTransmitter', t)
    BY <1>4 DEF Within
  <2>3. IsBetween(t, r, c, p)'
    BY <1>2, <2>10, <2>11, <2>1, <2>2 DEF IsBetween
  <2>4. \E u, v, w, x \in Nat : IsBetween(u, v, w, x)'
    BY <2>10, <2>3
  <2> QED BY <2>11, <2>1, <2>4 DEF InSequence
<1>8. SequenceInv' /\ (exitLost \/ sent <= sent')
  BY <1>2, <1>7 DEF ShareInv, SequenceInv, resetVars
<1> QED BY <1>2, <1>3, <1>4, <1>5, <1>8 DEF ShareInv

(* Where there is more than a header, there is a header, and the frame     *)
(* that it says is there, or still being written behind another.           *)
LEMMA DrainKeepsShare ==
  ASSUME ShareInv, transmitterDrain
  PROVE  ShareInv'
<1>0. transmitter.at = "drain" /\ UNCHANGED sent /\ TransmitterStep
  BY DEF transmitterDrain, TransmitterStep
<1>1. CASE ~(used > Header)
  <2>1. Transmit(VideoAt("top")) /\ UNCHANGED ringVars
    BY <1>1 DEF transmitterDrain
  <2>2. transmitter'.at = "top"
    BY <2>1, AtPlaces DEF Transmit
  <2>3. TransmitterShape' /\ InTransmitter' = {} /\ Reading' = 0 /\ Reading = 0
    BY <1>0, <2>2 DEF TransmitterShape, InTransmitter, Reading, Transmitting
  <2> QED BY <1>0, <2>1, <2>3, TransmitterMoves DEF ringVars
<1>2. CASE used > Header
  <2> DEFINE next == [at |-> "payload", frame |-> Head(mSendBuffer).frame,
                      size |-> Head(mSendBuffer).size]
  <2>1. used' = used - Header /\ mSendBuffer' = Tail(mSendBuffer) /\ Transmit(next)
    BY <1>2 DEF transmitterDrain
  <2>2. /\ transmitter' = next
        /\ UNCHANGED <<slotVars, hook, mSocketFd, poolVars, compressor, exitPending, resetVars>>
        /\ Asked' = Asked /\ Signalling' = Signalling /\ AtHook' = AtHook
        /\ InHand' = InHand /\ InCompressor' = InCompressor /\ Writing' = Writing
        /\ CompressorShape' /\ PlacesInv' /\ StopInv'
    BY <1>0, <2>1, TransmitLeaves
  <2>3. OwnershipInv'
    BY <1>0, OthersKeepOwnership DEF ShareInv
  <2>4. /\ mSendBuffer \in Seq(Frame) /\ used \in Nat /\ Writing \in Nat
        /\ used + Writing <= bufsize /\ Reading = 0
    BY <1>0, VideoAssumption
    DEF ShareInv, BytesInv, CompressorShape, Writing, Written, Processing, Reading
  <2>5. PICK n \in Nat, ring \in Seq(Frame) : ring = mSendBuffer /\ n = Len(ring)
    BY <2>4
  <2>6. PICK ends : AreEnds(ends, mSendBuffer) /\ used + Writing = Reading + ends[Len(mSendBuffer)]
    BY DEF ShareInv, BytesInv
  <2>7. /\ ends \in [0 .. n -> Nat] /\ ends[0] = 0
        /\ \A k \in 1 .. n : ends[k] = ends[k - 1] + Header + ring[k].size
        /\ \A k, l \in 0 .. n : k <= l => ends[k] <= ends[l]
    BY <2>5, <2>6 DEF AreEnds
  <2>8. PICK u \in Nat, w \in Nat : u = used /\ w = Writing
    BY <2>4
  <2>9. u + w = ends[n] /\ u > 1 /\ u + w <= bufsize
    <3>1. ends[n] \in Nat
      BY <2>5, <2>7
    <3>2. u + w = 0 + ends[n]
      BY <2>4, <2>5, <2>6, <2>8
    <3> QED BY <1>2, <2>4, <2>8, <3>1, <3>2 DEF Header
  <2>10. n # 0
    <3>1. SUFFICES ASSUME n = 0 PROVE FALSE
      OBVIOUS
    <3>2. mSendBuffer = << >>
      <4>1. Len(mSendBuffer) = 0
        BY <2>5, <3>1
      <4> QED BY <2>4, <4>1
    <3>3. Writing = 0
      BY <3>2 DEF ShareInv, BytesInv
    <3> QED BY <2>7, <2>8, <2>9, <3>1, <3>3
  <2>11. PICK head \in Frame : head = ring[1] /\ head = Head(mSendBuffer)
    BY <2>5, <2>10
  <2>12. PICK f \in Nat, s \in Nat : f = head.frame /\ s = head.size
    <3>1. head.frame \in Frames /\ head.size \in FrameSizes
      BY <2>11 DEF Frame
    <3>2. head.frame \in Nat /\ head.size \in Nat
      <4>1. Frames \subseteq Nat /\ FrameSizes \subseteq Nat
        BY VideoAssumption DEF Frames
      <4> QED BY <3>1, <4>1
    <3> QED BY <3>2
  <2>13. ends[1] = 1 + s
    <3>1. 1 \in 1 .. n
      BY <2>5, <2>10
    <3>2. ends[1] = ends[1 - 1] + Header + ring[1].size
      BY <2>7, <3>1
    <3>3. 1 - 1 = 0 /\ ring[1].size = s
      BY <2>11, <2>12
    <3>4. ends[1] = 0 + 1 + s
      BY <2>7, <3>2, <3>3 DEF Header
    <3> QED BY <2>12, <3>4
  <2>14. w # 0 => n > 1
    <3>1. SUFFICES ASSUME w # 0, n = 1 PROVE FALSE
      <4>1. n = 1 \/ n > 1
        BY <2>10
      <4> QED BY <4>1
    <3>2. ring[1].size = w
      BY <2>5, <2>8, <3>1 DEF ShareInv, BytesInv
    <3>3. u + w = 1 + w
      BY <2>9, <2>11, <2>12, <2>13, <3>1, <3>2
    <3> QED BY <2>8, <2>9, <3>3
  <2>15. PICK rest \in Seq(Frame) :
           /\ rest = mSendBuffer' /\ Len(rest) = n - 1
           /\ \A k \in 1 .. n - 1 : rest[k] = ring[k + 1]
    <3>1. mSendBuffer' = Tail(ring)
      BY <2>1, <2>5
    <3>2. /\ Tail(ring) \in Seq(Frame) /\ Len(Tail(ring)) = n - 1
          /\ \A k \in 1 .. n - 1 : Tail(ring)[k] = ring[k + 1]
      BY <2>5, <2>10, RestOfRing
    <3> QED BY <3>1, <3>2
  <2>16. next.at = "payload" /\ next.frame = f /\ next.size = s
         /\ DOMAIN next = {"at", "frame", "size"}
    BY <2>11, <2>12
  <2> HIDE DEF next
  <2>17. TransmitterShape' /\ InTransmitter' = {f} /\ Reading' = s
    BY <2>2, <2>12, <2>16 DEF TransmitterShape, InTransmitter, Reading, Transmitting
  <2>18. BytesInv'
    <3> DEFINE less == [k \in 0 .. n - 1 |-> ends[k + 1] - ends[1]]
    <3>1. \A k \in 0 .. n - 1 : /\ k + 1 \in 1 .. n /\ k + 1 \in 0 .. n
                                /\ ends[k + 1] \in Nat /\ ends[1] \in Nat
                                /\ ends[1] <= ends[k + 1]
      <4>1. TAKE k \in 0 .. n - 1
      <4>2. k + 1 \in 1 .. n /\ k + 1 \in 0 .. n /\ 1 \in 0 .. n /\ 1 <= k + 1
        BY <2>5
      <4> QED BY <2>7, <4>2
    <3>2. /\ less \in [0 .. n - 1 -> Nat] /\ less[0] = 0
          /\ \A k \in 0 .. n - 1 : less[k] = ends[k + 1] - ends[1]
      <4>1. \A k \in 0 .. n - 1 : ends[k + 1] - ends[1] \in Nat
        <5>1. TAKE k \in 0 .. n - 1
        <5>2. ends[k + 1] \in Nat /\ ends[1] \in Nat /\ ends[1] <= ends[k + 1]
          BY <3>1
        <5> QED BY <5>2
      <4>2. 0 \in 0 .. n - 1 /\ less[0] = ends[0 + 1] - ends[1]
        BY <2>5, <2>10
      <4>3. less[0] = 0
        BY <2>12, <2>13, <4>2
      <4> QED BY <4>1, <4>3
    <3> HIDE DEF less
    <3>3. \A k \in 1 .. n - 1 : less[k] = less[k - 1] + Header + rest[k].size
      <4>1. TAKE k \in 1 .. n - 1
      <4>2. k \in 0 .. n - 1 /\ k - 1 \in 0 .. n - 1 /\ (k - 1) + 1 = k /\ k + 1 \in 1 .. n
            /\ (k + 1) - 1 = k
        BY <2>5
      <4>3. less[k] = ends[k + 1] - ends[1] /\ less[k - 1] = ends[k] - ends[1]
        BY <3>2, <4>2
      <4>4. ends[k + 1] = ends[k] + Header + ring[k + 1].size
        BY <2>7, <4>2
      <4>5. rest[k] = ring[k + 1] /\ ring[k + 1].size \in Nat
        <5>1. ring[k + 1] \in Frame
          BY <2>5, <4>2
        <5> QED BY <2>15, <5>1, VideoAssumption DEF Frame
      <4>6. ends[k] \in Nat /\ ends[1] \in Nat
        BY <3>1, <4>2
      <4>7. PICK a \in Nat, b \in Nat, m \in Nat : a = ends[k] /\ b = ends[1] /\ m = rest[k].size
        BY <4>5, <4>6
      <4>8. less[k] = (a + 1 + m) - b /\ less[k - 1] = a - b
        BY <4>3, <4>4, <4>5, <4>7 DEF Header
      <4>9. (a + 1 + m) - b = (a - b) + 1 + m
        <5>1. a \in Nat /\ b \in Nat /\ m \in Nat
          BY <4>7
        <5> QED BY <5>1
      <4> QED BY <4>7, <4>8, <4>9 DEF Header
    <3>4. \A k, l \in 0 .. n - 1 : k <= l => less[k] <= less[l]
      <4>1. SUFFICES ASSUME NEW k \in 0 .. n - 1, NEW l \in 0 .. n - 1, k <= l
                     PROVE  less[k] <= less[l]
        OBVIOUS
      <4>2. k + 1 <= l + 1
        BY <2>5, <4>1
      <4>3. ends[k + 1] <= ends[l + 1]
        BY <2>7, <3>1, <4>2
      <4>4. /\ ends[k + 1] \in Nat /\ ends[l + 1] \in Nat /\ ends[1] \in Nat
            /\ less[k] = ends[k + 1] - ends[1] /\ less[l] = ends[l + 1] - ends[1]
        BY <3>1, <3>2
      <4> QED BY <4>3, <4>4
    <3>5. AreEnds(less, rest)
      BY <2>15, <3>2, <3>3, <3>4 DEF AreEnds
    <3>6. (u - 1) + w = s + less[n - 1] /\ u - 1 \in Nat /\ (u - 1) + w <= bufsize
      <4>1. n - 1 \in 0 .. n - 1 /\ (n - 1) + 1 = n
        BY <2>5, <2>10
      <4>2. less[n - 1] = ends[n] - (1 + s) /\ ends[n] \in Nat
        BY <2>13, <3>1, <3>2, <4>1
      <4> QED BY <2>8, <2>9, <2>12, <4>2, VideoAssumption
    <3>7. used' = u - 1 /\ Writing' = w
      BY <2>1, <2>2, <2>8 DEF Header
    <3>8. Writing' # 0 => rest # << >> /\ rest[Len(rest)].size = Writing'
      <4>1. SUFFICES ASSUME w # 0 PROVE rest # << >> /\ rest[Len(rest)].size = w
        BY <3>7
      <4>2. ring[n].size = w
        BY <2>5, <2>8, <4>1 DEF ShareInv, BytesInv
      <4>3. n - 1 \in 1 .. n - 1 /\ (n - 1) + 1 = n
        BY <2>5, <2>14, <4>1
      <4>4. rest[n - 1] = ring[n]
        BY <2>15, <4>3
      <4> QED BY <2>15, <4>2, <4>3, <4>4
    <3>9. \E e : AreEnds(e, rest) /\ used' + Writing' = Reading' + e[Len(rest)]
      BY <2>15, <2>17, <3>5, <3>6, <3>7
    <3> QED BY <2>15, <3>6, <3>7, <3>8, <3>9 DEF BytesInv
  <2>19. SequenceInv'
    <3>0. SUFFICES ASSUME InSequence PROVE InSequence'
      BY <2>2 DEF resetVars, ShareInv, SequenceInv
    <3>1. PICK t, r, c, p \in Nat : IsBetween(t, r, c, p)
      BY <3>0 DEF InSequence
    <3>2. \A k, l \in 1 .. n : k <= l => ring[k].frame <= ring[l].frame
      BY <2>5, <3>0 DEF InSequence, RingInOrder
    <3>3. \A k \in 1 .. n : t <= ring[k].frame /\ ring[k].frame <= r /\ f <= ring[k].frame
      <4>1. TAKE k \in 1 .. n
      <4>2. ring[k].frame \in InRing
        BY <2>5 DEF InRing
      <4>3. 1 \in 1 .. n /\ 1 <= k
        BY <2>5, <2>10
      <4>4. f <= ring[k].frame
        BY <2>11, <2>12, <3>2, <4>3
      <4> QED BY <3>1, <4>2, <4>4 DEF IsBetween, Within
    <3>4. t <= f /\ f <= r
      <4>1. 1 \in 1 .. n
        BY <2>5, <2>10
      <4> QED BY <2>11, <2>12, <3>3, <4>1
    <3>5. \A k \in 1 .. n - 1 : k + 1 \in 1 .. n
      BY <2>5
    <3>6. RingInOrder'
      <4>1. SUFFICES ASSUME NEW k \in 1 .. n - 1, NEW l \in 1 .. n - 1, k <= l
                     PROVE  rest[k].frame <= rest[l].frame
        BY <2>15 DEF RingInOrder
      <4>2. k + 1 <= l + 1
        BY <2>5, <4>1
      <4> QED BY <2>15, <3>2, <3>5, <4>2
    <3>7. Within(f, InRing', r)
      <4>1. SUFFICES ASSUME NEW k \in 1 .. n - 1
                     PROVE  f <= rest[k].frame /\ rest[k].frame <= r
        BY <2>15 DEF Within, InRing
      <4> QED BY <2>15, <3>3, <3>5
    <3>8. sent <= f /\ sent \in Nat
      BY <2>12, <3>0, <3>1, <3>4 DEF IsBetween, InSequence
    <3>9. Within(sent', InTransmitter', f)
      BY <1>0, <2>12, <2>17, <3>8 DEF Within
    <3>10. InPool' = InPool /\ PoolInOrder' /\ captured' = captured
      BY <2>2, <3>0 DEF resetVars, Asked, InPool, Pooled, InSequence, PoolInOrder, slotVars, poolVars
    <3>11. \A v : v = f => IsBetween(v, r, c, p)'
      BY <1>0, <2>2, <3>1, <3>4, <3>7, <3>8, <3>9, <3>10 DEF IsBetween
    <3>12. \E v, w1, x, y \in Nat : IsBetween(v, w1, x, y)'
      BY <2>12, <3>1, <3>11
    <3> QED BY <1>0, <3>6, <3>8, <3>10, <3>12 DEF InSequence
  <2> QED BY <2>2, <2>3, <2>17, <2>18, <2>19 DEF ShareInv
<1> QED BY <1>1, <1>2

(* resetSendFlag asks the compressor to stop before it does anything else. *)
LEMMA ResetKeepsShare ==
  ASSUME ShareInv, resetSendFlag
  PROVE  ShareInv'
<1>1. /\ UNCHANGED <<slotVars, hook, mSocketFd, ringVars, sent>>
      /\ compressor' \in {compressor, Signalled(compressor)}
      /\ transmitter' \in {transmitter, Signalled(transmitter)}
  BY DEF resetSendFlag, stop_threads, ResetStep
<1>2. /\ exitPending' \in [compressor: BOOLEAN, transmitter: BOOLEAN]
      /\ reset' # "none" /\ (exitLost => exitLost')
      /\ exitPending.compressor => exitPending'.compressor
      /\ exitPending' = exitPending
           \/ /\ reset' = "compressor" /\ exitPending'.compressor
              /\ ~exitLost' => compressor.at # "off"
           \/ /\ reset # "none" /\ exitPending'.compressor = exitPending.compressor
  <2>1. exitPending \in [compressor: BOOLEAN, transmitter: BOOLEAN]
    BY DEF ShareInv, StopInv
  <2>2. CASE exitPending' = [exitPending EXCEPT !.compressor = TRUE] /\ reset' = "compressor"
             /\ exitLost' = (exitLost \/ compressor.at = "off")
    BY <2>1, <2>2
  <2>3. CASE reset = "compressor" /\ exitPending' = [exitPending EXCEPT !.transmitter = TRUE]
             /\ reset' = "transmitter" /\ exitLost' = exitLost
    BY <2>1, <2>3
  <2>4. CASE reset # "none" /\ exitPending' = exitPending /\ reset' # "none"
             /\ exitLost' = exitLost
    BY <2>1, <2>4
  <2> QED BY <2>2, <2>3, <2>4 DEF resetSendFlag, stop_threads, ResetStep
<1>3. OwnershipInv'
  BY OthersKeepOwnership DEF ShareInv
<1>4. /\ CompressorShape' /\ InHand' = InHand /\ InCompressor' = InCompressor
      /\ Writing' = Writing
      /\ compressor'.at \in Processing => compressor.at \in Processing
  BY <1>1, WokenCompressor DEF ShareInv
<1>5. TransmitterShape' /\ InTransmitter' = InTransmitter /\ Reading' = Reading
  BY <1>1, WokenTransmitter DEF ShareInv
<1>6. compressor'.at = compressor.at \/ (compressor.at = "waiting" /\ compressor'.at = "woken")
  BY <1>1, SignalledFacts
<1>7. Asked'
  <2>1. SUFFICES ASSUME ~exitLost PROVE Asked'
    BY <1>2 DEF Asked
  <2>2. Asked <=> reset # "none"
    BY <2>1 DEF ShareInv, StopInv
  <2>3. CASE reset = "none"
    <3>1. reset' = "compressor" /\ exitPending'.compressor
      <4>1. exitPending \in [compressor: BOOLEAN, transmitter: BOOLEAN]
        BY DEF ShareInv, StopInv
      <4> QED BY <2>3, <4>1 DEF resetSendFlag, stop_threads, ResetStep
    <3> QED BY <3>1 DEF Asked
  <2>4. CASE reset # "none"
    BY <1>2, <2>1, <2>2, <2>4 DEF Asked
  <2> QED BY <2>3, <2>4
<1>8. StopInv'
  <2>1. SUFFICES ASSUME ~exitLost', ~exitLost
                 PROVE  /\ compressor'.at # "off"
                        /\ compressor'.at \in Processing =>
                             mYUV' /\ reset' \in {"none", "compressor", "transmitter"}
                        /\ planes' \in {"null", "frame"}
                        /\ compressor'.at = "compressing" => planes' = "frame"
    <3>1. exitLost' = TRUE \/ exitLost' = exitLost \/ exitLost' \in BOOLEAN
      BY DEF resetSendFlag, stop_threads, ResetStep
    <3> QED BY <1>2, <1>7 DEF StopInv, Asked
  <2>2. /\ Asked <=> reset # "none"
        /\ Asked => compressor.at # "off"
        /\ compressor.at \in Processing => mYUV /\ reset \in {"none", "compressor", "transmitter"}
        /\ planes \in {"null", "frame"}
        /\ compressor.at = "compressing" => planes = "frame"
    BY <2>1 DEF ShareInv, StopInv
  <2>3. compressor'.at # "off"
    BY <1>2, <1>6, <2>1, <2>2 DEF resetSendFlag, stop_threads, ResetStep
  <2>4. mCompressLockFree => compressor.at \notin Processing
    BY DEF mCompressLockFree, Processing
  <2>5. compressor'.at \in Processing =>
          mYUV' /\ reset' \in {"none", "compressor", "transmitter"}
    BY <1>4, <2>2, <2>4 DEF resetSendFlag, stop_threads, ResetStep, poolVars
  <2>6. /\ planes' \in {"null", "frame"}
        /\ compressor'.at = "compressing" => planes' = "frame"
    <3>1. CASE planes' = planes
      BY <1>6, <2>2, <3>1
    <3>2. CASE reset = "wakeTransmitter" /\ planes' = "null"
      <4>1. compressor.at \notin Processing
        BY <2>2, <3>2
      <4> QED BY <1>6, <3>2, <4>1 DEF Processing
    <3> QED BY <3>1, <3>2 DEF resetSendFlag, stop_threads, ResetStep, poolVars
  <2> QED BY <2>3, <2>5, <2>6
<1>9. PlacesInv'
  BY <1>7 DEF PlacesInv
<1>10. BytesInv'
  BY <1>1, <1>4, <1>5, BytesKept DEF ShareInv, ringVars
<1>11. Signalling' = Signalling /\ AtHook' = AtHook
  BY <1>1 DEF Signalling, AtHook, slotVars
<1>12. SequenceInv'
  BY <1>1, <1>2, <1>4, <1>5, <1>7, <1>11, SequenceKept, FrameNumbers DEF ShareInv, slotVars, ringVars
<1> QED BY <1>3, <1>4, <1>5, <1>8, <1>9, <1>10, <1>12 DEF ShareInv

LEMMA ShareInit ==
  ASSUME VideoInit
  PROVE  ShareInv
<1>1. OwnershipInv
  BY Arithmetic, AtPlaces, VideoAssumption DEF VideoInit, OwnershipInv, PoolHoldsIds, HookOwnsWritable,
     SignalHasId, CompressorOwnsReadable, ReadableIsWhole, NoTornFrame, Processing, Frames, Ids
<1>2. /\ compressor.at = "off" /\ transmitter.at = "off" /\ \A q \in Hooks : hook[q].at = "new"
      /\ index_pool = << >> /\ mSendBuffer = << >> /\ used = 0 /\ sent = 0 /\ captured = 0
      /\ reset = "none" /\ ~exitLost /\ planes = "null"
      /\ exitPending = [compressor |-> FALSE, transmitter |-> FALSE]
      /\ mMemoryStates = [i \in Ids |-> "can_write"]
  BY AtPlaces DEF VideoInit
<1>3. CompressorShape /\ TransmitterShape
  BY <1>2 DEF CompressorShape, TransmitterShape, Processing, Written, Transmitting
<1>4. StopInv /\ ~Asked
  BY <1>2 DEF resetVars, StopInv, Asked, Processing
<1>5. Pooled = {} /\ Signalling = {} /\ InHand = {} /\ InRing = {} /\ AtHook = {}
  BY <1>2 DEF Pooled, Signalling, InHand, InRing, AtHook, Processing
<1>6. /\ InPool = {} /\ InCompressor = {} /\ InTransmitter = {} /\ Writing = 0 /\ Reading = 0
  BY <1>2, <1>5 DEF InPool, InCompressor, InTransmitter, Writing, Reading, Processing, Transmitting
<1>7. PlacesInv
  BY <1>2, <1>5 DEF resetVars, PlacesInv
<1>8. BytesInv
  <2> DEFINE ends == [k \in 0 .. 0 |-> 0]
  <2>1. Len(mSendBuffer) = 0 /\ mSendBuffer \in Seq(Frame)
    BY <1>2
  <2>2. AreEnds(ends, mSendBuffer) /\ used + Writing = Reading + ends[Len(mSendBuffer)]
    BY <1>2, <1>6, <2>1 DEF AreEnds
  <2>3. used + Writing <= bufsize /\ used \in Nat
    BY <1>2, <1>6, VideoAssumption
  <2> QED BY <1>6, <2>1, <2>2, <2>3 DEF BytesInv
<1>9. SequenceInv
  <2>1. RingInOrder /\ PoolInOrder
    BY <1>2 DEF RingInOrder, PoolInOrder
  <2>2. \A z : z = 0 => IsBetween(z, z, z, z)
    BY <1>2, <1>5, <1>6 DEF IsBetween, Within
  <2>3. \E t, r, c, p \in Nat : IsBetween(t, r, c, p)
    BY <2>2
  <2> QED BY <1>2, <2>1, <2>3 DEF InSequence, SequenceInv
<1> QED BY <1>1, <1>3, <1>4, <1>7, <1>8, <1>9 DEF ShareInv

(* The invariant and the order of what is sent, step by step.              *)
LEMMA ShareStep ==
  ASSUME OneHook, ShareInv, OffInv, VideoNext
  PROVE  ShareInv' /\ (exitLost \/ sent' >= sent)
<1>1. CASE sent' = sent /\ ShareInv'
  BY <1>1 DEF ShareInv, SequenceInv, InSequence
<1>2. CASE \E q \in Hooks : HookStep(q)
  <2>1. PICK q \in Hooks : HookStep(q)
    BY <1>2
  <2>2. ShareInv'
    BY <2>1, ConnectKeepsShare, GetKeepsShare, PublishKeepsShare, NewDataKeepsShare,
       BufferFullKeepsShare DEF HookStep
  <2>3. sent' = sent
    BY <2>1 DEF HookStep, getVideoShare, setUpSlaveIp, start_threads, getCanWriteID, publish,
       signalNewData, signalBufferFull
  <2> QED BY <1>1, <2>2, <2>3
<1>3. CASE CompressorStep
  <2>1. ShareInv'
    BY <1>3, TopKeepsShare, TurnKeepsShare, CompressKeepsShare, RoomKeepsShare,
       PayloadKeepsShare, TellKeepsShare DEF CompressorStep
  <2>2. sent' = sent
    BY <1>3 DEF CompressorStep, compressorTop, compressorTurn, compressToJPEG, compressorRoom,
       compressorPayload, signalDataTransmitor, Compress
  <2> QED BY <1>1, <2>1, <2>2
<1>4. CASE transmitterTop \/ transmitterDrain \/ transmitterPayload
  <2>1. ShareInv'
    BY <1>4, TransmitterTopKeepsShare, DrainKeepsShare, ReadKeepsShare
  <2>2. sent' = sent
    BY <1>4 DEF transmitterTop, transmitterDrain, transmitterPayload
  <2> QED BY <1>1, <2>1, <2>2
<1>5. CASE sendData
  <2>1. ShareInv' /\ (exitLost \/ sent <= sent')
    BY <1>5, SendKeepsShare
  <2>2. exitLost' = exitLost
    BY <1>5 DEF sendData, Transmit, resetVars
  <2>3. exitLost \/ (sent \in Nat /\ sent' \in Nat)
    BY <2>1, <2>2 DEF ShareInv, SequenceInv, InSequence
  <2> QED BY <2>1, <2>3
<1>6. CASE resetSendFlag
  <2>1. sent' = sent
    BY <1>6 DEF resetSendFlag, stop_threads, ResetStep
  <2> QED BY <1>1, <1>6, <2>1, ResetKeepsShare
<1> QED BY <1>2, <1>3, <1>4, <1>5, <1>6 DEF VideoNext, TransmitterStep

LEMMA ShareStutters ==
  ASSUME ShareInv, UNCHANGED videoVars
  PROVE  ShareInv' /\ (exitLost \/ sent' >= sent)
<1>1. /\ UNCHANGED <<mMemoryStates, mBuffer, captured, hook, mSocketFd, index_pool, mYUV, planes,
                     compressor, transmitter, exitPending, mSendBuffer, used, sent, reset,
                     exitLost>>
  BY DEF videoVars, slotVars, poolVars, ringVars, resetVars
<1>2. OwnershipInv'
  BY <1>1 DEF ShareInv, OwnershipInv, PoolHoldsIds, HookOwnsWritable, SignalHasId,
     CompressorOwnsReadable, ReadableIsWhole, NoTornFrame
<1>3. /\ CompressorShape' /\ TransmitterShape' /\ StopInv' /\ Asked' = Asked
      /\ InHand' = InHand /\ Signalling' = Signalling /\ AtHook' = AtHook
      /\ Writing' = Writing /\ Reading' = Reading
      /\ InCompressor' = InCompressor /\ InTransmitter' = InTransmitter
  BY <1>1 DEF ShareInv, CompressorShape, TransmitterShape, StopInv, Asked, InHand, Signalling,
     AtHook, Writing, Reading, InCompressor, InTransmitter
<1>4. PlacesInv' /\ BytesInv'
  BY <1>1, <1>3, PlacesKept, BytesKept DEF ShareInv
<1>5. SequenceInv'
  BY <1>1, <1>3, SequenceKept, FrameNumbers DEF ShareInv
<1>6. exitLost \/ sent' >= sent
  BY <1>1 DEF ShareInv, SequenceInv, InSequence
<1> QED BY <1>2, <1>3, <1>4, <1>5, <1>6 DEF ShareInv

(* Only a connect starts the threads, and then its hook is past it.        *)
LEMMA OffStep ==
  ASSUME OneHook, DOMAIN hook = Hooks, OffInv, [VideoNext]_videoVars
  PROVE  OffInv'
<1>1. ASSUME hook' = hook,
             compressor.at = "off" => compressor'.at = "off",
             transmitter.at = "off" => transmitter'.at = "off"
      PROVE  OffInv'
  BY <1>1 DEF OffInv
<1>2. CASE \E q \in Hooks : HookStep(q)
  <2>1. PICK q \in Hooks : HookStep(q)
    BY <1>2
  <2>2. \A h \in Hooks : h = q
    BY DEF OneHook
  <2>3. CASE getVideoShare(q) \/ setUpSlaveIp(q) \/ start_threads(q)
    BY <2>2, <2>3, AtPlaces DEF OffInv, getVideoShare, setUpSlaveIp, start_threads
  <2>4. CASE getCanWriteID(q) \/ publish(q) \/ signalNewData(q) \/ signalBufferFull(q)
    <3>1. hook'[q].at \notin {"new", "connecting", "starting"}
      BY <2>4, AtPlaces DEF getCanWriteID, publish, signalNewData, signalBufferFull
    <3> QED BY <2>2, <3>1 DEF OffInv
  <2> QED BY <2>1, <2>3, <2>4 DEF HookStep
<1>3. CASE CompressorStep
  <2>1. compressor.at # "off" /\ hook' = hook
    BY <1>3 DEF CompressorStep, compressorTop, compressorTurn, compressToJPEG, compressorRoom,
       compressorPayload, signalDataTransmitor, Compress
  <2>2. transmitter.at = "off" => transmitter'.at = "off"
    BY <1>3, SignalledFacts DEF CompressorStep, compressorTop, compressorTurn, compressToJPEG,
       compressorRoom, compressorPayload, signalDataTransmitor
  <2> QED BY <1>1, <2>1, <2>2
<1>4. CASE TransmitterStep
  BY <1>1, <1>4 DEF TransmitterStep, transmitterTop, transmitterDrain, transmitterPayload,
     sendData, Transmit
<1>5. CASE resetSendFlag
  BY <1>1, <1>5, SignalledFacts DEF resetSendFlag, stop_threads, ResetStep
<1>6. CASE UNCHANGED videoVars
  BY <1>1, <1>6 DEF videoVars
<1> QED BY <1>2, <1>3, <1>4, <1>5, <1>6 DEF VideoNext

(* A slot that can be read is not forgotten, whatever a reset puts into    *)
(* the pool.                                                               *)
LEMMA PendingKept ==
  ASSUME PendingInv, Heeds' => Heeds,
         Heeds' => \A i \in Ids : mMemoryStates'[i] = "can_read" =>
                     mMemoryStates[i] = "can_read" \/ i \in Signalling',
         Heeds' => \A i \in InHand \union Pooled \union Signalling :
                     \/ i \in InHand' \union Pooled' \union Signalling'
                     \/ mMemoryStates'[i] = "can_write"
  PROVE  PendingInv'
  BY DEF PendingInv

LEMMA HookKeepsPending ==
  ASSUME OneHook, OwnershipInv, StopInv, OffInv, PendingInv, NEW q \in Hooks, HookStep(q)
  PROVE  PendingInv'
<1>1. DOMAIN hook = Hooks /\ (\A h \in Hooks : h = q) /\ index_pool \in Seq(Ids)
      /\ mMemoryStates \in [Ids -> {"can_read", "can_write"}]
  BY DEF OneHook, OwnershipInv, PoolHoldsIds
<1>2. InHand' = InHand
  <2>1. \/ compressor' = compressor
        \/ compressor'.at = "woken" /\ compressor.at = "waiting"
        \/ compressor.at = "off" /\ compressor'.at = "top"
    <3>1. CASE setUpSlaveIp(q)
      BY <3>1, AtPlaces DEF setUpSlaveIp, OffInv
    <3>2. CASE ~setUpSlaveIp(q)
      <4>1. compressor' = compressor \/ compressor' = Signalled(compressor)
        BY <3>2 DEF HookStep, getVideoShare, start_threads, getCanWriteID, publish,
           signalNewData, signalBufferFull
      <4> QED BY <4>1, SignalledFacts
    <3> QED BY <3>1, <3>2
  <2> QED BY <2>1 DEF InHand, Processing
<1>3. Heeds' => Heeds
  <2>1. CASE setUpSlaveIp(q)
    BY <2>1 DEF Heeds, setUpSlaveIp, OffInv
  <2>2. CASE ~setUpSlaveIp(q)
    <3>1. exitPending' = exitPending \/ exitPending' = [exitPending EXCEPT !.transmitter = FALSE]
      BY <2>2 DEF HookStep, getVideoShare, start_threads, getCanWriteID, publish, signalNewData,
         signalBufferFull
    <3>2. exitPending'.compressor = exitPending.compressor
      BY <3>1 DEF StopInv
    <3>3. compressor' = compressor \/ compressor' = Signalled(compressor)
      BY <2>2 DEF HookStep, getVideoShare, start_threads, getCanWriteID, publish, signalNewData,
         signalBufferFull
    <3> QED BY <3>2, <3>3, SignalledFacts DEF Heeds
  <2> QED BY <2>1, <2>2
<1>4. CASE publish(q)
  <2>1. /\ hook[q].at = "copying" /\ hook[q].id \in Ids
        /\ mMemoryStates' = [mMemoryStates EXCEPT ![hook[q].id] = "can_read"]
        /\ hook' = [hook EXCEPT ![q] = [at |-> "signal", id |-> hook[q].id]]
        /\ index_pool' = index_pool
    BY <1>4 DEF publish, poolVars, OwnershipInv, HookOwnsWritable
  <2>2. Signalling = {} /\ hook[q].id \in Signalling' /\ Pooled' = Pooled
    BY <1>1, <2>1 DEF Signalling, Pooled
  <2> QED BY <1>1, <1>2, <1>3, <2>1, <2>2, PendingKept
<1>5. CASE signalNewData(q)
  <2>1. /\ hook[q].at = "signal" /\ hook[q].id \in Ids
        /\ mMemoryStates' = mMemoryStates /\ index_pool' = Append(index_pool, hook[q].id)
    BY <1>5 DEF signalNewData, slotVars, OwnershipInv, SignalHasId
  <2>2. Signalling = {hook[q].id}
    BY <1>1, <2>1 DEF Signalling
  <2>3. Pooled' = Pooled \union {hook[q].id}
    <3>1. /\ Len(index_pool') = Len(index_pool) + 1 /\ Len(index_pool) \in Nat
          /\ index_pool'[Len(index_pool) + 1] = hook[q].id
          /\ \A k \in 1 .. Len(index_pool) : index_pool'[k] = index_pool[k]
      BY <1>1, <2>1
    <3> QED BY <3>1 DEF Pooled
  <2> QED BY <1>2, <1>3, <2>1, <2>2, <2>3, PendingKept
<1>6. CASE ~publish(q) /\ ~signalNewData(q)
  <2>1. /\ hook[q].at # "signal" /\ mMemoryStates' = mMemoryStates /\ index_pool' = index_pool
    BY <1>6 DEF HookStep, getVideoShare, setUpSlaveIp, start_threads, getCanWriteID,
       signalBufferFull, slotVars, poolVars
  <2>2. Signalling = {} /\ Pooled' = Pooled
    BY <1>1, <2>1 DEF Signalling, Pooled
  <2> QED BY <1>2, <1>3, <2>1, <2>2, PendingKept
<1> QED BY <1>4, <1>5, <1>6

(* The compressor takes a slot from the pool into its hands, and puts one  *)
(* back that can be written again.                                         *)
LEMMA CompressorKeepsPending ==
  ASSUME OwnershipInv, CompressorShape, PendingInv, CompressorStep
  PROVE  PendingInv'
<1> DEFINE
  Same == mMemoryStates' = mMemoryStates /\ index_pool' = index_pool
  Gives == /\ mMemoryStates' = [mMemoryStates EXCEPT ![compressor.id] = "can_write"]
           /\ index_pool' = index_pool
<1>1. /\ Signalling' = Signalling /\ exitPending' = exitPending /\ compressor.at # "off"
      /\ mMemoryStates \in [Ids -> {"can_read", "can_write"}] /\ index_pool \in Seq(Ids)
  BY DEF CompressorStep, compressorTop, compressorTurn, compressToJPEG, compressorRoom,
     compressorPayload, signalDataTransmitor, Compress, Signalling, OwnershipInv, PoolHoldsIds
<1>2. CASE exitPending.compressor
  <2>1. compressor'.at # "off"
    <3>1. CASE compressorTop \/ compressorTurn \/ compressToJPEG
      BY <3>1, AtPlaces DEF compressorTop, compressorTurn, compressToJPEG, Compress
    <3>2. CASE compressorRoom
      BY <1>2, <3>2, AtPlaces DEF compressorRoom, Compress
    <3>3. CASE compressorPayload
      BY <3>3, SameFrame DEF compressorPayload, Compress, Written
    <3>4. CASE signalDataTransmitor
      BY <3>4, SameFrame, AtPlaces DEF signalDataTransmitor, Compress, Written
    <3> QED BY <3>1, <3>2, <3>3, <3>4 DEF CompressorStep
  <2> QED BY <1>1, <1>2, <2>1 DEF PendingInv, Heeds
<1>3. CASE ~exitPending.compressor
  <2>1. Heeds
    BY <1>3 DEF Heeds
  <2>2. ASSUME Same, InHand' = InHand PROVE PendingInv'
    BY <1>1, <2>1, <2>2, PendingKept DEF Pooled
  <2>3. ASSUME Gives, compressor.at \in Processing PROVE PendingInv'
    <3>1. compressor.id \in Ids /\ InHand = {compressor.id} /\ Pooled' = Pooled
      BY <2>3 DEF InHand, OwnershipInv, CompressorOwnsReadable, Pooled
    <3> QED BY <1>1, <2>1, <2>3, <3>1, PendingKept
  <2>4. CASE compressorTop
    BY <2>2, <2>4, AtPlaces DEF compressorTop, Compress, InHand, Processing
  <2>5. CASE compressorTurn
    <3>1. CASE index_pool = << >>
      BY <2>2, <2>5, <3>1, AtPlaces DEF compressorTurn, Compress, InHand, Processing
    <3>2. CASE index_pool # << >>
      <4> DEFINE i == index_pool[1]
      <4>1. /\ compressor.at = "turn" /\ mMemoryStates' = mMemoryStates
            /\ index_pool' = Tail(index_pool)
            /\ compressor' = IF mMemoryStates[i] = "can_read"
                             THEN [at |-> "compressing", id |-> i, frame |-> mBuffer[i]]
                             ELSE VideoAt("turn")
        <5>1. Head(index_pool) = i
          BY <1>1, <3>2
        <5> QED BY <1>3, <2>5, <3>2, <5>1 DEF compressorTurn, Compress, ExitsTurn
      <4>2. /\ Len(index_pool) \in Nat \ {0} /\ Len(index_pool') = Len(index_pool) - 1
            /\ \A k \in 1 .. Len(index_pool') : index_pool'[k] = index_pool[k + 1]
            /\ i \in Ids
        BY <1>1, <3>2, <4>1
      <4> HIDE DEF i
      <4>3. Pooled \subseteq Pooled' \union {i}
        <5>1. SUFFICES ASSUME NEW k \in 1 .. Len(index_pool)
                       PROVE  index_pool[k] \in Pooled' \union {i}
          BY DEF Pooled
        <5>2. CASE k = 1
          BY <5>2 DEF i
        <5>3. CASE k # 1
          <6>1. k - 1 \in 1 .. Len(index_pool') /\ (k - 1) + 1 = k
            BY <4>2, <5>1, <5>3
          <6>2. index_pool'[k - 1] = index_pool[k]
            BY <4>2, <6>1
          <6> QED BY <6>1, <6>2 DEF Pooled
        <5> QED BY <5>2, <5>3
      <4>4. InHand = {}
        BY <4>1 DEF InHand, Processing
      <4>5. mMemoryStates[i] = "can_read" => InHand' = {i}
        BY <4>1 DEF InHand, Processing
      <4>6. mMemoryStates'[i] \in {"can_read", "can_write"}
        BY <1>1, <4>1, <4>2
      <4> QED BY <1>1, <2>1, <4>1, <4>3, <4>4, <4>5, <4>6, PendingKept
    <3> QED BY <3>1, <3>2
  <2>6. CASE compressToJPEG
    <3>1. compressor.at \in Processing /\ index_pool' = index_pool
      BY <2>6 DEF compressToJPEG, Processing
    <3>2. CASE mMemoryStates' = [mMemoryStates EXCEPT ![compressor.id] = "can_write"]
      BY <2>3, <3>1, <3>2
    <3>3. CASE /\ mMemoryStates' = mMemoryStates
               /\ compressor'.at = "room" /\ compressor'.id = compressor.id
      BY <2>2, <3>1, <3>3 DEF InHand, Processing
    <3> QED BY <2>6, <3>2, <3>3 DEF compressToJPEG, Compress
  <2>7. ASSUME compressor.at \in Written, Same, NEW place, place \in Written,
               compressor' = [compressor EXCEPT !.at = place]
        PROVE  PendingInv'
    <3>1. /\ compressor'.at = place /\ compressor'.id = compressor.id
          /\ compressor.at \in Processing /\ compressor'.at \in Processing
      BY <2>7, SameFrame DEF Written, Processing
    <3> QED BY <2>2, <2>7, <3>1 DEF InHand
  <2>8. CASE compressorRoom \/ compressorPayload
    BY <1>3, <2>7, <2>8 DEF compressorRoom, compressorPayload, Compress, Written
  <2>9. CASE signalDataTransmitor
    <3>1. CASE compressor.at = "nudge"
      BY <2>7, <2>9, <3>1 DEF signalDataTransmitor, Compress, Written
    <3>2. CASE compressor.at # "nudge"
      BY <2>3, <2>9, <3>2 DEF signalDataTransmitor, Processing
    <3> QED BY <3>1, <3>2
  <2> QED BY <2>4, <2>5, <2>6, <2>8, <2>9 DEF CompressorStep
<1> QED BY <1>2, <1>3

LEMMA PendingStep ==
  ASSUME OneHook, ShareInv, OffInv, PendingInv, [VideoNext]_videoVars
  PROVE  PendingInv'
<1>1. CASE \E q \in Hooks : HookStep(q)
  BY <1>1, HookKeepsPending DEF ShareInv
<1>2. CASE CompressorStep
  BY <1>2, CompressorKeepsPending DEF ShareInv
<1>3. CASE TransmitterStep \/ UNCHANGED videoVars
  <2>1. UNCHANGED <<mMemoryStates, hook, index_pool, compressor, exitPending>>
    BY <1>3 DEF TransmitterStep, transmitterTop, transmitterDrain, transmitterPayload,
       sendData, Transmit, videoVars, slotVars, poolVars
  <2> QED BY <2>1 DEF PendingInv, Heeds, InHand, Pooled, Signalling
<1>4. CASE resetSendFlag
  <2>1. /\ mMemoryStates' = mMemoryStates /\ hook' = hook
        /\ compressor' \in {compressor, Signalled(compressor)}
        /\ index_pool' = index_pool \/ index_pool' = Append(index_pool, ResetIndex)
    BY <1>4 DEF resetSendFlag, stop_threads, ResetStep, slotVars, poolVars
  <2>2. InHand' = InHand /\ Signalling' = Signalling
    BY <2>1, WokenCompressor DEF ShareInv, Signalling
  <2>3. Heeds' => Heeds
    <3>1. exitPending.compressor => exitPending'.compressor
      BY <1>4 DEF resetSendFlag, stop_threads, ResetStep, ShareInv, StopInv
    <3> QED BY <2>1, <3>1, SignalledFacts DEF Heeds
  <2>4. Pooled \subseteq Pooled'
    <3>1. index_pool \in Seq(Ids)
      BY DEF ShareInv, OwnershipInv, PoolHoldsIds
    <3>2. ASSUME index_pool' = Append(index_pool, ResetIndex) PROVE Pooled \subseteq Pooled'
      <4>1. /\ Len(index_pool') = Len(index_pool) + 1 /\ Len(index_pool) \in Nat
            /\ \A k \in 1 .. Len(index_pool) : index_pool'[k] = index_pool[k]
        BY <3>1, <3>2
      <4> QED BY <4>1 DEF Pooled
    <3> QED BY <2>1, <3>2 DEF Pooled
  <2> QED BY <2>1, <2>2, <2>3, <2>4, PendingKept
<1> QED BY <1>1, <1>2, <1>3, <1>4 DEF VideoNext

(* A hook that signals has nothing but its slot.                           *)
SignalShape ==
  /\ DOMAIN hook = Hooks
  /\ \A q \in Hooks : hook[q].at = "signal" => hook[q] = [at |-> "signal", id |-> hook[q].id]

LEMMA SignalShapeStep ==
  ASSUME SignalShape, [VideoNext]_videoVars
  PROVE  SignalShape'
<1>1. CASE hook' = hook
  BY <1>1 DEF SignalShape
<1>2. ASSUME NEW q \in Hooks, NEW next, hook' = [hook EXCEPT ![q] = next],
             next.at = "signal" => next = [at |-> "signal", id |-> next.id]
      PROVE  SignalShape'
  BY <1>2 DEF SignalShape
<1>3. CASE \E q \in Hooks : HookStep(q)
  <2>1. PICK q \in Hooks : HookStep(q)
    BY <1>3
  <2>2. CASE getCanWriteID(q)
    <3>1. CASE Writable = {}
      BY <1>2, <2>2, <3>1, AtPlaces DEF getCanWriteID
    <3>2. CASE Writable # {}
      <4>1. PICK i \in Writable :
              hook' = [hook EXCEPT ![q] = [at |-> "copying", id |-> i, frame |-> captured']]
        BY <2>2, <3>2 DEF getCanWriteID
      <4> QED BY <1>2, <4>1
    <3> QED BY <3>1, <3>2
  <2>3. CASE publish(q)
    <3>1. hook' = [hook EXCEPT ![q] = [at |-> "signal", id |-> hook[q].id]]
      BY <2>3 DEF publish
    <3> QED BY <1>2, <3>1
  <2>4. CASE signalNewData(q) \/ signalBufferFull(q)
    <3>1. hook' = [hook EXCEPT ![q] = VideoAt("idle")]
      BY <2>4 DEF signalNewData, signalBufferFull
    <3> QED BY <1>2, <3>1, AtPlaces
  <2>5. CASE getVideoShare(q) \/ setUpSlaveIp(q) \/ start_threads(q)
    <3>1. \E place \in {"connecting", "starting", "idle"} :
            hook' = [hook EXCEPT ![q] = VideoAt(place)]
      BY <2>5 DEF getVideoShare, setUpSlaveIp, start_threads
    <3> QED BY <1>2, <3>1, AtPlaces
  <2> QED BY <2>1, <2>2, <2>3, <2>4, <2>5 DEF HookStep
<1>4. CASE CompressorStep \/ TransmitterStep \/ resetSendFlag
  <2>1. hook' = hook
    BY <1>4 DEF CompressorStep, compressorTop, compressorTurn, compressToJPEG,
       compressorRoom, compressorPayload, signalDataTransmitor, Compress, TransmitterStep,
       transmitterTop, transmitterDrain, transmitterPayload, sendData, Transmit, resetSendFlag,
       stop_threads, ResetStep
  <2> QED BY <1>1, <2>1
<1>5. CASE UNCHANGED videoVars
  BY <1>1, <1>5 DEF videoVars
<1> QED BY <1>3, <1>4, <1>5 DEF VideoNext

(* What the invariant means for the planes, the slots and the ring.        *)
LEMMA ShareFacts ==
  ASSUME ShareInv, SignalShape, PendingInv
  PROVE  CompressesIntoPlanes /\ ReadableSlotsArePending /\ RingHoldsWholeFrames
<1>1. CompressesIntoPlanes
  BY DEF ShareInv, StopInv, CompressesIntoPlanes, Processing
<1>2. ReadableSlotsArePending
  <2> DEFINE
    Placed(i) == \/ \E q \in Hooks : hook[q] = [at |-> "signal", id |-> i]
                 \/ \E k \in 1 .. Len(index_pool) : index_pool[k] = i
                 \/ compressor.at \in Processing /\ compressor.id = i
  <2>0. (~exitPending.compressor =>
           \A i \in Ids : mMemoryStates[i] = "can_read" => Placed(i))
          => ReadableSlotsArePending
    BY Zenon DEF ReadableSlotsArePending, Processing
  <2>1. SUFFICES ASSUME ~exitPending.compressor, NEW i \in Ids, mMemoryStates[i] = "can_read"
                 PROVE  Placed(i)
    BY <2>0
  <2>2. i \in InHand \union Pooled \union Signalling
    BY <2>1 DEF PendingInv, Heeds
  <2>3. CASE i \in InHand
    BY <2>3 DEF InHand
  <2>4. CASE i \in Pooled
    BY <2>4 DEF Pooled
  <2>5. CASE i \in Signalling
    BY <2>5 DEF Signalling, SignalShape
  <2> QED BY <2>2, <2>3, <2>4, <2>5
<1>3. RingHoldsWholeFrames
  <2>1. /\ used \in Nat /\ Writing \in Nat /\ used + Writing <= bufsize
        /\ mSendBuffer \in Seq(Frame)
    BY VideoAssumption DEF ShareInv, BytesInv, CompressorShape, Writing, Written, Processing
  <2>2. PICK u \in Nat, w \in Nat, n \in Nat : u = used /\ w = Writing /\ n = Len(mSendBuffer)
    <3>1. Len(mSendBuffer) \in Nat
      BY <2>1
    <3> QED BY <2>1, <3>1
  <2>3. u + w <= bufsize /\ u <= bufsize
    <3>1. u + w <= bufsize
      BY <2>1, <2>2
    <3> QED BY <2>2, <3>1, VideoAssumption
  <2>4. SUFFICES ASSUME transmitter.at = "payload" PROVE used >= transmitter.size
    BY <2>2, <2>3 DEF RingHoldsWholeFrames
  <2>5. Reading = transmitter.size /\ transmitter.size \in Nat
    BY <2>4 DEF Reading, ShareInv, TransmitterShape, Transmitting
  <2>6. PICK m \in Nat : m = transmitter.size
    BY <2>5
  <2>7. PICK ends : AreEnds(ends, mSendBuffer) /\ used + Writing = Reading + ends[Len(mSendBuffer)]
    BY DEF ShareInv, BytesInv
  <2>8. ends[n] \in Nat /\ u + w = m + ends[n]
    BY <2>1, <2>2, <2>5, <2>6, <2>7 DEF AreEnds
  <2>9. w <= ends[n]
    <3>1. CASE w = 0
      BY <2>8, <3>1
    <3>2. CASE w # 0
      <4>1. mSendBuffer # << >> /\ mSendBuffer[n].size = w
        BY <2>2, <3>2 DEF ShareInv, BytesInv
      <4>2. n \in 1 .. n /\ n - 1 \in 0 .. n
        BY <2>1, <2>2, <4>1
      <4>3. ends[n] = ends[n - 1] + Header + w /\ ends[n - 1] \in Nat
        BY <2>2, <2>7, <4>1, <4>2 DEF AreEnds
      <4> QED BY <2>2, <4>3 DEF Header
    <3> QED BY <3>1, <3>2
  <2>10. u >= m
    BY <2>2, <2>6, <2>8, <2>9
  <2> QED BY <2>2, <2>6, <2>10
<1> QED BY <1>1, <1>2, <1>3

(* With one hook, and however many resets, what is captured arrives: no    *)
(* slot that can be read is forgotten, the ring holds whole frames and,    *)
(* unless a reset asked the compressor to stop before it ran and so was    *)
(* forgotten, the planes are there for every frame that is compressed and  *)
(* the slave gets the frames in the order they were captured               *)
(* (VideoShare.cpp:252-276, 333-350, 370-520).                             *)
THEOREM CapturedArriveWhole ==
  ASSUME OneHook
  PROVE  VideoSpec => FramesArriveWhole
<1> DEFINE Inv == ShareInv /\ SignalShape /\ OffInv /\ PendingInv
           Good == CompressesIntoPlanes /\ ReadableSlotsArePending /\ RingHoldsWholeFrames
           Later == exitLost \/ sent' >= sent
<1>1. VideoInit => Inv
  <2>1. ASSUME VideoInit PROVE OffInv /\ PendingInv /\ SignalShape
    BY <2>1, AtPlaces DEF VideoInit, SignalShape, OffInv, PendingInv
  <2> QED BY <2>1, ShareInit
<1>2. Inv /\ [VideoNext]_videoVars => Inv' /\ Later
  <2>1. ASSUME Inv, [VideoNext]_videoVars PROVE Inv' /\ Later
    BY <2>1, ShareStep, ShareStutters, SignalShapeStep, OffStep, PendingStep DEF SignalShape
  <2> QED BY <2>1
<1>3. Inv => Good
  BY ShareFacts
<1>4. VideoSpec => []Good /\ [][Later]_videoVars
  <2> HIDE DEF Inv, Good, Later
  <2> QED BY <1>1, <1>2, <1>3, PTL DEF VideoSpec
<1> QED BY <1>4 DEF FramesArriveWhole, SentInOrder

-----------------------------------------------------------------------------
(***************************************************************************)
(* Theorems about StreamSplitter, for any number of outputs, buffers and   *)
(* frames in flight.                                                       *)
(*                                                                         *)
(* A buffer goes to all the outputs and comes back from each on its own    *)
(* thread, while outputs are abandoned or die. What keeps it from going    *)
(* back to the input early is a count: the releases of a buffer and the    *)
(* outputs that are busy with it are together at most the number of        *)
(* outputs.                                                                *)
(***************************************************************************)

(* Slots of an output, and the states of the thread that splits.           *)
SlotRecords ==
  [state: {"FREE", "DEQUEUED", "QUEUED", "ACQUIRED"},
   buffer: Buffers \union {NoBuffer}, frame: Nat]

(* The thread inside the loop over the outputs, and wherever it may be.    *)
SplittingStates ==
  [at: {"splitting"}, buffer: Buffers, next: Nat, slot: Slots \union {NoSlot}]
HandlerStates == [at: {"rest", "called", "waiting", "woken"}] \union SplittingStates

(* Types, and that only buffers of the input are tracked.                  *)
SplitTypeInv ==
  /\ input \in Seq(Buffers) /\ inputBuffers \subseteq Buffers
  /\ handler \in HandlerStates
  /\ mIsAbandoned \in BOOLEAN /\ mOutstandingBuffers \in Int
  /\ DOMAIN mBuffers \subseteq Buffers /\ IsFiniteSet(DOMAIN mBuffers)
  /\ mBuffers \in [DOMAIN mBuffers -> Nat]
  /\ slots \in [OutputSet -> [Slots -> SlotRecords]]
  /\ queues \in [OutputSet -> Seq(Slots)]
  /\ frameCounter \in [OutputSet -> Nat]
  /\ alive \subseteq OutputSet

(* A buffer is with the input, or queued to it, or tracked.                *)
BuffersAreApart ==
  /\ IsInjective(input)
  /\ inputBuffers \intersect ToSet(input) = {}
  /\ (inputBuffers \union ToSet(input)) \intersect DOMAIN mBuffers = {}

(* What an output holds is tracked.                                        *)
HeldAreTracked ==
  \A o \in OutputSet, s \in Slots :
    slots[o][s].buffer \in DOMAIN mBuffers \union {NoBuffer}

(* An output holds a buffer in one slot.                                   *)
HeldOnce ==
  \A o \in OutputSet, s, r \in Slots :
    slots[o][s].buffer = slots[o][r].buffer => s = r \/ slots[o][s].buffer = NoBuffer

(* An output that is gone holds nothing.                                   *)
DeadHoldNothing ==
  \A o \in OutputSet \ alive, s \in Slots : slots[o][s].buffer = NoBuffer

(* The buffer being split is tracked, and the outputs still to come have   *)
(* not got it.                                                             *)
SplitInOrder ==
  handler.at = "splitting" =>
    /\ handler.buffer \in DOMAIN mBuffers
    /\ handler.next \in 1 .. Len(Outputs) + 1
    /\ \A i \in handler.next .. Len(Outputs), s \in Slots :
         i > handler.next \/ handler.slot = NoSlot =>
           slots[Outputs[i]][s].buffer # handler.buffer

(* The outputs that hold a buffer or will be given it.                     *)
Busy(b) ==
  {i \in 1 .. Len(Outputs) :
     \/ \E s \in Slots : slots[Outputs[i]][s].buffer = b
     \/ handler.at = "splitting" /\ handler.buffer = b /\ handler.next <= i}

(* No more releases are counted than there are outputs done with it.       *)
ReleasesAreCounted ==
  \A b \in DOMAIN mBuffers : mBuffers[b] + Cardinality(Busy(b)) <= Len(Outputs)

(* What was acquired and not given back is what is tracked.                *)
OutstandingAreTracked ==
  ~mIsAbandoned => mOutstandingBuffers = Cardinality(DOMAIN mBuffers)

(* The inductive invariant of the splitter.                                *)
SplitInv ==
  /\ SplitTypeInv
  /\ BuffersAreApart /\ HeldAreTracked /\ HeldOnce /\ DeadHoldNothing
  /\ SplitInOrder
  /\ ReleasesAreCounted
  /\ OutstandingAreTracked

-----------------------------------------------------------------------------
(* A set of the first n numbers counts at most n, a part of it counts less *)
(* by what is missing.                                                     *)
LEMMA PartsCountLess ==
  ASSUME NEW n \in Nat, NEW A \in SUBSET (1 .. n), NEW B \in SUBSET A
  PROVE  /\ Cardinality(A) \in Nat /\ Cardinality(B) \in Nat
         /\ Cardinality(A) <= n /\ Cardinality(B) <= Cardinality(A)
         /\ \A x \in A \ B : Cardinality(B) + 1 <= Cardinality(A)
<1>1. IsFiniteSet(1 .. n) /\ Cardinality(1 .. n) = n
  BY FS_Interval
<1>2. IsFiniteSet(A) /\ Cardinality(A) <= n
  BY <1>1, FS_Subset
<1>3. IsFiniteSet(B) /\ Cardinality(B) <= Cardinality(A)
  BY <1>2, FS_Subset
<1>4. ASSUME NEW x \in A \ B PROVE Cardinality(B) + 1 <= Cardinality(A)
  <2>1. IsFiniteSet(A \ {x}) /\ Cardinality(A \ {x}) = Cardinality(A) - 1
    BY <1>2, FS_RemoveElement
  <2>2. B \in SUBSET (A \ {x})  OBVIOUS
  <2>3. Cardinality(B) <= Cardinality(A \ {x})  BY <2>1, <2>2, FS_Subset
  <2>4. Cardinality(A) \in Nat /\ Cardinality(B) \in Nat
    BY <1>2, <1>3, FS_CardinalityType
  <2> QED BY <2>1, <2>3, <2>4
<1> QED BY <1>2, <1>3, <1>4, FS_CardinalityType

(* The outputs by their numbers.                                           *)
LEMMA OutputFacts ==
  /\ Len(Outputs) \in Nat /\ DOMAIN Outputs = 1 .. Len(Outputs)
  /\ \A i \in 1 .. Len(Outputs) : Outputs[i] \in OutputSet
  /\ \A i, j \in 1 .. Len(Outputs) : Outputs[i] = Outputs[j] => i = j
  /\ \A o \in OutputSet : \E i \in 1 .. Len(Outputs) : Outputs[i] = o
  BY SplitterAssumption DEF OutputSet, ToSet, IsInjective

(* One queue of an output gets longer.                                     *)
LEMMA QueueLonger ==
  ASSUME NEW f \in [OutputSet -> Seq(Slots)], NEW o \in OutputSet, NEW s \in Slots,
         NEW g, g = [f EXCEPT ![o] = Append(@, s)]
  PROVE  g \in [OutputSet -> Seq(Slots)]
  OBVIOUS

(* One counter of an output goes on.                                       *)
LEMMA FrameCounted ==
  ASSUME NEW f \in [OutputSet -> Nat], NEW o \in OutputSet,
         NEW g, g = [f EXCEPT ![o] = @ + 1]
  PROVE  g \in [OutputSet -> Nat] /\ g[o] \in Nat
  OBVIOUS

(* The handler goes on to the next output.                                 *)
LEMMA HandlerMoved ==
  ASSUME NEW h \in SplittingStates, NEW g,
         g = [h EXCEPT !.next = @ + 1, !.slot = NoSlot]
  PROVE  /\ g \in HandlerStates
         /\ g.at = "splitting" /\ g.buffer = h.buffer /\ g.next = h.next + 1
         /\ g.slot = NoSlot
<1> DEFINE n == h.next + 1
<1>1. n \in Nat  BY DEF SplittingStates
<1>2. g = [h EXCEPT !.next = n, !.slot = NoSlot]  BY DEF SplittingStates
<1>3. n = h.next + 1  OBVIOUS
<1> HIDE DEF n
<1>4. /\ g \in SplittingStates /\ g.at = "splitting" /\ g.buffer = h.buffer
      /\ g.next = n /\ g.slot = NoSlot
  BY <1>1, <1>2 DEF SplittingStates
<1> QED BY <1>3, <1>4 DEF HandlerStates

(* One slot of an output changes.                                          *)
LEMMA SlotReplaced ==
  ASSUME NEW R, NEW f \in [OutputSet -> [Slots -> R]], NEW o \in OutputSet,
         NEW s \in Slots, NEW x \in R, NEW g, g = [f EXCEPT ![o][s] = x]
  PROVE  /\ g \in [OutputSet -> [Slots -> R]] /\ g[o][s] = x
         /\ \A p \in OutputSet, r \in Slots : p # o \/ r # s => g[p][r] = f[p][r]
  OBVIOUS

(* A step that counts no release keeps the count, if no more outputs are   *)
(* busy with a buffer after it.                                            *)
LEMMA CountKept ==
  ASSUME SplitTypeInv, ReleasesAreCounted, DOMAIN mBuffers' \subseteq DOMAIN mBuffers,
         \A b \in DOMAIN mBuffers' : mBuffers'[b] = mBuffers[b],
         \A b \in DOMAIN mBuffers' : Busy(b)' \subseteq Busy(b)
  PROVE  ReleasesAreCounted'
<1> SUFFICES ASSUME NEW b \in DOMAIN mBuffers'
             PROVE  mBuffers[b] + Cardinality(Busy(b)') <= Len(Outputs)
  BY DEF ReleasesAreCounted
<1>1. Busy(b) \in SUBSET (1 .. Len(Outputs)) /\ Busy(b)' \in SUBSET Busy(b)
  BY DEF Busy
<1>2. /\ Cardinality(Busy(b)) \in Nat /\ Cardinality(Busy(b)') \in Nat
      /\ Cardinality(Busy(b)') <= Cardinality(Busy(b))
  BY <1>1, OutputFacts, PartsCountLess
<1>3. mBuffers[b] \in Nat  BY DEF SplitTypeInv
<1> QED BY <1>2, <1>3, OutputFacts DEF ReleasesAreCounted

(* A step that counts a release of c keeps the count, if c has one busy    *)
(* output less after it.                                                   *)
LEMMA CountMoved ==
  ASSUME SplitTypeInv, ReleasesAreCounted, NEW c \in DOMAIN mBuffers,
         mBuffers' = ReleaseCounted(c),
         \A b \in DOMAIN mBuffers : Busy(b)' \subseteq Busy(b),
         NEW i \in Busy(c), i \notin Busy(c)'
  PROVE  ReleasesAreCounted' /\ mBuffers' \in [DOMAIN mBuffers -> Nat]
<1>1. /\ DOMAIN mBuffers' = DOMAIN mBuffers
      /\ mBuffers'[c] = mBuffers[c] + 1
      /\ \A b \in DOMAIN mBuffers \ {c} : mBuffers'[b] = mBuffers[b]
  BY DEF ReleaseCounted, SplitTypeInv
<1>2. \A b \in DOMAIN mBuffers : mBuffers[b] \in Nat  BY DEF SplitTypeInv
<1>3. ASSUME NEW b \in DOMAIN mBuffers
      PROVE  mBuffers'[b] + Cardinality(Busy(b)') <= Len(Outputs)
  <2>1. Busy(b) \in SUBSET (1 .. Len(Outputs)) /\ Busy(b)' \in SUBSET Busy(b)
    BY DEF Busy
  <2>2. /\ Cardinality(Busy(b)) \in Nat /\ Cardinality(Busy(b)') \in Nat
        /\ Cardinality(Busy(b)') <= Cardinality(Busy(b))
        /\ \A x \in Busy(b) \ Busy(b)' :
             Cardinality(Busy(b)') + 1 <= Cardinality(Busy(b))
    BY <2>1, OutputFacts, PartsCountLess
  <2>3. mBuffers[b] + Cardinality(Busy(b)) <= Len(Outputs)
    BY DEF ReleasesAreCounted
  <2> QED BY <1>1, <1>2, <2>2, <2>3, OutputFacts
<1>4. mBuffers' \in [DOMAIN mBuffers -> Nat]
  BY <1>2 DEF ReleaseCounted, SplitTypeInv
<1> QED BY <1>1, <1>3, <1>4 DEF ReleasesAreCounted

-----------------------------------------------------------------------------
(* A step that leaves the buffers where they are, and the split where it   *)
(* is or ends it, keeps what is said of them.                              *)
LEMMA QuietStep ==
  ASSUME SplitInv, UNCHANGED <<mBuffers, alive>>,
         \A o \in OutputSet, s \in Slots : slots'[o][s].buffer = slots[o][s].buffer,
         handler' = handler \/ (handler'.at # "splitting" /\ ~IsSplitting)
  PROVE  /\ HeldAreTracked' /\ HeldOnce' /\ DeadHoldNothing' /\ SplitInOrder'
         /\ ReleasesAreCounted'
<1> USE DEF SplitInv
<1>1. HeldAreTracked'  BY DEF HeldAreTracked
<1>2. HeldOnce'  BY DEF HeldOnce
<1>3. DeadHoldNothing'  BY DEF DeadHoldNothing
<1>4. SplitInOrder'  BY OutputFacts DEF SplitInOrder
<1>5. ASSUME NEW b \in DOMAIN mBuffers PROVE Busy(b)' \subseteq Busy(b)
  BY OutputFacts DEF Busy
<1>6. ReleasesAreCounted'  BY <1>5, CountKept
<1> QED BY <1>1, <1>2, <1>3, <1>4, <1>6

(* The steps that move no buffer between the input and the outputs.        *)
LEMMA HandlerKeepsInv ==
  ASSUME SplitInv, waitForRelease \/ returnAbandoned \/ endOfSplit
  PROVE  SplitInv'
<1>1. /\ UNCHANGED <<inputVars, mIsAbandoned, mOutstandingBuffers, mBuffers, outputVars>>
      /\ handler' \in [at: {"rest", "waiting"}]
      /\ ~IsSplitting
  BY DEF waitForRelease, returnAbandoned, endOfSplit, Resting, IsSplitting
<1>2. UNCHANGED <<input, inputBuffers, mBuffers, slots, queues, frameCounter, alive>>
  BY <1>1 DEF inputVars, outputVars
<1>3. /\ HeldAreTracked' /\ HeldOnce' /\ DeadHoldNothing' /\ SplitInOrder'
      /\ ReleasesAreCounted'
  BY <1>1, <1>2, QuietStep
<1>4. SplitTypeInv'
  BY <1>1, <1>2 DEF SplitInv, SplitTypeInv, HandlerStates
<1> QED BY <1>1, <1>2, <1>3, <1>4 DEF SplitInv, BuffersAreApart, OutstandingAreTracked

(* The producer of the input queues a buffer.                              *)
LEMMA QueueKeepsInv ==
  ASSUME SplitInv, queueToInput
  PROVE  SplitInv'
<1>1. PICK b \in inputBuffers : /\ input' = Append(input, b)
                                /\ inputBuffers' = inputBuffers \ {b}
  BY DEF queueToInput
<1>2. /\ UNCHANGED <<mIsAbandoned, mOutstandingBuffers, mBuffers, slots, queues,
                     frameCounter, alive>>
      /\ handler' = [at |-> "called"] /\ ~IsSplitting
  BY DEF queueToInput, outputVars, Resting, IsSplitting
<1>3. /\ HeldAreTracked' /\ HeldOnce' /\ DeadHoldNothing' /\ SplitInOrder'
      /\ ReleasesAreCounted'
  BY <1>2, QuietStep
<1>4. input \in Seq(Buffers) /\ b \in Buffers  BY DEF SplitInv, SplitTypeInv
<1>5. SplitTypeInv'
  BY <1>1, <1>2, <1>4 DEF SplitInv, SplitTypeInv, HandlerStates
<1>6. BuffersAreApart'
  <2>1. ToSet(input') = ToSet(input) \union {b} /\ b \notin ToSet(input)
    BY <1>1, <1>4, ToSetAppend DEF SplitInv, BuffersAreApart
  <2>2. IsInjective(input')
    BY <1>1, <1>4, <2>1, InjectiveAppend DEF SplitInv, BuffersAreApart
  <2> QED BY <1>1, <1>2, <2>1, <2>2 DEF SplitInv, BuffersAreApart
<1> QED BY <1>2, <1>3, <1>5, <1>6 DEF SplitInv, OutstandingAreTracked

(* The buffer taken from the input was nowhere else: all outputs are still *)
(* to be given it.                                                         *)
LEMMA AcquireKeepsInv ==
  ASSUME SplitInv, acquireFromInput
  PROVE  SplitInv'
<1>1. /\ UNCHANGED <<inputBuffers, mIsAbandoned, slots, queues, frameCounter, alive>>
      /\ ~IsSplitting /\ handler.at # "splitting"
  BY DEF acquireFromInput, outputVars, IsSplitting
<1>2. CASE input = << >>
  <2>1. UNCHANGED <<input, handler, mOutstandingBuffers, mBuffers>>
    BY <1>2 DEF acquireFromInput
  <2>2. /\ HeldAreTracked' /\ HeldOnce' /\ DeadHoldNothing' /\ SplitInOrder'
        /\ ReleasesAreCounted'
    BY <1>1, <2>1, QuietStep
  <2> QED BY <1>1, <2>1, <2>2
          DEF SplitInv, SplitTypeInv, BuffersAreApart, OutstandingAreTracked
<1>3. CASE input # << >>
  <2> DEFINE b == Head(input)
  <2>1. /\ mOutstandingBuffers' = mOutstandingBuffers + 1
        /\ mBuffers' = Tracked(b)
        /\ input' = Tail(input)
        /\ handler' = [at |-> "splitting", buffer |-> b, next |-> 1, slot |-> NoSlot]
    BY <1>3 DEF acquireFromInput
  <2>2. /\ input \in Seq(Buffers) /\ b \in ToSet(input) /\ b \in Buffers
        /\ input' \in Seq(Buffers) /\ IsInjective(input')
        /\ ToSet(input') = ToSet(input) \ {b}
    BY <1>3, <2>1, HeadTailOfInjective DEF SplitInv, SplitTypeInv, BuffersAreApart
  <2>3. b \notin DOMAIN mBuffers /\ b # NoBuffer
    BY <2>2, SplitterAssumption DEF SplitInv, BuffersAreApart
  <2>4. /\ DOMAIN mBuffers' = DOMAIN mBuffers \union {b} /\ mBuffers'[b] = 0
        /\ \A c \in DOMAIN mBuffers : mBuffers'[c] = mBuffers[c]
        /\ mBuffers' \in [DOMAIN mBuffers' -> Nat]
    BY <2>1, <2>3 DEF SplitInv, SplitTypeInv, Tracked
  <2>5. /\ IsFiniteSet(DOMAIN mBuffers')
        /\ Cardinality(DOMAIN mBuffers') = Cardinality(DOMAIN mBuffers) + 1
    <3>1. IsFiniteSet(DOMAIN mBuffers)  BY DEF SplitInv, SplitTypeInv
    <3>2. /\ IsFiniteSet(DOMAIN mBuffers \union {b})
          /\ Cardinality(DOMAIN mBuffers \union {b}) = Cardinality(DOMAIN mBuffers) + 1
      BY <2>3, <3>1, FS_AddElement
    <3> QED BY <2>4, <3>2
  <2>6. \A o \in OutputSet, s \in Slots : slots[o][s].buffer # b
    BY <2>3 DEF SplitInv, HeldAreTracked
  <2>7. SplitTypeInv'
    BY <1>1, <2>1, <2>2, <2>4, <2>5
    DEF SplitInv, SplitTypeInv, HandlerStates, SplittingStates
  <2>8. BuffersAreApart'
    BY <1>1, <2>2, <2>4 DEF SplitInv, BuffersAreApart
  <2>9. HeldAreTracked' /\ HeldOnce' /\ DeadHoldNothing'
    BY <1>1, <2>4 DEF SplitInv, HeldAreTracked, HeldOnce, DeadHoldNothing
  <2>10. SplitInOrder'
    BY <1>1, <2>1, <2>4, <2>6, OutputFacts DEF SplitInOrder
  <2>11. ASSUME NEW c \in DOMAIN mBuffers'
         PROVE  mBuffers'[c] + Cardinality(Busy(c)') <= Len(Outputs)
    <3>1. CASE c = b
      <4>1. Busy(c)' \in SUBSET (1 .. Len(Outputs))  BY DEF Busy
      <4>2. Cardinality(Busy(c)') <= Len(Outputs) /\ Cardinality(Busy(c)') \in Nat
        BY <4>1, OutputFacts, PartsCountLess
      <4> QED BY <2>4, <3>1, <4>2
    <3>2. CASE c \in DOMAIN mBuffers
      <4>1. Busy(c)' = Busy(c)
        BY <1>1, <2>1, <2>3, <3>2 DEF Busy
      <4> QED BY <2>4, <3>2, <4>1 DEF SplitInv, ReleasesAreCounted
    <3> QED BY <2>4, <3>1, <3>2
  <2>12. ReleasesAreCounted'  BY <2>11 DEF ReleasesAreCounted
  <2>13. OutstandingAreTracked'
    BY <1>1, <2>1, <2>5 DEF SplitInv, OutstandingAreTracked
  <2> QED BY <2>7, <2>8, <2>9, <2>10, <2>12, <2>13 DEF SplitInv
<1> QED BY <1>2, <1>3

-----------------------------------------------------------------------------
(* The splitter disconnects from the input: what is queued there is lost.  *)
LEMMA AbandonedIsApart ==
  ASSUME SplitInv, onAbandoned, UNCHANGED inputBuffers, DOMAIN mBuffers' = DOMAIN mBuffers
  PROVE  /\ BuffersAreApart' /\ OutstandingAreTracked'
         /\ input' \in Seq(Buffers) /\ mIsAbandoned' = TRUE
<1>1. input' = input \/ input' = << >>  BY DEF onAbandoned
<1>2. CASE input' = input
  BY <1>2 DEF SplitInv, SplitTypeInv, BuffersAreApart, onAbandoned, OutstandingAreTracked
<1>3. CASE input' = << >>
  BY <1>3, ToSetEmpty
  DEF SplitInv, BuffersAreApart, onAbandoned, OutstandingAreTracked
<1> QED BY <1>1, <1>2, <1>3

(* An output that is gone is counted as done with the buffer: it holds     *)
(* nothing any more.                                                       *)
LEMMA AbandonedOutputKeepsInv ==
  ASSUME SplitInv, outputIsAbandoned
  PROVE  SplitInv'
<1> DEFINE b == handler.buffer
           n == handler.next
<1>1. /\ handler.at = "splitting" /\ n <= Len(Outputs) /\ Outputs[n] \notin alive
      /\ onAbandoned /\ mBuffers' = ReleaseCounted(b)
      /\ handler' = [handler EXCEPT !.next = @ + 1, !.slot = NoSlot]
      /\ UNCHANGED <<inputBuffers, mOutstandingBuffers, slots, queues, frameCounter, alive>>
  BY DEF outputIsAbandoned, IsSplitting, Output, outputVars
<1>2. /\ b \in DOMAIN mBuffers /\ n \in 1 .. Len(Outputs) /\ b \in Buffers
  BY <1>1, OutputFacts DEF SplitInv, SplitInOrder, SplitTypeInv
<1>3. handler \in SplittingStates
  BY <1>1 DEF SplitInv, SplitTypeInv, HandlerStates, SplittingStates
<1>4. /\ handler'.at = "splitting" /\ handler'.buffer = b /\ handler'.next = n + 1
      /\ handler'.slot = NoSlot /\ handler' \in HandlerStates
  BY <1>1, <1>3, HandlerMoved
<1>5. n \in Busy(b) /\ n \notin Busy(b)'
  <2>1. \A s \in Slots : slots[Outputs[n]][s].buffer = NoBuffer
    BY <1>1, <1>2, OutputFacts DEF SplitInv, DeadHoldNothing
  <2>2. b # NoBuffer  BY <1>2, SplitterAssumption
  <2> QED BY <1>1, <1>2, <1>4, <2>1, <2>2, OutputFacts DEF Busy
<1>6. ASSUME NEW c \in DOMAIN mBuffers PROVE Busy(c)' \subseteq Busy(c)
  BY <1>1, <1>2, <1>4, OutputFacts DEF Busy
<1>7. ReleasesAreCounted' /\ mBuffers' \in [DOMAIN mBuffers -> Nat]
  BY <1>1, <1>2, <1>5, <1>6, CountMoved DEF SplitInv
<1>8. DOMAIN mBuffers' = DOMAIN mBuffers  BY <1>7
<1>9. /\ BuffersAreApart' /\ OutstandingAreTracked'
      /\ input' \in Seq(Buffers) /\ mIsAbandoned' = TRUE
  BY <1>1, <1>8, AbandonedIsApart
<1>10. SplitTypeInv'
  BY <1>1, <1>4, <1>7, <1>8, <1>9 DEF SplitInv, SplitTypeInv
<1>11. HeldAreTracked' /\ HeldOnce' /\ DeadHoldNothing'
  BY <1>1, <1>8 DEF SplitInv, HeldAreTracked, HeldOnce, DeadHoldNothing
<1>12. SplitInOrder'
  BY <1>1, <1>2, <1>4, <1>8, OutputFacts DEF SplitInv, SplitInOrder
<1> QED BY <1>7, <1>9, <1>10, <1>11, <1>12 DEF SplitInv

(* A call of an output that has died ends the process.                     *)
LEMMA DeadOutputKeepsInv ==
  ASSUME SplitInv, outputIsDead \/ \E o \in OutputSet : releasedByDead(o)
  PROVE  SplitInv'
<1>1. /\ UNCHANGED <<input, inputBuffers, handler, mIsAbandoned, mOutstandingBuffers>>
      /\ UNCHANGED <<mBuffers, slots, queues, frameCounter, alive>>
  BY DEF outputIsDead, releasedByDead, inputVars, splitterVars, outputVars
<1>2. SplitTypeInv'
  BY <1>1 DEF SplitInv, SplitTypeInv
<1>3. /\ HeldAreTracked' /\ HeldOnce' /\ DeadHoldNothing' /\ SplitInOrder'
      /\ ReleasesAreCounted'
  BY <1>1, QuietStep
<1> QED BY <1>1, <1>2, <1>3 DEF SplitInv, BuffersAreApart, OutstandingAreTracked

(* The output has not had the buffer, and takes it in one slot; what was in*)
(* that slot is lost to the count.                                         *)
LEMMA AttachKeepsInv ==
  ASSUME SplitInv, attachToOutput
  PROVE  SplitInv'
<1> DEFINE b == handler.buffer
           n == handler.next
           o == Outputs[n]
<1>1. /\ handler.at = "splitting" /\ n <= Len(Outputs) /\ o \in alive
      /\ handler.slot = NoSlot
      /\ UNCHANGED <<input, inputBuffers, mIsAbandoned, mOutstandingBuffers, mBuffers,
                     queues, frameCounter, alive>>
  BY DEF attachToOutput, IsSplitting, Output, inputVars
<1>2. PICK s \in Slots :
        /\ slots' = [slots EXCEPT ![o][s].state = "DEQUEUED", ![o][s].buffer = b]
        /\ handler' = [handler EXCEPT !.slot = s]
  BY DEF attachToOutput, Output
<1>3. b \in DOMAIN mBuffers /\ n \in 1 .. Len(Outputs) /\ b \in Buffers /\ o \in OutputSet
  BY <1>1, OutputFacts DEF SplitInv, SplitInOrder, SplitTypeInv
<1>4. handler \in SplittingStates
  BY <1>1 DEF SplitInv, SplitTypeInv, HandlerStates, SplittingStates
<1>5. /\ handler'.at = "splitting" /\ handler'.buffer = b /\ handler'.next = n
      /\ handler'.slot = s /\ handler' \in HandlerStates /\ s # NoSlot
  BY <1>2, <1>4, SplitterAssumption DEF HandlerStates, SplittingStates
<1>6. slots \in [OutputSet -> [Slots -> SlotRecords]]
  BY DEF SplitInv, SplitTypeInv
<1>7. /\ slots' \in [OutputSet -> [Slots -> SlotRecords]]
      /\ slots'[o][s].buffer = b
      /\ \A p \in OutputSet, r \in Slots :
           p # o \/ r # s => slots'[p][r].buffer = slots[p][r].buffer
  <2> DEFINE x == [slots[o][s] EXCEPT !.state = "DEQUEUED", !.buffer = b]
  <2>1. slots' = [slots EXCEPT ![o][s] = x]
    BY <1>2, <1>3, <1>6 DEF SlotRecords
  <2>2. slots[o][s] \in SlotRecords  BY <1>3, <1>6
  <2>3. x \in SlotRecords /\ x.buffer = b
    BY <1>3, <2>2 DEF SlotRecords
  <2> HIDE DEF x
  <2> QED BY <1>3, <1>6, <2>1, <2>3, SlotReplaced
<1>8. SplitTypeInv'
  BY <1>1, <1>5, <1>7 DEF SplitInv, SplitTypeInv
<1>9. \A r \in Slots : slots[o][r].buffer # b
  BY <1>1, <1>3, OutputFacts DEF SplitInv, SplitInOrder
<1>10. HeldAreTracked'
  BY <1>1, <1>3, <1>7 DEF SplitInv, HeldAreTracked
<1>11. HeldOnce'
  BY <1>3, <1>7, <1>9 DEF SplitInv, HeldOnce
<1>12. DeadHoldNothing'
  BY <1>1, <1>7 DEF SplitInv, DeadHoldNothing
<1>13. SplitInOrder'
  <2> SUFFICES ASSUME NEW i \in n .. Len(Outputs), NEW r \in Slots, i > n
               PROVE  slots'[Outputs[i]][r].buffer # b
    BY <1>1, <1>3, <1>5, OutputFacts DEF SplitInOrder
  <2>1. i \in 1 .. Len(Outputs) /\ Outputs[i] # o /\ Outputs[i] \in OutputSet
    BY <1>3, OutputFacts
  <2> QED BY <1>1, <1>3, <1>7, <2>1 DEF SplitInv, SplitInOrder
<1>14. ASSUME NEW c \in DOMAIN mBuffers PROVE Busy(c)' \subseteq Busy(c)
  <2> SUFFICES ASSUME NEW i \in Busy(c)' PROVE i \in Busy(c)
    OBVIOUS
  <2>1. i \in 1 .. Len(Outputs) /\ Outputs[i] \in OutputSet  BY OutputFacts DEF Busy
  <2>2. CASE c = b /\ i >= n
    BY <1>1, <2>1, <2>2 DEF Busy
  <2>3. CASE c = b /\ i < n
    <3>1. Outputs[i] # o  BY <1>3, <2>1, <2>3, OutputFacts
    <3>2. ~(n <= i)  BY <1>3, <2>1, <2>3
    <3> QED BY <1>5, <1>7, <2>1, <3>1, <3>2 DEF Busy
  <2>4. CASE c # b
    BY <1>3, <1>5, <1>7, <2>1, <2>4 DEF Busy
  <2> QED BY <1>3, <2>1, <2>2, <2>3, <2>4, OutputFacts
<1>15. ReleasesAreCounted'
  BY <1>1, <1>14, CountKept DEF SplitInv
<1>16. BuffersAreApart' /\ OutstandingAreTracked'
  BY <1>1 DEF SplitInv, BuffersAreApart, OutstandingAreTracked
<1> QED BY <1>8, <1>10, <1>11, <1>12, <1>13, <1>15, <1>16 DEF SplitInv

(* The splitter queues the attached buffer to an output.                   *)
LEMMA QueueToOutputKeepsInv ==
  ASSUME SplitInv, queueToOutput
  PROVE  SplitInv'
<1> DEFINE b == handler.buffer
           n == handler.next
           o == Outputs[n]
           s == handler.slot
<1>1. /\ handler.at = "splitting" /\ n <= Len(Outputs) /\ o \in alive /\ s # NoSlot
      /\ frameCounter' = [frameCounter EXCEPT ![o] = @ + 1]
      /\ slots' = [slots EXCEPT ![o][s].state = "QUEUED", ![o][s].frame = frameCounter'[o]]
      /\ queues' = [queues EXCEPT ![o] = Append(@, s)]
      /\ handler' = [handler EXCEPT !.next = @ + 1, !.slot = NoSlot]
      /\ UNCHANGED <<input, inputBuffers, mIsAbandoned, mOutstandingBuffers, mBuffers,
                     alive>>
  BY DEF queueToOutput, IsSplitting, Output, inputVars
<1>2. b \in DOMAIN mBuffers /\ n \in 1 .. Len(Outputs) /\ b \in Buffers /\ o \in OutputSet
  <2>1. b \in DOMAIN mBuffers /\ n \in 1 .. Len(Outputs) + 1
    BY <1>1 DEF SplitInv, SplitInOrder
  <2>2. n \in 1 .. Len(Outputs)
    <3>1. n <= Len(Outputs)
      BY <1>1, Zenon
    <3>2. Len(Outputs) \in Nat
      BY OutputFacts
    <3> QED BY <2>1, <3>1, <3>2
  <2>3. b \in Buffers
    BY <2>1 DEF SplitInv, SplitTypeInv
  <2> QED BY <2>1, <2>2, <2>3, OutputFacts
<1>3. handler \in SplittingStates
  BY <1>1 DEF SplitInv, SplitTypeInv, HandlerStates, SplittingStates
<1>4. /\ handler'.at = "splitting" /\ handler'.buffer = b /\ handler'.next = n + 1
      /\ handler'.slot = NoSlot /\ handler' \in HandlerStates /\ s \in Slots
  BY <1>1, <1>3, HandlerMoved DEF SplittingStates
<1>5. /\ slots \in [OutputSet -> [Slots -> SlotRecords]]
      /\ frameCounter' \in [OutputSet -> Nat] /\ frameCounter'[o] \in Nat
  <2>1. slots \in [OutputSet -> [Slots -> SlotRecords]] /\ frameCounter \in [OutputSet -> Nat]
    BY DEF SplitInv, SplitTypeInv
  <2>2. o \in OutputSet /\ frameCounter' = [frameCounter EXCEPT ![o] = @ + 1]
    BY <1>1, <1>2
  <2> QED BY <2>1, <2>2, FrameCounted
<1>6. /\ slots' \in [OutputSet -> [Slots -> SlotRecords]]
      /\ \A p \in OutputSet, r \in Slots : slots'[p][r].buffer = slots[p][r].buffer
  <2> DEFINE f == frameCounter'[o]
             x == [slots[o][s] EXCEPT !.state = "QUEUED", !.frame = f]
  <2>1. slots' = [slots EXCEPT ![o][s] = x]
    BY <1>1, <1>2, <1>4, <1>5 DEF SlotRecords
  <2>2. slots[o][s] \in SlotRecords  BY <1>2, <1>4, <1>5
  <2>3. x \in SlotRecords /\ x.buffer = slots[o][s].buffer
    BY <1>5, <2>2 DEF SlotRecords
  <2> HIDE DEF x
  <2>4. /\ slots' \in [OutputSet -> [Slots -> SlotRecords]] /\ slots'[o][s] = x
        /\ \A p \in OutputSet, r \in Slots :
             p # o \/ r # s => slots'[p][r] = slots[p][r]
    BY <1>2, <1>4, <1>5, <2>1, <2>3, SlotReplaced
  <2> QED BY <2>3, <2>4
<1>7. queues' \in [OutputSet -> Seq(Slots)]
  <2>1. queues \in [OutputSet -> Seq(Slots)]
    BY DEF SplitInv, SplitTypeInv
  <2> QED BY <1>1, <1>2, <1>4, <2>1, QueueLonger
<1>8. SplitTypeInv'
  BY <1>1, <1>4, <1>5, <1>6, <1>7 DEF SplitInv, SplitTypeInv
<1>9. UNCHANGED <<mBuffers, alive>> /\ handler.at = "splitting"  BY <1>1
<1>10. /\ \A p \in OutputSet, r \in Slots : slots'[p][r].buffer = slots[p][r].buffer
       /\ handler'.at = "splitting" /\ handler'.buffer = handler.buffer
       /\ handler'.next = handler.next + 1 /\ handler'.slot = NoSlot
       /\ handler.next \in 1 .. Len(Outputs) /\ handler.buffer \in DOMAIN mBuffers
  BY <1>2, <1>4, <1>6
<1>11. HeldAreTracked' /\ HeldOnce' /\ DeadHoldNothing'
  BY <1>9, <1>10 DEF SplitInv, HeldAreTracked, HeldOnce, DeadHoldNothing
<1>12. SplitInOrder'
  BY <1>9, <1>10, OutputFacts DEF SplitInv, SplitInOrder
<1>13. ASSUME NEW c \in DOMAIN mBuffers PROVE Busy(c)' \subseteq Busy(c)
  BY <1>9, <1>10, OutputFacts DEF Busy
<1>14. ReleasesAreCounted'
  BY <1>9, <1>13, CountKept DEF SplitInv
<1>15. BuffersAreApart' /\ OutstandingAreTracked'
  BY <1>1 DEF SplitInv, BuffersAreApart, OutstandingAreTracked
<1> QED BY <1>8, <1>11, <1>14, <1>15, <1>12 DEF SplitInv

(* A slot goes to another state with its buffer in it.                     *)
LEMMA SlotStateSet ==
  ASSUME SplitTypeInv, NEW o \in OutputSet, NEW s \in Slots,
         NEW state \in {"FREE", "DEQUEUED", "QUEUED", "ACQUIRED"},
         slots' = [slots EXCEPT ![o][s].state = state]
  PROVE  /\ slots' \in [OutputSet -> [Slots -> SlotRecords]]
         /\ \A p \in OutputSet, r \in Slots : slots'[p][r].buffer = slots[p][r].buffer
<1> DEFINE x == [slots[o][s] EXCEPT !.state = state]
<1>1. slots \in [OutputSet -> [Slots -> SlotRecords]]  BY DEF SplitTypeInv
<1>2. slots' = [slots EXCEPT ![o][s] = x]  BY <1>1 DEF SlotRecords
<1>3. slots[o][s] \in SlotRecords  BY <1>1
<1>4. x \in SlotRecords /\ x.buffer = slots[o][s].buffer  BY <1>3 DEF SlotRecords
<1> HIDE DEF x
<1>5. /\ slots' \in [OutputSet -> [Slots -> SlotRecords]] /\ slots'[o][s] = x
      /\ \A p \in OutputSet, r \in Slots :
           p # o \/ r # s => slots'[p][r] = slots[p][r]
  BY <1>1, <1>2, <1>4
<1> QED BY <1>4, <1>5

(* The consumer of an output takes a buffer, or frees its slot.            *)
LEMMA ConsumerKeepsInv ==
  ASSUME SplitInv, NEW o \in OutputSet, acquireFromOutput(o) \/ releaseByOutput(o)
  PROVE  SplitInv'
<1>1. UNCHANGED <<input, inputBuffers, handler, mIsAbandoned, mOutstandingBuffers,
                  mBuffers, frameCounter, alive>>
  BY DEF acquireFromOutput, releaseByOutput, inputVars, splitterVars
<1>2. /\ slots' \in [OutputSet -> [Slots -> SlotRecords]]
      /\ \A p \in OutputSet, r \in Slots : slots'[p][r].buffer = slots[p][r].buffer
      /\ queues' \in [OutputSet -> Seq(Slots)]
  <2>1. CASE acquireFromOutput(o)
    <3>1. queues[o] \in Seq(Slots) /\ queues[o] # << >>
      BY <2>1 DEF acquireFromOutput, SplitInv, SplitTypeInv
    <3>2. Head(queues[o]) \in Slots /\ Tail(queues[o]) \in Seq(Slots)
      BY <3>1
    <3> QED BY <2>1, <3>2, SlotStateSet DEF acquireFromOutput, SplitInv, SplitTypeInv
  <2>2. CASE releaseByOutput(o)
    BY <2>2, SlotStateSet DEF releaseByOutput, SplitInv, SplitTypeInv
  <2> QED BY <2>1, <2>2
<1>3. SplitTypeInv'
  BY <1>1, <1>2 DEF SplitInv, SplitTypeInv
<1>4. /\ HeldAreTracked' /\ HeldOnce' /\ DeadHoldNothing' /\ SplitInOrder'
      /\ ReleasesAreCounted'
  BY <1>1, <1>2, QuietStep
<1> QED BY <1>1, <1>3, <1>4 DEF SplitInv, BuffersAreApart, OutstandingAreTracked

(* An output that goes loses what it held: nobody counts it as released.   *)
LEMMA AbandonKeepsInv ==
  ASSUME SplitInv, NEW o \in OutputSet, abandonOutput(o) \/ outputDies(o)
  PROVE  SplitInv'
<1>1. /\ UNCHANGED <<input, inputBuffers, handler, mIsAbandoned, mOutstandingBuffers,
                     mBuffers, frameCounter>>
      /\ alive' = alive \ {o}
      /\ slots' = [slots EXCEPT ![o] = [s \in Slots |-> FreedSlot]]
      /\ queues' = [queues EXCEPT ![o] = << >>]
  BY DEF abandonOutput, outputDies, Freed, inputVars, splitterVars
<1>2. FreedSlot \in SlotRecords /\ FreedSlot.buffer = NoBuffer
  BY SplitterAssumption DEF FreedSlot, SlotRecords, NewestFrame
<1>3. /\ slots' \in [OutputSet -> [Slots -> SlotRecords]]
      /\ \A s \in Slots : slots'[o][s].buffer = NoBuffer
      /\ \A p \in OutputSet \ {o}, s \in Slots : slots'[p][s] = slots[p][s]
  BY <1>1, <1>2 DEF SplitInv, SplitTypeInv
<1>4. queues' \in [OutputSet -> Seq(Slots)]
  BY <1>1 DEF SplitInv, SplitTypeInv
<1>5. SplitTypeInv'
  BY <1>1, <1>3, <1>4 DEF SplitInv, SplitTypeInv
<1>6. NoBuffer \notin DOMAIN mBuffers
  BY SplitterAssumption DEF SplitInv, SplitTypeInv
<1>7. HeldAreTracked'
  BY <1>1, <1>3 DEF SplitInv, HeldAreTracked
<1>8. HeldOnce'
  BY <1>3 DEF SplitInv, HeldOnce
<1>9. DeadHoldNothing'
  BY <1>1, <1>3 DEF SplitInv, DeadHoldNothing
<1>10. UNCHANGED <<handler, mBuffers>>  BY <1>1
<1>11. SplitInOrder'
  <2> SUFFICES ASSUME handler.at = "splitting"
               PROVE  /\ handler.buffer \in DOMAIN mBuffers
                      /\ handler.next \in 1 .. Len(Outputs) + 1
                      /\ \A i \in handler.next .. Len(Outputs), s \in Slots :
                           i > handler.next \/ handler.slot = NoSlot =>
                             slots'[Outputs[i]][s].buffer # handler.buffer
    BY <1>10 DEF SplitInOrder
  <2>1. /\ handler.buffer \in DOMAIN mBuffers
        /\ handler.next \in 1 .. Len(Outputs) + 1
    BY DEF SplitInv, SplitInOrder
  <2>2. ASSUME NEW i \in handler.next .. Len(Outputs), NEW s \in Slots,
               i > handler.next \/ handler.slot = NoSlot
        PROVE  slots'[Outputs[i]][s].buffer # handler.buffer
    <3>1. slots[Outputs[i]][s].buffer # handler.buffer
      BY <2>2 DEF SplitInv, SplitInOrder
    <3>2. Outputs[i] \in OutputSet  BY <2>1, OutputFacts
    <3> QED BY <1>3, <1>6, <2>1, <3>1, <3>2
  <2> QED BY <2>1, <2>2
<1>12. ASSUME NEW b \in DOMAIN mBuffers PROVE Busy(b)' \subseteq Busy(b)
  BY <1>3, <1>6, <1>10, OutputFacts DEF Busy
<1>13. ReleasesAreCounted'
  BY <1>10, <1>12, CountKept DEF SplitInv
<1> QED BY <1>1, <1>5, <1>7, <1>8, <1>9, <1>11, <1>13
        DEF SplitInv, BuffersAreApart, OutstandingAreTracked

(* The splitter hears that an output is gone.                              *)
LEMMA GoneOutputKeepsInv ==
  ASSUME SplitInv, NEW o \in OutputSet, releasedByAbandoned(o) \/ binderDied(o)
  PROVE  SplitInv'
<1>1. /\ UNCHANGED <<inputBuffers, mOutstandingBuffers, mBuffers, slots, queues,
                     frameCounter, alive>>
      /\ onAbandoned /\ handler.at # "splitting" /\ handler' = Woken
  BY DEF releasedByAbandoned, binderDied, MutexIsFree
<1>2. handler' \in HandlerStates /\ handler'.at # "splitting" /\ ~IsSplitting
  BY <1>1 DEF Woken, HandlerStates, SplitInv, SplitTypeInv, IsSplitting
<1>3. /\ BuffersAreApart' /\ OutstandingAreTracked'
      /\ input' \in Seq(Buffers) /\ mIsAbandoned' = TRUE
  BY <1>1, AbandonedIsApart
<1>4. /\ HeldAreTracked' /\ HeldOnce' /\ DeadHoldNothing' /\ SplitInOrder'
      /\ ReleasesAreCounted'
  BY <1>1, <1>2, QuietStep
<1>5. SplitTypeInv'
  BY <1>1, <1>2, <1>3 DEF SplitInv, SplitTypeInv
<1> QED BY <1>3, <1>4, <1>5 DEF SplitInv

(* The last output to release a buffer was the only one busy with it:      *)
(* nobody holds it when it goes back to the input.                         *)
LEMMA ReleasedIsFree ==
  ASSUME SplitInv, NEW b \in DOMAIN mBuffers, ReleasedByAll(b), NEW i \in Busy(b)
  PROVE  Busy(b) = {i}
<1>1. mBuffers[b] + 1 >= Len(Outputs) /\ mBuffers[b] \in Nat
  BY DEF ReleasedByAll, SplitInv, SplitTypeInv
<1>2. mBuffers[b] + Cardinality(Busy(b)) <= Len(Outputs)
  BY DEF SplitInv, ReleasesAreCounted
<1>3. Busy(b) \in SUBSET (1 .. Len(Outputs))  BY DEF Busy
<1>4. ASSUME NEW j \in Busy(b), j # i PROVE FALSE
  <2>1. {i} \in SUBSET Busy(b) /\ j \in Busy(b) \ {i}  BY <1>4
  <2>2. /\ Cardinality(Busy(b)) \in Nat
        /\ Cardinality({i}) + 1 <= Cardinality(Busy(b))
    BY <1>3, <2>1, OutputFacts, PartsCountLess
  <2>3. Cardinality({i}) = 1  BY FS_Singleton
  <2> QED BY <1>1, <1>2, <2>2, <2>3, OutputFacts
<1> QED BY <1>4

(* An output has released a buffer: its slot is emptied, and the release   *)
(* is counted or, when it is the last one, the buffer is given back.       *)
LEMMA ReleaseKeepsInv ==
  ASSUME SplitInv, NEW o \in OutputSet, onBufferReleasedByOutput(o)
  PROVE  SplitInv'
<1> DEFINE candidates == {r \in FreeSlots(o) : slots[o][r].buffer # NoBuffer}
<1>1. /\ UNCHANGED <<input, mIsAbandoned, queues, frameCounter, alive>>
      /\ handler.at # "splitting" /\ ~IsSplitting
  BY DEF onBufferReleasedByOutput, MutexIsFree, IsSplitting
<1>2. CASE candidates = {}
  <2>1. UNCHANGED <<inputBuffers, mOutstandingBuffers, mBuffers, handler, slots>>
    BY <1>2 DEF onBufferReleasedByOutput
  <2>2. /\ HeldAreTracked' /\ HeldOnce' /\ DeadHoldNothing' /\ SplitInOrder'
        /\ ReleasesAreCounted'
    BY <1>1, <2>1, QuietStep
  <2> QED BY <1>1, <2>1, <2>2
          DEF SplitInv, SplitTypeInv, BuffersAreApart, OutstandingAreTracked
<1>3. CASE candidates # {}
  <2>1. PICK s \in Slots, b \in {slots[o][r].buffer : r \in Slots} :
          /\ b = slots[o][s].buffer /\ b # NoBuffer
          /\ slots' = [slots EXCEPT ![o][s] = FreedSlot]
          /\ IF ReleasedByAll(b) THEN giveBack(b)
             ELSE /\ mBuffers' = ReleaseCounted(b)
                  /\ UNCHANGED <<inputBuffers, mOutstandingBuffers, handler>>
    BY <1>3 DEF onBufferReleasedByOutput, IsOldestOf
  <2>2. b \in DOMAIN mBuffers /\ b \in Buffers /\ b # NoBuffer
    BY <2>1 DEF SplitInv, HeldAreTracked, SplitTypeInv
  <2>3. FreedSlot \in SlotRecords /\ FreedSlot.buffer = NoBuffer
    BY SplitterAssumption DEF FreedSlot, SlotRecords, NewestFrame
  <2>4. /\ slots' \in [OutputSet -> [Slots -> SlotRecords]]
        /\ slots'[o][s].buffer = NoBuffer
        /\ \A p \in OutputSet, r \in Slots :
             p # o \/ r # s => slots'[p][r].buffer = slots[p][r].buffer
    BY <2>1, <2>3 DEF SplitInv, SplitTypeInv
  <2>5. \A r \in Slots : slots'[o][r].buffer # b
    BY <2>1, <2>2, <2>4 DEF SplitInv, HeldOnce
  <2>6. PICK i \in 1 .. Len(Outputs) : Outputs[i] = o
    BY OutputFacts
  <2>7. i \in Busy(b)  BY <2>6 DEF Busy
  <2>8. handler' \in HandlerStates /\ handler'.at # "splitting"
    BY <1>1, <2>1 DEF giveBack, Woken, HandlerStates, SplitInv, SplitTypeInv
  <2>9. i \notin Busy(b)'  BY <2>5, <2>6, <2>8 DEF Busy
  <2>10. ASSUME NEW c \in DOMAIN mBuffers PROVE Busy(c)' \subseteq Busy(c)
    <3>1. c # NoBuffer  BY SplitterAssumption DEF SplitInv, SplitTypeInv
    <3> QED BY <2>4, <2>8, <3>1, OutputFacts DEF Busy
  <2>11. HeldOnce' /\ DeadHoldNothing' /\ SplitInOrder'
    <3>1. HeldOnce'  BY <2>4, <2>8 DEF SplitInv, HeldOnce
    <3>2. DeadHoldNothing'  BY <1>1, <2>4, <2>8 DEF SplitInv, DeadHoldNothing
    <3>3. SplitInOrder'  BY <1>1, <2>4, <2>8 DEF SplitInv, SplitInOrder
    <3> QED BY <3>1, <3>2, <3>3
  <2>12. CASE ~ReleasedByAll(b)
    <3>1. mBuffers' = ReleaseCounted(b) /\ UNCHANGED <<inputBuffers, mOutstandingBuffers>>
      BY <2>1, <2>12
    <3>2. ReleasesAreCounted' /\ mBuffers' \in [DOMAIN mBuffers -> Nat]
      BY <2>2, <2>7, <2>9, <2>10, <3>1, CountMoved DEF SplitInv
    <3>3. DOMAIN mBuffers' = DOMAIN mBuffers  BY <3>2
    <3>4. SplitTypeInv'
      BY <1>1, <2>4, <2>8, <3>1, <3>2, <3>3 DEF SplitInv, SplitTypeInv
    <3>5. HeldAreTracked'
      BY <2>4, <3>3 DEF SplitInv, HeldAreTracked
    <3>6. BuffersAreApart' /\ OutstandingAreTracked'
      BY <1>1, <3>1, <3>3 DEF SplitInv, BuffersAreApart, OutstandingAreTracked
    <3> QED BY <2>11, <3>2, <3>4, <3>5, <3>6 DEF SplitInv
  <2>13. CASE ReleasedByAll(b)
    <3>1. mBuffers' = Untracked(b)
      BY <2>1, <2>13 DEF giveBack
    <3>2. /\ DOMAIN mBuffers' = DOMAIN mBuffers \ {b}
          /\ \A c \in DOMAIN mBuffers' : mBuffers'[c] = mBuffers[c]
          /\ mBuffers' \in [DOMAIN mBuffers' -> Nat]
      BY <3>1 DEF Untracked, SplitInv, SplitTypeInv
    <3>3. /\ IsFiniteSet(DOMAIN mBuffers')
          /\ Cardinality(DOMAIN mBuffers') = Cardinality(DOMAIN mBuffers) - 1
      <4>1. IsFiniteSet(DOMAIN mBuffers)  BY DEF SplitInv, SplitTypeInv
      <4>2. /\ IsFiniteSet(DOMAIN mBuffers \ {b})
            /\ Cardinality(DOMAIN mBuffers \ {b}) = Cardinality(DOMAIN mBuffers) - 1
        BY <2>2, <4>1, FS_RemoveElement
      <4> QED BY <3>2, <4>2
    <3>4. \/ mIsAbandoned /\ inputBuffers' = inputBuffers
          \/ /\ ~mIsAbandoned /\ inputBuffers' = inputBuffers \union {b}
             /\ mOutstandingBuffers' = mOutstandingBuffers - 1
      BY <2>1, <2>13 DEF giveBack
    <3>5. mOutstandingBuffers' \in Int
      BY <2>1, <2>13 DEF giveBack, SplitInv, SplitTypeInv
    <3>6. SplitTypeInv'
      BY <1>1, <2>2, <2>4, <2>8, <3>2, <3>3, <3>4, <3>5 DEF SplitInv, SplitTypeInv
    <3>7. HeldAreTracked'
      <4>1. Busy(b) = {i}  BY <2>2, <2>7, <2>13, ReleasedIsFree
      <4>2. ASSUME NEW p \in OutputSet, NEW r \in Slots PROVE slots'[p][r].buffer # b
        <5>1. CASE p = o  BY <2>5, <5>1
        <5>2. CASE p # o
          <6>1. PICK j \in 1 .. Len(Outputs) : Outputs[j] = p  BY OutputFacts
          <6>2. j \notin Busy(b)  BY <2>6, <4>1, <5>2, <6>1
          <6> QED BY <2>4, <5>2, <6>1, <6>2 DEF Busy
        <5> QED BY <5>1, <5>2
      <4> QED BY <2>4, <3>2, <4>2 DEF SplitInv, HeldAreTracked
    <3>8. BuffersAreApart'
      <4>1. /\ IsInjective(input) /\ inputBuffers \intersect ToSet(input) = {}
            /\ (inputBuffers \union ToSet(input)) \intersect DOMAIN mBuffers = {}
        BY DEF SplitInv, BuffersAreApart
      <4>2. ToSet(input') = ToSet(input) /\ IsInjective(input')
        BY <1>1, <4>1
      <4> QED BY <2>2, <3>2, <3>4, <4>1, <4>2 DEF BuffersAreApart
    <3>9. OutstandingAreTracked'
      BY <1>1, <3>3, <3>4 DEF SplitInv, OutstandingAreTracked
    <3>10. ReleasesAreCounted'
      BY <2>10, <3>2, CountKept DEF SplitInv
    <3> QED BY <2>11, <3>6, <3>7, <3>8, <3>9, <3>10 DEF SplitInv
  <2> QED BY <2>12, <2>13
<1> QED BY <1>2, <1>3

-----------------------------------------------------------------------------
(* The invariant holds in every state of the splitter.                     *)
THEOREM SplitInvHolds == SplitSpec => []SplitInv
<1>1. SplitInit => SplitInv
  <2> SUFFICES ASSUME SplitInit PROVE SplitInv
    OBVIOUS
  <2>1. DOMAIN mBuffers = {} /\ ToSet(input) = {} /\ IsInjective(input)
    BY ToSetEmpty DEF SplitInit, IsInjective
  <2>2. \A o \in OutputSet, s \in Slots :
          slots[o][s] = [state |-> "FREE", buffer |-> NoBuffer, frame |-> 0]
    BY DEF SplitInit, FreedSlot
  <2>3. slots \in [OutputSet -> [Slots -> SlotRecords]]
    <3>1. [FreedSlot EXCEPT !.frame = 0] \in SlotRecords
      BY DEF FreedSlot, SlotRecords
    <3> QED BY <3>1 DEF SplitInit
  <2>4. IsFiniteSet(DOMAIN mBuffers) /\ Cardinality(DOMAIN mBuffers) = 0
    BY <2>1, FS_EmptySet
  <2>5. SplitTypeInv
    <3>1. mBuffers \in [DOMAIN mBuffers -> Nat]
      BY <2>1 DEF SplitInit
    <3>2. handler \in HandlerStates
      BY DEF SplitInit, HandlerStates, Resting
    <3>3. queues \in [OutputSet -> Seq(Slots)] /\ frameCounter \in [OutputSet -> Nat]
      BY DEF SplitInit
    <3>4. input \in Seq(Buffers) /\ inputBuffers \subseteq Buffers
      BY DEF SplitInit
    <3>5. mIsAbandoned \in BOOLEAN  BY DEF SplitInit
    <3>6. mOutstandingBuffers \in Int /\ alive \subseteq OutputSet
      BY DEF SplitInit
    <3>7. DOMAIN mBuffers \subseteq Buffers /\ IsFiniteSet(DOMAIN mBuffers)
      BY <2>1, <2>4
    <3> QED BY <2>3, <3>1, <3>2, <3>3, <3>4, <3>7, <3>5, <3>6 DEF SplitTypeInv
  <2>6. BuffersAreApart
    BY <2>1 DEF BuffersAreApart
  <2>7. HeldAreTracked /\ HeldOnce /\ DeadHoldNothing
    BY <2>2 DEF HeldAreTracked, HeldOnce, DeadHoldNothing
  <2>8. SplitInOrder
    BY DEF SplitInit, Resting, SplitInOrder
  <2>9. ReleasesAreCounted
    BY <2>1 DEF ReleasesAreCounted
  <2>10. OutstandingAreTracked
    BY <2>4 DEF SplitInit, OutstandingAreTracked
  <2> QED BY <2>5, <2>6, <2>7, <2>8, <2>9, <2>10 DEF SplitInv
<1>2. SplitInv /\ [SplitNext]_splitVars => SplitInv'
  <2> SUFFICES ASSUME SplitInv, [SplitNext]_splitVars PROVE SplitInv'
    OBVIOUS
  <2>1. CASE queueToInput  BY <2>1, QueueKeepsInv
  <2>2. CASE SplitterNext
    BY <2>2, HandlerKeepsInv, AcquireKeepsInv, AbandonedOutputKeepsInv, DeadOutputKeepsInv,
       AttachKeepsInv, QueueToOutputKeepsInv DEF SplitterNext
  <2>3. ASSUME NEW o \in OutputSet, OutputNext(o) PROVE SplitInv'
    BY <2>3, ConsumerKeepsInv, ReleaseKeepsInv, GoneOutputKeepsInv, DeadOutputKeepsInv
       DEF OutputNext
  <2>4. ASSUME NEW o \in OutputSet, binderDied(o) PROVE SplitInv'
    BY <2>4, GoneOutputKeepsInv
  <2>5. ASSUME NEW o \in OutputSet, abandonOutput(o) \/ outputDies(o) PROVE SplitInv'
    BY <2>5, AbandonKeepsInv
  <2>6. CASE UNCHANGED splitVars
    <3>1. UNCHANGED <<input, inputBuffers, handler, mIsAbandoned, mOutstandingBuffers,
                      mBuffers, slots, queues, frameCounter, alive>>
      BY <2>6 DEF splitVars, inputVars, splitterVars, outputVars
    <3>2. SplitTypeInv'  BY <3>1 DEF SplitInv, SplitTypeInv
    <3>3. /\ HeldAreTracked' /\ HeldOnce' /\ DeadHoldNothing' /\ SplitInOrder'
          /\ ReleasesAreCounted'
      BY <3>1, QuietStep
    <3> QED BY <3>1, <3>2, <3>3 DEF SplitInv, BuffersAreApart, OutstandingAreTracked
  <2> QED BY <2>1, <2>2, <2>3, <2>4, <2>5, <2>6 DEF SplitNext
<1> QED BY <1>1, <1>2, PTL DEF SplitSpec

(* A buffer that is the input's again is in no output's slot, whatever was *)
(* abandoned or died on the way, and the splitter counts as outstanding    *)
(* exactly the buffers it tracks (StreamSplitter.cpp:186-248).             *)
THEOREM BuffersComeBackReleased == SplitSpec => []OutputsAreDone
<1>1. SplitInv => OutputsAreDone
  <2> SUFFICES ASSUME SplitInv PROVE OutputsAreDone
    OBVIOUS
  <2>1. ASSUME NEW b \in inputBuffers, NEW o \in OutputSet, NEW s \in Slots
        PROVE  slots[o][s].buffer # b
    <3>1. b \notin DOMAIN mBuffers  BY DEF SplitInv, BuffersAreApart
    <3>2. b # NoBuffer  BY SplitterAssumption DEF SplitInv, SplitTypeInv
    <3> QED BY <3>1, <3>2 DEF SplitInv, HeldAreTracked
  <2> QED BY <2>1 DEF OutputsAreDone, SplitInv, OutstandingAreTracked
<1> QED BY <1>1, SplitInvHolds, PTL
=============================================================================
