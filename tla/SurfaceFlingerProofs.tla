------------------------- MODULE SurfaceFlingerProofs -------------------------
(***************************************************************************)
(* Theorems about SurfaceFlinger, for any number of layers, clients and    *)
(* messages.                                                               *)
(*                                                                         *)
(* The invariant is in parts: what layers exist, how the frames of a layer *)
(* are counted, what work is coming, what is drawn, and who waits for it.  *)
(***************************************************************************)
EXTENDS SurfaceFlinger, SequenceFacts, FiniteSetTheorems, TLAPS

(* Layers, messages and the states of threads, as records.                 *)
LayerRecords ==
  [current : States, drawing : States, bumped : BOOLEAN,
   mTransactionFlags : BOOLEAN, defaultSize : Sizes,
   queue : Seq(Frames), mQueueItems : Seq(Frames), mQueuedFrames : Nat,
   mSidebandStreamChanged : BOOLEAN, mRefreshPending : BOOLEAN,
   mActiveBuffer : Frames \union {None}, abandoned : BOOLEAN]

(* Messages of the three kinds of the mask, and those of clients.          *)
Messages ==
  [what : Kinds] \union
  [what : {"CREATE"}, layer : Layers, caller : Threads] \union
  [what : {"CAPTURE"}, caller : Threads, applied : Nat]

(* A producer with a buffer, with one that is queued, or with none.        *)
ProducerStates ==
  [at : {"idle", "pushed"}] \union [at : {"dequeued"}, size : Sizes] \union
  [at : {"queued"}, frame : Frames, replaces : BOOLEAN]

(* A client inside a call, waiting for a commit, or neither.               *)
ThreadStates ==
  [at : {"idle", "blocked"}] \union
  [at : {"sent", "animWait", "animWoken"},
   changes : SUBSET [layer : Layers, change : Changes],
   eSynchronous : BOOLEAN, eAnimation : BOOLEAN] \union
  [at : {"syncWait", "syncWoken"}, sync : BOOLEAN, applied : Nat]

(* The main thread outside a message, in one, and in a page flip.          *)
MainStates ==
  [at : {"idle"}] \union
  [at : {"invalidate", "transaction", "refresh", "create", "capture"},
   message : Messages] \union
  [at : {"pageFlip"}, refresh : BOOLEAN] \union
  [at : {"latch"}, todo : SUBSET Layers, dirty : BOOLEAN, refresh : BOOLEAN] \union
  [at : {"latched"}, todo : SUBSET Layers, layer : Layers, refresh : BOOLEAN,
   dirty : BOOLEAN, result : {"NO_ERROR", "NO_INIT", "PRESENT_LATER"},
   frame : Frames \union {None}]

(* The types of the state.                                                 *)
SfTypeInv ==
  /\ layer \in [Layers -> LayerRecords]
  /\ producer \in [Layers -> ProducerStates]
  /\ thread \in [Threads -> ThreadStates]
  /\ main \in MainStates
  /\ main.at \in {"invalidate", "transaction", "refresh", "create", "capture"}
       => main.at = HandlerOf(main.message.what)
  /\ mLooper \in Seq(Messages)
  /\ mEventMask \subseteq Kinds /\ vsyncRequested \in BOOLEAN /\ mEventTube \in BOOLEAN
  /\ mTransactionPending \in BOOLEAN /\ mAnimTransactionPending \in BOOLEAN
  /\ mVisibleRegionsDirty \in BOOLEAN /\ mRepaintEverything \in BOOLEAN
  /\ mLayersRemoved \in BOOLEAN
  /\ budget \in Nat /\ now \in Nat
  /\ applied \in Nat /\ committed \in Nat /\ animation \in Nat /\ gaveUp \in BOOLEAN

-----------------------------------------------------------------------------
(* The places of the looper.                                               *)
Places == 1 .. Len(mLooper)

(* The lists of layers, and what separates them.  A layer that was removed *)
(* and listed again is in two of them, or abandoned and drawn.             *)
ListsFit ==
  /\ mCurrentState \subseteq Layers /\ mDrawingState \subseteq Layers
  /\ mLayersPendingRemoval \subseteq Layers
  /\ mDrawingState \subseteq mCurrentState \union mLayersPendingRemoval
  /\ mLayersPendingRemoval # {} => mLayersRemoved
  /\ mCurrentState # mDrawingState => mTransactionFlags # {}

(* A layer that does not exist has no past.                                *)
FreshAreNew ==
  \A l \in Layers : ~Exists(l) => layer[l] = NewLayer /\ producer[l] = Idle

(* A layer that is being created does not exist, and is the only one.      *)
CreatedAreFresh ==
  /\ \A i, j \in Places : mLooper[i].what = "CREATE" /\ mLooper[j].what = "CREATE" => i = j
  /\ \A i \in Places : mLooper[i].what = "CREATE" =>
       ~Exists(mLooper[i].layer) /\ main.at # "create"
  /\ main.at = "create" => ~Exists(main.message.layer)

(* What is latched is drawn.                                               *)
LatchedAreDrawn ==
  /\ main.at \in {"latch", "latched"} => main.todo \subseteq mDrawingState
  /\ main.at = "latched" => main.layer \in mDrawingState

(* Which layers exist.                                                     *)
LifeInv == SfTypeInv /\ ListsFit /\ FreshAreNew /\ CreatedAreFresh /\ LatchedAreDrawn

-----------------------------------------------------------------------------
(* The producer of l has pushed a frame and not counted it, or has queued  *)
(* one that is still to be pushed.                                         *)
Pushed(l) == IF producer[l].at = "pushed" THEN 1 ELSE 0
Pushing(l) ==
  IF producer[l].at = "queued" /\ ~producer[l].replaces THEN 1 ELSE Pushed(l)

(* The main thread has taken a frame of l that is still counted.           *)
Latched(l) == main.at = "latched" /\ main.layer = l
Taken(l) == IF Latched(l) /\ main.result # "PRESENT_LATER" THEN 1 ELSE 0

(* The frames of a layer are counted, in the tracker and, for those still  *)
(* queued, in the counter.                                                 *)
FramesInv ==
  \A l \in Layers :
    /\ Len(layer[l].mQueueItems) = layer[l].mQueuedFrames + Pushed(l)
    /\ Len(layer[l].queue) + Taken(l) <= layer[l].mQueuedFrames + Pushing(l)
    /\ Latched(l) => layer[l].mQueuedFrames > 0
    /\ layer[l].abandoned => layer[l].queue = <<>>

-----------------------------------------------------------------------------
(* The mask has the kinds of the looper, where each is once.               *)
MaskFits ==
  \A what \in Kinds :
    /\ what \in mEventMask <=> \E i \in Places : mLooper[i].what = what
    /\ \A i, j \in Places : mLooper[i].what = what /\ mLooper[j].what = what => i = j

(* The page flip under way will end in a refresh.                          *)
RefreshComing ==
  Coming("REFRESH") \/ (main.at \in {"latch", "latched"} /\ main.refresh)

(* Transactions, repaints and frames have somebody coming for them; a page *)
(* flip that takes a frame ends in a refresh.  Flags always have a vsync   *)
(* that comes for them, so that what they list has one when it is drawn.   *)
FlagsCome == mTransactionFlags # {} => VsyncComing

RepaintsCome ==
  mRepaintEverything =>
    VsyncComing \/ Coming("REFRESH") \/ main.at \in {"pageFlip", "latch", "latched"}

FramesCome ==
  /\ \A l \in mDrawingState :
       /\ layer[l].mQueuedFrames > 0 =>
            VsyncComing \/ RefreshComing \/ main.at = "pageFlip"
       /\ layer[l].mRefreshPending => RefreshComing \/ layer[l].abandoned
  /\ \A l \in Layers \ mDrawingState :
       layer[l].mRefreshPending => layer[l].abandoned

FlipsEnd ==
  main.at = "latched" \/ (main.at = "latch" /\ main.todo # {}) => main.refresh

WorkInv == MaskFits /\ FlagsCome /\ RepaintsCome /\ FramesCome /\ FlipsEnd

-----------------------------------------------------------------------------
(* A buffer that may not be scaled has the size of its layer, and so has   *)
(* the one that is being latched.                                          *)
Fits(buffer, r) == buffer # None => buffer.scales \/ buffer.size = r.drawing.active.size
BuffersFit ==
  /\ main.at = "latched" /\ main.result # "NO_ERROR" => main.frame = None
  /\ \A l \in Layers :
       /\ layer[l].current.active = layer[l].drawing.active
       /\ IF Latched(l) /\ main.frame # None THEN Fits(main.frame, layer[l])
          ELSE Fits(layer[l].mActiveBuffer, layer[l])

(* Transactions that move regions are known.                               *)
BumpsAreKnown ==
  \A l \in Layers : ~layer[l].bumped =>
    /\ layer[l].current.z = layer[l].drawing.z
    /\ layer[l].current.alpha = layer[l].drawing.alpha

(* Regions are as drawn unless they are said to be dirty.                  *)
RegionsFit ==
  \/ mVisibleRegionsDirty
  \/ main.at \in {"latch", "latched"} /\ main.dirty
  \/ visibleRegions = ComputedRegions

(* What is set and not committed has left a flag.                          *)
FlagsTell ==
  /\ committed <= applied
  /\ mTransactionFlags = {} => committed = applied

(* A transaction is on its way before the screenshot that needs it.        *)
Served(n) == committed >= n \/ main.at = "transaction"

CaptureWaits(i) ==
  /\ mLooper[i].applied <= applied
  /\ \/ Served(mLooper[i].applied)
     \/ \E j \in 1 .. i - 1 : mLooper[j].what = "TRANSACTION"

CapturesWait ==
  /\ \A i \in Places : mLooper[i].what = "CAPTURE" => CaptureWaits(i)
  /\ main.at = "capture" => committed >= main.message.applied

(* What is drawn.                                                          *)
PicturesInv == BuffersFit /\ BumpsAreKnown /\ RegionsFit /\ FlagsTell /\ CapturesWait

-----------------------------------------------------------------------------
(* Those who wait are woken by the commit they wait for, and an animation  *)
(* frame that is not committed is pending.                                 *)
WaitersInv ==
  /\ animation <= applied
  /\ \A t \in Threads :
       /\ At(t) \in {"syncWait", "syncWoken"} => thread[t].applied <= applied
       /\ At(t) = "syncWoken" => thread[t].applied <= committed
  /\ mAnimTransactionPending \/ animation <= committed \/ gaveUp
-----------------------------------------------------------------------------
(***************************************************************************)
(* What the operations of Layer do to a record.                            *)
(***************************************************************************)

(* The way of frames is untouched from r to s.                             *)
SameFrames(r, s) ==
  /\ s.queue = r.queue /\ s.mQueueItems = r.mQueueItems
  /\ s.mQueuedFrames = r.mQueuedFrames /\ s.abandoned = r.abandoned

(* So is what is drawn, and what a transaction would do with it.           *)
SamePicture(r, s) ==
  /\ s.drawing = r.drawing /\ s.current = r.current /\ s.bumped = r.bumped
  /\ s.mActiveBuffer = r.mActiveBuffer

(* A new layer is a layer.                                                 *)
LEMMA NewLayerFacts ==
  /\ NewLayer \in LayerRecords
  /\ InitialState \in States
<1>1. InitialState \in States
  BY LayerAssumption DEF InitialState, States, Geometries
<1>2. << >> \in Seq(Frames)
  OBVIOUS
<1> QED BY <1>1, <1>2, LayerAssumption DEF NewLayer, LayerRecords

(* What a client asks for is of the right type.                            *)
LEMMA AskedType ==
  ASSUME NEW state \in States, NEW changes \in SUBSET Changes
  PROVE  /\ Asked(state, changes, "size") \in Sizes
         /\ Asked(state, changes, "crop") \in Crops
         /\ Asked(state, changes, "z") \in Zs
         /\ Asked(state, changes, "alpha") \in Alphas
<1>1. /\ Requested(state, "size") \in Sizes /\ Requested(state, "crop") \in Crops
      /\ Requested(state, "z") \in Zs /\ Requested(state, "alpha") \in Alphas
  BY DEF Requested, States, Geometries
<1>2. \A c \in Changes : /\ c.what = "size" => c.value \in Sizes
                         /\ c.what = "crop" => c.value \in Crops
                         /\ c.what = "z" => c.value \in Zs
                         /\ c.what = "alpha" => c.value \in Alphas
  BY DEF Changes
<1> QED BY <1>1, <1>2 DEF Asked

(* The setters leave alone what is drawn, and say so when they change z or *)
(* alpha.                                                                  *)
LEMMA SetFacts ==
  ASSUME NEW r \in LayerRecords, NEW changes \in SUBSET Changes
  PROVE  LET s == set(r, changes)
         IN /\ s \in LayerRecords /\ SameFrames(r, s)
            /\ s.mRefreshPending = r.mRefreshPending
            /\ s.drawing = r.drawing /\ s.mActiveBuffer = r.mActiveBuffer
            /\ s.current.active = r.current.active
            /\ ~s.bumped => /\ ~r.bumped /\ s.current.z = r.current.z
                            /\ s.current.alpha = r.current.alpha
<1> DEFINE s == set(r, changes)
           state == [active |-> r.current.active,
                     requested |-> [size |-> Asked(r.current, changes, "size"),
                                    crop |-> Asked(r.current, changes, "crop")],
                     z |-> Asked(r.current, changes, "z"),
                     alpha |-> Asked(r.current, changes, "alpha")]
<1>1. CASE News(r, changes) = {}
  BY <1>1 DEF set, SameFrames
<1>2. CASE News(r, changes) # {}
  <2>1. r.current \in States /\ r.bumped \in BOOLEAN
    BY DEF LayerRecords
  <2>2. state \in States
    BY <2>1, AskedType DEF States, Geometries
  <2>3. PICK bump \in BOOLEAN : bump = (r.bumped \/ \E c \in News(r, changes) : c.what # "size")
    OBVIOUS
  <2>4. s = [r EXCEPT !.current = state, !.bumped = bump, !.mTransactionFlags = TRUE]
    BY <1>2, <2>3 DEF set
  <2> HIDE DEF s
  <2>5. s \in LayerRecords /\ SameFrames(r, s)
        /\ s.mRefreshPending = r.mRefreshPending /\ s.drawing = r.drawing
        /\ s.mActiveBuffer = r.mActiveBuffer /\ s.current = state /\ s.bumped = bump
    <3> HIDE DEF state
    <3> QED BY <2>2, <2>4 DEF LayerRecords, SameFrames
  <2>6. ASSUME ~bump, NEW what \in {"z", "alpha"}
        PROVE  Asked(r.current, changes, what) = r.current[what]
    <3>1. \A c \in changes : c.what = what => c.value = Requested(r.current, what)
      BY <2>3, <2>6 DEF News, IsChange
    <3>2. Requested(r.current, what) = r.current[what]
      BY DEF Requested
    <3>3. CASE \E c \in changes : c.what = what
      <4>1. (CHOOSE c \in changes : c.what = what) \in {c \in changes : c.what = what}
        BY <3>3
      <4> QED BY <3>1, <3>2, <3>3, <4>1 DEF Asked
    <3> QED BY <3>2, <3>3 DEF Asked
  <2>7. ~s.bumped => ~r.bumped
    BY <2>3, <2>5
  <2>8. ~s.bumped => s.current.z = r.current.z /\ s.current.alpha = r.current.alpha
    BY <2>5, <2>6
  <2> QED BY <2>5, <2>7, <2>8 DEF s
<1> QED BY <1>1, <1>2

(* A transaction makes the current state the drawing state.                *)
LEMMA DoTransactionFacts ==
  ASSUME NEW r \in LayerRecords
  PROVE  LET s == doTransaction(r)
         IN /\ s \in LayerRecords /\ SameFrames(r, s)
            /\ s.mRefreshPending = r.mRefreshPending
            /\ s.mActiveBuffer = r.mActiveBuffer /\ ~s.bumped
            /\ s.current = s.drawing /\ s.drawing.active = NewActive(r)
            /\ s.drawing.z = r.current.z /\ s.drawing.alpha = r.current.alpha
<1> DEFINE state == [r.current EXCEPT !.active = NewActive(r)]
           default == IF r.current.requested.size # r.drawing.requested.size
                      THEN r.current.requested.size ELSE r.defaultSize
           s == doTransaction(r)
<1>1. r.current \in States /\ NewActive(r) \in Geometries
  BY DEF LayerRecords, NewActive, States
<1>2. state \in States /\ state.active = NewActive(r)
      /\ state.z = r.current.z /\ state.alpha = r.current.alpha
  BY <1>1 DEF States
<1>3. default \in Sizes
  BY DEF LayerRecords, States, Geometries
<1>4. s = [r EXCEPT !.defaultSize = default, !.current = state, !.drawing = state,
                    !.bumped = FALSE, !.mTransactionFlags = FALSE]
  BY DEF doTransaction
<1> HIDE DEF state, default, s
<1>5. /\ s \in LayerRecords /\ SameFrames(r, s)
      /\ s.mRefreshPending = r.mRefreshPending /\ s.mActiveBuffer = r.mActiveBuffer
      /\ ~s.bumped /\ s.current = state /\ s.drawing = state
  BY <1>2, <1>3, <1>4 DEF LayerRecords, SameFrames
<1> QED BY <1>2, <1>5 DEF s

(* A layer with another queue.                                             *)
LEMMA OtherQueue ==
  ASSUME NEW r \in LayerRecords, NEW q \in Seq(Frames),
         NEW s, s = [r EXCEPT !.queue = q]
  PROVE  /\ s \in LayerRecords /\ SamePicture(r, s) /\ s.queue = q
         /\ s.mQueueItems = r.mQueueItems /\ s.mQueuedFrames = r.mQueuedFrames
         /\ s.abandoned = r.abandoned /\ s.mRefreshPending = r.mRefreshPending
  BY DEF LayerRecords, SamePicture

(* A queued frame is one more, unless it replaces another.                 *)
LEMMA QueueBufferFacts ==
  ASSUME NEW r \in LayerRecords, NEW frame \in Frames
  PROVE  LET s == queueBuffer(r, frame)
         IN /\ s \in LayerRecords /\ SamePicture(r, s)
            /\ s.mQueueItems = r.mQueueItems /\ s.mQueuedFrames = r.mQueuedFrames
            /\ s.abandoned = r.abandoned /\ s.mRefreshPending = r.mRefreshPending
            /\ Len(s.queue) = Len(r.queue) + (IF Replaces(r) THEN 0 ELSE 1)
<1> DEFINE q == IF Replaces(r) THEN <<frame>> \o Tail(r.queue) ELSE Append(r.queue, frame)
           s == queueBuffer(r, frame)
<1>1. r.queue \in Seq(Frames)
  BY DEF LayerRecords
<1>2. CASE Replaces(r)
  <2>1. r.queue # << >>
    BY <1>2 DEF Replaces
  <2>2. Tail(r.queue) \in Seq(Frames) /\ Len(Tail(r.queue)) = Len(r.queue) - 1
        /\ Len(r.queue) \in Nat
    BY <1>1, <2>1
  <2>3. <<frame>> \in Seq(Frames) /\ Len(<<frame>>) = 1
    OBVIOUS
  <2>4. q \in Seq(Frames) /\ Len(q) = Len(r.queue)
    <3>1. q = <<frame>> \o Tail(r.queue)
      BY <1>2
    <3>2. <<frame>> \o Tail(r.queue) \in Seq(Frames)
      BY <2>2, <2>3
    <3>3. Len(<<frame>> \o Tail(r.queue)) = 1 + Len(Tail(r.queue))
      BY <2>2, <2>3
    <3>4. 1 + Len(Tail(r.queue)) = Len(r.queue)
      BY <2>2
    <3> HIDE DEF q
    <3> QED BY <3>1, <3>2, <3>3, <3>4
  <2>5. s = [r EXCEPT !.queue = q]
    BY DEF queueBuffer
  <2> HIDE DEF q
  <2> QED BY <1>2, <2>2, <2>4, <2>5, OtherQueue
<1>3. CASE ~Replaces(r)
  <2>1. q \in Seq(Frames) /\ Len(q) = Len(r.queue) + 1
    <3>1. Append(r.queue, frame) \in Seq(Frames)
          /\ Len(Append(r.queue, frame)) = Len(r.queue) + 1
      BY <1>1
    <3> QED BY <1>3, <3>1
  <2>2. s = [r EXCEPT !.queue = q]
    BY DEF queueBuffer
  <2> HIDE DEF q
  <2> QED BY <1>3, <2>1, <2>2, OtherQueue
<1> QED BY <1>2, <1>3

(* The two halves of onFrameAvailable.                                     *)
LEMMA OnFrameAvailableFacts ==
  ASSUME NEW r \in LayerRecords, NEW frame \in Frames
  PROVE  /\ LET s == onFrameAvailablePush(r, frame)
            IN /\ s \in LayerRecords /\ SamePicture(r, s) /\ s.queue = r.queue
               /\ s.mQueuedFrames = r.mQueuedFrames /\ s.abandoned = r.abandoned
               /\ s.mRefreshPending = r.mRefreshPending
               /\ Len(s.mQueueItems) = Len(r.mQueueItems) + 1
         /\ LET s == onFrameAvailableCount(r)
            IN /\ s \in LayerRecords /\ SamePicture(r, s) /\ s.queue = r.queue
               /\ s.mQueuedFrames = r.mQueuedFrames + 1 /\ s.abandoned = r.abandoned
               /\ s.mRefreshPending = r.mRefreshPending
               /\ s.mQueueItems = r.mQueueItems
<1>1. r.mQueueItems \in Seq(Frames) /\ r.mQueuedFrames \in Nat
  BY DEF LayerRecords
<1>2. PICK items : items = Append(r.mQueueItems, frame)
  OBVIOUS
<1>3. PICK n : n = r.mQueuedFrames + 1
  OBVIOUS
<1>4. items \in Seq(Frames) /\ Len(items) = Len(r.mQueueItems) + 1 /\ n \in Nat
  BY <1>1, <1>2, <1>3
<1>5. onFrameAvailablePush(r, frame) = [r EXCEPT !.mQueueItems = items]
  BY <1>2 DEF onFrameAvailablePush
<1>6. onFrameAvailableCount(r) = [r EXCEPT !.mQueuedFrames = n]
  BY <1>3 DEF onFrameAvailableCount
<1>7. LET s == onFrameAvailablePush(r, frame)
      IN /\ s \in LayerRecords /\ SamePicture(r, s) /\ s.queue = r.queue
         /\ s.mQueuedFrames = r.mQueuedFrames /\ s.abandoned = r.abandoned
         /\ s.mRefreshPending = r.mRefreshPending
         /\ Len(s.mQueueItems) = Len(r.mQueueItems) + 1
  BY <1>4, <1>5 DEF LayerRecords, SamePicture
<1>8. LET s == onFrameAvailableCount(r)
      IN /\ s \in LayerRecords /\ SamePicture(r, s) /\ s.queue = r.queue
         /\ s.mQueuedFrames = n /\ s.abandoned = r.abandoned
         /\ s.mRefreshPending = r.mRefreshPending
         /\ s.mQueueItems = r.mQueueItems
  BY <1>4, <1>6 DEF LayerRecords, SamePicture
<1> QED BY <1>3, <1>7, <1>8

(* What touches one flag, or ends the life of a layer.                     *)
LEMMA FlagFacts ==
  ASSUME NEW r \in LayerRecords
  PROVE  /\ LET s == onSidebandStreamChanged(r)
            IN /\ s \in LayerRecords /\ SamePicture(r, s) /\ SameFrames(r, s)
               /\ s.mRefreshPending = r.mRefreshPending
         /\ LET s == [r EXCEPT !.mSidebandStreamChanged = FALSE]
            IN /\ s \in LayerRecords /\ SamePicture(r, s) /\ SameFrames(r, s)
               /\ s.mRefreshPending = r.mRefreshPending
         /\ LET s == onPreComposition(r)
            IN /\ s \in LayerRecords /\ SamePicture(r, s) /\ SameFrames(r, s)
               /\ ~s.mRefreshPending
         /\ LET s == onRemoved(r)
            IN /\ s \in LayerRecords /\ SamePicture(r, s) /\ s.queue = << >>
               /\ s.mQueueItems = r.mQueueItems /\ s.mQueuedFrames = r.mQueuedFrames
               /\ s.mRefreshPending = r.mRefreshPending /\ s.abandoned
<1>1. << >> \in Seq(Frames)
  OBVIOUS
<1> QED
  BY <1>1 DEF onSidebandStreamChanged, onPreComposition, onRemoved, LayerRecords,
     SamePicture, SameFrames

(* A geometry that takes effect is that of the buffer, or scales it.       *)
LEMMA GeometryFacts ==
  ASSUME NEW r \in LayerRecords, NEW frame \in Frames
  PROVE  LET s == WithGeometry(r, frame)
         IN /\ s \in LayerRecords /\ SameFrames(r, s)
            /\ s.mRefreshPending = r.mRefreshPending
            /\ s.mActiveBuffer = r.mActiveBuffer /\ s.bumped = r.bumped
            /\ s.drawing.z = r.drawing.z /\ s.drawing.alpha = r.drawing.alpha
            /\ s.current.z = r.current.z /\ s.current.alpha = r.current.alpha
            /\ r.current.active = r.drawing.active => s.current.active = s.drawing.active
            /\ TakesGeometry(r, frame) =>
                 frame.scales \/ s.drawing.active.size = frame.size
            /\ ~TakesGeometry(r, frame) => s = r
<1>1. CASE TakesGeometry(r, frame)
  <2> DEFINE drawing == [r.drawing EXCEPT !.active = r.drawing.requested]
             current == [r.current EXCEPT !.active = r.drawing.requested]
             s == WithGeometry(r, frame)
  <2>1. r.drawing \in States /\ r.current \in States
    BY DEF LayerRecords
  <2>2. /\ drawing \in States /\ drawing.active = r.drawing.requested
        /\ drawing.z = r.drawing.z /\ drawing.alpha = r.drawing.alpha
    BY <2>1 DEF States
  <2>3. /\ current \in States /\ current.active = r.drawing.requested
        /\ current.z = r.current.z /\ current.alpha = r.current.alpha
    BY <2>1 DEF States
  <2>4. s = [r EXCEPT !.drawing = drawing, !.current = current]
    BY <1>1, <2>1 DEF WithGeometry, LayerRecords, States
  <2> HIDE DEF drawing, current, s
  <2>5. /\ s \in LayerRecords /\ SameFrames(r, s)
        /\ s.mRefreshPending = r.mRefreshPending
        /\ s.mActiveBuffer = r.mActiveBuffer /\ s.bumped = r.bumped
        /\ s.drawing = drawing /\ s.current = current
    BY <2>2, <2>3, <2>4 DEF LayerRecords, SameFrames
  <2>6. frame.scales \/ frame.size = r.drawing.requested.size
    BY <1>1 DEF TakesGeometry
  <2> QED BY <1>1, <2>2, <2>3, <2>5, <2>6 DEF s
<1>2. CASE ~TakesGeometry(r, frame)
  BY <1>2 DEF WithGeometry, SameFrames
<1> QED BY <1>1, <1>2

(* r and s differ in the queue and the drawn geometry only, which both     *)
(* states have.                                                            *)
SameButLatched(r, s) ==
  /\ s.mQueueItems = r.mQueueItems /\ s.mQueuedFrames = r.mQueuedFrames
  /\ s.abandoned = r.abandoned /\ s.mRefreshPending = r.mRefreshPending
  /\ s.mActiveBuffer = r.mActiveBuffer /\ s.bumped = r.bumped
  /\ s.drawing.z = r.drawing.z /\ s.drawing.alpha = r.drawing.alpha
  /\ s.current.z = r.current.z /\ s.current.alpha = r.current.alpha
  /\ r.current.active = r.drawing.active => s.current.active = s.drawing.active

(* An answer of updateTexImage: a frame that is taken is no longer queued, *)
(* and it fits; without one, or if nothing is dirty, the geometry stays.   *)
GoodAnswer(r, answer) ==
  /\ answer.layer \in LayerRecords
  /\ answer.result \in {"NO_ERROR", "NO_INIT", "PRESENT_LATER"}
  /\ answer.frame \in Frames \union {None} /\ answer.dirty \in BOOLEAN
  /\ SameButLatched(r, answer.layer)
  /\ answer.frame = None \/ ~answer.dirty =>
       answer.layer.drawing.active = r.drawing.active
  /\ Fits(answer.frame, answer.layer)
  /\ answer.result # "NO_ERROR" => answer.frame = None
  /\ answer.result = "NO_INIT" => r.abandoned /\ answer.layer = r
  /\ Len(answer.layer.queue) <= Len(r.queue)
  /\ answer.result = "NO_ERROR" =>
       r.queue = << >> \/ Len(answer.layer.queue) + 1 <= Len(r.queue)
  /\ r.queue = << >> => answer.layer.queue = << >>

(* The answers of updateTexImage are good.                                 *)
LEMMA UpdateTexImageFacts ==
  ASSUME NEW r \in LayerRecords, NEW t \in Nat,
         NEW drop \in IF r.queue = << >> THEN {0} ELSE Droppable(r, t)
  PROVE  GoodAnswer(r, updateTexImage(r, t, drop))
<1>0. PICK answer : answer = updateTexImage(r, t, drop)
  OBVIOUS
<1> SUFFICES GoodAnswer(r, answer)
  BY <1>0
<1>1. r.queue \in Seq(Frames)
  BY DEF LayerRecords
<1>2. CASE r.abandoned
  <2>1. answer = [result |-> "NO_INIT", frame |-> None, layer |-> r, dirty |-> TRUE]
    BY <1>0, <1>2 DEF updateTexImage, Answers
  <2>2. answer.result = "NO_INIT" /\ answer.frame = None /\ answer.layer = r
        /\ answer.dirty = TRUE
    BY <2>1
  <2>3. SameButLatched(r, r) /\ Fits(None, r) /\ Len(r.queue) <= Len(r.queue)
    BY <1>1 DEF SameButLatched, Fits
  <2> QED BY <1>2, <2>2, <2>3 DEF GoodAnswer
<1>3. CASE ~r.abandoned /\ r.queue = << >>
  <2>1. answer = [result |-> "NO_ERROR", frame |-> None, layer |-> r, dirty |-> FALSE]
    BY <1>0, <1>3 DEF updateTexImage, Answers
  <2>2. answer.result = "NO_ERROR" /\ answer.frame = None /\ answer.layer = r
        /\ answer.dirty = FALSE
    BY <2>1
  <2>3. SameButLatched(r, r) /\ Fits(None, r) /\ Len(r.queue) <= Len(r.queue)
    BY <1>1 DEF SameButLatched, Fits
  <2> QED BY <1>3, <2>2, <2>3 DEF GoodAnswer
<1>4. CASE ~r.abandoned /\ r.queue # << >>
  <2> DEFINE frame == r.queue[drop + 1]
             taken == [r EXCEPT !.queue = SubSeq(r.queue, drop + 2, Len(r.queue))]
             kept == [r EXCEPT !.queue = SubSeq(r.queue, drop + 1, Len(r.queue))]
             sized == WithGeometry(taken, frame)
  <2>1. drop \in 0 .. Len(r.queue) - 1 /\ Len(r.queue) \in Nat
    BY <1>1, <1>4 DEF Droppable
  <2>2. frame \in Frames
    BY <1>1, <2>1
  <2>3. /\ SubSeq(r.queue, drop + 2, Len(r.queue)) \in Seq(Frames)
        /\ Len(SubSeq(r.queue, drop + 2, Len(r.queue))) = Len(r.queue) - drop - 1
        /\ SubSeq(r.queue, drop + 1, Len(r.queue)) \in Seq(Frames)
        /\ Len(SubSeq(r.queue, drop + 1, Len(r.queue))) = Len(r.queue) - drop
    BY <1>1, <2>1
  <2>4. CASE frame.due > t
    <3>1. answer = [result |-> "PRESENT_LATER", frame |-> None, layer |-> kept,
                    dirty |-> FALSE]
      BY <1>0, <1>4, <2>4 DEF updateTexImage, Answers
    <3>2. /\ kept \in LayerRecords /\ SameButLatched(r, kept)
          /\ kept.drawing = r.drawing
          /\ Len(kept.queue) = Len(r.queue) - drop
      <4>1. PICK q : q = SubSeq(r.queue, drop + 1, Len(r.queue))
        OBVIOUS
      <4>2. q \in Seq(Frames) /\ Len(q) = Len(r.queue) - drop
        BY <2>3, <4>1
      <4>3. kept = [r EXCEPT !.queue = q]
        BY <4>1
      <4> HIDE DEF kept
      <4> QED BY <4>2, <4>3 DEF LayerRecords, SameButLatched
    <3> HIDE DEF kept
    <3>3. Len(answer.layer.queue) <= Len(r.queue)
      BY <2>1, <3>1, <3>2
    <3>4. answer.result = "PRESENT_LATER" /\ answer.frame = None
          /\ answer.layer = kept /\ answer.dirty = FALSE
      BY <3>1
    <3> QED BY <1>4, <3>2, <3>3, <3>4 DEF GoodAnswer, Fits
  <2>5. CASE ~(frame.due > t)
    <3>1. answer = [result |-> "NO_ERROR",
                    frame |-> IF reject(sized, frame) THEN None ELSE frame,
                    layer |-> sized, dirty |-> TakesGeometry(r, frame)]
      BY <1>0, <1>4, <2>5 DEF updateTexImage, Answers
    <3>2. /\ taken \in LayerRecords /\ SameButLatched(r, taken)
          /\ taken.drawing = r.drawing /\ taken.current = r.current
          /\ Len(taken.queue) = Len(r.queue) - drop - 1
      <4>1. PICK q : q = SubSeq(r.queue, drop + 2, Len(r.queue))
        OBVIOUS
      <4>2. q \in Seq(Frames) /\ Len(q) = Len(r.queue) - drop - 1
        BY <2>3, <4>1
      <4>3. taken = [r EXCEPT !.queue = q]
        BY <4>1
      <4> HIDE DEF taken
      <4> QED BY <4>2, <4>3 DEF LayerRecords, SameButLatched
    <3>3. TakesGeometry(taken, frame) = TakesGeometry(r, frame)
          /\ TakesGeometry(r, frame) \in BOOLEAN
      BY <2>2, <3>2 DEF TakesGeometry, Frames
    <3> HIDE DEF taken, frame
    <3>4. /\ sized \in LayerRecords /\ SameFrames(taken, sized)
          /\ sized.mRefreshPending = taken.mRefreshPending
          /\ sized.mActiveBuffer = taken.mActiveBuffer /\ sized.bumped = taken.bumped
          /\ sized.drawing.z = taken.drawing.z
          /\ sized.drawing.alpha = taken.drawing.alpha
          /\ sized.current.z = taken.current.z
          /\ sized.current.alpha = taken.current.alpha
          /\ taken.current.active = taken.drawing.active =>
               sized.current.active = sized.drawing.active
          /\ TakesGeometry(taken, frame) =>
               frame.scales \/ sized.drawing.active.size = frame.size
          /\ ~TakesGeometry(taken, frame) => sized = taken
      BY <2>2, <3>2, GeometryFacts
    <3> HIDE DEF sized
    <3>5. SameButLatched(r, sized)
      BY <3>2, <3>4 DEF SameButLatched, SameFrames
    <3>6. answer.frame \in Frames \union {None} /\ answer.result = "NO_ERROR"
          /\ answer.layer = sized /\ answer.dirty = TakesGeometry(r, frame)
      BY <2>2, <3>1
    <3>7. Fits(answer.frame, sized)
      BY <3>1 DEF Fits, reject
    <3>8. answer.frame = None => ~TakesGeometry(r, frame)
      BY <2>2, <3>1, <3>3, <3>4, LayerAssumption DEF reject
    <3>9. ~TakesGeometry(r, frame) => sized.drawing.active = r.drawing.active
      BY <3>2, <3>3, <3>4
    <3>10. Len(sized.queue) + 1 <= Len(r.queue)
      BY <2>1, <3>2, <3>4 DEF SameFrames
    <3> QED BY <1>4, <2>1, <3>3, <3>4, <3>5, <3>6, <3>7, <3>8, <3>9, <3>10 DEF GoodAnswer, LayerRecords
  <2> QED BY <2>4, <2>5
<1> QED BY <1>2, <1>3, <1>4

(* The tracker forgets a frame, and the layer has its buffer.              *)
LEMMA UntrackedFacts ==
  ASSUME NEW r \in LayerRecords, r.mQueueItems # << >>, r.mQueuedFrames > 0
  PROVE  LET s == Untracked(r)
         IN /\ s \in LayerRecords /\ SamePicture(r, s) /\ s.queue = r.queue
            /\ s.mQueuedFrames = r.mQueuedFrames - 1
            /\ Len(s.mQueueItems) = Len(r.mQueueItems) - 1
            /\ s.abandoned = r.abandoned /\ s.mRefreshPending = r.mRefreshPending
<1>1. PICK items : items = Tail(r.mQueueItems)
  OBVIOUS
<1>2. PICK n : n = r.mQueuedFrames - 1
  OBVIOUS
<1>3. r.mQueueItems \in Seq(Frames) /\ r.mQueuedFrames \in Nat
  BY DEF LayerRecords
<1>4. items \in Seq(Frames) /\ Len(items) = Len(r.mQueueItems) - 1 /\ n \in Nat
  BY <1>1, <1>2, <1>3
<1>5. Untracked(r) = [r EXCEPT !.mQueueItems = items, !.mQueuedFrames = n]
  BY <1>1, <1>2 DEF Untracked
<1>6. LET s == Untracked(r)
      IN /\ s \in LayerRecords /\ SamePicture(r, s) /\ s.queue = r.queue
         /\ s.mQueuedFrames = n /\ s.mQueueItems = items
         /\ s.abandoned = r.abandoned /\ s.mRefreshPending = r.mRefreshPending
  BY <1>4, <1>5 DEF LayerRecords, SamePicture
<1> QED BY <1>2, <1>4, <1>6

(* A buffer that is set is the one given, if there is one.                 *)
LEMMA SetActiveBufferFacts ==
  ASSUME NEW r \in LayerRecords, NEW frame \in Frames \union {None}
  PROVE  LET s == setActiveBuffer(r, frame)
         IN /\ s \in LayerRecords /\ SameFrames(r, s)
            /\ s.drawing = r.drawing /\ s.current = r.current /\ s.bumped = r.bumped
            /\ s.mActiveBuffer = IF frame = None THEN r.mActiveBuffer ELSE frame
<1> DEFINE buffer == IF frame = None THEN r.mActiveBuffer ELSE frame
           s == setActiveBuffer(r, frame)
<1>1. buffer \in Frames \union {None}
  BY DEF LayerRecords
<1>2. CASE frame = None /\ r.mActiveBuffer = None
  BY <1>2 DEF setActiveBuffer, SameFrames
<1>3. CASE ~(frame = None /\ r.mActiveBuffer = None)
  <2>1. s = [r EXCEPT !.mActiveBuffer = buffer, !.mRefreshPending = TRUE]
    BY <1>3 DEF setActiveBuffer
  <2> HIDE DEF buffer, s
  <2>2. s \in LayerRecords /\ SameFrames(r, s) /\ s.mActiveBuffer = buffer
        /\ s.drawing = r.drawing /\ s.current = r.current /\ s.bumped = r.bumped
    BY <1>1, <2>1 DEF LayerRecords, SameFrames
  <2> QED BY <2>2 DEF buffer, s
<1> QED BY <1>2, <1>3
-----------------------------------------------------------------------------
(***************************************************************************)
(* Types.                                                                  *)
(***************************************************************************)

(* A message that is sent is behind those that were there.                 *)
LEMMA DispatchFacts ==
  ASSUME mLooper \in Seq(Messages), NEW what \in Kinds,
         NEW messages \in Seq(Messages), dispatch(what, messages)
  PROVE  /\ mEventMask' = mEventMask \union {what} /\ mLooper' \in Seq(Messages)
         /\ Len(mLooper') = Len(mLooper) + Len(messages) +
                              (IF what \in mEventMask THEN 0 ELSE 1)
         /\ \A i \in Places : mLooper'[i] = mLooper[i]
         /\ what \notin mEventMask => mLooper'[Len(mLooper) + 1] = [what |-> what]
         /\ \A k \in 1 .. Len(messages) :
              mLooper'[Len(mLooper') - Len(messages) + k] = messages[k]
<1> DEFINE event == [what |-> what]
           new == IF what \in mEventMask THEN << >> ELSE <<event>>
           base == IF what \in mEventMask THEN mLooper ELSE Append(mLooper, event)
<1>1. event \in Messages
  BY DEF Messages
<1>2. /\ base \in Seq(Messages)
      /\ Len(base) = Len(mLooper) + (IF what \in mEventMask THEN 0 ELSE 1)
      /\ \A i \in Places : base[i] = mLooper[i]
      /\ what \notin mEventMask => base[Len(mLooper) + 1] = event
  BY <1>1, AppendProperties DEF Places
<1>3. mLooper' = base \o messages
  BY DEF dispatch, Event
<1> HIDE DEF base
<1>4. /\ mLooper' \in Seq(Messages) /\ Len(mLooper') = Len(base) + Len(messages)
      /\ \A i \in 1 .. Len(base) : mLooper'[i] = base[i]
      /\ \A k \in 1 .. Len(messages) : mLooper'[Len(base) + k] = messages[k]
  <2> HIDE DEF event
  <2>1. Len(base) \in Nat /\ Len(messages) \in Nat
    BY <1>2
  <2>2. \A k \in 1 .. Len(messages) : mLooper'[Len(base) + k] = messages[k]
    <3> SUFFICES ASSUME NEW k \in 1 .. Len(messages)
                 PROVE  mLooper'[Len(base) + k] = messages[k]
      OBVIOUS
    <3> QED BY <1>2, <1>3, <2>1, ConcatProperties
  <2>3. \A i \in 1 .. Len(base) : mLooper'[i] = base[i]
    <3> SUFFICES ASSUME NEW i \in 1 .. Len(base) PROVE mLooper'[i] = base[i]
      OBVIOUS
    <3> QED BY <1>2, <1>3, <2>1, ConcatProperties
  <2>4. mLooper' \in Seq(Messages) /\ Len(mLooper') = Len(base) + Len(messages)
    BY <1>2, <1>3, ConcatProperties
  <2> QED BY <2>2, <2>3, <2>4
<1>5. mEventMask' = mEventMask \union {what}
  BY DEF dispatch
<1>6. /\ Len(mLooper) \in Nat /\ Len(messages) \in Nat
      /\ Len(base) = Len(mLooper) + (IF what \in mEventMask THEN 0 ELSE 1)
  BY <1>2
<1>7. \A i \in Places : mLooper'[i] = mLooper[i]
  BY <1>2, <1>4, <1>6 DEF Places
<1>8. what \notin mEventMask => mLooper'[Len(mLooper) + 1] = [what |-> what]
  BY <1>2, <1>4, <1>6
<1>9. \A k \in 1 .. Len(messages) :
        mLooper'[Len(mLooper') - Len(messages) + k] = messages[k]
  <2> SUFFICES ASSUME NEW k \in 1 .. Len(messages)
               PROVE  mLooper'[Len(mLooper') - Len(messages) + k] = messages[k]
    OBVIOUS
  <2>1. Len(mLooper') - Len(messages) + k = Len(base) + k
    <3>1. Len(base) \in Nat
      BY <1>6
    <3> QED BY <1>4, <1>6, <3>1
  <2> QED BY <1>4, <2>1
<1>10. Len(mLooper') = Len(mLooper) + Len(messages) +
                         (IF what \in mEventMask THEN 0 ELSE 1)
  <2>1. PICK n \in Nat : n = IF what \in mEventMask THEN 0 ELSE 1
    OBVIOUS
  <2>2. Len(base) = Len(mLooper) + n
    BY <1>6, <2>1
  <2>3. Len(mLooper') = Len(mLooper) + Len(messages) + n
    <3>1. Len(mLooper') = Len(base) + Len(messages)
      BY <1>4
    <3>2. Len(mLooper) \in Nat /\ Len(messages) \in Nat
      BY <1>6
    <3> QED BY <2>1, <2>2, <3>1, <3>2
  <2> QED BY <2>1, <2>3
<1> QED BY <1>4, <1>5, <1>7, <1>8, <1>9, <1>10

(* A message that is received was the first.                               *)
LEMMA HandleMessageFacts ==
  ASSUME mLooper \in Seq(Messages), handleMessage
  PROVE  /\ mLooper # << >> /\ 1 \in Places /\ Head(mLooper) = mLooper[1]
         /\ mLooper[1] \in Messages /\ mLooper' \in Seq(Messages)
         /\ Len(mLooper') = Len(mLooper) - 1
         /\ \A i \in 1 .. Len(mLooper) - 1 : mLooper'[i] = mLooper[i + 1]
         /\ mEventMask' = mEventMask \ {mLooper[1].what}
<1>1. mLooper # << >> /\ mLooper' = Tail(mLooper)
      /\ mEventMask' = mEventMask \ {Head(mLooper).what}
  BY DEF handleMessage, MaskOnReceipt
<1>2. Len(mLooper) \in Nat \ {0} /\ Head(mLooper) = mLooper[1]
  BY <1>1, EmptySeq
<1> QED BY <1>1, <1>2, HeadTailProperties DEF Places

(* What threads, producers and the main thread are like where they are.    *)
LEMMA StateFacts ==
  ASSUME SfTypeInv
  PROVE  /\ Idle \in ThreadStates /\ Idle \in ProducerStates /\ Idle \in MainStates
         /\ \A t \in Threads : At(t) \in {"sent", "animWait", "animWoken"} =>
              /\ thread[t] \in [at : {"sent", "animWait", "animWoken"},
                                changes : SUBSET [layer : Layers, change : Changes],
                                eSynchronous : BOOLEAN, eAnimation : BOOLEAN]
              /\ \A at \in {"animWait", "animWoken"} :
                   [thread[t] EXCEPT !.at = at] \in ThreadStates
         /\ \A t \in Threads : At(t) \in {"syncWait", "syncWoken"} =>
              /\ thread[t] \in [at : {"syncWait", "syncWoken"}, sync : BOOLEAN,
                                applied : Nat]
              /\ \A at \in {"syncWait", "syncWoken"} :
                   [thread[t] EXCEPT !.at = at] \in ThreadStates
<1>1. Idle \in ThreadStates /\ Idle \in ProducerStates /\ Idle \in MainStates
  BY DEF Idle, ThreadStates, ProducerStates, MainStates
<1>2. ASSUME NEW t \in Threads, At(t) \in {"sent", "animWait", "animWoken"}
      PROVE  /\ thread[t] \in [at : {"sent", "animWait", "animWoken"},
                               changes : SUBSET [layer : Layers, change : Changes],
                               eSynchronous : BOOLEAN, eAnimation : BOOLEAN]
             /\ \A at \in {"animWait", "animWoken"} :
                  [thread[t] EXCEPT !.at = at] \in ThreadStates
  <2>1. thread[t] \in [at : {"sent", "animWait", "animWoken"},
                       changes : SUBSET [layer : Layers, change : Changes],
                       eSynchronous : BOOLEAN, eAnimation : BOOLEAN]
    <3>1. thread[t] \in ThreadStates
      BY DEF SfTypeInv
    <3> QED BY <1>2, <3>1 DEF At, ThreadStates
  <2>2. ASSUME NEW at \in {"animWait", "animWoken"}
        PROVE  [thread[t] EXCEPT !.at = at] \in ThreadStates
    BY <2>1 DEF ThreadStates
  <2> QED BY <2>1, <2>2
<1>3. ASSUME NEW t \in Threads, At(t) \in {"syncWait", "syncWoken"}
      PROVE  /\ thread[t] \in [at : {"syncWait", "syncWoken"}, sync : BOOLEAN,
                               applied : Nat]
             /\ \A at \in {"syncWait", "syncWoken"} :
                  [thread[t] EXCEPT !.at = at] \in ThreadStates
  <2>1. thread[t] \in [at : {"syncWait", "syncWoken"}, sync : BOOLEAN, applied : Nat]
    <3>1. thread[t] \in ThreadStates
      BY DEF SfTypeInv
    <3> QED BY <1>3, <3>1 DEF At, ThreadStates
  <2>2. ASSUME NEW at \in {"syncWait", "syncWoken"}
        PROVE  [thread[t] EXCEPT !.at = at] \in ThreadStates
    BY <2>1 DEF ThreadStates
  <2> QED BY <2>1, <2>2
<1> QED BY <1>1, <1>2, <1>3

(* What the layers become in apply.                                        *)
LEMMA ApplyFacts ==
  ASSUME SfTypeInv, NEW t \in Threads, NEW sync \in BOOLEAN, NEW anim \in BOOLEAN,
         NEW changes \in SUBSET [layer : Layers, change : Changes],
         apply(t, changes, sync, anim)
  PROVE  /\ layer' \in [Layers -> LayerRecords]
         /\ \A l \in Layers :
              /\ SameFrames(layer[l], layer'[l])
              /\ layer'[l].mRefreshPending = layer[l].mRefreshPending
              /\ layer'[l].drawing = layer[l].drawing
              /\ layer'[l].mActiveBuffer = layer[l].mActiveBuffer
              /\ layer'[l].current.active = layer[l].current.active
              /\ ~layer'[l].bumped => /\ ~layer[l].bumped
                                      /\ layer'[l].current.z = layer[l].current.z
                                      /\ layer'[l].current.alpha = layer[l].current.alpha
              /\ ~Exists(l) => layer'[l] = layer[l]
         /\ mTransactionFlags' = mTransactionFlags \union FlagsOf(changes)
         /\ Restacked(changes) # {} => mTransactionFlags' # {}
         /\ \A l \in Restacked(changes) : l \in Layers /\ Exists(l)
         /\ FlagsOf(changes) # {} /\ mTransactionFlags = {} => vsyncRequested'
         /\ vsyncRequested => vsyncRequested'
         /\ vsyncRequested' \in BOOLEAN
         /\ applied' = (IF FlagsOf(changes) = {} THEN applied ELSE applied + 1)
         /\ animation' = IF FlagsOf(changes) # {} /\ anim THEN applied' ELSE animation
         /\ \/ thread' = [thread EXCEPT ![t] = Idle]
            \/ thread' = [thread EXCEPT ![t] =
                            [at |-> "syncWait", sync |-> sync, applied |-> applied']]
<1> DEFINE mine(l) == {s.change : s \in {e \in EffectiveIn(changes) : e.layer = l}}
<1>1. layer' = [l \in Layers |-> set(layer[l], mine(l))]
  BY DEF apply, ChangedLayer
<1>2. \A l \in Layers : mine(l) \in SUBSET Changes
  BY DEF EffectiveIn
<1>3. \A l \in Layers : layer[l] \in LayerRecords
  BY DEF SfTypeInv
<1>4. \A l \in Layers : ~Exists(l) => layer'[l] = layer[l]
  <2> SUFFICES ASSUME NEW l \in Layers, ~Exists(l) PROVE layer'[l] = layer[l]
    OBVIOUS
  <2>1. mine(l) = {}
    BY DEF EffectiveIn
  <2>2. News(layer[l], mine(l)) = {}
    BY <2>1 DEF News
  <2> QED BY <1>1, <2>2 DEF set
<1> HIDE DEF mine
<1>5. \A l \in Layers :
        LET s == layer'[l]
        IN /\ s \in LayerRecords /\ SameFrames(layer[l], s)
           /\ s.mRefreshPending = layer[l].mRefreshPending
           /\ s.drawing = layer[l].drawing /\ s.mActiveBuffer = layer[l].mActiveBuffer
           /\ s.current.active = layer[l].current.active
           /\ ~s.bumped => /\ ~layer[l].bumped
                           /\ s.current.z = layer[l].current.z
                           /\ s.current.alpha = layer[l].current.alpha
  BY <1>1, <1>2, <1>3, SetFacts
<1>6. layer' \in [Layers -> LayerRecords]
  BY <1>1, <1>5
<1>7. /\ mTransactionFlags' = mTransactionFlags \union FlagsOf(changes)
      /\ FlagsOf(changes) # {} /\ mTransactionFlags = {} => vsyncRequested'
      /\ vsyncRequested => vsyncRequested'
      /\ vsyncRequested' \in BOOLEAN
  <2>1. vsyncRequested' = (vsyncRequested \/ Wakes(FlagsOf(changes)))
        /\ mTransactionFlags' = mTransactionFlags \union FlagsOf(changes)
    BY DEF apply, setTransactionFlags, invalidateIf
  <2>2. Wakes(FlagsOf(changes)) <=>
          FlagsOf(changes) # {} /\ mTransactionFlags \cap FlagsOf(changes) = {}
    BY DEF Wakes
  <2> QED BY <2>1, <2>2
<1>8. /\ applied' = (IF FlagsOf(changes) = {} THEN applied ELSE applied + 1)
      /\ animation' = IF FlagsOf(changes) # {} /\ anim THEN applied' ELSE animation
      /\ \/ thread' = [thread EXCEPT ![t] = Idle]
         \/ thread' = [thread EXCEPT ![t] =
                         [at |-> "syncWait", sync |-> sync, applied |-> applied']]
  BY DEF apply
<1>9. Restacked(changes) # {} => mTransactionFlags' # {}
  <2>1. ASSUME NEW l \in Restacked(changes)
        PROVE  "transaction" \in FlagsOf(changes)
    BY DEF FlagsOf
  <2> QED BY <1>7, <2>1
<1>10. \A l \in Restacked(changes) : l \in Layers /\ Exists(l)
  BY DEF Restacked, EffectiveIn
<1> QED BY <1>4, <1>5, <1>6, <1>7, <1>8, <1>9, <1>10

(* The tuples of variables that most actions leave alone.                  *)
LEMMA ClientTypes ==
  ASSUME SfTypeInv, NEW t \in Threads, ClientNext(t)
  PROVE  SfTypeInv'
<1> USE DEF flingerVars, screenVars, historyVars, queueVars
<1>1. CASE callSetTransactionState(t)
  <2>1. PICK call \in Calls : thread' = [thread EXCEPT ![t] =
            [at |-> "sent", changes |-> call.changes,
             eSynchronous |-> call.eSynchronous, eAnimation |-> call.eAnimation]]
    BY <1>1 DEF callSetTransactionState
  <2>2. [at |-> "sent", changes |-> call.changes,
         eSynchronous |-> call.eSynchronous, eAnimation |-> call.eAnimation]
          \in ThreadStates
    BY SurfaceFlingerAssumption DEF ThreadStates
  <2>3. budget' \in Nat
    BY <1>1 DEF callSetTransactionState, MayCall, SfTypeInv
  <2> QED BY <1>1, <2>1, <2>2, <2>3 DEF callSetTransactionState, SfTypeInv
<1>2. ASSUME NEW changes \in SUBSET [layer : Layers, change : Changes],
             NEW sync \in BOOLEAN, NEW anim \in BOOLEAN,
             apply(t, changes, sync, anim), mAnimTransactionPending' \in BOOLEAN,
             gaveUp' \in BOOLEAN
      PROVE  SfTypeInv'
  <2>1. applied' \in Nat /\ animation' \in Nat
    BY <1>2, ApplyFacts DEF SfTypeInv
  <2>2. [at |-> "syncWait", sync |-> sync, applied |-> applied'] \in ThreadStates
    BY <2>1 DEF ThreadStates
  <2>3. thread' \in [Threads -> ThreadStates]
    <3>1. \/ thread' = [thread EXCEPT ![t] = Idle]
          \/ thread' = [thread EXCEPT ![t] =
                          [at |-> "syncWait", sync |-> sync, applied |-> applied']]
      BY <1>2, ApplyFacts
    <3>2. PICK state \in ThreadStates : thread' = [thread EXCEPT ![t] = state]
      BY <2>2, <3>1, StateFacts
    <3>3. thread \in [Threads -> ThreadStates]
      BY DEF SfTypeInv
    <3> QED BY <3>2, <3>3
  <2>4. layer' \in [Layers -> LayerRecords] /\ vsyncRequested' \in BOOLEAN
    BY <1>2, ApplyFacts
  <2>5. mTransactionPending' \in BOOLEAN
    BY <1>2 DEF apply
  <2> QED BY <1>2, <2>1, <2>3, <2>4, <2>5 DEF apply, SfTypeInv
<1>3. ASSUME At(t) \in {"sent", "animWait", "animWoken"}
      PROVE  /\ thread[t].changes \in SUBSET [layer : Layers, change : Changes]
             /\ thread[t].eSynchronous \in BOOLEAN /\ thread[t].eAnimation \in BOOLEAN
  BY <1>3, StateFacts
<1>4. CASE setTransactionState(t)
  <2>1. /\ At(t) \in {"sent", "animWoken"}
        /\ mAnimTransactionPending' = (mAnimTransactionPending \/
             AnimPending(thread[t].changes, thread[t].eAnimation))
        /\ apply(t, thread[t].changes, thread[t].eSynchronous, thread[t].eAnimation)
        /\ UNCHANGED gaveUp
    BY <1>4 DEF setTransactionState
  <2>2. mAnimTransactionPending' \in BOOLEAN /\ gaveUp' \in BOOLEAN
    BY <2>1 DEF SfTypeInv
  <2> QED BY <1>2, <1>3, <2>1, <2>2
<1>5. CASE animationWaitTimesOut(t)
  <2>1. /\ At(t) = "animWait" /\ gaveUp' = TRUE
        /\ mAnimTransactionPending' = AnimPending(thread[t].changes, TRUE)
        /\ apply(t, thread[t].changes, thread[t].eSynchronous, TRUE)
    BY <1>5 DEF animationWaitTimesOut
  <2>2. mAnimTransactionPending' \in BOOLEAN
    BY <2>1 DEF AnimPending
  <2> QED BY <1>2, <1>3, <2>1, <2>2
<1>6. CASE setTransactionStateWaits(t)
  <2>1. At(t) \in {"sent", "animWoken"}
        /\ thread' = [thread EXCEPT ![t] = [thread[t] EXCEPT !.at = "animWait"]]
    BY <1>6 DEF setTransactionStateWaits
  <2>2. [thread[t] EXCEPT !.at = "animWait"] \in ThreadStates
    BY <2>1, StateFacts
  <2>3. thread' \in [Threads -> ThreadStates]
    BY <2>1, <2>2 DEF SfTypeInv
  <2> QED BY <1>6, <2>3 DEF setTransactionStateWaits, SfTypeInv
<1>7. CASE syncWaitEnds(t)
  <2>1. At(t) = "syncWoken"
        /\ \/ thread' = [thread EXCEPT ![t] = [thread[t] EXCEPT !.at = "syncWait"]]
           \/ thread' = [thread EXCEPT ![t] = Idle]
    BY <1>7 DEF syncWaitEnds
  <2>2. [thread[t] EXCEPT !.at = "syncWait"] \in ThreadStates /\ Idle \in ThreadStates
    BY <2>1, StateFacts
  <2>3. thread' \in [Threads -> ThreadStates]
    BY <2>1, <2>2 DEF SfTypeInv
  <2> QED BY <1>7, <2>3 DEF syncWaitEnds, SfTypeInv
<1>8. CASE syncWaitTimesOut(t)
  BY <1>8, StateFacts DEF syncWaitTimesOut, SfTypeInv
<1>9. [at |-> "blocked"] \in ThreadStates
  BY DEF ThreadStates
<1>10. CASE createSurface(t)
  <2>1. PICK l \in Layers : postMessage([what |-> "CREATE", layer |-> l, caller |-> t])
    BY <1>10 DEF createSurface
  <2>2. [what |-> "CREATE", layer |-> l, caller |-> t] \in Messages
    BY DEF Messages
  <2>3. mLooper' \in Seq(Messages) /\ mEventMask' = mEventMask
    BY <2>1, <2>2, AppendProperties DEF postMessage, SfTypeInv
  <2>4. budget' \in Nat
    BY <1>10 DEF createSurface, MayCall, SfTypeInv
  <2> QED BY <1>9, <1>10, <2>3, <2>4 DEF createSurface, SfTypeInv
<1>11. CASE captureScreen(t)
  <2> DEFINE m == [what |-> "CAPTURE", caller |-> t, applied |-> applied]
  <2>1. dispatch("TRANSACTION", <<m>>)
    BY <1>11 DEF captureScreen
  <2>2. m \in Messages
    BY DEF Messages, SfTypeInv
  <2>3. <<m>> \in Seq(Messages) /\ "TRANSACTION" \in Kinds
    BY <2>2 DEF Kinds
  <2>4. mLooper' \in Seq(Messages) /\ mEventMask' \subseteq Kinds
    BY <2>1, <2>3, DispatchFacts DEF SfTypeInv
  <2>5. budget' \in Nat
    BY <1>11 DEF captureScreen, MayCall, SfTypeInv
  <2> QED BY <1>9, <1>11, <2>4, <2>5 DEF captureScreen, SfTypeInv
<1> QED
  BY <1>1, <1>4, <1>5, <1>6, <1>7, <1>8, <1>10, <1>11 DEF ClientNext

(* Producers, and what comes from outside.                                 *)
LEMMA OutsideTypes ==
  ASSUME SfTypeInv,
         \/ \E l \in Layers : ProducerNext(l) \/ removeLayer(l)
         \/ repaintEverything \/ eventThreadAnswers \/ passTime
  PROVE  SfTypeInv'
<1> USE DEF flingerVars, screenVars, historyVars, queueVars
<1>1. ASSUME NEW l \in Layers, ProducerNext(l)
      PROVE  SfTypeInv'
  <2>1. layer[l] \in LayerRecords /\ producer[l] \in ProducerStates
    BY DEF SfTypeInv
  <2>2. CASE dequeue(l)
    <3>1. [at |-> "dequeued", size |-> layer[l].defaultSize] \in ProducerStates
      BY <2>1 DEF LayerRecords, ProducerStates
    <3>2. budget' \in Nat
      BY <2>2 DEF dequeue, SfTypeInv
    <3> QED BY <2>2, <3>1, <3>2 DEF dequeue, SfTypeInv
  <2>3. CASE queue(l)
    <3>1. PICK kind \in FrameKinds :
            LET frame == [size |-> producer[l].size, scales |-> kind.scales,
                          due |-> kind.due, droppable |-> kind.droppable]
            IN IF layer[l].abandoned
               THEN producer' = [producer EXCEPT ![l] = Idle] /\ UNCHANGED layer
               ELSE /\ layer' = [layer EXCEPT ![l] = queueBuffer(layer[l], frame)]
                    /\ producer' = [producer EXCEPT ![l] =
                         [at |-> "queued", frame |-> frame,
                          replaces |-> Replaces(layer[l])]]
      BY <2>3 DEF queue
    <3> DEFINE frame == [size |-> producer[l].size, scales |-> kind.scales,
                         due |-> kind.due, droppable |-> kind.droppable]
    <3>2. frame \in Frames
      BY <2>1, <2>3, SurfaceFlingerAssumption DEF queue, ProducerStates, Frames
    <3> HIDE DEF frame
    <3>3. queueBuffer(layer[l], frame) \in LayerRecords
      BY <2>1, <3>2, QueueBufferFacts
    <3>4. Replaces(layer[l]) \in BOOLEAN
      BY <2>1, <3>1 DEF Replaces, LayerRecords, Frames
    <3>5. [at |-> "queued", frame |-> frame, replaces |-> Replaces(layer[l])]
             \in ProducerStates
      BY <3>2, <3>4 DEF ProducerStates
    <3>6. layer' \in [Layers -> LayerRecords] /\ producer' \in [Layers -> ProducerStates]
      <4>1. CASE layer[l].abandoned
        BY <3>1, <4>1, StateFacts DEF SfTypeInv
      <4>2. CASE ~layer[l].abandoned
        BY <3>1, <3>3, <3>5, <4>2 DEF SfTypeInv, frame
      <4> QED BY <4>1, <4>2
    <3> QED BY <2>3, <3>6 DEF queue, SfTypeInv
  <2>4. CASE notify(l)
    <3>1. producer[l].frame \in Frames
      BY <2>1, <2>4 DEF notify, ProducerStates
    <3>2. onFrameAvailablePush(layer[l], producer[l].frame) \in LayerRecords
      BY <2>1, <3>1, OnFrameAvailableFacts
    <3>3. [at |-> "pushed"] \in ProducerStates
      BY DEF ProducerStates
    <3> QED BY <2>4, <3>2, <3>3, StateFacts DEF notify, SfTypeInv
  <2>5. CASE notified(l)
    <3>1. PICK frame : frame \in Frames
      <4>1. layer[l].defaultSize \in Sizes
        BY <2>1 DEF LayerRecords
      <4>2. [size |-> layer[l].defaultSize, scales |-> TRUE, due |-> 0,
             droppable |-> TRUE] \in Frames
        BY <4>1 DEF Frames, Times
      <4> QED BY <4>2
    <3>2. onFrameAvailableCount(layer[l]) \in LayerRecords
      BY <2>1, <3>1, OnFrameAvailableFacts
    <3> QED BY <2>5, <3>2, StateFacts DEF notified, invalidate, SfTypeInv
  <2>6. CASE setSidebandStream(l)
    <3>1. onSidebandStreamChanged(layer[l]) \in LayerRecords
      BY <2>1, FlagFacts
    <3>2. budget' \in Nat
      BY <2>6 DEF setSidebandStream, SfTypeInv
    <3>3. vsyncRequested' \in BOOLEAN
      BY <2>6 DEF setSidebandStream, invalidateIf
    <3> QED BY <2>6, <3>1, <3>2, <3>3 DEF setSidebandStream, SfTypeInv
  <2> QED BY <1>1, <2>2, <2>3, <2>4, <2>5, <2>6 DEF ProducerNext
<1>2. ASSUME NEW l \in Layers, removeLayer(l)
      PROVE  SfTypeInv'
  <2>1. budget' \in Nat /\ applied' \in Nat
    BY <1>2 DEF removeLayer, SfTypeInv
  <2>2. vsyncRequested' \in BOOLEAN
    BY <1>2 DEF removeLayer, setTransactionFlags, invalidateIf
  <2> QED BY <1>2, <2>1, <2>2 DEF removeLayer, SfTypeInv
<1>3. CASE repaintEverything
  <2>1. budget' \in Nat
    BY <1>3 DEF repaintEverything, SfTypeInv
  <2> QED BY <1>3, <2>1 DEF repaintEverything, invalidate, SfTypeInv
<1>4. CASE eventThreadAnswers
  BY <1>4 DEF eventThreadAnswers, deliverVsync, LeavesMain, SfTypeInv
<1>5. CASE passTime
  BY <1>5 DEF passTime, SfTypeInv
<1> QED BY <1>1, <1>2, <1>3, <1>4, <1>5

(* The states of the main thread.                                          *)
LEMMA MainFacts ==
  ASSUME SfTypeInv
  PROVE  /\ main.at = "pageFlip" => main.refresh \in BOOLEAN
         /\ main.at = "latch" =>
              main \in [at : {"latch"}, todo : SUBSET Layers, dirty : BOOLEAN,
                        refresh : BOOLEAN]
         /\ main.at = "latched" =>
              main \in [at : {"latched"}, todo : SUBSET Layers, layer : Layers,
                        refresh : BOOLEAN, dirty : BOOLEAN,
                        result : {"NO_ERROR", "NO_INIT", "PRESENT_LATER"},
                        frame : Frames \union {None}]
         /\ main.at \in {"invalidate", "transaction", "refresh", "create", "capture"} =>
              main.message \in Messages
         /\ main.at = "create" =>
              main.message \in [what : {"CREATE"}, layer : Layers, caller : Threads]
         /\ main.at = "capture" =>
              main.message \in [what : {"CAPTURE"}, caller : Threads, applied : Nat]
<1>1. /\ main.at = "pageFlip" => main.refresh \in BOOLEAN
      /\ main.at = "latch" =>
           main \in [at : {"latch"}, todo : SUBSET Layers, dirty : BOOLEAN,
                     refresh : BOOLEAN]
      /\ main.at = "latched" =>
           main \in [at : {"latched"}, todo : SUBSET Layers, layer : Layers,
                     refresh : BOOLEAN, dirty : BOOLEAN,
                     result : {"NO_ERROR", "NO_INIT", "PRESENT_LATER"},
                     frame : Frames \union {None}]
      /\ main.at \in {"invalidate", "transaction", "refresh", "create", "capture"} =>
           main.message \in Messages /\ main.at = HandlerOf(main.message.what)
  <2>1. main \in MainStates
    BY DEF SfTypeInv
  <2>2. main.at \in {"invalidate", "transaction", "refresh", "create", "capture"} =>
           main.at = HandlerOf(main.message.what)
    BY DEF SfTypeInv
  <2> QED BY <2>1, <2>2 DEF MainStates
<1>2. \A m \in Messages :
        /\ HandlerOf(m.what) = "create" =>
             m \in [what : {"CREATE"}, layer : Layers, caller : Threads]
        /\ HandlerOf(m.what) = "capture" =>
             m \in [what : {"CAPTURE"}, caller : Threads, applied : Nat]
  BY DEF Messages, HandlerOf, Kinds
<1> QED BY <1>1, <1>2

(* What a commit makes of the layers.                                      *)
LEMMA CommitFacts ==
  ASSUME SfTypeInv, handleTransaction
  PROVE  /\ layer' \in [Layers -> LayerRecords]
         /\ \A l \in Layers :
              /\ SamePicture(Transacted(l), layer'[l])
              /\ ~NeedsTransaction(l) /\ ~Committed(l) => layer'[l] = layer[l]
              /\ Committed(l) => layer'[l].abandoned
              /\ layer'[l].mQueueItems = layer[l].mQueueItems
              /\ layer'[l].mQueuedFrames = layer[l].mQueuedFrames
              /\ layer'[l].mRefreshPending = layer[l].mRefreshPending
              /\ layer'[l].mActiveBuffer = layer[l].mActiveBuffer
              /\ \/ layer'[l].queue = layer[l].queue
                    /\ layer'[l].abandoned = layer[l].abandoned
                 \/ layer'[l].queue = << >> /\ layer'[l].abandoned /\ Committed(l)
         /\ thread' \in [Threads -> ThreadStates]
         /\ \A t \in Threads :
              \/ thread'[t] = thread[t] /\ At(t) \notin {"syncWait", "animWait"}
              \/ /\ At(t) = "syncWait" /\ thread'[t].at = "syncWoken"
                 /\ thread'[t].applied = thread[t].applied
              \/ /\ At(t) = "animWait" /\ thread'[t].at = "animWoken"
<1>1. layer' = [l \in Layers |->
        IF Committed(l) THEN onRemoved(Transacted(l)) ELSE Transacted(l)]
  BY DEF handleTransaction
<1>2. ASSUME NEW l \in Layers
      PROVE  /\ layer'[l] \in LayerRecords
             /\ SamePicture(Transacted(l), layer'[l])
             /\ ~NeedsTransaction(l) /\ ~Committed(l) => layer'[l] = layer[l]
             /\ Committed(l) => layer'[l].abandoned
             /\ layer'[l].mQueueItems = layer[l].mQueueItems
             /\ layer'[l].mQueuedFrames = layer[l].mQueuedFrames
             /\ layer'[l].mRefreshPending = layer[l].mRefreshPending
             /\ layer'[l].mActiveBuffer = layer[l].mActiveBuffer
             /\ \/ layer'[l].queue = layer[l].queue
                   /\ layer'[l].abandoned = layer[l].abandoned
                \/ layer'[l].queue = << >> /\ layer'[l].abandoned /\ Committed(l)
  <2>1. layer[l] \in LayerRecords
    BY DEF SfTypeInv
  <2>2. /\ Transacted(l) \in LayerRecords /\ SameFrames(layer[l], Transacted(l))
        /\ Transacted(l).mRefreshPending = layer[l].mRefreshPending
        /\ Transacted(l).mActiveBuffer = layer[l].mActiveBuffer
        /\ ~NeedsTransaction(l) => Transacted(l) = layer[l]
    <3>1. CASE NeedsTransaction(l)
      BY <2>1, <3>1, DoTransactionFacts DEF Transacted
    <3>2. CASE ~NeedsTransaction(l)
      BY <2>1, <3>2 DEF Transacted, SameFrames
    <3> QED BY <3>1, <3>2
  <2>3. CASE Committed(l)
    <3>1. layer'[l] = onRemoved(Transacted(l))
      BY <1>1, <2>3
    <3>2. /\ layer'[l] \in LayerRecords /\ SamePicture(Transacted(l), layer'[l])
          /\ layer'[l].queue = << >> /\ layer'[l].abandoned
          /\ layer'[l].mQueueItems = Transacted(l).mQueueItems
          /\ layer'[l].mQueuedFrames = Transacted(l).mQueuedFrames
          /\ layer'[l].mRefreshPending = Transacted(l).mRefreshPending
      <4>1. ASSUME NEW r \in LayerRecords
            PROVE  /\ onRemoved(r) \in LayerRecords /\ SamePicture(r, onRemoved(r))
                   /\ onRemoved(r).queue = << >> /\ onRemoved(r).abandoned
                   /\ onRemoved(r).mQueueItems = r.mQueueItems
                   /\ onRemoved(r).mQueuedFrames = r.mQueuedFrames
                   /\ onRemoved(r).mRefreshPending = r.mRefreshPending
        BY FlagFacts
      <4> QED BY <2>2, <3>1, <4>1
    <3>3. layer'[l].mActiveBuffer = Transacted(l).mActiveBuffer
      BY <3>2 DEF SamePicture
    <3> QED BY <2>2, <2>3, <3>2, <3>3 DEF SameFrames
  <2>4. CASE ~Committed(l)
    <3>1. layer'[l] = Transacted(l)
      BY <1>1, <2>4
    <3>2. SamePicture(Transacted(l), layer'[l])
      BY <3>1 DEF SamePicture
    <3> QED BY <2>2, <2>4, <3>1, <3>2 DEF SameFrames
  <2> QED BY <2>3, <2>4
<1>3. thread' = [t \in Threads |->
        CASE At(t) = "syncWait" -> [thread[t] EXCEPT !.at = "syncWoken"]
          [] At(t) = "animWait" -> [thread[t] EXCEPT !.at = "animWoken"]
          [] OTHER -> thread[t]]
  BY DEF handleTransaction, Broadcast
<1>4. ASSUME NEW t \in Threads
      PROVE  /\ thread'[t] \in ThreadStates
             /\ \/ thread'[t] = thread[t] /\ At(t) \notin {"syncWait", "animWait"}
                \/ /\ At(t) = "syncWait" /\ thread'[t].at = "syncWoken"
                   /\ thread'[t].applied = thread[t].applied
                \/ /\ At(t) = "animWait" /\ thread'[t].at = "animWoken"
  <2>1. CASE At(t) = "syncWait"
    <3>1. thread'[t] = [thread[t] EXCEPT !.at = "syncWoken"]
      BY <1>3, <2>1
    <3>2. thread[t] \in [at : {"syncWait", "syncWoken"}, sync : BOOLEAN, applied : Nat]
          /\ [thread[t] EXCEPT !.at = "syncWoken"] \in ThreadStates
      BY <2>1, StateFacts
    <3> QED BY <2>1, <3>1, <3>2
  <2>2. CASE At(t) = "animWait"
    <3>1. thread'[t] = [thread[t] EXCEPT !.at = "animWoken"]
      BY <1>3, <2>2
    <3>2. thread[t] \in [at : {"sent", "animWait", "animWoken"},
                         changes : SUBSET [layer : Layers, change : Changes],
                         eSynchronous : BOOLEAN, eAnimation : BOOLEAN]
          /\ [thread[t] EXCEPT !.at = "animWoken"] \in ThreadStates
      BY <2>2, StateFacts
    <3> QED BY <2>2, <3>1, <3>2
  <2>3. CASE At(t) \notin {"syncWait", "animWait"}
    BY <1>3, <2>3 DEF SfTypeInv
  <2> QED BY <2>1, <2>2, <2>3
<1>5. thread' \in [Threads -> ThreadStates]
  BY <1>3, <1>4
<1>6. layer' \in [Layers -> LayerRecords]
  BY <1>1, <1>2
<1> QED BY <1>1, <1>2, <1>4, <1>5, <1>6

(* What latching takes and gives.                                          *)
LEMMA LatchFacts ==
  ASSUME SfTypeInv, NEW l \in Layers, latchBuffer(l)
  PROVE  /\ main.at = "latch" /\ l \in main.todo /\ layer' \in [Layers -> LayerRecords]
         /\ main' \in MainStates /\ main'.at \in {"latch", "latched"}
         /\ main'.todo \subseteq main.todo /\ main'.refresh = main.refresh
         /\ main.dirty => main'.dirty
         /\ \A k \in Layers \ {l} : layer'[k] = layer[k]
         /\ \/ /\ main'.at = "latch" /\ SamePicture(layer[l], layer'[l])
               /\ SameFrames(layer[l], layer'[l])
               /\ layer'[l].mRefreshPending = layer[l].mRefreshPending
            \/ /\ main'.at = "latched" /\ main'.layer = l
               /\ layer[l].mQueuedFrames > 0
               /\ \E answer : /\ GoodAnswer(layer[l], answer)
                              /\ layer'[l] = answer.layer
                              /\ main'.result = answer.result
                              /\ main'.frame = answer.frame
                              /\ answer.dirty => main'.dirty
<1> DEFINE r == layer[l]
           rest == [main EXCEPT !.todo = main.todo \ {l}]
<1>1. /\ main.at = "latch" /\ l \in main.todo
      /\ main \in [at : {"latch"}, todo : SUBSET Layers, dirty : BOOLEAN, refresh : BOOLEAN]
      /\ r \in LayerRecords
  <2>1. main.at = "latch" /\ l \in main.todo
    BY DEF latchBuffer
  <2> QED BY <2>1, MainFacts DEF SfTypeInv
<1>2. CASE /\ r.mSidebandStreamChanged
           /\ layer' = [layer EXCEPT ![l].mSidebandStreamChanged = FALSE]
           /\ main' = [rest EXCEPT !.dirty = TRUE]
  <2>1. layer' = [layer EXCEPT ![l] = [r EXCEPT !.mSidebandStreamChanged = FALSE]]
    BY <1>2
  <2>2. LET s == [r EXCEPT !.mSidebandStreamChanged = FALSE]
        IN /\ s \in LayerRecords /\ SamePicture(r, s) /\ SameFrames(r, s)
           /\ s.mRefreshPending = r.mRefreshPending
    BY <1>1, FlagFacts
  <2>3. /\ layer' \in [Layers -> LayerRecords]
        /\ \A k \in Layers \ {l} : layer'[k] = layer[k]
        /\ layer'[l] = [r EXCEPT !.mSidebandStreamChanged = FALSE]
    BY <2>1, <2>2 DEF SfTypeInv
  <2>4. /\ main' \in MainStates /\ main'.at = "latch" /\ main'.refresh = main.refresh
        /\ main'.todo \subseteq main.todo /\ main'.dirty = TRUE
    BY <1>1, <1>2 DEF MainStates
  <2> HIDE DEF r
  <2> QED BY <1>1, <2>2, <2>3, <2>4 DEF r
<1>3. CASE /\ ~r.mSidebandStreamChanged /\ (r.mQueuedFrames = 0 \/ r.mRefreshPending)
           /\ main' = rest
           /\ UNCHANGED layer
  <2>1. /\ main' \in MainStates /\ main'.at = "latch" /\ main'.refresh = main.refresh
        /\ main'.todo \subseteq main.todo /\ main'.dirty = main.dirty
    BY <1>1, <1>3 DEF MainStates
  <2> QED BY <1>1, <1>3, <2>1 DEF SfTypeInv, SamePicture, SameFrames
<1>4. CASE /\ ~r.mSidebandStreamChanged /\ r.mQueuedFrames > 0 /\ ~r.mRefreshPending
           /\ \E drop \in IF r.queue = <<>> THEN {0} ELSE Droppable(r, now) :
                LET answer == updateTexImage(r, now, drop)
                IN /\ layer' = [layer EXCEPT ![l] = answer.layer]
                   /\ main' = [at |-> "latched", todo |-> rest.todo, layer |-> l,
                               refresh |-> main.refresh,
                               dirty |-> main.dirty \/ answer.dirty,
                               result |-> answer.result, frame |-> answer.frame]
  <2>1. PICK drop \in IF r.queue = <<>> THEN {0} ELSE Droppable(r, now) :
           /\ layer' = [layer EXCEPT ![l] = updateTexImage(r, now, drop).layer]
           /\ main' = [at |-> "latched", todo |-> rest.todo, layer |-> l,
                       refresh |-> main.refresh,
                       dirty |-> main.dirty \/ updateTexImage(r, now, drop).dirty,
                       result |-> updateTexImage(r, now, drop).result,
                       frame |-> updateTexImage(r, now, drop).frame]
    BY <1>4
  <2>2. PICK answer : answer = updateTexImage(r, now, drop)
    OBVIOUS
  <2>3. GoodAnswer(r, answer)
    BY <1>1, <2>2, UpdateTexImageFacts DEF SfTypeInv
  <2>4. /\ layer' = [layer EXCEPT ![l] = answer.layer]
        /\ main' = [at |-> "latched", todo |-> rest.todo, layer |-> l,
                    refresh |-> main.refresh, dirty |-> main.dirty \/ answer.dirty,
                    result |-> answer.result, frame |-> answer.frame]
    BY <2>1, <2>2
  <2>5. /\ layer' \in [Layers -> LayerRecords] /\ layer'[l] = answer.layer
        /\ \A k \in Layers \ {l} : layer'[k] = layer[k]
    BY <2>3, <2>4 DEF SfTypeInv, GoodAnswer
  <2>6. rest.todo = main.todo \ {l}
    BY <1>1
  <2>7. PICK dirty \in BOOLEAN : dirty = (main.dirty \/ answer.dirty)
    OBVIOUS
  <2> HIDE DEF rest
  <2>8. /\ main' \in MainStates /\ main'.at = "latched" /\ main'.layer = l
        /\ main'.refresh = main.refresh /\ main'.todo = main.todo \ {l}
        /\ main'.result = answer.result /\ main'.frame = answer.frame
        /\ main'.dirty = dirty
    BY <1>1, <2>3, <2>4, <2>6, <2>7 DEF MainStates, GoodAnswer
  <2> QED BY <1>1, <1>4, <2>3, <2>5, <2>7, <2>8
<1> QED BY <1>2, <1>3, <1>4 DEF latchBuffer

(* What the rest of latchBuffer does with the answer.                      *)
LEMMA LatchDoneFacts ==
  ASSUME SfTypeInv, FramesInv, latchBufferDone
  PROVE  /\ main.at = "latched" /\ main.layer \in Layers
         /\ main.result # "PRESENT_LATER"
         /\ layer' \in [Layers -> LayerRecords]
         /\ \A k \in Layers \ {main.layer} : layer'[k] = layer[k]
         /\ LET r == layer[main.layer]
                s == layer'[main.layer]
            IN /\ r.mQueuedFrames > 0
               /\ s.mQueuedFrames = r.mQueuedFrames - 1
               /\ Len(s.mQueueItems) = Len(r.mQueueItems) - 1
               /\ s.queue = r.queue /\ s.abandoned = r.abandoned
               /\ s.drawing = r.drawing /\ s.current = r.current
               /\ s.bumped = r.bumped
               /\ s.mActiveBuffer = IF main.result = "NO_INIT" \/ main.frame = None
                                    THEN r.mActiveBuffer ELSE main.frame
               /\ r.mQueuedFrames > 1 => vsyncRequested'
               /\ BufferDirties(r, main.frame) => main'.dirty
         /\ vsyncRequested => vsyncRequested'
         /\ vsyncRequested' \in BOOLEAN
         /\ main' \in MainStates /\ main'.at = "latch" /\ main'.todo = main.todo
         /\ main'.refresh = main.refresh
         /\ main.dirty => main'.dirty
<1> DEFINE l == main.layer
           r == layer[l]
           untracked == Untracked(r)
           s == IF main.result = "NO_INIT" THEN untracked
                ELSE setActiveBuffer(untracked, main.frame)
<1>1. /\ main.at = "latched" /\ main.result # "PRESENT_LATER"
      /\ layer' = [layer EXCEPT ![l] = s]
      /\ main' = [at |-> "latch", todo |-> main.todo, refresh |-> main.refresh,
                  dirty |-> main.dirty \/ BufferDirties(r, main.frame)]
      /\ vsyncRequested' = (vsyncRequested \/ r.mQueuedFrames > 1)
  BY DEF latchBufferDone, BackToLatch, invalidateIf
<1>2. main \in [at : {"latched"}, todo : SUBSET Layers, layer : Layers,
                refresh : BOOLEAN, dirty : BOOLEAN,
                result : {"NO_ERROR", "NO_INIT", "PRESENT_LATER"},
                frame : Frames \union {None}]
  BY <1>1, MainFacts
<1>3. r \in LayerRecords /\ l \in Layers /\ main.frame \in Frames \union {None}
  BY <1>2 DEF SfTypeInv
<1>4. r.mQueuedFrames > 0 /\ r.mQueueItems # << >>
  <2>1. r.mQueuedFrames > 0 /\ Len(r.mQueueItems) = r.mQueuedFrames + Pushed(l)
    BY <1>1, <1>3 DEF FramesInv, Latched
  <2>2. Pushed(l) \in Nat /\ r.mQueuedFrames \in Nat
    BY <1>3 DEF Pushed, LayerRecords
  <2>3. Len(r.mQueueItems) # 0
    BY <2>1, <2>2
  <2> QED BY <2>1, <2>3
<1>5. /\ untracked \in LayerRecords /\ SamePicture(r, untracked)
      /\ untracked.queue = r.queue
      /\ untracked.mQueuedFrames = r.mQueuedFrames - 1
      /\ Len(untracked.mQueueItems) = Len(r.mQueueItems) - 1
      /\ untracked.abandoned = r.abandoned
  BY <1>3, <1>4, UntrackedFacts
<1> HIDE DEF untracked
<1>6. /\ s \in LayerRecords /\ SameFrames(untracked, s)
      /\ s.drawing = r.drawing /\ s.current = r.current /\ s.bumped = r.bumped
      /\ s.mActiveBuffer = IF main.result = "NO_INIT" \/ main.frame = None
                           THEN r.mActiveBuffer ELSE main.frame
  <2>1. CASE main.result = "NO_INIT"
    BY <1>5, <2>1 DEF SamePicture, SameFrames
  <2>2. CASE main.result # "NO_INIT"
    BY <1>3, <1>5, <2>2, SetActiveBufferFacts DEF SamePicture
  <2> QED BY <2>1, <2>2
<1> HIDE DEF s
<1>7. /\ layer' \in [Layers -> LayerRecords] /\ layer'[l] = s
      /\ \A k \in Layers \ {l} : layer'[k] = layer[k]
  BY <1>1, <1>3, <1>6 DEF SfTypeInv
<1>8. PICK dirty \in BOOLEAN : dirty = (main.dirty \/ BufferDirties(r, main.frame))
  OBVIOUS
<1>9. /\ main' \in MainStates /\ main'.at = "latch" /\ main'.todo = main.todo
      /\ main'.refresh = main.refresh /\ main'.dirty = dirty
  BY <1>1, <1>2, <1>8 DEF MainStates
<1>10. /\ vsyncRequested' \in BOOLEAN /\ (vsyncRequested => vsyncRequested')
       /\ r.mQueuedFrames > 1 => vsyncRequested'
  BY <1>1
<1>11. /\ s.mQueuedFrames = r.mQueuedFrames - 1
       /\ Len(s.mQueueItems) = Len(r.mQueueItems) - 1
       /\ s.queue = r.queue /\ s.abandoned = r.abandoned
  BY <1>5, <1>6 DEF SameFrames
<1> HIDE DEF r, l
<1>12. (main.dirty => main'.dirty) /\ (BufferDirties(r, main.frame) => main'.dirty)
  BY <1>8, <1>9
<1> QED BY <1>1, <1>3, <1>4, <1>6, <1>7, <1>9, <1>10, <1>11, <1>12 DEF r, l

(* A refresh takes the flag of the layers that it shows.                   *)
LEMMA RefreshFacts ==
  ASSUME SfTypeInv, handleMessageRefresh
  PROVE  /\ layer' \in [Layers -> LayerRecords]
         /\ \A l \in Layers :
              /\ SamePicture(layer[l], layer'[l]) /\ SameFrames(layer[l], layer'[l])
              /\ l \in mDrawingState => ~layer'[l].mRefreshPending
              /\ l \notin mDrawingState => layer'[l] = layer[l]
<1>1. layer' = [l \in Layers |->
        IF l \in mDrawingState THEN onPreComposition(layer[l]) ELSE layer[l]]
  BY DEF handleMessageRefresh
<1>2. ASSUME NEW l \in Layers
      PROVE  /\ layer'[l] \in LayerRecords
             /\ SamePicture(layer[l], layer'[l]) /\ SameFrames(layer[l], layer'[l])
             /\ l \in mDrawingState => ~layer'[l].mRefreshPending
             /\ l \notin mDrawingState => layer'[l] = layer[l]
  <2>1. layer[l] \in LayerRecords
    BY DEF SfTypeInv
  <2>2. CASE l \in mDrawingState
    BY <1>1, <2>1, <2>2, FlagFacts
  <2>3. CASE l \notin mDrawingState
    BY <1>1, <2>1, <2>3 DEF SamePicture, SameFrames
  <2> QED BY <2>2, <2>3
<1>3. layer' \in [Layers -> LayerRecords]
  BY <1>1, <1>2
<1> QED BY <1>2, <1>3

(* The main thread.                                                        *)
LEMMA MainTypes ==
  ASSUME LifeInv, FramesInv, MainNext
  PROVE  SfTypeInv'
<1> USE DEF flingerVars, screenVars, historyVars, queueVars, LeavesMain
<1>0. SfTypeInv /\ mDrawingState \subseteq Layers
  BY DEF LifeInv, ListsFit
<1>1. Idle \in MainStates /\ Idle \in ThreadStates /\ Idle.at = "idle"
  BY <1>0, StateFacts DEF Idle
<1>2. CASE receiveVsync
  <2>1. dispatch("INVALIDATE", << >>) /\ mEventTube' = FALSE
    BY <1>2 DEF receiveVsync, eventReceiver
  <2>2. << >> \in Seq(Messages) /\ "INVALIDATE" \in Kinds
    BY DEF Kinds
  <2>3. mLooper' \in Seq(Messages) /\ mEventMask' \subseteq Kinds
    BY <1>0, <2>1, <2>2, DispatchFacts DEF SfTypeInv
  <2> QED BY <1>0, <1>2, <2>1, <2>3 DEF receiveVsync, eventReceiver, SfTypeInv
<1>3. CASE receiveMessage
  <2>1. /\ handleMessage
        /\ main' = [at |-> HandlerOf(Head(mLooper).what), message |-> Head(mLooper)]
    BY <1>3 DEF receiveMessage
  <2>2. /\ Head(mLooper) \in Messages /\ mLooper' \in Seq(Messages)
        /\ mEventMask' \subseteq Kinds
    BY <1>0, <2>1, HandleMessageFacts DEF SfTypeInv
  <2>3. HandlerOf(Head(mLooper).what) \in
          {"invalidate", "transaction", "refresh", "create", "capture"}
    BY <2>2 DEF Messages, HandlerOf, Kinds
  <2>4. main' \in MainStates /\ main'.at = HandlerOf(main'.message.what)
    BY <2>1, <2>2, <2>3 DEF MainStates
  <2> QED BY <1>0, <1>3, <2>2, <2>4 DEF receiveMessage, SfTypeInv
<1>4. CASE createLayer
  <2>1. main.message.layer \in Layers /\ main.message.caller \in Threads
    BY <1>0, <1>4, MainFacts DEF createLayer
  <2>2. /\ layer' \in [Layers -> LayerRecords] /\ thread' \in [Threads -> ThreadStates]
        /\ main' = Idle
    BY <1>0, <1>1, <1>4, <2>1, NewLayerFacts DEF createLayer, SfTypeInv
  <2>3. applied' \in Nat /\ vsyncRequested' \in BOOLEAN
    BY <1>0, <1>4 DEF createLayer, setTransactionFlags, invalidateIf, SfTypeInv
  <2> QED BY <1>0, <1>1, <1>4, <2>2, <2>3 DEF createLayer, SfTypeInv
<1>5. CASE captureScreenHandler
  <2>1. main.message.caller \in Threads
    BY <1>0, <1>5, MainFacts DEF captureScreenHandler
  <2> QED BY <1>0, <1>1, <1>5, <2>1 DEF captureScreenHandler, SfTypeInv
<1>6. CASE handleMessageTransaction
  <2>1. main' \in MainStates /\ main'.at \in {"idle", "pageFlip"}
    <3>1. CASE main.at = "transaction"
      BY <1>1, <1>6, <3>1 DEF handleMessageTransaction, AfterTransaction
    <3>2. CASE main.at # "transaction"
      <4>1. PICK b \in BOOLEAN : b = (mTransactionFlags # {})
        OBVIOUS
      <4>2. main' = [at |-> "pageFlip", refresh |-> b]
        BY <1>6, <3>2, <4>1 DEF handleMessageTransaction, AfterTransaction
      <4> QED BY <4>2 DEF MainStates
    <3> QED BY <3>1, <3>2
  <2>2. CASE handleTransaction
    <3>1. layer' \in [Layers -> LayerRecords] /\ thread' \in [Threads -> ThreadStates]
      BY <1>0, <2>2, CommitFacts
    <3>2. mVisibleRegionsDirty' \in BOOLEAN
      BY <2>2 DEF handleTransaction
    <3> QED BY <1>0, <1>6, <2>1, <2>2, <3>1, <3>2 DEF handleMessageTransaction, handleTransaction, SfTypeInv
  <2>3. CASE UNCHANGED <<flingerVars, screenVars, LeavesMain, thread, layer>>
    BY <1>0, <1>6, <2>1, <2>3 DEF handleMessageTransaction, SfTypeInv
  <2> QED BY <1>6, <2>2, <2>3 DEF handleMessageTransaction
<1>7. CASE handlePageFlip
  <2>1. LayersWithQueuedFrames \in SUBSET Layers
    BY <1>0 DEF LayersWithQueuedFrames
  <2>2. PICK b \in BOOLEAN : b = (main.refresh \/ LayersWithQueuedFrames # {})
    OBVIOUS
  <2>3. main' = [at |-> "latch", todo |-> LayersWithQueuedFrames, dirty |-> FALSE,
                 refresh |-> b]
    BY <1>7, <2>2 DEF handlePageFlip
  <2>4. main' \in MainStates /\ main'.at = "latch"
    BY <2>1, <2>3 DEF MainStates
  <2>5. vsyncRequested' \in BOOLEAN
    BY <1>7 DEF handlePageFlip, invalidateIf
  <2> QED BY <1>0, <1>7, <2>4, <2>5 DEF handlePageFlip, SfTypeInv
<1>8. CASE \E l \in Layers : latchBuffer(l)
  <2>1. PICK l \in Layers : latchBuffer(l)
    BY <1>8
  <2>2. /\ layer' \in [Layers -> LayerRecords] /\ main' \in MainStates
        /\ main'.at \in {"latch", "latched"}
    BY <1>0, <2>1, LatchFacts
  <2> QED BY <1>0, <2>1, <2>2 DEF latchBuffer, SfTypeInv
<1>9. CASE latchBufferLater
  <2>1. main.todo \in SUBSET Layers /\ main.refresh \in BOOLEAN /\ main.dirty \in BOOLEAN
    BY <1>0, <1>9, MainFacts DEF latchBufferLater
  <2>2. main' \in MainStates /\ main'.at = "latch"
    BY <1>9, <2>1 DEF latchBufferLater, BackToLatch, MainStates
  <2> QED BY <1>0, <1>9, <2>2 DEF latchBufferLater, invalidate, SfTypeInv
<1>10. CASE latchBufferDone
  <2>1. /\ layer' \in [Layers -> LayerRecords] /\ main' \in MainStates
        /\ main'.at = "latch" /\ vsyncRequested' \in BOOLEAN
    BY <1>0, <1>10, LatchDoneFacts
  <2> QED BY <1>0, <1>10, <2>1 DEF latchBufferDone, SfTypeInv
<1>11. CASE signalRefresh
  <2>1. << >> \in Seq(Messages) /\ "REFRESH" \in Kinds
    BY DEF Kinds
  <2>2. mLooper' \in Seq(Messages) /\ mEventMask' \subseteq Kinds
    <3>1. CASE dispatch("REFRESH", << >>)
      BY <1>0, <2>1, <3>1, DispatchFacts DEF SfTypeInv
    <3>2. CASE UNCHANGED <<mEventMask, mLooper>>
      BY <1>0, <3>2 DEF SfTypeInv
    <3> QED BY <1>11, <3>1, <3>2 DEF signalRefresh
  <2>3. main' \in MainStates /\ main'.at = "idle"
    BY <1>1, <1>11 DEF signalRefresh
  <2>4. mVisibleRegionsDirty' \in BOOLEAN
    BY <1>11 DEF signalRefresh
  <2> QED BY <1>0, <1>11, <2>2, <2>3, <2>4 DEF signalRefresh, SfTypeInv
<1>12. CASE handleMessageRefresh
  <2>1. layer' \in [Layers -> LayerRecords]
    BY <1>0, <1>12, RefreshFacts
  <2>2. vsyncRequested' \in BOOLEAN /\ main' \in MainStates /\ main'.at = "idle"
    BY <1>1, <1>12 DEF handleMessageRefresh, invalidateIf
  <2> QED BY <1>0, <1>12, <2>1, <2>2 DEF handleMessageRefresh, SfTypeInv
<1> QED
  BY <1>2, <1>3, <1>4, <1>5, <1>6, <1>7, <1>8, <1>9, <1>10, <1>11, <1>12 DEF MainNext
-----------------------------------------------------------------------------
(***************************************************************************)
(* Which layers exist.                                                     *)
(***************************************************************************)

(* Layers that exist are listed again, and flags are raised for them.      *)
Relists ==
  /\ \E S \in SUBSET Layers :
       /\ mCurrentState' = mCurrentState \union S
       /\ S # {} => mTransactionFlags' # {}
       /\ \A l \in S : Exists(l)
  /\ mTransactionFlags \subseteq mTransactionFlags'
  /\ UNCHANGED <<mDrawingState, mLayersPendingRemoval, mLayersRemoved>>

(* The lists are changed by four steps; the others only raise flags.       *)
LEMMA ListChanges ==
  ASSUME SfTypeInv, SurfaceFlingerNext
  PROVE  \/ \E l \in Layers : removeLayer(l)
         \/ (\E t \in Threads : ClientNext(t)) /\ Relists
         \/ createLayer
         \/ main.at \in {"transaction", "invalidate"} /\ handleTransaction
         \/ /\ UNCHANGED <<mCurrentState, mDrawingState,
                           mLayersPendingRemoval, mLayersRemoved>>
            /\ mTransactionFlags \subseteq mTransactionFlags'
<1> DEFINE Same == /\ UNCHANGED <<mCurrentState, mDrawingState,
                                  mLayersPendingRemoval, mLayersRemoved>>
                   /\ mTransactionFlags \subseteq mTransactionFlags'
<1> USE DEF flingerVars
<1>1. ASSUME MainNext, ~createLayer,
             ~(main.at \in {"transaction", "invalidate"} /\ handleTransaction)
      PROVE  Same
  <2>1. CASE receiveVsync
    BY <2>1 DEF receiveVsync
  <2>2. CASE receiveMessage
    BY <2>2 DEF receiveMessage
  <2>3. CASE captureScreenHandler
    BY <2>3 DEF captureScreenHandler
  <2>4. CASE handleMessageTransaction
    BY <1>1, <2>4 DEF handleMessageTransaction
  <2>5. CASE handlePageFlip
    BY <2>5 DEF handlePageFlip
  <2>6. CASE \E l \in Layers : latchBuffer(l)
    BY <2>6 DEF latchBuffer
  <2>7. CASE latchBufferLater
    BY <2>7 DEF latchBufferLater
  <2>8. CASE latchBufferDone
    BY <2>8 DEF latchBufferDone
  <2>9. CASE signalRefresh
    BY <2>9 DEF signalRefresh
  <2>10. CASE handleMessageRefresh
    BY <2>10 DEF handleMessageRefresh
  <2> QED
    BY <1>1, <2>1, <2>2, <2>3, <2>4, <2>5, <2>6, <2>7, <2>8, <2>9, <2>10 DEF MainNext
<1>2. ASSUME NEW t \in Threads, ClientNext(t)
      PROVE  Same \/ Relists
  <2>1. CASE callSetTransactionState(t)
    BY <2>1 DEF callSetTransactionState
  <2>2. ASSUME NEW changes \in SUBSET [layer : Layers, change : Changes],
               NEW sync \in BOOLEAN, NEW anim \in BOOLEAN,
               apply(t, changes, sync, anim)
        PROVE  Relists
    <3>1. /\ mCurrentState' = mCurrentState \union Restacked(changes)
          /\ UNCHANGED <<mDrawingState, mLayersPendingRemoval, mLayersRemoved>>
      BY <2>2 DEF apply
    <3>2. /\ mTransactionFlags \subseteq mTransactionFlags'
          /\ Restacked(changes) # {} => mTransactionFlags' # {}
          /\ \A l \in Restacked(changes) : l \in Layers /\ Exists(l)
      BY <2>2, ApplyFacts
    <3>3. Restacked(changes) \in SUBSET Layers
      BY <3>2
    <3> QED BY <3>1, <3>2, <3>3 DEF Relists
  <2>3. CASE setTransactionState(t)
    <3>1. thread[t].changes \in SUBSET [layer : Layers, change : Changes]
          /\ thread[t].eSynchronous \in BOOLEAN /\ thread[t].eAnimation \in BOOLEAN
      BY <2>3, StateFacts DEF setTransactionState
    <3> QED BY <2>2, <2>3, <3>1 DEF setTransactionState
  <2>4. CASE setTransactionStateWaits(t)
    BY <2>4 DEF setTransactionStateWaits
  <2>5. CASE animationWaitTimesOut(t)
    <3>1. thread[t].changes \in SUBSET [layer : Layers, change : Changes]
          /\ thread[t].eSynchronous \in BOOLEAN
      BY <2>5, StateFacts DEF animationWaitTimesOut
    <3> QED BY <2>2, <2>5, <3>1 DEF animationWaitTimesOut
  <2>6. CASE syncWaitEnds(t)
    BY <2>6 DEF syncWaitEnds
  <2>7. CASE syncWaitTimesOut(t)
    BY <2>7 DEF syncWaitTimesOut
  <2>8. CASE createSurface(t)
    BY <2>8 DEF createSurface
  <2>9. CASE captureScreen(t)
    BY <2>9 DEF captureScreen
  <2> QED
    BY <1>2, <2>1, <2>3, <2>4, <2>5, <2>6, <2>7, <2>8, <2>9 DEF ClientNext
<1>3. ASSUME NEW l \in Layers, ProducerNext(l)
      PROVE  Same
  BY <1>3 DEF ProducerNext, dequeue, queue, notify, notified, setSidebandStream
<1>4. CASE repaintEverything \/ eventThreadAnswers \/ passTime
  BY <1>4 DEF repaintEverything, eventThreadAnswers, passTime
<1> HIDE DEF Same
<1>5. CASE MainNext
  BY <1>1, <1>5 DEF Same
<1>6. CASE \E t \in Threads : ClientNext(t)
  BY <1>2, <1>6 DEF Same
<1>7. CASE \E l \in Layers : ProducerNext(l)
  BY <1>3, <1>7 DEF Same
<1> QED BY <1>4, <1>5, <1>6, <1>7 DEF SurfaceFlingerNext, Same

(* The lists fit after every step.                                         *)
LEMMA ListsStep ==
  ASSUME LifeInv, SurfaceFlingerNext
  PROVE  ListsFit'
<1>1. CASE \E l \in Layers : removeLayer(l)
  <2>1. PICK l \in Layers : removeLayer(l)
    BY <1>1
  <2>2. /\ l \in mCurrentState /\ mCurrentState' = mCurrentState \ {l}
        /\ mLayersPendingRemoval' = mLayersPendingRemoval \union {l}
        /\ mLayersRemoved' = TRUE /\ mDrawingState' = mDrawingState
        /\ mTransactionFlags' # {}
    BY <2>1 DEF removeLayer, setTransactionFlags
  <2> QED BY <2>2 DEF LifeInv, ListsFit
<1>2. CASE createLayer
  <2> DEFINE l == main.message.layer
  <2>1. l \in Layers /\ ~Exists(l)
    <3>1. main.at = "create"
      BY <1>2 DEF createLayer
    <3>2. ~Exists(main.message.layer)
      BY <3>1 DEF LifeInv, CreatedAreFresh
    <3> QED BY <3>1, <3>2, MainFacts DEF LifeInv
  <2>2. /\ mCurrentState' = mCurrentState \union {l}
        /\ mTransactionFlags' # {}
        /\ UNCHANGED <<mDrawingState, mLayersPendingRemoval, mLayersRemoved>>
    BY <1>2 DEF createLayer, setTransactionFlags
  <2> HIDE DEF l
  <2> QED BY <2>1, <2>2 DEF LifeInv, ListsFit
<1>3. CASE handleTransaction
  BY <1>3 DEF handleTransaction, LifeInv, ListsFit
<1>4. CASE /\ UNCHANGED <<mCurrentState, mDrawingState,
                          mLayersPendingRemoval, mLayersRemoved>>
           /\ mTransactionFlags \subseteq mTransactionFlags'
  BY <1>4 DEF LifeInv, ListsFit
<1>5. CASE Relists
  BY <1>5 DEF Relists, LifeInv, ListsFit
<1> QED BY <1>1, <1>2, <1>3, <1>4, <1>5, ListChanges DEF LifeInv

(* A layer lives on, and one that does not exist is left alone.            *)
LivesOn(l) ==
  /\ layer'[l].abandoned = layer[l].abandoned
  /\ ~Exists(l) => layer'[l] = layer[l] /\ producer'[l] = producer[l]

(* The life of a layer begins and ends in two steps.                       *)
LEMMA LifeChanges ==
  ASSUME LifeInv, FramesInv, SurfaceFlingerNext, NEW l \in Layers
  PROVE  \/ LivesOn(l)
         \/ createLayer /\ l = main.message.layer
         \/ handleTransaction /\ Committed(l) /\ layer'[l].abandoned
<1> USE DEF LivesOn
<1>0. /\ SfTypeInv /\ layer[l] \in LayerRecords
      /\ mDrawingState \subseteq Layers
      /\ ~Exists(l) => producer[l].at = "idle"
      /\ l \in mCurrentState \union mDrawingState \union mLayersPendingRemoval => Exists(l)
  <2>1. SfTypeInv /\ ListsFit /\ FreshAreNew
    BY DEF LifeInv
  <2> QED BY <2>1 DEF SfTypeInv, ListsFit, FreshAreNew, Exists, Idle
<1>1. CASE UNCHANGED <<layer, producer>>
  BY <1>1
<1>2. ASSUME MainNext, ~UNCHANGED <<layer, producer>>
      PROVE  \/ LivesOn(l)
             \/ createLayer /\ l = main.message.layer
             \/ handleTransaction /\ Committed(l) /\ layer'[l].abandoned
  <2> USE DEF LeavesMain
  <2>1. CASE receiveVsync
    BY <1>2, <2>1 DEF receiveVsync
  <2>2. CASE receiveMessage
    BY <1>2, <2>2 DEF receiveMessage
  <2>3. CASE createLayer
    BY <1>0, <2>3 DEF createLayer, SfTypeInv
  <2>4. CASE captureScreenHandler
    BY <1>2, <2>4 DEF captureScreenHandler
  <2>5. CASE handleMessageTransaction
    <3>1. handleTransaction
      BY <1>2, <2>5 DEF handleMessageTransaction
    <3>2. producer' = producer
      BY <3>1 DEF handleTransaction
    <3>3. CASE Committed(l)
      <4>1. layer'[l].abandoned
        BY <1>0, <3>1, <3>3, CommitFacts
      <4> QED BY <3>1, <3>3, <4>1
    <3>4. CASE ~Committed(l)
      <4>1. layer'[l].abandoned = layer[l].abandoned
        BY <1>0, <3>1, <3>4, CommitFacts
      <4>2. ~Exists(l) => ~NeedsTransaction(l)
        BY DEF NeedsTransaction, Exists
      <4>3. ~Exists(l) => layer'[l] = layer[l]
        BY <1>0, <3>1, <3>4, <4>2, CommitFacts
      <4> QED BY <3>2, <4>1, <4>3
    <3> QED BY <3>3, <3>4
  <2>6. CASE handlePageFlip
    BY <1>2, <2>6 DEF handlePageFlip
  <2>7. CASE \E k \in Layers : latchBuffer(k)
    <3>1. PICK k \in Layers : latchBuffer(k)
      BY <2>7
    <3>2. /\ k \in mDrawingState /\ producer' = producer
      <4>1. main.at = "latch" /\ k \in main.todo
        BY <1>0, <3>1, LatchFacts
      <4> QED BY <3>1, <4>1 DEF LifeInv, LatchedAreDrawn, latchBuffer
    <3>3. CASE l = k
      <4>1. layer'[l].abandoned = layer[l].abandoned
        BY <1>0, <3>1, <3>3, LatchFacts DEF SameFrames, GoodAnswer, SameButLatched
      <4> QED BY <1>0, <3>2, <3>3, <4>1
    <3>4. CASE l # k
      BY <1>0, <3>1, <3>2, <3>4, LatchFacts
    <3> QED BY <3>3, <3>4
  <2>8. CASE latchBufferLater
    BY <1>2, <2>8 DEF latchBufferLater
  <2>9. CASE latchBufferDone
    <3>1. main.layer \in mDrawingState /\ producer' = producer
      <4>1. main.at = "latched"
        BY <2>9 DEF latchBufferDone
      <4> QED BY <2>9, <4>1 DEF latchBufferDone, LifeInv, LatchedAreDrawn
    <3>2. CASE l = main.layer
      <4>1. layer'[l].abandoned = layer[l].abandoned
        BY <1>0, <2>9, <3>2, LatchDoneFacts
      <4> QED BY <1>0, <3>1, <3>2, <4>1
    <3>3. CASE l # main.layer
      BY <1>0, <2>9, <3>1, <3>3, LatchDoneFacts
    <3> QED BY <3>2, <3>3
  <2>10. CASE signalRefresh
    BY <1>2, <2>10 DEF signalRefresh
  <2>11. CASE handleMessageRefresh
    <3>1. producer' = producer
      BY <2>11 DEF handleMessageRefresh
    <3>2. layer'[l].abandoned = layer[l].abandoned
      BY <1>0, <2>11, RefreshFacts DEF SameFrames
    <3>3. l \notin mDrawingState => layer'[l] = layer[l]
      BY <1>0, <2>11, RefreshFacts
    <3> QED BY <1>0, <3>1, <3>2, <3>3
  <2> QED
    BY <1>2, <2>1, <2>2, <2>3, <2>4, <2>5, <2>6, <2>7, <2>8, <2>9, <2>10, <2>11
    DEF MainNext
<1>3. ASSUME NEW t \in Threads, ClientNext(t), ~UNCHANGED <<layer, producer>>
      PROVE  LivesOn(l)
  <2>1. PICK changes, sync, anim : /\ changes \in SUBSET [layer : Layers, change : Changes]
                                   /\ sync \in BOOLEAN /\ anim \in BOOLEAN
                                   /\ apply(t, changes, sync, anim)
    <3>1. CASE setTransactionState(t)
      BY <1>0, <3>1, StateFacts DEF setTransactionState
    <3>2. CASE animationWaitTimesOut(t)
      BY <1>0, <3>2, StateFacts DEF animationWaitTimesOut
    <3>3. CASE ~setTransactionState(t) /\ ~animationWaitTimesOut(t)
      BY <1>3, <3>3 DEF ClientNext, callSetTransactionState, setTransactionStateWaits,
         syncWaitEnds, syncWaitTimesOut, createSurface, captureScreen
    <3> QED BY <3>1, <3>2, <3>3
  <2>2. producer' = producer
    BY <2>1 DEF apply
  <2>3. layer'[l].abandoned = layer[l].abandoned /\ (~Exists(l) => layer'[l] = layer[l])
    BY <1>0, <2>1, ApplyFacts DEF SameFrames
  <2> QED BY <2>2, <2>3
<1>4. ASSUME NEW k \in Layers, ProducerNext(k)
      PROVE  LivesOn(l)
  <2>1. CASE dequeue(k)
    <3>1. k \in mCurrentState \union mDrawingState /\ layer' = layer
          /\ \E p : producer' = [producer EXCEPT ![k] = p]
      BY <2>1 DEF dequeue
    <3>2. l # k => producer'[l] = producer[l]
      BY <3>1 DEF LifeInv, SfTypeInv
    <3> QED BY <1>0, <3>1, <3>2
  <2>2. CASE setSidebandStream(k)
    <3>1. /\ k \in mDrawingState /\ producer' = producer
          /\ layer' = [layer EXCEPT ![k] = onSidebandStreamChanged(layer[k])]
      BY <2>2 DEF setSidebandStream
    <3>2. l # k => layer'[l] = layer[l]
      BY <1>0, <3>1 DEF SfTypeInv
    <3>3. layer'[l].abandoned = layer[l].abandoned
      <4>1. l = k => layer'[l] = onSidebandStreamChanged(layer[l])
        BY <1>0, <3>1 DEF SfTypeInv
      <4>2. onSidebandStreamChanged(layer[l]).abandoned = layer[l].abandoned
        BY <1>0, FlagFacts DEF SameFrames
      <4> QED BY <3>2, <4>1, <4>2
    <3> QED BY <1>0, <3>1, <3>2, <3>3
  <2>3. CASE queue(k) \/ notify(k) \/ notified(k)
    <3>1. /\ producer[k].at # "idle"
          /\ \E p : producer' = [producer EXCEPT ![k] = p]
          /\ layer' = layer \/ \E r : /\ r.abandoned = layer[k].abandoned
                                      /\ layer' = [layer EXCEPT ![k] = r]
      <4>1. layer[k].abandoned \in BOOLEAN /\ layer[k] \in LayerRecords
        BY <1>0 DEF SfTypeInv, LayerRecords
      <4>2. CASE queue(k)
        <5>1. \A frame : queueBuffer(layer[k], frame).abandoned = layer[k].abandoned
          BY <4>1 DEF queueBuffer, LayerRecords
        <5> QED BY <4>2, <5>1 DEF queue
      <4>3. CASE notify(k)
        <5>1. onFrameAvailablePush(layer[k], producer[k].frame).abandoned
                = layer[k].abandoned
          BY <4>1 DEF onFrameAvailablePush, LayerRecords
        <5> QED BY <4>3, <5>1 DEF notify
      <4>4. CASE notified(k)
        <5>1. onFrameAvailableCount(layer[k]).abandoned = layer[k].abandoned
          BY <4>1 DEF onFrameAvailableCount, LayerRecords
        <5> QED BY <4>4, <5>1 DEF notified
      <4> QED BY <2>3, <4>2, <4>3, <4>4
    <3>2. /\ l # k => layer'[l] = layer[l] /\ producer'[l] = producer[l]
          /\ layer'[l].abandoned = layer[l].abandoned
      BY <1>0, <3>1 DEF SfTypeInv
    <3> QED BY <1>0, <3>1, <3>2
  <2> QED BY <1>4, <2>1, <2>2, <2>3 DEF ProducerNext
<1>5. CASE \/ \E k \in Layers : removeLayer(k)
           \/ repaintEverything \/ eventThreadAnswers \/ passTime
  BY <1>5 DEF removeLayer, repaintEverything, eventThreadAnswers, passTime, LeavesMain
<1> HIDE DEF LivesOn
<1> QED BY <1>1, <1>2, <1>3, <1>4, <1>5 DEF SurfaceFlingerNext

(* A layer that exists stays, and one that is new has been created.        *)
LEMMA ExistsFacts ==
  ASSUME LifeInv, FramesInv, SurfaceFlingerNext, NEW l \in Layers
  PROVE  /\ Exists(l) => Exists(l)'
         /\ Exists(l)' => Exists(l) \/ (createLayer /\ l = main.message.layer)
<1>0. SfTypeInv /\ ListsFit
  BY DEF LifeInv
<1>1. CASE createLayer
  <2>1. /\ mCurrentState' = mCurrentState \union {main.message.layer}
        /\ layer' = [layer EXCEPT ![main.message.layer] = NewLayer]
        /\ UNCHANGED <<mDrawingState, mLayersPendingRemoval>>
    BY <1>1 DEF createLayer
  <2>2. l # main.message.layer => layer'[l] = layer[l]
    BY <1>0, <2>1 DEF SfTypeInv
  <2> QED BY <1>1, <2>1, <2>2 DEF Exists
<1>2. CASE handleTransaction
  <2>1. /\ mCurrentState' = mCurrentState /\ mDrawingState' = mCurrentState
        /\ mLayersPendingRemoval' = {}
    BY <1>2 DEF handleTransaction
  <2>2. \/ layer'[l].abandoned = layer[l].abandoned
        \/ layer'[l].abandoned /\ l \in mLayersPendingRemoval
    BY <1>0, <1>2, CommitFacts DEF Committed
  <2>3. l \in mLayersPendingRemoval => layer'[l].abandoned
    BY <1>0, <1>2, CommitFacts DEF Committed
  <2> QED BY <1>0, <2>1, <2>2, <2>3 DEF Exists, ListsFit
<1>3. CASE \E k \in Layers : removeLayer(k)
  <2>1. /\ layer' = layer /\ mDrawingState' = mDrawingState
        /\ \E k \in mCurrentState :
             /\ mCurrentState' = mCurrentState \ {k}
             /\ mLayersPendingRemoval' = mLayersPendingRemoval \union {k}
    BY <1>3 DEF removeLayer
  <2> QED BY <2>1 DEF Exists
<1>4. CASE /\ ~createLayer /\ ~handleTransaction
           /\ UNCHANGED <<mCurrentState, mDrawingState, mLayersPendingRemoval>>
  <2>1. layer'[l].abandoned = layer[l].abandoned
    BY <1>4, LifeChanges DEF LivesOn
  <2> QED BY <1>4, <2>1 DEF Exists
<1>5. CASE /\ ~createLayer /\ ~handleTransaction /\ Relists
  <2>1. layer'[l].abandoned = layer[l].abandoned
    BY <1>5, LifeChanges DEF LivesOn
  <2> QED BY <1>5, <2>1 DEF Exists, Relists
<1> QED BY <1>0, <1>1, <1>2, <1>3, <1>4, <1>5, ListChanges

(* An abandoned layer stays so.                                            *)
LEMMA StaysAbandoned ==
  ASSUME LifeInv, FramesInv, SurfaceFlingerNext
  PROVE  \A l \in Layers : layer[l].abandoned => layer'[l].abandoned
<1> SUFFICES ASSUME NEW l \in Layers, layer[l].abandoned
             PROVE  layer'[l].abandoned
  OBVIOUS
<1>1. ~(createLayer /\ l = main.message.layer)
  <2>1. createLayer => main.at = "create"
    BY DEF createLayer
  <2> QED BY <2>1 DEF LifeInv, CreatedAreFresh, Exists
<1> QED BY <1>1, LifeChanges DEF LivesOn

(* A layer that does not exist has no past, after every step.              *)
LEMMA FreshStep ==
  ASSUME LifeInv, FramesInv, SurfaceFlingerNext
  PROVE  FreshAreNew'
<1> SUFFICES ASSUME NEW l \in Layers, ~Exists(l)'
             PROVE  layer'[l] = NewLayer /\ producer'[l] = Idle
  BY DEF FreshAreNew
<1>1. ~Exists(l) /\ layer[l] = NewLayer /\ producer[l] = Idle
  BY ExistsFacts DEF LifeInv, FreshAreNew
<1>2. LivesOn(l)
  <2>1. ~Committed(l)
    BY <1>1 DEF Exists, Committed
  <2>2. ~(createLayer /\ l = main.message.layer)
    <3>1. createLayer => main.message.layer \in mCurrentState'
      BY DEF createLayer
    <3> QED BY <3>1 DEF Exists
  <2> QED BY <2>1, <2>2, LifeChanges
<1> QED BY <1>1, <1>2 DEF LivesOn

(* The looper is changed by four steps; after any other the main thread is *)
(* where it was or between messages.                                       *)
LEMMA LooperChanges ==
  ASSUME SfTypeInv, SurfaceFlingerNext
  PROVE  \/ /\ UNCHANGED <<mLooper, mEventMask>>
            /\ main' = main \/ main'.at \in {"idle", "pageFlip", "latch", "latched"}
         \/ receiveMessage
         \/ \E t \in Threads : createSurface(t) \/ captureScreen(t)
         \/ receiveVsync /\ dispatch("INVALIDATE", << >>) /\ main' = main
         \/ signalRefresh /\ dispatch("REFRESH", << >>) /\ main' = Idle
<1> DEFINE Same == /\ UNCHANGED <<mLooper, mEventMask>>
                   /\ main' = main \/ main'.at \in {"idle", "pageFlip", "latch", "latched"}
<1> USE DEF flingerVars, queueVars
<1>1. ASSUME MainNext, ~receiveMessage, ~receiveVsync, ~signalRefresh
      PROVE  Same
  <2>1. CASE createLayer \/ captureScreenHandler
    BY <2>1 DEF createLayer, captureScreenHandler, Idle, setTransactionFlags
  <2>2. CASE handleMessageTransaction
    BY <2>2 DEF handleMessageTransaction, AfterTransaction, Idle
  <2>3. CASE handlePageFlip
    BY <2>3 DEF handlePageFlip
  <2>4. CASE \E l \in Layers : latchBuffer(l)
    BY <2>4, LatchFacts DEF latchBuffer
  <2>5. CASE latchBufferLater
    BY <2>5 DEF latchBufferLater, BackToLatch
  <2>6. CASE latchBufferDone
    BY <2>6 DEF latchBufferDone, BackToLatch
  <2>7. CASE handleMessageRefresh
    BY <2>7 DEF handleMessageRefresh, Idle
  <2> QED BY <1>1, <2>1, <2>2, <2>3, <2>4, <2>5, <2>6, <2>7 DEF MainNext
<1>2. CASE receiveVsync
  BY <1>2 DEF receiveVsync, eventReceiver
<1>3. CASE signalRefresh
  BY <1>3 DEF signalRefresh, Idle
<1>4. ASSUME NEW t \in Threads, ClientNext(t), ~createSurface(t), ~captureScreen(t)
      PROVE  Same
  <2>1. CASE setTransactionState(t) \/ animationWaitTimesOut(t)
    BY <2>1 DEF setTransactionState, animationWaitTimesOut, apply
  <2>2. CASE ~setTransactionState(t) /\ ~animationWaitTimesOut(t)
    BY <1>4, <2>2 DEF ClientNext, callSetTransactionState, setTransactionStateWaits,
       syncWaitEnds, syncWaitTimesOut
  <2> QED BY <2>1, <2>2
<1>5. ASSUME NEW l \in Layers, ProducerNext(l)
      PROVE  Same
  BY <1>5 DEF ProducerNext, dequeue, queue, notify, notified, setSidebandStream
<1>6. CASE \/ \E l \in Layers : removeLayer(l)
           \/ repaintEverything \/ eventThreadAnswers \/ passTime
  BY <1>6 DEF removeLayer, repaintEverything, eventThreadAnswers, deliverVsync, passTime
<1> HIDE DEF Same
<1>7. CASE MainNext
  BY <1>1, <1>2, <1>3, <1>7 DEF Same
<1>8. CASE \E t \in Threads : ClientNext(t)
  BY <1>4, <1>8 DEF Same
<1>9. CASE \E l \in Layers : ProducerNext(l)
  BY <1>5, <1>9 DEF Same
<1> QED BY <1>6, <1>7, <1>8, <1>9 DEF SurfaceFlingerNext, Same

(* Every message after a dispatch was there, or is new.                    *)
LEMMA DispatchedAre ==
  ASSUME mLooper \in Seq(Messages), NEW what \in Kinds,
         NEW messages \in Seq(Messages), dispatch(what, messages),
         NEW i \in 1 .. Len(mLooper')
  PROVE  \/ i \in Places /\ mLooper'[i] = mLooper[i]
         \/ /\ what \notin mEventMask /\ i = Len(mLooper) + 1
            /\ mLooper'[i] = [what |-> what]
         \/ \E k \in 1 .. Len(messages) :
              i = Len(mLooper') - Len(messages) + k /\ mLooper'[i] = messages[k]
<1>1. /\ Len(mLooper') = Len(mLooper) + Len(messages) +
                           (IF what \in mEventMask THEN 0 ELSE 1)
      /\ \A j \in Places : mLooper'[j] = mLooper[j]
      /\ what \notin mEventMask => mLooper'[Len(mLooper) + 1] = [what |-> what]
      /\ \A k \in 1 .. Len(messages) :
           mLooper'[Len(mLooper') - Len(messages) + k] = messages[k]
  BY DispatchFacts
<1>2. Len(mLooper) \in Nat /\ Len(messages) \in Nat
  OBVIOUS
<1>3. CASE i <= Len(mLooper)
  <2>1. i \in Places
    BY <1>1, <1>2, <1>3 DEF Places
  <2> QED BY <1>1, <2>1
<1>4. CASE i > Len(mLooper)
  <2>1. PICK n \in {0, 1} : /\ Len(mLooper') = Len(mLooper) + Len(messages) + n
                            /\ n = 1 <=> what \notin mEventMask
    <3>1. CASE what \in mEventMask
      BY <1>1, <3>1
    <3>2. CASE what \notin mEventMask
      BY <1>1, <3>2
    <3> QED BY <3>1, <3>2
  <2>2. CASE n = 1 /\ i = Len(mLooper) + 1
    BY <1>1, <2>1, <2>2
  <2>3. CASE ~(n = 1 /\ i = Len(mLooper) + 1)
    <3>1. i - Len(mLooper) - n \in 1 .. Len(messages)
      BY <1>2, <1>4, <2>1, <2>3
    <3>2. i = Len(mLooper') - Len(messages) + (i - Len(mLooper) - n)
      BY <1>2, <2>1
    <3> QED BY <1>1, <3>1, <3>2
  <2> QED BY <2>2, <2>3
<1> QED BY <1>2, <1>3, <1>4

(* A dispatch without a CREATE keeps those that are created fresh.         *)
LEMMA DispatchKeepsCreated ==
  ASSUME LifeInv, FramesInv, SurfaceFlingerNext, ~createLayer,
         NEW what \in Kinds, NEW messages \in Seq(Messages),
         \A k \in 1 .. Len(messages) : messages[k].what # "CREATE",
         dispatch(what, messages), main' = main \/ main'.at = "idle"
  PROVE  CreatedAreFresh'
<1>0. mLooper \in Seq(Messages)
  BY DEF LifeInv, SfTypeInv
<1>1. \A i \in 1 .. Len(mLooper') : mLooper'[i].what = "CREATE" =>
        i \in Places /\ mLooper'[i] = mLooper[i]
  <2> SUFFICES ASSUME NEW i \in 1 .. Len(mLooper'), mLooper'[i].what = "CREATE"
               PROVE  i \in Places /\ mLooper'[i] = mLooper[i]
    OBVIOUS
  <2>1. mLooper'[i] # [what |-> what]
    BY DEF Kinds
  <2> QED BY <1>0, <2>1, DispatchedAre
<1>2. \A i \in Places : mLooper[i].what = "CREATE" => mLooper[i].layer \in Layers
  BY <1>0 DEF Places, Messages, Kinds
<1>3. \A l \in Layers : ~Exists(l) => ~Exists(l)'
  BY ExistsFacts
<1>4. main.at = "create" => main.message.layer \in Layers
  BY MainFacts DEF LifeInv
<1>5. CreatedAreFresh
  BY DEF LifeInv
<1> QED BY <1>1, <1>2, <1>3, <1>4, <1>5 DEF CreatedAreFresh, Places

(* Those that are created are fresh, after every step.                     *)
LEMMA CreatedStep ==
  ASSUME LifeInv, FramesInv, SurfaceFlingerNext
  PROVE  CreatedAreFresh'
<1>0. SfTypeInv /\ CreatedAreFresh /\ mLooper \in Seq(Messages)
  BY DEF LifeInv, SfTypeInv
<1>1. \A i \in Places : /\ mLooper[i] \in Messages
                        /\ mLooper[i].what = "CREATE" => mLooper[i].layer \in Layers
  BY <1>0 DEF Places, Messages, Kinds
<1>2. main.at = "create" => main.message.layer \in Layers
  BY <1>0, MainFacts
<1>3. ~createLayer => \A l \in Layers : ~Exists(l) => ~Exists(l)'
  BY ExistsFacts
<1>4. createLayer => main.at = "create" /\ main'.at = "idle"
  BY DEF createLayer, Idle
<1>5. CASE /\ UNCHANGED mLooper
           /\ main' = main \/ main'.at \in {"idle", "pageFlip", "latch", "latched"}
  <2>1. CASE createLayer
    BY <1>0, <1>4, <1>5, <2>1 DEF CreatedAreFresh, Places
  <2>2. CASE ~createLayer
    BY <1>0, <1>1, <1>2, <1>3, <1>5, <2>2 DEF CreatedAreFresh, Places
  <2> QED BY <2>1, <2>2
<1>6. CASE receiveMessage
  <2>1. /\ main.at = "idle" /\ handleMessage
        /\ main' = [at |-> HandlerOf(Head(mLooper).what), message |-> Head(mLooper)]
    BY <1>6 DEF receiveMessage
  <2>2. /\ 1 \in Places /\ Head(mLooper) = mLooper[1]
        /\ Len(mLooper') = Len(mLooper) - 1
        /\ \A i \in 1 .. Len(mLooper) - 1 : mLooper'[i] = mLooper[i + 1]
    BY <1>0, <2>1, HandleMessageFacts
  <2>3. main'.at = "create" => main'.message = mLooper[1] /\ mLooper[1].what = "CREATE"
    BY <1>1, <2>1, <2>2 DEF HandlerOf, Messages, Kinds
  <2>4. \A i \in 1 .. Len(mLooper') : i + 1 \in Places /\ mLooper'[i] = mLooper[i + 1]
    BY <1>0, <2>2 DEF Places
  <2>5. ~createLayer
    BY <1>4, <2>1
  <2>6. \A i, j \in 1 .. Len(mLooper') :
          mLooper'[i].what = "CREATE" /\ mLooper'[j].what = "CREATE" => i = j
    BY <1>0, <2>4 DEF CreatedAreFresh
  <2>7. \A i \in 1 .. Len(mLooper') : mLooper'[i].what = "CREATE" =>
          /\ \E l \in Layers : l = mLooper'[i].layer /\ ~Exists(l)'
          /\ main'.at # "create"
    <3> SUFFICES ASSUME NEW i \in 1 .. Len(mLooper'), mLooper'[i].what = "CREATE"
                 PROVE  /\ \E l \in Layers : l = mLooper'[i].layer /\ ~Exists(l)'
                        /\ main'.at # "create"
      OBVIOUS
    <3>1. i + 1 # 1
      OBVIOUS
    <3>2. mLooper[1].what # "CREATE"
      BY <1>0, <2>2, <2>4, <3>1 DEF CreatedAreFresh
    <3>3. PICK l \in Layers : l = mLooper'[i].layer /\ ~Exists(l)
      BY <1>0, <1>1, <2>4 DEF CreatedAreFresh
    <3>4. ~Exists(l)'
      BY <1>3, <2>5, <3>3
    <3> QED BY <2>3, <3>2, <3>3, <3>4
  <2>8. main'.at = "create" => \E l \in Layers : l = main'.message.layer /\ ~Exists(l)'
    <3> SUFFICES ASSUME main'.at = "create"
                 PROVE  \E l \in Layers : l = main'.message.layer /\ ~Exists(l)'
      OBVIOUS
    <3>1. PICK l \in Layers : l = main'.message.layer /\ ~Exists(l)
      BY <1>0, <1>1, <2>2, <2>3 DEF CreatedAreFresh
    <3> QED BY <1>3, <2>5, <3>1
  <2> QED BY <2>6, <2>7, <2>8 DEF CreatedAreFresh, Places
<1>7. ASSUME NEW t \in Threads, createSurface(t)
      PROVE  CreatedAreFresh'
  <2>1. PICK l \in Layers :
          /\ ~Exists(l)
          /\ \A i \in Places : mLooper[i].what # "CREATE"
          /\ main.at # "create"
          /\ mLooper' = Append(mLooper, [what |-> "CREATE", layer |-> l, caller |-> t])
          /\ main' = main
    BY <1>7 DEF createSurface, postMessage, Places
  <2>2. ~Exists(l)'
    BY <1>3, <1>4, <2>1
  <2>3. /\ Len(mLooper') = Len(mLooper) + 1 /\ Len(mLooper) \in Nat
        /\ \A i \in Places : mLooper'[i] = mLooper[i]
        /\ mLooper'[Len(mLooper) + 1].layer = l
    BY <1>0, <2>1, AppendProperties DEF Places
  <2>4. \A i \in 1 .. Len(mLooper') : i \in Places \/ i = Len(mLooper) + 1
    BY <2>3 DEF Places
  <2> QED BY <2>1, <2>2, <2>3, <2>4 DEF CreatedAreFresh, Places
<1>8. ASSUME NEW t \in Threads, captureScreen(t)
      PROVE  CreatedAreFresh'
  <2> DEFINE m == [what |-> "CAPTURE", caller |-> t, applied |-> applied]
  <2>1. dispatch("TRANSACTION", <<m>>) /\ main' = main
    BY <1>8 DEF captureScreen
  <2>2. m \in Messages /\ m.what # "CREATE" /\ "TRANSACTION" \in Kinds
    BY <1>0 DEF Messages, SfTypeInv, Kinds
  <2>3. ~createLayer
    <3>1. thread'[t] = [at |-> "blocked"]
      BY <1>0, <1>8 DEF captureScreen, SfTypeInv
    <3>2. createLayer => main' = Idle /\ main.at = "create"
      BY DEF createLayer
    <3> QED BY <2>1, <3>2 DEF Idle
  <2> HIDE DEF m
  <2>4. <<m>> \in Seq(Messages) /\ \A k \in 1 .. Len(<<m>>) : <<m>>[k].what # "CREATE"
    BY <2>2
  <2> QED BY <2>1, <2>2, <2>3, <2>4, DispatchKeepsCreated
<1>9. << >> \in Seq(Messages) /\ \A k \in 1 .. Len(<< >>) : << >>[k].what # "CREATE"
  OBVIOUS
<1>10. CASE receiveVsync /\ dispatch("INVALIDATE", << >>) /\ main' = main
  <2>1. ~createLayer /\ "INVALIDATE" \in Kinds
    BY <1>4, <1>10 DEF receiveVsync, Kinds
  <2> QED BY <1>9, <1>10, <2>1, DispatchKeepsCreated
<1>11. CASE signalRefresh /\ dispatch("REFRESH", << >>) /\ main' = Idle
  <2>1. ~createLayer /\ "REFRESH" \in Kinds
    BY <1>4, <1>11 DEF signalRefresh, Kinds
  <2> QED BY <1>9, <1>11, <2>1, DispatchKeepsCreated DEF Idle
<1> QED BY <1>0, <1>5, <1>6, <1>7, <1>8, <1>10, <1>11, LooperChanges

(* What is latched is drawn, after every step.                             *)
LEMMA LatchedStep ==
  ASSUME LifeInv, FramesInv, SurfaceFlingerNext
  PROVE  LatchedAreDrawn'
<1>0. SfTypeInv /\ LatchedAreDrawn
  BY DEF LifeInv
<1>1. CASE handleMessageTransaction
  BY <1>1 DEF handleMessageTransaction, AfterTransaction, Idle, LatchedAreDrawn
<1>2. ASSUME NEW l \in Layers, latchBuffer(l)
      PROVE  LatchedAreDrawn'
  <2>1. /\ main.at = "latch" /\ l \in main.todo /\ main'.todo \subseteq main.todo
        /\ main'.at = "latched" => main'.layer = l
    BY <1>0, <1>2, LatchFacts
  <2>2. mDrawingState' = mDrawingState
    BY <1>2 DEF latchBuffer, flingerVars
  <2> QED BY <1>0, <2>1, <2>2 DEF LatchedAreDrawn
<1>3. CASE handlePageFlip
  BY <1>3 DEF handlePageFlip, LatchedAreDrawn, LayersWithQueuedFrames, flingerVars
<1>4. CASE latchBufferLater \/ latchBufferDone
  BY <1>0, <1>4 DEF latchBufferLater, latchBufferDone, BackToLatch, LatchedAreDrawn, flingerVars
<1>5. CASE /\ UNCHANGED mDrawingState
           /\ main' = main \/ main'.at \notin {"latch", "latched"}
  BY <1>0, <1>5 DEF LatchedAreDrawn
<1>6. CASE receiveVsync \/ receiveMessage \/ createLayer \/ captureScreenHandler
           \/ signalRefresh \/ handleMessageRefresh
  <2>1. CASE receiveMessage
    <3>1. /\ handleMessage /\ UNCHANGED mDrawingState
          /\ main' = [at |-> HandlerOf(Head(mLooper).what), message |-> Head(mLooper)]
      BY <2>1 DEF receiveMessage, flingerVars
    <3>2. Head(mLooper) \in Messages
      BY <1>0, <3>1, HandleMessageFacts DEF SfTypeInv
    <3>3. main'.at \notin {"latch", "latched"}
      BY <3>1, <3>2 DEF Messages, HandlerOf, Kinds
    <3> QED BY <1>5, <3>1, <3>3
  <2>2. CASE receiveVsync \/ captureScreenHandler
    BY <1>5, <2>2 DEF receiveVsync, captureScreenHandler, flingerVars, Idle
  <2>3. CASE createLayer
    BY <1>5, <2>3 DEF createLayer, Idle
  <2>4. CASE signalRefresh
    BY <1>5, <2>4 DEF signalRefresh, flingerVars, Idle
  <2>5. CASE handleMessageRefresh
    BY <1>5, <2>5 DEF handleMessageRefresh, flingerVars, Idle
  <2> QED BY <1>6, <2>1, <2>2, <2>3, <2>4, <2>5
<1>7. CASE MainNext
  BY <1>1, <1>2, <1>3, <1>4, <1>6, <1>7 DEF MainNext
<1>8. ASSUME ~MainNext
      PROVE  UNCHANGED mDrawingState /\ main' = main
  <2>1. ASSUME NEW t \in Threads, ClientNext(t)
        PROVE  UNCHANGED mDrawingState /\ main' = main
    BY <2>1 DEF ClientNext, callSetTransactionState, setTransactionState, apply,
       setTransactionStateWaits, animationWaitTimesOut, syncWaitEnds, syncWaitTimesOut,
       createSurface, captureScreen, flingerVars
  <2>2. ASSUME NEW l \in Layers, ProducerNext(l) \/ removeLayer(l)
        PROVE  UNCHANGED mDrawingState /\ main' = main
    BY <2>2 DEF ProducerNext, dequeue, queue, notify, notified, setSidebandStream,
       removeLayer, flingerVars
  <2>3. CASE repaintEverything \/ eventThreadAnswers \/ passTime
    BY <2>3 DEF repaintEverything, eventThreadAnswers, passTime, flingerVars
  <2> QED BY <1>8, <2>1, <2>2, <2>3 DEF SurfaceFlingerNext
<1> QED BY <1>5, <1>7, <1>8

(* Which layers exist is known after every step.                           *)
LEMMA LifeStep ==
  ASSUME LifeInv, FramesInv, SurfaceFlingerNext
  PROVE  LifeInv'
<1>1. SfTypeInv'
  BY ClientTypes, OutsideTypes, MainTypes DEF SurfaceFlingerNext, LifeInv
<1> QED BY <1>1, ListsStep, FreshStep, CreatedStep, LatchedStep DEF LifeInv
-----------------------------------------------------------------------------
(***************************************************************************)
(* Frames are counted.                                                     *)
(***************************************************************************)

(* What FramesInv says of one layer.                                       *)
Counted(l) ==
  /\ Len(layer[l].mQueueItems) = layer[l].mQueuedFrames + Pushed(l)
  /\ Len(layer[l].queue) + Taken(l) <= layer[l].mQueuedFrames + Pushing(l)
  /\ Latched(l) => layer[l].mQueuedFrames > 0
  /\ layer[l].abandoned => layer[l].queue = <<>>

(* The counts are numbers.                                                 *)
LEMMA CountTypes ==
  ASSUME SfTypeInv, NEW l \in Layers
  PROVE  /\ Len(layer[l].mQueueItems) \in Nat /\ Len(layer[l].queue) \in Nat
         /\ layer[l].mQueuedFrames \in Nat
         /\ Pushed(l) \in {0, 1} /\ Pushing(l) \in {0, 1} /\ Taken(l) \in {0, 1}
<1>1. layer[l] \in LayerRecords
  BY DEF SfTypeInv
<1> QED BY <1>1 DEF LayerRecords, Pushed, Pushing, Taken

(* A layer whose frames stay where they are stays counted.                 *)
LEMMA StaysCounted ==
  ASSUME SfTypeInv, NEW l \in Layers, Counted(l),
         \/ SameFrames(layer[l], layer'[l])
         \/ /\ layer'[l].mQueueItems = layer[l].mQueueItems
            /\ layer'[l].mQueuedFrames = layer[l].mQueuedFrames
            /\ layer'[l].queue = << >>,
         Pushed(l)' = Pushed(l), Pushing(l)' = Pushing(l),
         main' = main \/ ~Latched(l)'
  PROVE  Counted(l)'
<1>1. Taken(l)' <= Taken(l) /\ Taken(l)' \in {0, 1} /\ (Latched(l)' => Latched(l))
  BY DEF Taken, Latched
<1>2. Len(layer'[l].queue) <= Len(layer[l].queue) /\ Len(layer'[l].queue) \in Nat
  BY CountTypes DEF SameFrames
<1>3. /\ layer'[l].mQueueItems = layer[l].mQueueItems
      /\ layer'[l].mQueuedFrames = layer[l].mQueuedFrames
  BY DEF SameFrames
<1>4. layer'[l].abandoned => layer'[l].queue = << >>
  BY DEF Counted, SameFrames
<1>5. Len(layer'[l].queue) + Taken(l)' <= layer'[l].mQueuedFrames + Pushing(l)'
  <2>1. Len(layer[l].queue) + Taken(l) <= layer[l].mQueuedFrames + Pushing(l)
    BY DEF Counted
  <2>2. /\ Len(layer[l].queue) \in Nat /\ layer[l].mQueuedFrames \in Nat
        /\ Taken(l) \in Nat /\ Pushing(l) \in Nat
    BY CountTypes
  <2>3. /\ Len(layer'[l].queue) <= Len(layer[l].queue) /\ Len(layer'[l].queue) \in Nat
        /\ Taken(l)' <= Taken(l) /\ Taken(l)' \in Nat
    BY <1>1, <1>2
  <2>4. \A a, b, c, d, e, f \in Nat : e <= a /\ f <= b /\ a + b <= c + d => e + f <= c + d
    OBVIOUS
  <2>5. Len(layer'[l].queue) + Taken(l)' <= layer[l].mQueuedFrames + Pushing(l)
    BY <2>1, <2>2, <2>3, <2>4
  <2> QED BY <1>3, <2>5
<1> QED BY <1>1, <1>3, <1>4, <1>5 DEF Counted

(* The producers of frames keep them counted.                              *)
LEMMA ProducerCounts ==
  ASSUME LifeInv, FramesInv, NEW k \in Layers, ProducerNext(k), NEW l \in Layers
  PROVE  Counted(l)'
<1>0. /\ SfTypeInv /\ Counted(l) /\ layer[l] \in LayerRecords
      /\ producer[l] \in ProducerStates
  BY DEF LifeInv, FramesInv, Counted, SfTypeInv
<1>1. main' = main
  BY DEF ProducerNext, dequeue, queue, notify, notified, setSidebandStream
<1>2. CASE l # k
  <2>1. layer'[l] = layer[l] /\ producer'[l] = producer[l]
    BY <1>0, <1>2 DEF ProducerNext, dequeue, queue, notify, notified, setSidebandStream,
       SfTypeInv
  <2> QED BY <1>0, <1>1, <2>1, StaysCounted DEF SameFrames, Pushed, Pushing
<1>3. CASE l = k
  <2>1. CASE dequeue(l)
    <3>1. /\ producer[l].at = "idle" /\ layer' = layer
          /\ producer' = [producer EXCEPT ![l] =
                            [at |-> "dequeued", size |-> layer[l].defaultSize]]
      BY <2>1 DEF dequeue
    <3>2. producer'[l].at = "dequeued"
      BY <1>0, <3>1 DEF SfTypeInv
    <3> QED BY <1>0, <1>1, <3>1, <3>2, StaysCounted DEF SameFrames, Pushed, Pushing
  <2>2. CASE setSidebandStream(l)
    <3>1. /\ producer' = producer
          /\ layer' = [layer EXCEPT ![l] = onSidebandStreamChanged(layer[l])]
      BY <2>2 DEF setSidebandStream
    <3>2. SameFrames(layer[l], layer'[l])
      BY <1>0, <3>1, FlagFacts DEF SfTypeInv
    <3> QED BY <1>0, <1>1, <3>1, <3>2, StaysCounted DEF Pushed, Pushing
  <2>3. CASE queue(l)
    <3>1. CASE layer[l].abandoned
      <4>1. /\ producer[l].at = "dequeued" /\ layer' = layer
            /\ producer' = [producer EXCEPT ![l] = Idle]
        BY <2>3, <3>1 DEF queue
      <4>2. producer'[l].at = "idle"
        BY <1>0, <4>1 DEF SfTypeInv, Idle
      <4> QED BY <1>0, <1>1, <4>1, <4>2, StaysCounted DEF SameFrames, Pushed, Pushing
    <3>2. CASE ~layer[l].abandoned
      <4>1. PICK kind \in FrameKinds :
              LET frame == [size |-> producer[l].size, scales |-> kind.scales,
                            due |-> kind.due, droppable |-> kind.droppable]
              IN /\ layer' = [layer EXCEPT ![l] = queueBuffer(layer[l], frame)]
                 /\ producer' = [producer EXCEPT ![l] =
                      [at |-> "queued", frame |-> frame,
                       replaces |-> Replaces(layer[l])]]
        BY <2>3, <3>2 DEF queue
      <4> DEFINE frame == [size |-> producer[l].size, scales |-> kind.scales,
                           due |-> kind.due, droppable |-> kind.droppable]
      <4>2. producer[l].at = "dequeued"
        BY <2>3 DEF queue
      <4>3. frame \in Frames
        BY <1>0, <4>2, SurfaceFlingerAssumption DEF ProducerStates, Frames
      <4> HIDE DEF frame
      <4>4. /\ layer'[l] = queueBuffer(layer[l], frame)
            /\ producer'[l].at = "queued" /\ producer'[l].replaces = Replaces(layer[l])
        BY <1>0, <4>1 DEF SfTypeInv, frame
      <4>5. /\ layer'[l].mQueueItems = layer[l].mQueueItems
            /\ layer'[l].mQueuedFrames = layer[l].mQueuedFrames
            /\ layer'[l].abandoned = layer[l].abandoned
            /\ Len(layer'[l].queue) = Len(layer[l].queue) +
                                        (IF Replaces(layer[l]) THEN 0 ELSE 1)
        <5>1. PICK s : s = queueBuffer(layer[l], frame)
          OBVIOUS
        <5>2. /\ s.mQueueItems = layer[l].mQueueItems
              /\ s.mQueuedFrames = layer[l].mQueuedFrames
              /\ s.abandoned = layer[l].abandoned
              /\ Len(s.queue) = Len(layer[l].queue) + (IF Replaces(layer[l]) THEN 0 ELSE 1)
          BY <1>0, <4>3, <5>1, QueueBufferFacts
        <5> QED BY <4>4, <5>1, <5>2
      <4>6. Pushed(l) = 0 /\ Pushing(l) = 0 /\ Pushed(l)' = 0
        BY <4>2, <4>4 DEF Pushed, Pushing
      <4>7. Pushing(l)' = IF Replaces(layer[l]) THEN 0 ELSE 1
        BY <4>4, <4>6 DEF Pushing
      <4>8. Taken(l)' = Taken(l) /\ (Latched(l)' <=> Latched(l))
        BY <1>1 DEF Taken, Latched
      <4>9. PICK n \in {0, 1} : n = IF Replaces(layer[l]) THEN 0 ELSE 1
        OBVIOUS
      <4>10. Len(layer'[l].queue) + Taken(l)' <= layer'[l].mQueuedFrames + Pushing(l)'
        <5>1. /\ Len(layer'[l].queue) = Len(layer[l].queue) + n
              /\ Pushing(l)' = n
              /\ Len(layer[l].queue) + Taken(l) <= layer[l].mQueuedFrames + 0
          BY <1>0, <4>5, <4>6, <4>7, <4>9 DEF Counted
        <5>2. /\ Len(layer[l].queue) \in Nat /\ layer[l].mQueuedFrames \in Nat
              /\ Taken(l) \in Nat
          BY <1>0, CountTypes
        <5>3. \A a, b, c, d \in Nat : a + b <= c + 0 => (a + d) + b <= c + d
          OBVIOUS
        <5>4. (Len(layer[l].queue) + n) + Taken(l) <= layer[l].mQueuedFrames + n
          BY <5>1, <5>2, <5>3
        <5> QED BY <4>5, <4>8, <5>1, <5>4
      <4> QED BY <1>0, <3>2, <4>5, <4>6, <4>8, <4>10 DEF Counted
    <3> QED BY <3>1, <3>2
  <2>4. CASE notify(l)
    <3>1. producer[l].at = "queued" /\ producer[l].frame \in Frames
      BY <1>0, <2>4 DEF notify, ProducerStates
    <3>2. CASE producer[l].replaces
      <4>1. layer' = layer /\ producer' = [producer EXCEPT ![l] = Idle]
        BY <2>4, <3>2 DEF notify
      <4>2. producer'[l].at = "idle"
        BY <1>0, <4>1 DEF SfTypeInv, Idle
      <4> QED
        BY <1>0, <1>1, <3>1, <3>2, <4>1, <4>2, StaysCounted DEF SameFrames, Pushed, Pushing
    <3>3. CASE ~producer[l].replaces
      <4>1. /\ layer' = [layer EXCEPT ![l] =
                           onFrameAvailablePush(layer[l], producer[l].frame)]
            /\ producer' = [producer EXCEPT ![l] = [at |-> "pushed"]]
        BY <2>4, <3>3 DEF notify
      <4>2. /\ layer'[l] = onFrameAvailablePush(layer[l], producer[l].frame)
            /\ producer'[l].at = "pushed"
        BY <1>0, <4>1 DEF SfTypeInv
      <4>3. /\ layer'[l].queue = layer[l].queue
            /\ layer'[l].mQueuedFrames = layer[l].mQueuedFrames
            /\ layer'[l].abandoned = layer[l].abandoned
            /\ Len(layer'[l].mQueueItems) = Len(layer[l].mQueueItems) + 1
        <5>1. PICK s : s = onFrameAvailablePush(layer[l], producer[l].frame)
          OBVIOUS
        <5>2. /\ s.queue = layer[l].queue /\ s.mQueuedFrames = layer[l].mQueuedFrames
              /\ s.abandoned = layer[l].abandoned
              /\ Len(s.mQueueItems) = Len(layer[l].mQueueItems) + 1
          BY <1>0, <3>1, <5>1, OnFrameAvailableFacts
        <5> QED BY <4>2, <5>1, <5>2
      <4>4. Pushed(l) = 0 /\ Pushing(l) = 1 /\ Pushed(l)' = 1 /\ Pushing(l)' = 1
        BY <3>1, <3>3, <4>2 DEF Pushed, Pushing
      <4>5. Taken(l)' = Taken(l) /\ (Latched(l)' <=> Latched(l))
        BY <1>1 DEF Taken, Latched
      <4> QED BY <1>0, <4>3, <4>4, <4>5, CountTypes DEF Counted
    <3> QED BY <3>2, <3>3
  <2>5. CASE notified(l)
    <3>1. /\ producer[l].at = "pushed"
          /\ layer' = [layer EXCEPT ![l] = onFrameAvailableCount(layer[l])]
          /\ producer' = [producer EXCEPT ![l] = Idle]
      BY <2>5 DEF notified
    <3>2. layer'[l] = onFrameAvailableCount(layer[l]) /\ producer'[l].at = "idle"
      BY <1>0, <3>1 DEF SfTypeInv, Idle
    <3>3. Frames # {}
      <4>1. [size |-> InitialSize, scales |-> TRUE, due |-> 0, droppable |-> TRUE]
               \in Frames
        BY LayerAssumption DEF Frames, Times
      <4> QED BY <4>1
    <3>4. /\ layer'[l].queue = layer[l].queue
          /\ layer'[l].mQueuedFrames = layer[l].mQueuedFrames + 1
          /\ layer'[l].abandoned = layer[l].abandoned
          /\ layer'[l].mQueueItems = layer[l].mQueueItems
      BY <1>0, <3>2, <3>3, OnFrameAvailableFacts
    <3>5. Pushed(l) = 1 /\ Pushing(l) = 1 /\ Pushed(l)' = 0 /\ Pushing(l)' = 0
      BY <3>1, <3>2 DEF Pushed, Pushing
    <3>6. Taken(l)' = Taken(l) /\ (Latched(l)' <=> Latched(l))
      BY <1>1 DEF Taken, Latched
    <3> QED BY <1>0, <3>4, <3>5, <3>6, CountTypes DEF Counted
  <2> QED BY <1>3, <2>1, <2>2, <2>3, <2>4, <2>5 DEF ProducerNext
<1> QED BY <1>2, <1>3

(* Latching keeps the frames counted: what it takes is still counted ...   *)
LEMMA LatchCounts ==
  ASSUME LifeInv, FramesInv, NEW k \in Layers, latchBuffer(k), NEW l \in Layers
  PROVE  Counted(l)'
<1>0. SfTypeInv /\ Counted(l)
  BY DEF LifeInv, FramesInv, Counted
<1>1. Pushed(l)' = Pushed(l) /\ Pushing(l)' = Pushing(l)
  BY DEF latchBuffer, LeavesMain, Pushed, Pushing
<1>2. main.at = "latch" /\ ~Latched(l) /\ Taken(l) = 0
  BY <1>0, LatchFacts DEF Latched, Taken
<1>3. CASE l # k
  <2>1. layer'[l] = layer[l] /\ ~Latched(l)'
    BY <1>0, <1>3, LatchFacts DEF Latched
  <2> QED BY <1>0, <1>1, <2>1, StaysCounted DEF SameFrames
<1>4. CASE l = k /\ main'.at = "latch"
  <2>1. SameFrames(layer[l], layer'[l]) /\ ~Latched(l)'
    BY <1>0, <1>4, LatchFacts DEF Latched
  <2> QED BY <1>0, <1>1, <2>1, StaysCounted
<1>5. CASE l = k /\ main'.at = "latched"
  <2>1. /\ main'.layer = l /\ layer[l].mQueuedFrames > 0
        /\ \E answer : /\ GoodAnswer(layer[l], answer) /\ layer'[l] = answer.layer
                       /\ main'.result = answer.result
    BY <1>0, <1>5, LatchFacts
  <2>2. PICK answer : /\ GoodAnswer(layer[l], answer) /\ layer'[l] = answer.layer
                      /\ main'.result = answer.result
    BY <2>1
  <2>3. /\ layer'[l].mQueueItems = layer[l].mQueueItems
        /\ layer'[l].mQueuedFrames = layer[l].mQueuedFrames
        /\ layer'[l].abandoned = layer[l].abandoned
    BY <2>2 DEF GoodAnswer, SameButLatched
  <2>4. layer'[l].abandoned => layer'[l].queue = << >>
    <3>1. layer[l].queue = << >> => layer'[l].queue = << >>
      BY <2>2 DEF GoodAnswer
    <3> QED BY <1>0, <2>3, <3>1 DEF Counted
  <2>5. Len(layer'[l].queue) + Taken(l)' <= layer[l].mQueuedFrames + Pushing(l)
    <3>1. /\ Len(layer[l].queue) \in Nat /\ layer[l].mQueuedFrames \in Nat
          /\ Pushing(l) \in Nat
      BY <1>0, CountTypes
    <3>2. Len(layer[l].queue) <= layer[l].mQueuedFrames + Pushing(l)
      <4>1. Len(layer[l].queue) + Taken(l) <= layer[l].mQueuedFrames + Pushing(l)
        BY <1>0 DEF Counted
      <4>2. \A a \in Nat : a + 0 = a
        OBVIOUS
      <4> QED BY <1>2, <3>1, <4>1, <4>2
    <3>3. Len(layer'[l].queue) \in Nat
      <4>1. layer'[l] \in LayerRecords
        BY <1>0, LatchFacts
      <4> QED BY <4>1 DEF LayerRecords
    <3>4. CASE layer'[l].queue = << >>
      <4>1. Len(layer'[l].queue) = 0
        BY <3>4
      <4>2. Taken(l)' \in {0, 1}
        BY DEF Taken
      <4>3. \A a, b \in Nat, c \in {0, 1} : a > 0 => 0 + c <= a + b
        OBVIOUS
      <4> QED BY <2>1, <3>1, <4>1, <4>2, <4>3
    <3>5. CASE layer'[l].queue # << >> /\ main'.result = "PRESENT_LATER"
      <4>1. Taken(l)' = 0
        BY <3>5 DEF Taken
      <4>2. Len(layer'[l].queue) <= Len(layer[l].queue)
        BY <2>2 DEF GoodAnswer
      <4>3. \A a, b, c, d \in Nat : a <= b /\ b <= c + d => a + 0 <= c + d
        OBVIOUS
      <4> QED BY <3>1, <3>2, <3>3, <4>1, <4>2, <4>3
    <3>6. CASE layer'[l].queue # << >> /\ main'.result # "PRESENT_LATER"
      <4>1. Taken(l)' = 1
        BY <1>5, <2>1, <3>6 DEF Taken, Latched
      <4>2. main'.result = "NO_ERROR"
        <5>1. main'.result = "NO_INIT" => layer[l].abandoned /\ layer'[l] = layer[l]
          BY <2>2 DEF GoodAnswer
        <5>2. main'.result # "NO_INIT"
          BY <1>0, <3>6, <5>1 DEF Counted
        <5> QED BY <2>2, <3>6, <5>2 DEF GoodAnswer
      <4>3. Len(layer'[l].queue) + 1 <= Len(layer[l].queue)
        BY <2>2, <3>6, <4>2 DEF GoodAnswer
      <4>4. \A a, b, c, d \in Nat : a + 1 <= b /\ b <= c + d => a + 1 <= c + d
        OBVIOUS
      <4> QED BY <3>1, <3>2, <3>3, <4>1, <4>3, <4>4
    <3> QED BY <3>4, <3>5, <3>6
  <2>6. Latched(l)' => layer'[l].mQueuedFrames > 0
    BY <2>1, <2>3
  <2>7. Len(layer'[l].mQueueItems) = layer'[l].mQueuedFrames + Pushed(l)'
    BY <1>0, <1>1, <2>3 DEF Counted
  <2> QED BY <1>1, <2>3, <2>4, <2>5, <2>6, <2>7 DEF Counted
<1> QED BY <1>0, <1>3, <1>4, <1>5, LatchFacts

(* ... until the tracker forgets it.                                       *)
LEMMA LatchDoneCounts ==
  ASSUME LifeInv, FramesInv, latchBufferDone, NEW l \in Layers
  PROVE  Counted(l)'
<1>0. SfTypeInv /\ Counted(l)
  BY DEF LifeInv, FramesInv, Counted
<1>1. Pushed(l)' = Pushed(l) /\ Pushing(l)' = Pushing(l)
  BY DEF latchBufferDone, LeavesMain, Pushed, Pushing
<1>2. main.at = "latched" /\ main.result # "PRESENT_LATER" /\ ~Latched(l)'
  BY <1>0, LatchDoneFacts DEF Latched
<1>3. CASE l # main.layer
  <2>1. layer'[l] = layer[l]
    BY <1>0, <1>3, LatchDoneFacts
  <2> QED BY <1>0, <1>1, <1>2, <2>1, StaysCounted DEF SameFrames
<1>4. CASE l = main.layer
  <2>1. Taken(l) = 1 /\ Taken(l)' = 0
    BY <1>2, <1>4 DEF Taken, Latched
  <2>2. /\ layer[l].mQueuedFrames > 0
        /\ layer'[l].mQueuedFrames = layer[l].mQueuedFrames - 1
        /\ Len(layer'[l].mQueueItems) = Len(layer[l].mQueueItems) - 1
        /\ layer'[l].queue = layer[l].queue
        /\ layer'[l].abandoned = layer[l].abandoned
    BY <1>0, <1>4, LatchDoneFacts
  <2>3. /\ Len(layer[l].queue) \in Nat /\ layer[l].mQueuedFrames \in Nat
        /\ Pushing(l) \in Nat /\ Pushed(l) \in Nat
    BY <1>0, CountTypes
  <2>4. /\ Len(layer[l].mQueueItems) = layer[l].mQueuedFrames + Pushed(l)
        /\ Len(layer[l].queue) + 1 <= layer[l].mQueuedFrames + Pushing(l)
    BY <1>0, <2>1 DEF Counted
  <2>5. \A a, b, c \in Nat : b > 0 /\ a + 1 <= b + c => a + 0 <= (b - 1) + c
    OBVIOUS
  <2>6. Len(layer'[l].queue) + Taken(l)' <= layer'[l].mQueuedFrames + Pushing(l)'
    <3>1. Len(layer[l].queue) + 0 <= (layer[l].mQueuedFrames - 1) + Pushing(l)
      BY <2>2, <2>3, <2>4, <2>5
    <3> QED BY <1>1, <2>1, <2>2, <3>1
  <2>7. \A b, c \in Nat : b > 0 => (b + c) - 1 = (b - 1) + c
    OBVIOUS
  <2>8. Len(layer'[l].mQueueItems) = layer'[l].mQueuedFrames + Pushed(l)'
    BY <1>1, <2>2, <2>3, <2>4, <2>7
  <2> QED BY <1>0, <1>2, <2>2, <2>6, <2>8 DEF Counted
<1> QED BY <1>3, <1>4

(* The main thread and the clients keep them counted.                      *)
LEMMA MainCounts ==
  ASSUME LifeInv, FramesInv, MainNext, NEW l \in Layers
  PROVE  Counted(l)'
<1>0. SfTypeInv /\ Counted(l)
  BY DEF LifeInv, FramesInv, Counted
<1>1. CASE \E k \in Layers : latchBuffer(k)
  BY <1>1, LatchCounts
<1>2. CASE latchBufferDone
  BY <1>2, LatchDoneCounts
<1>3. ASSUME ~(\E k \in Layers : latchBuffer(k)), ~latchBufferDone
      PROVE  Pushed(l)' = Pushed(l) /\ Pushing(l)' = Pushing(l)
  <2>1. producer' = producer
    <3>1. CASE receiveVsync \/ receiveMessage \/ createLayer \/ captureScreenHandler
      BY <3>1 DEF receiveVsync, receiveMessage, createLayer, captureScreenHandler, LeavesMain
    <3>2. CASE handleMessageTransaction
      BY <3>2 DEF handleMessageTransaction, handleTransaction, LeavesMain
    <3>3. CASE handlePageFlip \/ latchBufferLater \/ signalRefresh \/ handleMessageRefresh
      BY <3>3 DEF handlePageFlip, latchBufferLater, signalRefresh, handleMessageRefresh,
         LeavesMain
    <3> QED BY <1>3, <3>1, <3>2, <3>3 DEF MainNext
  <2> QED BY <2>1 DEF Pushed, Pushing
<1>4. CASE receiveVsync \/ captureScreenHandler \/ handlePageFlip
           \/ latchBufferLater \/ signalRefresh
  <2>1. layer' = layer /\ (main' = main \/ main'.at # "latched")
    <3>1. CASE receiveVsync
      BY <3>1 DEF receiveVsync
    <3>2. CASE captureScreenHandler
      BY <3>2 DEF captureScreenHandler, Idle
    <3>3. CASE handlePageFlip
      BY <3>3 DEF handlePageFlip
    <3>4. CASE latchBufferLater
      BY <3>4 DEF latchBufferLater, BackToLatch
    <3>5. CASE signalRefresh
      BY <3>5 DEF signalRefresh, Idle
    <3> QED BY <1>4, <3>1, <3>2, <3>3, <3>4, <3>5
  <2>2. ~(\E k \in Layers : latchBuffer(k)) /\ ~latchBufferDone
        => Pushed(l)' = Pushed(l) /\ Pushing(l)' = Pushing(l)
    BY <1>3
  <2> QED BY <1>0, <1>1, <1>2, <2>1, <2>2, StaysCounted DEF SameFrames, Latched
<1>5. CASE receiveMessage
  <2>1. /\ handleMessage /\ layer' = layer
        /\ main' = [at |-> HandlerOf(Head(mLooper).what), message |-> Head(mLooper)]
    BY <1>5 DEF receiveMessage
  <2>2. Head(mLooper) \in Messages
    BY <1>0, <2>1, HandleMessageFacts DEF SfTypeInv
  <2>3. main'.at # "latched"
    BY <2>1, <2>2 DEF Messages, HandlerOf, Kinds
  <2> QED BY <1>0, <1>1, <1>2, <1>3, <2>1, <2>3, StaysCounted DEF SameFrames, Latched
<1>6. CASE createLayer
  <2>1. main.message.layer \in Layers /\ layer[main.message.layer] = NewLayer
    <3>1. main.at = "create"
      BY <1>6 DEF createLayer
    <3>2. main.message.layer \in Layers /\ ~Exists(main.message.layer)
      BY <1>0, <3>1, MainFacts DEF LifeInv, CreatedAreFresh
    <3> QED BY <3>2 DEF LifeInv, FreshAreNew
  <2>2. layer'[l] = layer[l]
    BY <1>0, <1>6, <2>1 DEF createLayer, SfTypeInv
  <2>3. main'.at # "latched"
    BY <1>6 DEF createLayer, Idle
  <2> QED BY <1>0, <1>1, <1>2, <1>3, <2>2, <2>3, StaysCounted DEF SameFrames, Latched
<1>7. CASE handleMessageTransaction
  <2>1. main'.at # "latched"
    BY <1>7 DEF handleMessageTransaction, AfterTransaction, Idle
  <2>2. CASE handleTransaction
    <3>1. /\ layer'[l].mQueueItems = layer[l].mQueueItems
          /\ layer'[l].mQueuedFrames = layer[l].mQueuedFrames
          /\ \/ layer'[l].queue = layer[l].queue
                /\ layer'[l].abandoned = layer[l].abandoned
             \/ layer'[l].queue = << >>
      BY <1>0, <2>2, CommitFacts
    <3> QED BY <1>0, <1>1, <1>2, <1>3, <2>1, <3>1, StaysCounted DEF SameFrames, Latched
  <2>3. CASE layer' = layer
    BY <1>0, <1>1, <1>2, <1>3, <2>1, <2>3, StaysCounted DEF SameFrames, Latched
  <2> QED BY <1>7, <2>2, <2>3 DEF handleMessageTransaction
<1>8. CASE handleMessageRefresh
  <2>1. SameFrames(layer[l], layer'[l]) /\ main'.at # "latched"
    BY <1>0, <1>8, RefreshFacts DEF handleMessageRefresh, Idle
  <2> QED BY <1>0, <1>1, <1>2, <1>3, <2>1, StaysCounted DEF Latched
<1> QED BY <1>1, <1>2, <1>4, <1>5, <1>6, <1>7, <1>8 DEF MainNext

(* Every step keeps the frames of all layers counted.                      *)
LEMMA FramesStep ==
  ASSUME LifeInv, FramesInv, SurfaceFlingerNext
  PROVE  FramesInv'
<1> SUFFICES ASSUME NEW l \in Layers PROVE Counted(l)'
  BY DEF FramesInv, Counted
<1>0. SfTypeInv /\ Counted(l)
  BY DEF LifeInv, FramesInv, Counted
<1>1. ASSUME NEW t \in Threads, ClientNext(t)
      PROVE  Counted(l)'
  <2>1. SameFrames(layer[l], layer'[l]) /\ producer' = producer /\ main' = main
    <3>1. ASSUME NEW changes, NEW sync, NEW anim,
                 changes \in SUBSET [layer : Layers, change : Changes],
                 sync \in BOOLEAN, anim \in BOOLEAN, apply(t, changes, sync, anim)
          PROVE  SameFrames(layer[l], layer'[l]) /\ producer' = producer /\ main' = main
      BY <1>0, <3>1, ApplyFacts DEF apply
    <3>2. CASE setTransactionState(t)
      BY <1>0, <3>1, <3>2, StateFacts DEF setTransactionState
    <3>3. CASE animationWaitTimesOut(t)
      BY <1>0, <3>1, <3>3, StateFacts DEF animationWaitTimesOut
    <3>4. CASE ~setTransactionState(t) /\ ~animationWaitTimesOut(t)
      BY <1>1, <3>4 DEF ClientNext, callSetTransactionState, setTransactionStateWaits,
         syncWaitEnds, syncWaitTimesOut, createSurface, captureScreen, SameFrames
    <3> QED BY <3>2, <3>3, <3>4
  <2> QED BY <1>0, <2>1, StaysCounted DEF Pushed, Pushing
<1>2. CASE \/ \E k \in Layers : removeLayer(k)
           \/ repaintEverything \/ eventThreadAnswers \/ passTime
  <2>1. layer' = layer /\ producer' = producer /\ main' = main
    BY <1>2 DEF removeLayer, repaintEverything, eventThreadAnswers, passTime, LeavesMain
  <2> QED BY <1>0, <2>1, StaysCounted DEF SameFrames, Pushed, Pushing
<1> QED BY <1>1, <1>2, MainCounts, ProducerCounts DEF SurfaceFlingerNext

(* At the start one layer exists, and nothing is queued.                   *)
LEMMA StartFacts ==
  ASSUME SurfaceFlingerInit
  PROVE  LifeInv /\ FramesInv
<1> USE DEF SurfaceFlingerInit, QueueInit
<1>1. /\ \A l \in Layers : layer[l] = NewLayer /\ producer[l] = Idle
      /\ layer \in [Layers -> LayerRecords] /\ main = Idle /\ mLooper = << >>
  BY NewLayerFacts
<1>2. SfTypeInv
  <2>1. producer \in [Layers -> ProducerStates] /\ thread \in [Threads -> ThreadStates]
        /\ main \in MainStates /\ main.at = "idle"
    BY DEF Idle, ProducerStates, ThreadStates, MainStates
  <2>2. mLooper \in Seq(Messages) /\ budget \in Nat
    BY SurfaceFlingerAssumption
  <2> QED BY <1>1, <2>1, <2>2 DEF SfTypeInv
<1>3. ListsFit
  BY SurfaceFlingerAssumption DEF ListsFit
<1>4. FreshAreNew /\ CreatedAreFresh /\ LatchedAreDrawn
  BY <1>1 DEF FreshAreNew, CreatedAreFresh, LatchedAreDrawn, Places, Idle
<1>5. FramesInv
  <2> SUFFICES ASSUME NEW l \in Layers PROVE Counted(l)
    BY DEF FramesInv, Counted
  <2>1. /\ layer[l].mQueueItems = << >> /\ layer[l].queue = << >>
        /\ layer[l].mQueuedFrames = 0
    BY <1>1 DEF NewLayer
  <2>2. Pushed(l) = 0 /\ Pushing(l) = 0 /\ Taken(l) = 0 /\ ~Latched(l)
    BY <1>1 DEF Pushed, Pushing, Taken, Latched, Idle
  <2>3. Len(layer[l].mQueueItems) = 0 /\ Len(layer[l].queue) = 0
    BY <2>1
  <2>4. 0 = 0 + 0 /\ 0 + 0 <= 0 + 0
    OBVIOUS
  <2> HIDE DEF SurfaceFlingerInit, QueueInit
  <2>5. Len(layer[l].mQueueItems) = layer[l].mQueuedFrames + Pushed(l)
        /\ Len(layer[l].queue) + Taken(l) <= layer[l].mQueuedFrames + Pushing(l)
    BY <2>1, <2>2, <2>3, <2>4
  <2> QED BY <2>1, <2>2, <2>5 DEF Counted
<1> QED BY <1>2, <1>3, <1>4, <1>5 DEF LifeInv

(* A step that changes nothing keeps the parts of the invariant.           *)
LEMMA StutterFacts ==
  ASSUME UNCHANGED sfVars
  PROVE  /\ LifeInv => LifeInv'
         /\ FramesInv => FramesInv'
<1> USE DEF sfVars, flingerVars, screenVars, historyVars, queueVars
<1>1. SfTypeInv => SfTypeInv'
  BY DEF SfTypeInv
<1>2. ListsFit /\ FreshAreNew /\ LatchedAreDrawn => ListsFit' /\ FreshAreNew' /\ LatchedAreDrawn'
  BY DEF ListsFit, FreshAreNew, LatchedAreDrawn, Exists
<1>3. CreatedAreFresh => CreatedAreFresh'
  BY DEF CreatedAreFresh, Places, Exists
<1>4. FramesInv => FramesInv'
  BY DEF FramesInv, Pushed, Pushing, Taken, Latched
<1> QED BY <1>1, <1>2, <1>3, <1>4 DEF LifeInv

(* Which layers exist and how their frames are counted, always.            *)
LEMMA AlwaysCounted ==
  SurfaceFlingerSpec => [](LifeInv /\ FramesInv)
<1>1. SurfaceFlingerInit => LifeInv /\ FramesInv
  BY StartFacts
<1>2. (LifeInv /\ FramesInv) /\ [SurfaceFlingerNext]_sfVars => (LifeInv /\ FramesInv)'
  BY LifeStep, FramesStep, StutterFacts
<1> QED BY <1>1, <1>2, PTL DEF SurfaceFlingerSpec

(* The tracker has an item for each frame that is counted or about to be,  *)
(* and the BufferQueue no frame that is neither, so that latchBuffer never *)
(* removes an item that is not there (Layer.cpp:163-181, 1241-1251).       *)
THEOREM FramesStayTracked == SurfaceFlingerSpec => []FramesAreTracked
<1>1. LifeInv /\ FramesInv => FramesAreTracked
  <2> SUFFICES ASSUME LifeInv, FramesInv, NEW l \in Layers
               PROVE  LET r == layer[l]
                          pushed == IF producer[l].at = "pushed" THEN 1 ELSE 0
                          coming == IF producer[l].at = "queued" THEN 1 ELSE pushed
                      IN /\ Len(r.mQueueItems) = r.mQueuedFrames + pushed
                         /\ Len(r.queue) <= r.mQueuedFrames + coming
                         /\ main.at = "latched" /\ main.layer = l => r.mQueueItems # <<>>
    BY DEF FramesAreTracked
  <2> DEFINE coming == IF producer[l].at = "queued" THEN 1 ELSE Pushed(l)
  <2>1. Counted(l) /\ SfTypeInv
    BY DEF FramesInv, Counted, LifeInv
  <2>2. Pushing(l) <= coming /\ Pushing(l) \in Nat /\ coming \in Nat
    BY DEF Pushing, Pushed
  <2> HIDE DEF coming
  <2>3. Len(layer[l].queue) <= layer[l].mQueuedFrames + coming
    <3>1. /\ Len(layer[l].queue) \in Nat /\ layer[l].mQueuedFrames \in Nat
          /\ Taken(l) \in Nat
      BY <2>1, CountTypes
    <3>2. Len(layer[l].queue) + Taken(l) <= layer[l].mQueuedFrames + Pushing(l)
      BY <2>1 DEF Counted
    <3>3. \A a, b, c, d, e \in Nat : a + b <= c + d /\ d <= e => a <= c + e
      OBVIOUS
    <3> QED BY <2>2, <3>1, <3>2, <3>3
  <2>4. ASSUME Latched(l)
        PROVE  layer[l].mQueueItems # << >>
    <3>1. layer[l].mQueuedFrames > 0
          /\ Len(layer[l].mQueueItems) = layer[l].mQueuedFrames + Pushed(l)
      BY <2>1, <2>4 DEF Counted
    <3>2. layer[l].mQueuedFrames \in Nat /\ Pushed(l) \in Nat
      BY <2>1, CountTypes
    <3>3. Len(layer[l].mQueueItems) # 0
      BY <3>1, <3>2
    <3> QED BY <3>3
  <2> QED BY <2>1, <2>3, <2>4 DEF Counted, Pushed, Latched, coming
<1> QED BY <1>1, AlwaysCounted, PTL
-----------------------------------------------------------------------------
(***************************************************************************)
(* Work is on its way.                                                     *)
(***************************************************************************)

(* The signals that are given stay given, and what is new to do gives one. *)
Signalled ==
  /\ mEventMask \subseteq mEventMask'
  /\ vsyncRequested \/ mEventTube => vsyncRequested' \/ mEventTube'
  /\ mTransactionFlags \subseteq mTransactionFlags'
  /\ mTransactionFlags' # {} => mTransactionFlags # {} \/ vsyncRequested'
  /\ mRepaintEverything' => mRepaintEverything \/ vsyncRequested'
  /\ applied <= applied'
  /\ applied' = applied \/ mTransactionFlags' # {}

(* What the main thread draws is left alone.                               *)
DrawnAlone ==
  /\ main' = main /\ mDrawingState' = mDrawingState
  /\ UNCHANGED <<committed, mVisibleRegionsDirty, visibleRegions>>

(* So is a layer, but for what clients set and a frame that is signalled.  *)
LeftAlone(l) ==
  /\ layer'[l].mRefreshPending = layer[l].mRefreshPending
  /\ layer'[l].drawing = layer[l].drawing
  /\ layer'[l].mActiveBuffer = layer[l].mActiveBuffer
  /\ layer'[l].current.active = layer[l].current.active
  /\ ~layer'[l].bumped => /\ ~layer[l].bumped
                          /\ layer'[l].current.z = layer[l].current.z
                          /\ layer'[l].current.alpha = layer[l].current.alpha
  /\ layer'[l].mQueuedFrames = layer[l].mQueuedFrames \/ vsyncRequested'

(* Only the main thread does otherwise.                                    *)
LEMMA OthersSignal ==
  ASSUME SfTypeInv, SurfaceFlingerNext, ~MainNext
  PROVE  Signalled /\ DrawnAlone /\ \A l \in Layers : LeftAlone(l)
<1> USE DEF flingerVars, screenVars, historyVars, queueVars
<1>0. applied \in Nat /\ \A a \in Nat : a <= a /\ a <= a + 1
  BY DEF SfTypeInv
<1>1. ASSUME UNCHANGED <<layer, mTransactionFlags, mRepaintEverything, applied,
                         vsyncRequested, mEventTube>>,
             mEventMask \subseteq mEventMask', DrawnAlone
      PROVE  Signalled /\ DrawnAlone /\ \A l \in Layers : LeftAlone(l)
  BY <1>0, <1>1 DEF Signalled, LeftAlone
<1>2. ASSUME NEW t \in Threads, ClientNext(t)
      PROVE  Signalled /\ DrawnAlone /\ \A l \in Layers : LeftAlone(l)
  <2>1. ASSUME NEW changes, NEW sync, NEW anim,
               changes \in SUBSET [layer : Layers, change : Changes],
               sync \in BOOLEAN, anim \in BOOLEAN, apply(t, changes, sync, anim)
        PROVE  Signalled /\ DrawnAlone /\ \A l \in Layers : LeftAlone(l)
    <3>1. DrawnAlone
      BY <2>1 DEF apply, DrawnAlone
    <3>2. \A l \in Layers : LeftAlone(l)
      BY <2>1, ApplyFacts DEF LeftAlone, SameFrames
    <3>3. /\ mTransactionFlags' = mTransactionFlags \union FlagsOf(changes)
          /\ FlagsOf(changes) # {} /\ mTransactionFlags = {} => vsyncRequested'
          /\ vsyncRequested => vsyncRequested'
          /\ applied' = (IF FlagsOf(changes) = {} THEN applied ELSE applied + 1)
      BY <2>1, ApplyFacts
    <3>4. UNCHANGED <<mEventMask, mEventTube, mRepaintEverything>>
      BY <2>1 DEF apply
    <3>5. applied <= applied'
      BY <1>0, <3>3
    <3> QED BY <3>1, <3>2, <3>3, <3>4, <3>5 DEF Signalled
  <2>2. CASE setTransactionState(t)
    BY <2>1, <2>2, StateFacts DEF setTransactionState
  <2>3. CASE animationWaitTimesOut(t)
    BY <2>1, <2>3, StateFacts DEF animationWaitTimesOut
  <2>4. CASE captureScreen(t)
    <3>1. /\ DrawnAlone /\ mEventMask \subseteq mEventMask'
          /\ UNCHANGED <<layer, mTransactionFlags, mRepaintEverything, applied,
                         vsyncRequested, mEventTube>>
      BY <2>4 DEF captureScreen, dispatch, DrawnAlone
    <3> QED BY <1>1, <3>1
  <2>5. CASE callSetTransactionState(t) \/ setTransactionStateWaits(t)
    BY <1>1, <2>5 DEF callSetTransactionState, setTransactionStateWaits, DrawnAlone
  <2>6. CASE syncWaitEnds(t)
    BY <1>1, <2>6 DEF syncWaitEnds, DrawnAlone
  <2>7. CASE syncWaitTimesOut(t)
    BY <1>1, <2>7 DEF syncWaitTimesOut, DrawnAlone
  <2>8. CASE createSurface(t)
    <3>1. /\ DrawnAlone /\ mEventMask \subseteq mEventMask'
          /\ UNCHANGED <<layer, mTransactionFlags, mRepaintEverything, applied,
                         vsyncRequested, mEventTube>>
      BY <2>8 DEF createSurface, postMessage, DrawnAlone
    <3> QED BY <1>1, <3>1
  <2> QED BY <1>2, <2>2, <2>3, <2>4, <2>5, <2>6, <2>7, <2>8 DEF ClientNext
<1>3. ASSUME NEW k \in Layers, ProducerNext(k)
      PROVE  Signalled /\ DrawnAlone /\ \A l \in Layers : LeftAlone(l)
  <2>1. /\ DrawnAlone
        /\ UNCHANGED <<mTransactionFlags, mRepaintEverything, applied, mEventTube, mEventMask>>
        /\ vsyncRequested => vsyncRequested'
    <3>1. CASE dequeue(k) \/ queue(k) \/ notify(k)
      BY <3>1 DEF dequeue, queue, notify, DrawnAlone
    <3>2. CASE notified(k)
      BY <3>2 DEF notified, invalidate, DrawnAlone
    <3>3. CASE setSidebandStream(k)
      BY <3>3 DEF setSidebandStream, invalidateIf, DrawnAlone
    <3> QED BY <1>3, <3>1, <3>2, <3>3 DEF ProducerNext
  <2>2. Signalled
    BY <1>0, <2>1 DEF Signalled
  <2>3. ASSUME NEW l \in Layers
        PROVE  LeftAlone(l)
    <3>1. layer[l] \in LayerRecords /\ layer[k] \in LayerRecords
      BY DEF SfTypeInv
    <3>2. CASE layer'[l] = layer[l]
      BY <3>2 DEF LeftAlone
    <3>3. ASSUME NEW r, layer' = [layer EXCEPT ![k] = r], SamePicture(layer[k], r),
                 r.mRefreshPending = layer[k].mRefreshPending,
                 r.mQueuedFrames = layer[k].mQueuedFrames \/ vsyncRequested'
          PROVE  LeftAlone(l)
      <4>1. layer'[l] = IF l = k THEN r ELSE layer[l]
        BY <3>3 DEF SfTypeInv
      <4> QED BY <3>2, <3>3, <4>1 DEF LeftAlone, SamePicture
    <3>4. CASE queue(k)
      <4>1. \A frame : LET s == queueBuffer(layer[k], frame)
                       IN /\ SamePicture(layer[k], s)
                          /\ s.mRefreshPending = layer[k].mRefreshPending
                          /\ s.mQueuedFrames = layer[k].mQueuedFrames
        BY <3>1 DEF queueBuffer, SamePicture, LayerRecords
      <4>2. layer' = layer \/ \E frame : layer' = [layer EXCEPT ![k] =
                                                     queueBuffer(layer[k], frame)]
        BY <3>4 DEF queue
      <4> QED BY <3>2, <3>3, <4>1, <4>2
    <3>5. CASE notify(k)
      <4>1. \A frame : LET s == onFrameAvailablePush(layer[k], frame)
                       IN /\ SamePicture(layer[k], s)
                          /\ s.mRefreshPending = layer[k].mRefreshPending
                          /\ s.mQueuedFrames = layer[k].mQueuedFrames
        BY <3>1 DEF onFrameAvailablePush, SamePicture, LayerRecords
      <4>2. layer' = layer \/ \E frame : layer' = [layer EXCEPT ![k] =
                                                     onFrameAvailablePush(layer[k], frame)]
        BY <3>5 DEF notify
      <4> QED BY <3>2, <3>3, <4>1, <4>2
    <3>6. CASE notified(k)
      <4>1. LET s == onFrameAvailableCount(layer[k])
            IN /\ SamePicture(layer[k], s)
               /\ s.mRefreshPending = layer[k].mRefreshPending
        BY <3>1 DEF onFrameAvailableCount, SamePicture, LayerRecords
      <4>2. layer' = [layer EXCEPT ![k] = onFrameAvailableCount(layer[k])]
            /\ vsyncRequested'
        BY <3>6 DEF notified, invalidate
      <4> QED BY <3>3, <4>1, <4>2
    <3>7. CASE dequeue(k)
      BY <3>2, <3>7 DEF dequeue
    <3>8. CASE setSidebandStream(k)
      <4>1. LET s == onSidebandStreamChanged(layer[k])
            IN /\ SamePicture(layer[k], s)
               /\ s.mRefreshPending = layer[k].mRefreshPending
               /\ s.mQueuedFrames = layer[k].mQueuedFrames
        BY <3>1, FlagFacts DEF SameFrames
      <4>2. layer' = [layer EXCEPT ![k] = onSidebandStreamChanged(layer[k])]
        BY <3>8 DEF setSidebandStream
      <4> QED BY <3>3, <4>1, <4>2
    <3> QED BY <1>3, <3>4, <3>5, <3>6, <3>7, <3>8 DEF ProducerNext
  <2> QED BY <2>1, <2>2, <2>3
<1>4. ASSUME NEW k \in Layers, removeLayer(k)
      PROVE  Signalled /\ DrawnAlone /\ \A l \in Layers : LeftAlone(l)
  <2>1. DrawnAlone /\ layer' = layer /\ applied' = applied + 1
        /\ UNCHANGED <<mRepaintEverything, mEventTube, mEventMask>>
    BY <1>4 DEF removeLayer, DrawnAlone
  <2>2. /\ mTransactionFlags' = mTransactionFlags \union {"transaction"}
        /\ vsyncRequested' = (vsyncRequested \/ Wakes({"transaction"}))
        /\ vsyncRequested => vsyncRequested'
        /\ Wakes({"transaction"}) => vsyncRequested'
    BY <1>4 DEF removeLayer, setTransactionFlags, invalidateIf
  <2>3. mTransactionFlags # {} \/ vsyncRequested'
    BY <2>2 DEF Wakes
  <2> QED BY <1>0, <2>1, <2>2, <2>3 DEF Signalled, LeftAlone
<1>5. CASE repaintEverything
  <2>1. DrawnAlone /\ layer' = layer /\ vsyncRequested'
        /\ UNCHANGED <<mTransactionFlags, applied, mEventTube, mEventMask>>
    BY <1>5 DEF repaintEverything, invalidate, DrawnAlone
  <2> QED BY <1>0, <2>1 DEF Signalled, LeftAlone
<1>6. CASE eventThreadAnswers
  <2>1. DrawnAlone /\ layer' = layer /\ mEventTube'
        /\ UNCHANGED <<mTransactionFlags, applied, mRepaintEverything, mEventMask>>
    BY <1>6 DEF eventThreadAnswers, deliverVsync, LeavesMain, DrawnAlone
  <2> QED BY <1>0, <2>1 DEF Signalled, LeftAlone
<1>7. CASE passTime
  BY <1>1, <1>7 DEF passTime, DrawnAlone
<1> QED BY <1>2, <1>3, <1>4, <1>5, <1>6, <1>7 DEF SurfaceFlingerNext

(* A dispatch keeps the mask that of the looper.                           *)
LEMMA DispatchKeepsMask ==
  ASSUME mLooper \in Seq(Messages), MaskFits, NEW what \in Kinds,
         NEW messages \in Seq(Messages),
         \A k \in 1 .. Len(messages) : messages[k].what \notin Kinds,
         dispatch(what, messages)
  PROVE  MaskFits'
<1>1. /\ mEventMask' = mEventMask \union {what}
      /\ \A i \in Places : mLooper'[i] = mLooper[i]
      /\ what \notin mEventMask => mLooper'[Len(mLooper) + 1] = [what |-> what]
  BY DispatchFacts
<1>2. /\ \A i \in Places : i \in 1 .. Len(mLooper')
      /\ what \notin mEventMask => Len(mLooper) + 1 \in 1 .. Len(mLooper')
  <2>1. PICK n \in {0, 1} : n = IF what \in mEventMask THEN 0 ELSE 1
    OBVIOUS
  <2>2. /\ Len(mLooper') = Len(mLooper) + Len(messages) +
                             (IF what \in mEventMask THEN 0 ELSE 1)
    BY DispatchFacts
  <2>3. Len(mLooper') = Len(mLooper) + Len(messages) + n
    BY <2>1, <2>2
  <2>4. Len(mLooper) \in Nat /\ Len(messages) \in Nat
    OBVIOUS
  <2>5. what \notin mEventMask => n = 1
    BY <2>1
  <2> QED BY <2>3, <2>4, <2>5 DEF Places
<1>3. ASSUME NEW kind \in Kinds, NEW i \in 1 .. Len(mLooper'), mLooper'[i].what = kind
      PROVE  \/ i \in Places /\ mLooper[i].what = kind /\ kind \in mEventMask
             \/ i = Len(mLooper) + 1 /\ kind = what /\ what \notin mEventMask
  <2>1. \/ i \in Places /\ mLooper'[i] = mLooper[i]
        \/ /\ what \notin mEventMask /\ i = Len(mLooper) + 1
           /\ mLooper'[i] = [what |-> what]
        \/ \E k \in 1 .. Len(messages) : mLooper'[i] = messages[k]
    BY DispatchedAre
  <2> QED BY <1>3, <2>1 DEF MaskFits
<1> SUFFICES ASSUME NEW kind \in Kinds
             PROVE  /\ kind \in mEventMask' <=>
                         \E i \in 1 .. Len(mLooper') : mLooper'[i].what = kind
                    /\ \A i, j \in 1 .. Len(mLooper') :
                         mLooper'[i].what = kind /\ mLooper'[j].what = kind => i = j
  BY DEF MaskFits, Places
<1>4. kind \in mEventMask' => \E i \in 1 .. Len(mLooper') : mLooper'[i].what = kind
  <2>1. CASE kind \in mEventMask
    <3>1. PICK i \in Places : mLooper[i].what = kind
      BY <2>1 DEF MaskFits
    <3> QED BY <1>1, <1>2, <3>1
  <2>2. CASE kind = what /\ what \notin mEventMask
    BY <1>1, <1>2, <2>2
  <2> QED BY <1>1, <2>1, <2>2
<1>5. (\E i \in 1 .. Len(mLooper') : mLooper'[i].what = kind) => kind \in mEventMask'
  BY <1>1, <1>3
<1>6. \A i, j \in 1 .. Len(mLooper') :
        mLooper'[i].what = kind /\ mLooper'[j].what = kind => i = j
  <2> SUFFICES ASSUME NEW i \in 1 .. Len(mLooper'), NEW j \in 1 .. Len(mLooper'),
                      mLooper'[i].what = kind, mLooper'[j].what = kind
               PROVE  i = j
    OBVIOUS
  <2> QED BY <1>3 DEF MaskFits
<1> QED BY <1>4, <1>5, <1>6

(* The mask is that of the looper after every step.                        *)
LEMMA MaskStep ==
  ASSUME SfTypeInv, MaskFits, SurfaceFlingerNext
  PROVE  MaskFits'
<1>0. mLooper \in Seq(Messages)
  BY DEF SfTypeInv
<1>1. CASE UNCHANGED <<mLooper, mEventMask>>
  BY <1>1 DEF MaskFits, Places
<1>2. CASE receiveMessage
  <2>1. /\ 1 \in Places /\ Len(mLooper') = Len(mLooper) - 1
        /\ \A i \in 1 .. Len(mLooper) - 1 : mLooper'[i] = mLooper[i + 1]
        /\ mEventMask' = mEventMask \ {mLooper[1].what}
    BY <1>0, <1>2, HandleMessageFacts DEF receiveMessage
  <2>2. \A i \in 1 .. Len(mLooper') : i + 1 \in Places /\ mLooper'[i] = mLooper[i + 1]
    BY <1>0, <2>1 DEF Places
  <2>3. \A j \in Places : j # 1 => j - 1 \in 1 .. Len(mLooper') /\ (j - 1) + 1 = j
    BY <1>0, <2>1 DEF Places
  <2>4. \A j \in Places : j # 1 => mLooper'[j - 1] = mLooper[j]
    BY <2>2, <2>3
  <2> SUFFICES ASSUME NEW kind \in Kinds
               PROVE  /\ kind \in mEventMask' <=>
                           \E i \in 1 .. Len(mLooper') : mLooper'[i].what = kind
                      /\ \A i, j \in 1 .. Len(mLooper') :
                           mLooper'[i].what = kind /\ mLooper'[j].what = kind => i = j
    BY DEF MaskFits, Places
  <2>5. /\ kind \in mEventMask <=> \E i \in Places : mLooper[i].what = kind
        /\ \A i, j \in Places : mLooper[i].what = kind /\ mLooper[j].what = kind => i = j
    BY DEF MaskFits
  <2>6. \A i \in 1 .. Len(mLooper') : i + 1 # 1
    OBVIOUS
  <2>7. kind \in mEventMask' => \E i \in 1 .. Len(mLooper') : mLooper'[i].what = kind
    BY <2>1, <2>3, <2>4, <2>5
  <2>8. \A i \in 1 .. Len(mLooper') : mLooper'[i].what = kind => kind \in mEventMask'
    <3> SUFFICES ASSUME NEW i \in 1 .. Len(mLooper'), mLooper'[i].what = kind
                 PROVE  kind \in mEventMask'
      OBVIOUS
    <3>1. mLooper[i + 1].what = kind /\ i + 1 \in Places
      BY <2>2
    <3>2. mLooper[1].what # kind
      BY <2>1, <2>5, <2>6, <3>1
    <3> QED BY <2>1, <2>5, <3>1, <3>2
  <2>9. \A i, j \in 1 .. Len(mLooper') :
          mLooper'[i].what = kind /\ mLooper'[j].what = kind => i = j
    <3> SUFFICES ASSUME NEW i \in 1 .. Len(mLooper'), NEW j \in 1 .. Len(mLooper'),
                        mLooper'[i].what = kind, mLooper'[j].what = kind
                 PROVE  i = j
      OBVIOUS
    <3>1. i + 1 = j + 1
      BY <2>2, <2>5
    <3> QED BY <3>1
  <2> QED BY <2>7, <2>8, <2>9
<1>3. ASSUME NEW t \in Threads, createSurface(t)
      PROVE  MaskFits'
  <2>1. PICK l \in Layers :
          /\ mLooper' = Append(mLooper, [what |-> "CREATE", layer |-> l, caller |-> t])
          /\ mEventMask' = mEventMask
    BY <1>3 DEF createSurface, postMessage
  <2>2. /\ Len(mLooper') = Len(mLooper) + 1 /\ Len(mLooper) \in Nat
        /\ \A i \in Places : mLooper'[i] = mLooper[i]
        /\ mLooper'[Len(mLooper) + 1].what = "CREATE"
    BY <1>0, <2>1, AppendProperties DEF Places
  <2>3. \A i \in 1 .. Len(mLooper') : i \in Places \/ i = Len(mLooper) + 1
    BY <2>2 DEF Places
  <2>4. \A i \in Places : i \in 1 .. Len(mLooper')
    BY <2>2 DEF Places
  <2>5. "CREATE" \notin Kinds
    BY DEF Kinds
  <2> SUFFICES ASSUME NEW kind \in Kinds
               PROVE  /\ kind \in mEventMask' <=>
                           \E i \in 1 .. Len(mLooper') : mLooper'[i].what = kind
                      /\ \A i, j \in 1 .. Len(mLooper') :
                           mLooper'[i].what = kind /\ mLooper'[j].what = kind => i = j
    BY DEF MaskFits, Places
  <2>6. \A i \in 1 .. Len(mLooper') : mLooper'[i].what = kind =>
          i \in Places /\ mLooper[i].what = kind
    BY <2>2, <2>3, <2>5
  <2> QED BY <2>1, <2>2, <2>4, <2>6 DEF MaskFits
<1>4. ASSUME NEW t \in Threads, captureScreen(t)
      PROVE  MaskFits'
  <2> DEFINE m == [what |-> "CAPTURE", caller |-> t, applied |-> applied]
  <2>1. dispatch("TRANSACTION", <<m>>)
    BY <1>4 DEF captureScreen
  <2>2. m \in Messages /\ m.what \notin Kinds /\ "TRANSACTION" \in Kinds
    BY DEF Messages, SfTypeInv, Kinds
  <2> HIDE DEF m
  <2>3. <<m>> \in Seq(Messages) /\ \A k \in 1 .. Len(<<m>>) : <<m>>[k].what \notin Kinds
    BY <2>2
  <2> QED BY <1>0, <2>1, <2>2, <2>3, DispatchKeepsMask
<1>5. << >> \in Seq(Messages) /\ \A k \in 1 .. Len(<< >>) : << >>[k].what \notin Kinds
  OBVIOUS
<1>6. CASE dispatch("INVALIDATE", << >>)
  <2>1. "INVALIDATE" \in Kinds
    BY DEF Kinds
  <2> QED BY <1>0, <1>5, <1>6, <2>1, DispatchKeepsMask
<1>7. CASE dispatch("REFRESH", << >>)
  <2>1. "REFRESH" \in Kinds
    BY DEF Kinds
  <2> QED BY <1>0, <1>5, <1>7, <2>1, DispatchKeepsMask
<1> QED BY <1>1, <1>2, <1>3, <1>4, <1>6, <1>7, LooperChanges

(* Work that others leave to the main thread is on its way.                *)
LEMMA OthersWork ==
  ASSUME LifeInv, WorkInv, Signalled, DrawnAlone, \A l \in Layers : LeftAlone(l),
         \A l \in Layers : layer[l].abandoned => layer'[l].abandoned
  PROVE  FlagsCome' /\ RepaintsCome' /\ FramesCome' /\ FlipsEnd'
<1>1. /\ VsyncComing => VsyncComing'
      /\ Coming("TRANSACTION") => Coming("TRANSACTION")'
      /\ Coming("REFRESH") => Coming("REFRESH")'
      /\ RefreshComing => RefreshComing'
      /\ vsyncRequested' => VsyncComing'
  BY DEF Signalled, DrawnAlone, VsyncComing, Coming, RefreshComing
<1>2. FlagsCome' /\ RepaintsCome' /\ FlipsEnd'
  BY <1>1 DEF WorkInv, FlagsCome, RepaintsCome, FlipsEnd, Signalled, DrawnAlone
<1>3. \A l \in Layers :
        /\ layer'[l].mRefreshPending = layer[l].mRefreshPending
        /\ layer'[l].mQueuedFrames = layer[l].mQueuedFrames \/ VsyncComing'
  BY <1>1 DEF LeftAlone
<1>4. FramesCome'
  BY <1>1, <1>3 DEF WorkInv, FramesCome, DrawnAlone, LifeInv, ListsFit
<1> QED BY <1>2, <1>4

(* The main thread takes a signal only to follow it.                       *)
LEMMA MainSignals ==
  ASSUME SfTypeInv, FramesInv, MainNext
  PROVE  /\ VsyncComing => VsyncComing' \/ main.at = "invalidate"
         /\ Coming("TRANSACTION") => Coming("TRANSACTION")' \/ main.at = "transaction"
         /\ Coming("REFRESH") => Coming("REFRESH")' \/ main.at = "refresh"
<1> USE DEF queueVars
<1>1. /\ HandlerOf("INVALIDATE") = "invalidate"
      /\ HandlerOf("TRANSACTION") = "transaction"
      /\ HandlerOf("REFRESH") = "refresh"
  BY DEF HandlerOf
<1>2. ASSUME mEventMask \subseteq mEventMask',
             vsyncRequested \/ mEventTube => vsyncRequested' \/ mEventTube'
      PROVE  /\ VsyncComing => VsyncComing' \/ main.at = "invalidate"
             /\ Coming("TRANSACTION") => Coming("TRANSACTION")' \/ main.at = "transaction"
             /\ Coming("REFRESH") => Coming("REFRESH")' \/ main.at = "refresh"
  BY <1>1, <1>2 DEF VsyncComing, Coming
<1>3. CASE receiveVsync
  <2>1. "INVALIDATE" \in mEventMask' /\ mEventMask \subseteq mEventMask' /\ main' = main
    BY <1>3 DEF receiveVsync, eventReceiver, dispatch
  <2> QED BY <2>1 DEF VsyncComing, Coming
<1>4. CASE receiveMessage
  <2>1. /\ main' = [at |-> HandlerOf(Head(mLooper).what), message |-> Head(mLooper)]
        /\ mEventMask' = mEventMask \ {Head(mLooper).what}
        /\ UNCHANGED <<vsyncRequested, mEventTube>> /\ main.at = "idle"
    BY <1>4 DEF receiveMessage, handleMessage, MaskOnReceipt
  <2>2. \A what \in Kinds : what \in mEventMask =>
          what \in mEventMask' \/ main'.at = HandlerOf(what)
    BY <2>1
  <2> QED BY <1>1, <2>1, <2>2 DEF VsyncComing, Coming, Kinds
<1>5. CASE createLayer
  BY <1>2, <1>5 DEF createLayer, setTransactionFlags, invalidateIf
<1>6. CASE captureScreenHandler
  BY <1>2, <1>6 DEF captureScreenHandler
<1>7. CASE handleMessageTransaction
  BY <1>2, <1>7 DEF handleMessageTransaction
<1>8. CASE handlePageFlip
  BY <1>2, <1>8 DEF handlePageFlip, invalidateIf
<1>9. CASE \E l \in Layers : latchBuffer(l)
  BY <1>2, <1>9 DEF latchBuffer
<1>10. CASE latchBufferLater
  BY <1>2, <1>10 DEF latchBufferLater, invalidate
<1>11. CASE latchBufferDone
  BY <1>2, <1>11, LatchDoneFacts DEF latchBufferDone
<1>12. CASE signalRefresh
  BY <1>2, <1>12 DEF signalRefresh, dispatch
<1>13. CASE handleMessageRefresh
  BY <1>2, <1>13 DEF handleMessageRefresh, invalidateIf
<1> QED
  BY <1>3, <1>4, <1>5, <1>6, <1>7, <1>8, <1>9, <1>10, <1>11, <1>12, <1>13 DEF MainNext

(* The main thread is where its step is.                                   *)
LEMMA MainPlaces ==
  ASSUME SfTypeInv, MainNext
  PROVE  \/ receiveVsync /\ main.at = "idle" /\ main' = main
         \/ receiveMessage /\ main.at = "idle" /\
              main'.at \in {"invalidate", "transaction", "refresh", "create", "capture"}
         \/ createLayer /\ main.at = "create" /\ main'.at = "idle"
         \/ captureScreenHandler /\ main.at = "capture" /\ main'.at = "idle"
         \/ handleMessageTransaction /\ main.at = "invalidate" /\ main'.at = "pageFlip"
         \/ handleMessageTransaction /\ main.at = "transaction" /\ main'.at = "idle"
         \/ handlePageFlip /\ main.at = "pageFlip" /\ main'.at = "latch"
         \/ (\E l \in Layers : latchBuffer(l)) /\ main.at = "latch" /\
              main'.at \in {"latch", "latched"}
         \/ (latchBufferLater \/ latchBufferDone) /\ main.at = "latched" /\ main'.at = "latch"
         \/ signalRefresh /\ main.at = "latch" /\ main'.at = "idle"
         \/ handleMessageRefresh /\ main.at = "refresh" /\ main'.at = "idle"
<1>1. CASE receiveVsync
  BY <1>1 DEF receiveVsync
<1>2. CASE receiveMessage
  <2>1. /\ main.at = "idle" /\ handleMessage
        /\ main' = [at |-> HandlerOf(Head(mLooper).what), message |-> Head(mLooper)]
    BY <1>2 DEF receiveMessage
  <2>2. Head(mLooper) \in Messages
    BY <2>1, HandleMessageFacts DEF SfTypeInv
  <2>3. main'.at \in {"invalidate", "transaction", "refresh", "create", "capture"}
    BY <2>1, <2>2 DEF Messages, HandlerOf, Kinds
  <2> QED BY <1>2, <2>1, <2>3
<1>3. CASE createLayer
  BY <1>3 DEF createLayer, Idle
<1>4. CASE captureScreenHandler
  BY <1>4 DEF captureScreenHandler, Idle
<1>5. CASE handleMessageTransaction
  BY <1>5 DEF handleMessageTransaction, AfterTransaction, Idle
<1>6. CASE handlePageFlip
  BY <1>6 DEF handlePageFlip
<1>7. CASE \E l \in Layers : latchBuffer(l)
  BY <1>7, LatchFacts
<1>8. CASE latchBufferLater
  BY <1>8 DEF latchBufferLater, BackToLatch
<1>9. CASE latchBufferDone
  BY <1>9 DEF latchBufferDone, BackToLatch
<1>10. CASE signalRefresh
  BY <1>10 DEF signalRefresh, Idle
<1>11. CASE handleMessageRefresh
  BY <1>11 DEF handleMessageRefresh, Idle
<1> QED
  BY <1>1, <1>2, <1>3, <1>4, <1>5, <1>6, <1>7, <1>8, <1>9, <1>10, <1>11 DEF MainNext

(* Transactions, repaints and page flips are followed up.                  *)
LEMMA MainFollows ==
  ASSUME LifeInv, FramesInv, WorkInv, MainNext
  PROVE  FlagsCome' /\ RepaintsCome' /\ FlipsEnd'
<1> USE DEF flingerVars, screenVars
<1>0. SfTypeInv /\ FlagsCome /\ RepaintsCome /\ FlipsEnd /\ ListsFit
  BY DEF LifeInv, WorkInv
<1>1. /\ VsyncComing => VsyncComing' \/ main.at = "invalidate"
      /\ Coming("TRANSACTION") => Coming("TRANSACTION")' \/ main.at = "transaction"
      /\ Coming("REFRESH") => Coming("REFRESH")' \/ main.at = "refresh"
      /\ vsyncRequested' => VsyncComing'
  BY <1>0, MainSignals DEF VsyncComing
<1>2. ASSUME main.at \notin {"invalidate", "transaction", "refresh"},
             UNCHANGED mTransactionFlags
      PROVE  FlagsCome'
  BY <1>0, <1>1, <1>2 DEF FlagsCome
<1>3. ASSUME main.at \notin {"invalidate", "refresh", "pageFlip", "latch", "latched"},
             UNCHANGED mRepaintEverything
      PROVE  RepaintsCome'
  BY <1>0, <1>1, <1>3 DEF RepaintsCome
<1>4. ASSUME main'.at \in {"pageFlip", "latch", "latched"}
      PROVE  RepaintsCome'
  BY <1>4 DEF RepaintsCome
<1>5. ASSUME main'.at \notin {"pageFlip", "latch", "latched"}
      PROVE  FlipsEnd'
  BY <1>5 DEF FlipsEnd
<1>6. CASE receiveVsync /\ main.at = "idle" /\ main' = main
  BY <1>2, <1>3, <1>5, <1>6 DEF receiveVsync
<1>7. CASE receiveMessage /\ main.at = "idle" /\
             main'.at \in {"invalidate", "transaction", "refresh", "create", "capture"}
  BY <1>2, <1>3, <1>5, <1>7 DEF receiveMessage
<1>8. CASE createLayer /\ main.at = "create" /\ main'.at = "idle"
  <2>1. /\ UNCHANGED mRepaintEverything
        /\ vsyncRequested' = (vsyncRequested \/ Wakes({"transaction"}))
    BY <1>8 DEF createLayer, setTransactionFlags, invalidateIf
  <2>2. Wakes({"transaction"}) \/ mTransactionFlags # {}
    BY DEF Wakes
  <2>3. FlagsCome'
    BY <1>0, <1>1, <1>8, <2>1, <2>2 DEF FlagsCome
  <2> QED BY <1>3, <1>5, <1>8, <2>1, <2>3
<1>9. CASE captureScreenHandler /\ main.at = "capture" /\ main'.at = "idle"
  BY <1>2, <1>3, <1>5, <1>9 DEF captureScreenHandler
<1>10. CASE handleMessageTransaction
  <2>1. mTransactionFlags' = {}
    BY <1>10 DEF handleMessageTransaction, handleTransaction
  <2>2. UNCHANGED mRepaintEverything
    BY <1>10 DEF handleMessageTransaction, handleTransaction
  <2>4. \/ main.at = "invalidate" /\ main'.at = "pageFlip"
        \/ main.at = "transaction" /\ main'.at = "idle"
    BY <1>10 DEF handleMessageTransaction, AfterTransaction, Idle
  <2>5. FlagsCome'
    BY <2>1 DEF FlagsCome
  <2>6. RepaintsCome'
    BY <1>3, <1>4, <2>2, <2>4
  <2>7. FlipsEnd'
    BY <2>4 DEF FlipsEnd
  <2> QED BY <2>5, <2>6, <2>7
<1>11. CASE handlePageFlip /\ main.at = "pageFlip" /\ main'.at = "latch"
  <2>1. /\ UNCHANGED <<mTransactionFlags, mCurrentState, mDrawingState>>
        /\ main'.todo # {} => main'.refresh
    BY <1>11 DEF handlePageFlip
  <2>2. FlipsEnd'
    BY <1>0, <1>11, <2>1 DEF FlipsEnd
  <2> QED BY <1>2, <1>4, <1>11, <2>1, <2>2
<1>12. CASE (\E l \in Layers : latchBuffer(l)) /\ main.at = "latch" /\
              main'.at \in {"latch", "latched"}
  <2>1. PICK l \in Layers : latchBuffer(l)
    BY <1>12
  <2>2. l \in main.todo /\ main'.refresh = main.refresh
    BY <1>0, <2>1, LatchFacts
  <2>3. UNCHANGED <<mTransactionFlags, mCurrentState, mDrawingState>>
    BY <2>1 DEF latchBuffer
  <2>4. FlipsEnd'
    BY <1>0, <1>12, <2>2, <2>3 DEF FlipsEnd
  <2> QED BY <1>2, <1>4, <1>12, <2>3, <2>4
<1>13. CASE (latchBufferLater \/ latchBufferDone) /\ main.at = "latched"
             /\ main'.at = "latch"
  <2>1. UNCHANGED <<mTransactionFlags, mCurrentState, mDrawingState>>
        /\ main'.refresh = main.refresh
    BY <1>13 DEF latchBufferLater, latchBufferDone, BackToLatch
  <2>2. FlipsEnd'
    BY <1>0, <1>13, <2>1 DEF FlipsEnd
  <2> QED BY <1>2, <1>4, <1>13, <2>1, <2>2
<1>14. CASE signalRefresh /\ main.at = "latch" /\ main'.at = "idle"
  <2>1. /\ UNCHANGED <<mTransactionFlags, mRepaintEverything>>
        /\ mRepaintEverything => "REFRESH" \in mEventMask'
    BY <1>14 DEF signalRefresh, dispatch
  <2>2. RepaintsCome'
    BY <2>1 DEF RepaintsCome, Coming
  <2> QED BY <1>2, <1>5, <1>14, <2>1, <2>2
<1>15. CASE handleMessageRefresh /\ main.at = "refresh" /\ main'.at = "idle"
  <2>1. UNCHANGED mTransactionFlags /\ mRepaintEverything' = FALSE
    BY <1>15 DEF handleMessageRefresh
  <2>2. RepaintsCome'
    BY <2>1 DEF RepaintsCome
  <2>3. FlagsCome'
    BY <1>0, <1>1, <1>15, <2>1 DEF FlagsCome
  <2> QED BY <1>5, <1>15, <2>2, <2>3
<1> QED
  BY <1>0, <1>6, <1>7, <1>8, <1>9, <1>10, <1>11, <1>12, <1>13, <1>14, <1>15, MainPlaces

(* The frames of layers whose signals are kept are followed up.            *)
LEMMA KeptFrames ==
  ASSUME ListsFit, FramesCome, UNCHANGED mDrawingState,
         \A l \in Layers : /\ layer'[l].mRefreshPending = layer[l].mRefreshPending
                           /\ layer'[l].mQueuedFrames = layer[l].mQueuedFrames
                           /\ layer[l].abandoned => layer'[l].abandoned,
         VsyncComing => VsyncComing', RefreshComing => RefreshComing',
         main.at # "pageFlip"
  PROVE  FramesCome'
<1>1. mDrawingState \subseteq Layers
  BY DEF ListsFit
<1> QED BY <1>1 DEF FramesCome

(* Frames are followed up by a commit, a page flip and a refresh.          *)
LEMMA MainFollowsFrames ==
  ASSUME LifeInv, FramesInv, WorkInv, MainNext
  PROVE  FramesCome'
<1> USE DEF flingerVars, screenVars
<1>0. SfTypeInv /\ ListsFit /\ FlagsCome /\ FramesCome /\ FlipsEnd
      /\ mDrawingState \subseteq Layers /\ mCurrentState \subseteq Layers
      /\ \A l \in Layers : layer[l].abandoned => layer'[l].abandoned
  BY StaysAbandoned DEF LifeInv, WorkInv, ListsFit, SurfaceFlingerNext
<1>1. /\ VsyncComing => VsyncComing' \/ main.at = "invalidate"
      /\ Coming("REFRESH") => Coming("REFRESH")' \/ main.at = "refresh"
      /\ vsyncRequested' => VsyncComing'
      /\ Coming("REFRESH")' => RefreshComing'
  BY <1>0, MainSignals DEF VsyncComing, RefreshComing
<1>2. CASE \/ receiveVsync /\ main.at = "idle" /\ main' = main
           \/ receiveMessage /\ main.at = "idle" /\
                main'.at \in {"invalidate", "transaction", "refresh", "create", "capture"}
           \/ captureScreenHandler /\ main.at = "capture" /\ main'.at = "idle"
  <2>1. UNCHANGED <<layer, mDrawingState, mCurrentState>>
    BY <1>2 DEF receiveVsync, receiveMessage, captureScreenHandler
  <2>2. RefreshComing => RefreshComing'
    BY <1>1, <1>2 DEF RefreshComing
  <2> QED BY <1>0, <1>1, <1>2, <2>1, <2>2, KeptFrames
<1>3. CASE createLayer /\ main.at = "create" /\ main'.at = "idle"
  <2> DEFINE k == main.message.layer
  <2>1. k \in Layers /\ ~Exists(k)
    BY <1>0, <1>3, MainFacts DEF LifeInv, CreatedAreFresh
  <2>2. /\ mCurrentState' = mCurrentState \union {k} /\ mDrawingState' = mDrawingState
        /\ layer' = [layer EXCEPT ![k] = NewLayer]
    BY <1>3 DEF createLayer
  <2>3. k \notin mDrawingState
    BY <2>1 DEF Exists
  <2> HIDE DEF k
  <2>4. /\ layer'[k].mQueuedFrames = 0 /\ ~layer'[k].mRefreshPending
        /\ \A l \in Layers \ {k} : layer'[l] = layer[l]
    BY <1>0, <2>1, <2>2 DEF SfTypeInv, NewLayer
  <2>5. RefreshComing => RefreshComing'
    BY <1>1, <1>3 DEF RefreshComing
  <2>6. VsyncComing => VsyncComing'
    BY <1>1, <1>3
  <2>7. \A l \in mDrawingState' :
           /\ layer'[l].mQueuedFrames > 0 => VsyncComing' \/ RefreshComing'
           /\ layer'[l].mRefreshPending => RefreshComing' \/ layer'[l].abandoned
    <3> SUFFICES ASSUME NEW l \in mDrawingState
                 PROVE  /\ layer'[l].mQueuedFrames > 0 => VsyncComing' \/ RefreshComing'
                        /\ layer'[l].mRefreshPending => RefreshComing' \/ layer'[l].abandoned
      BY <2>2
    <3>1. layer'[l] = layer[l]
      BY <1>0, <2>3, <2>4
    <3> QED BY <1>0, <1>3, <2>5, <2>6, <3>1 DEF FramesCome
  <2>8. \A l \in Layers \ mDrawingState' :
           layer'[l].mRefreshPending => layer'[l].abandoned
    BY <1>0, <2>2, <2>4 DEF FramesCome
  <2> QED BY <2>7, <2>8 DEF FramesCome
<1>4. CASE handleMessageTransaction /\ main.at \in {"invalidate", "transaction"}
  <2>1. /\ mDrawingState' = mCurrentState
        /\ mDrawingState \subseteq mDrawingState' \union mLayersPendingRemoval
        /\ mTransactionFlags = {} => mDrawingState' = mDrawingState
    <3>1. CASE handleTransaction
      BY <1>0, <3>1 DEF handleTransaction, ListsFit
    <3>2. CASE ~handleTransaction
      BY <1>0, <1>4, <3>2 DEF handleMessageTransaction, ListsFit
    <3> QED BY <3>1, <3>2
  <2>2. \A l \in Layers :
          /\ layer'[l].mRefreshPending = layer[l].mRefreshPending
          /\ layer'[l].mQueuedFrames = layer[l].mQueuedFrames
          /\ mTransactionFlags # {} /\ l \in mLayersPendingRemoval => layer'[l].abandoned
    <3>1. CASE handleTransaction
      BY <1>0, <3>1, CommitFacts DEF Committed
    <3>2. CASE ~handleTransaction
      BY <1>4, <3>2 DEF handleMessageTransaction
    <3> QED BY <3>1, <3>2
  <2>3. /\ main.at = "invalidate" => main'.at = "pageFlip"
        /\ main.at # "invalidate" => (VsyncComing => VsyncComing')
    BY <1>1, <1>4 DEF handleMessageTransaction, AfterTransaction
  <2>4. RefreshComing => RefreshComing'
    BY <1>1, <1>4 DEF RefreshComing
  <2>5. ASSUME NEW l \in mCurrentState
        PROVE  /\ layer'[l].mQueuedFrames > 0 =>
                    VsyncComing' \/ RefreshComing' \/ main'.at = "pageFlip"
               /\ layer'[l].mRefreshPending => RefreshComing' \/ layer'[l].abandoned
    <3>1. l \in Layers
      BY <1>0
    <3>2. CASE l \in mDrawingState
      BY <1>0, <1>4, <2>2, <2>3, <2>4, <3>1, <3>2 DEF FramesCome
    <3>3. CASE l \notin mDrawingState
      <4>1. mTransactionFlags # {}
        BY <1>0, <3>3 DEF ListsFit
      <4>2. VsyncComing
        BY <1>0, <4>1 DEF FlagsCome
      <4> QED BY <1>0, <1>4, <2>2, <2>3, <3>1, <3>3, <4>2 DEF FramesCome
    <3> QED BY <3>2, <3>3
  <2>6. ASSUME NEW l \in Layers \ mDrawingState', layer'[l].mRefreshPending
        PROVE  layer'[l].abandoned
    <3>1. CASE l \in mDrawingState
      BY <2>1, <2>2, <2>6, <3>1
    <3>2. CASE l \notin mDrawingState
      BY <1>0, <2>2, <2>6, <3>2 DEF FramesCome
    <3> QED BY <3>1, <3>2
  <2> QED BY <2>1, <2>5, <2>6 DEF FramesCome
<1>5. CASE handlePageFlip /\ main.at = "pageFlip" /\ main'.at = "latch"
  <2>1. /\ UNCHANGED <<layer, mDrawingState, mCurrentState>>
        /\ main'.todo = LayersWithQueuedFrames
        /\ LayersWithQueuedFrames # {} => main'.refresh
        /\ LayersWithQueuedFrames = {} /\ (\E l \in mDrawingState : hasQueuedFrame(layer[l]))
             => vsyncRequested'
    BY <1>5 DEF handlePageFlip, invalidateIf
  <2>3. RefreshComing => RefreshComing'
    BY <1>1, <1>5 DEF RefreshComing
  <2>4. LayersWithQueuedFrames # {} => RefreshComing'
    BY <1>5, <2>1 DEF RefreshComing
  <2>5. \A l \in mDrawingState : layer[l].mQueuedFrames > 0 => VsyncComing' \/ RefreshComing'
    BY <1>1, <2>1, <2>4 DEF hasQueuedFrame
  <2> QED BY <1>0, <2>1, <2>3, <2>5 DEF FramesCome
<1>6. CASE (\E l \in Layers : latchBuffer(l)) /\ main.at = "latch" /\
              main'.at \in {"latch", "latched"}
  <2>1. PICK k \in Layers : latchBuffer(k)
    BY <1>6
  <2>2. UNCHANGED <<mDrawingState, mCurrentState>>
    BY <2>1 DEF latchBuffer
  <2>3. main'.refresh = main.refresh
    BY <1>0, <2>1, LatchFacts
  <2>4. RefreshComing => RefreshComing'
    BY <1>1, <1>6, <2>3 DEF RefreshComing
  <2>5. \A l \in Layers : /\ layer'[l].mRefreshPending = layer[l].mRefreshPending
                          /\ layer'[l].mQueuedFrames = layer[l].mQueuedFrames
    <3> SUFFICES ASSUME NEW l \in Layers
                 PROVE  /\ layer'[l].mRefreshPending = layer[l].mRefreshPending
                        /\ layer'[l].mQueuedFrames = layer[l].mQueuedFrames
      OBVIOUS
    <3>1. CASE l # k
      BY <1>0, <2>1, <3>1, LatchFacts
    <3>2. CASE l = k
      BY <1>0, <2>1, <3>2, LatchFacts DEF SameFrames, GoodAnswer, SameButLatched
    <3> QED BY <3>1, <3>2
  <2> QED BY <1>0, <1>1, <1>6, <2>2, <2>4, <2>5, KeptFrames
<1>7. CASE latchBufferLater /\ main.at = "latched" /\ main'.at = "latch"
  <2>1. UNCHANGED <<layer, mDrawingState, mCurrentState>> /\ main'.refresh = main.refresh
    BY <1>7 DEF latchBufferLater, BackToLatch
  <2>2. RefreshComing => RefreshComing'
    BY <1>1, <1>7, <2>1 DEF RefreshComing
  <2> QED BY <1>0, <1>1, <1>7, <2>1, <2>2, KeptFrames
<1>8. CASE latchBufferDone /\ main.at = "latched" /\ main'.at = "latch"
  <2>1. UNCHANGED <<mDrawingState, mCurrentState>> /\ main'.refresh = main.refresh
        /\ main.refresh
    BY <1>0, <1>8 DEF latchBufferDone, BackToLatch, FlipsEnd
  <2>2. RefreshComing'
    BY <1>8, <2>1 DEF RefreshComing
  <2>3. main.layer \in Layers /\ \A l \in Layers \ {main.layer} : layer'[l] = layer[l]
    BY <1>0, <1>8, LatchDoneFacts
  <2>4. main.layer \in mDrawingState
    BY <1>8 DEF LifeInv, LatchedAreDrawn
  <2>5. \A l \in Layers \ mDrawingState' :
          layer'[l].mRefreshPending => layer'[l].abandoned
    BY <1>0, <2>1, <2>3, <2>4 DEF FramesCome
  <2> QED BY <2>1, <2>2, <2>5 DEF FramesCome
<1>9. CASE signalRefresh /\ main.at = "latch" /\ main'.at = "idle"
  <2>1. /\ UNCHANGED <<layer, mDrawingState, mCurrentState>>
        /\ main.refresh => "REFRESH" \in mEventMask'
    BY <1>9 DEF signalRefresh, dispatch
  <2>2. RefreshComing => RefreshComing'
    BY <1>1, <1>9, <2>1 DEF RefreshComing, Coming
  <2> QED BY <1>0, <1>1, <1>9, <2>1, <2>2, KeptFrames
<1>10. CASE handleMessageRefresh /\ main.at = "refresh" /\ main'.at = "idle"
  <2>1. /\ UNCHANGED <<mDrawingState, mCurrentState>>
        /\ (\E l \in mDrawingState : hasQueuedFrame(layer[l])) => vsyncRequested'
    BY <1>10 DEF handleMessageRefresh, invalidateIf
  <2>2. \A l \in Layers :
          /\ layer'[l].mQueuedFrames = layer[l].mQueuedFrames
          /\ l \in mDrawingState => ~layer'[l].mRefreshPending
          /\ l \notin mDrawingState => layer'[l] = layer[l]
    BY <1>0, <1>10, RefreshFacts DEF SameFrames
  <2>3. \A l \in mDrawingState : layer[l].mQueuedFrames > 0 => VsyncComing'
    BY <1>1, <2>1 DEF hasQueuedFrame
  <2>4. VsyncComing => VsyncComing'
    BY <1>1, <1>10
  <2> QED BY <1>0, <2>1, <2>2, <2>3, <2>4 DEF FramesCome
<1> QED
  BY <1>0, <1>2, <1>3, <1>4, <1>5, <1>6, <1>7, <1>8, <1>9, <1>10, MainPlaces

(* Work is on its way after every step.                                    *)
LEMMA WorkStep ==
  ASSUME LifeInv, FramesInv, WorkInv, SurfaceFlingerNext
  PROVE  WorkInv'
<1>1. MaskFits'
  BY MaskStep DEF WorkInv, LifeInv
<1>2. CASE MainNext
  BY <1>1, <1>2, MainFollows, MainFollowsFrames DEF WorkInv
<1>3. CASE ~MainNext
  <2>1. Signalled /\ DrawnAlone /\ \A l \in Layers : LeftAlone(l)
    BY <1>3, OthersSignal DEF LifeInv
  <2>2. \A l \in Layers : layer[l].abandoned => layer'[l].abandoned
    BY StaysAbandoned
  <2> QED BY <1>1, <2>1, <2>2, OthersWork DEF WorkInv
<1> QED BY <1>2, <1>3

(* Which layers exist, how their frames are counted and what work is       *)
(* coming, always.                                                         *)
LEMMA AlwaysWorking ==
  SurfaceFlingerSpec => [](LifeInv /\ FramesInv /\ WorkInv)
<1>1. SurfaceFlingerInit => LifeInv /\ FramesInv /\ WorkInv
  <2> SUFFICES ASSUME SurfaceFlingerInit PROVE LifeInv /\ FramesInv /\ WorkInv
    OBVIOUS
  <2>1. LifeInv /\ FramesInv
    BY StartFacts
  <2>2. /\ mLooper = << >> /\ mEventMask = {} /\ mTransactionFlags = {}
        /\ mRepaintEverything = FALSE /\ main.at = "idle"
        /\ mCurrentState = {FirstLayer} /\ mDrawingState = {FirstLayer}
        /\ \A l \in Layers : layer[l] = NewLayer
        /\ FirstLayer \in Layers
    BY SurfaceFlingerAssumption DEF SurfaceFlingerInit, QueueInit, Idle
  <2>3. MaskFits
    BY <2>2 DEF MaskFits, Places
  <2>4. FlagsCome /\ RepaintsCome /\ FlipsEnd
    BY <2>2 DEF FlagsCome, RepaintsCome, FlipsEnd
  <2>5. FramesCome
    <3>1. NewLayer.mQueuedFrames = 0 /\ ~NewLayer.mRefreshPending
      BY DEF NewLayer
    <3> QED BY <2>2, <3>1 DEF FramesCome
  <2> QED BY <2>1, <2>3, <2>4, <2>5 DEF WorkInv
<1>2. UNCHANGED sfVars /\ WorkInv => WorkInv'
  <2> SUFFICES ASSUME UNCHANGED sfVars, WorkInv PROVE WorkInv'
    OBVIOUS
  <2> USE DEF sfVars, flingerVars, screenVars, queueVars
  <2>1. MaskFits'
    BY DEF WorkInv, MaskFits, Places
  <2>2. FlagsCome' /\ RepaintsCome' /\ FlipsEnd'
    BY DEF WorkInv, FlagsCome, RepaintsCome, FlipsEnd, VsyncComing, Coming
  <2>3. FramesCome'
    BY DEF WorkInv, FramesCome, VsyncComing, RefreshComing, Coming
  <2> QED BY <2>1, <2>2, <2>3 DEF WorkInv
<1>3. (LifeInv /\ FramesInv /\ WorkInv) /\ [SurfaceFlingerNext]_sfVars
        => (LifeInv /\ FramesInv /\ WorkInv)'
  BY <1>2, LifeStep, FramesStep, WorkStep, StutterFacts
<1> QED BY <1>1, <1>3, PTL DEF SurfaceFlingerSpec

(* While flags, a repaint or a frame wait, a vsync has been asked for or   *)
(* has come, or a message is in the looper, or the main thread is on its   *)
(* way to them; and the mask says which messages are in the looper         *)
(* (SurfaceFlinger.cpp:2081, Layer.cpp:1235-1251, MessageQueue.cpp:52-85). *)
THEOREM WorkIsOnItsWay == SurfaceFlingerSpec => []WorkIsComing
<1>1. WorkInv => WorkIsComing
  <2> SUFFICES ASSUME WorkInv PROVE WorkIsComing
    OBVIOUS
  <2>1. MaskIsLooper
    <3> SUFFICES ASSUME NEW what \in Kinds
                 PROVE  Cardinality({i \in 1 .. Len(mLooper) : mLooper[i].what = what}) =
                          IF what \in mEventMask THEN 1 ELSE 0
      BY DEF MaskIsLooper
    <3> DEFINE Of == {i \in 1 .. Len(mLooper) : mLooper[i].what = what}
    <3>1. CASE what \in mEventMask
      <4>1. PICK i \in Places : mLooper[i].what = what
        BY <3>1 DEF WorkInv, MaskFits
      <4>2. Of = {i}
        BY <4>1 DEF WorkInv, MaskFits, Places
      <4>3. Cardinality(Of) = 1
        BY <4>2, FS_Singleton
      <4> QED BY <3>1, <4>3
    <3>2. CASE what \notin mEventMask
      <4>1. Of = {}
        BY <3>2 DEF WorkInv, MaskFits, Places
      <4>2. Cardinality(Of) = 0
        BY <4>1, FS_EmptySet
      <4> QED BY <3>2, <4>2
    <3> QED BY <3>1, <3>2
  <2>2. RefreshComing => Coming("REFRESH") \/ main.at \in {"latch", "latched"}
    BY DEF RefreshComing
  <2> QED BY <2>1, <2>2 DEF WorkInv, FlagsCome, RepaintsCome, FramesCome, WorkIsComing
<1> QED BY <1>1, AlwaysWorking, PTL
-----------------------------------------------------------------------------
(***************************************************************************)
(* What is drawn goes together.                                            *)
(***************************************************************************)

(* The regions of layers that look the same are the same.                  *)
LEMMA SameRegions ==
  ASSUME mDrawingState' = mDrawingState,
         \A l \in mDrawingState : Visible(layer'[l]) = Visible(layer[l])
  PROVE  ComputedRegions' = ComputedRegions
BY DEF ComputedRegions

(* Others leave what is drawn as it is.                                    *)
LEMMA OthersPictures ==
  ASSUME LifeInv, BuffersFit, BumpsAreKnown, RegionsFit, FlagsTell,
         Signalled, DrawnAlone, \A l \in Layers : LeftAlone(l),
         applied' \in Nat
  PROVE  BuffersFit' /\ BumpsAreKnown' /\ RegionsFit' /\ FlagsTell'
<1>1. BuffersFit'
  BY DEF BuffersFit, LeftAlone, DrawnAlone, Latched, Fits
<1>2. BumpsAreKnown'
  BY DEF BumpsAreKnown, LeftAlone
<1>3. RegionsFit'
  <2>1. \A l \in mDrawingState : Visible(layer'[l]) = Visible(layer[l])
    BY DEF LeftAlone, Visible, LifeInv, ListsFit
  <2>2. ComputedRegions' = ComputedRegions
    BY <2>1, SameRegions DEF DrawnAlone
  <2> QED BY <2>2 DEF RegionsFit, DrawnAlone
<1>4. FlagsTell'
  <2>1. /\ committed' = committed /\ committed <= applied /\ applied <= applied'
        /\ applied' = applied \/ mTransactionFlags' # {}
        /\ mTransactionFlags' = {} => mTransactionFlags = {}
    BY DEF FlagsTell, Signalled, DrawnAlone
  <2>2. committed \in Nat /\ applied \in Nat
    BY DEF LifeInv, SfTypeInv
  <2>3. committed' <= applied'
    BY <2>1, <2>2
  <2> QED BY <2>1, <2>3 DEF FlagsTell
<1> QED BY <1>1, <1>2, <1>3, <1>4

(* A layer that looks the same keeps its buffer in place.                  *)
LEMMA SameBuffers ==
  ASSUME BuffersFit, BumpsAreKnown,
         \A l \in Layers : SamePicture(layer[l], layer'[l]),
         \/ main' = main
         \/ main'.at # "latched" /\ (main.at = "latched" => main.frame = None)
  PROVE  BuffersFit' /\ BumpsAreKnown'
<1>1. main'.at = "latched" /\ main'.result # "NO_ERROR" => main'.frame = None
  <2>1. main.at = "latched" /\ main.result # "NO_ERROR" => main.frame = None
    BY DEF BuffersFit
  <2>2. CASE main' = main
    BY <2>1, <2>2
  <2> QED BY <2>2
<1>2. ASSUME NEW l \in Layers
      PROVE  /\ layer'[l].current.active = layer'[l].drawing.active
             /\ IF Latched(l)' /\ main'.frame # None
                THEN Fits(main'.frame, layer'[l])
                ELSE Fits(layer'[l].mActiveBuffer, layer'[l])
  <2>1. /\ layer[l].current.active = layer[l].drawing.active
        /\ IF Latched(l) /\ main.frame # None THEN Fits(main.frame, layer[l])
           ELSE Fits(layer[l].mActiveBuffer, layer[l])
    BY DEF BuffersFit
  <2>2. /\ layer'[l].drawing = layer[l].drawing /\ layer'[l].current = layer[l].current
        /\ layer'[l].mActiveBuffer = layer[l].mActiveBuffer
    BY DEF SamePicture
  <2>3. CASE main' = main
    BY <2>1, <2>2, <2>3 DEF Fits, Latched
  <2>4. CASE ~(main' = main)
    <3>1. ~Latched(l)' /\ ~(Latched(l) /\ main.frame # None)
      BY <2>4 DEF Latched
    <3> QED BY <2>1, <2>2, <3>1 DEF Fits
  <2> QED BY <2>3, <2>4
<1>3. BumpsAreKnown'
  BY DEF BumpsAreKnown, SamePicture
<1> QED BY <1>1, <1>2, <1>3 DEF BuffersFit, Latched

(* Regions that are fresh or dirty stay so while the same is drawn, or it  *)
(* is said that it is not.                                                 *)
LEMMA StillFit ==
  ASSUME RegionsFit, ListsFit, mDrawingState' = mDrawingState,
         visibleRegions' = visibleRegions,
         mVisibleRegionsDirty => mVisibleRegionsDirty',
         main.at \in {"latch", "latched"} /\ main.dirty =>
           mVisibleRegionsDirty' \/ (main'.at \in {"latch", "latched"} /\ main'.dirty),
         \/ main'.at \in {"latch", "latched"} /\ main'.dirty
         \/ \A l \in Layers : Visible(layer'[l]) = Visible(layer[l])
  PROVE  RegionsFit'
<1>1. CASE \A l \in Layers : Visible(layer'[l]) = Visible(layer[l])
  <2>1. ComputedRegions' = ComputedRegions
    BY <1>1, SameRegions DEF ListsFit
  <2> QED BY <2>1 DEF RegionsFit
<1>2. CASE main'.at \in {"latch", "latched"} /\ main'.dirty
  BY <1>2 DEF RegionsFit
<1> QED BY <1>1, <1>2

(* A layer that SamePicture says to be the same looks the same.            *)
LEMMA SameVisible ==
  ASSUME NEW r, NEW s, SamePicture(r, s)
  PROVE  Visible(s) = Visible(r)
BY DEF SamePicture, Visible

(* A commit lets no buffer of a fixed size out of its layer, and dirties   *)
(* the regions that it moves.                                              *)
LEMMA TransactionPictures ==
  ASSUME LifeInv, BuffersFit, BumpsAreKnown, RegionsFit, handleTransaction,
         main.at \notin {"latch", "latched"}, main'.at \notin {"latch", "latched"}
  PROVE  BuffersFit' /\ BumpsAreKnown' /\ RegionsFit'
<1>1. \A l \in Layers : SamePicture(Transacted(l), layer'[l])
  BY CommitFacts DEF LifeInv
<1>2. \A l \in Layers : layer[l] \in LayerRecords
  BY DEF LifeInv, SfTypeInv
<1>3. ASSUME NEW l \in Layers, NeedsTransaction(l)
      PROVE  /\ layer'[l].mActiveBuffer = layer[l].mActiveBuffer
             /\ layer'[l].current = layer'[l].drawing
             /\ layer'[l].drawing.active = NewActive(layer[l])
             /\ layer'[l].drawing.z = layer[l].current.z
             /\ layer'[l].drawing.alpha = layer[l].current.alpha
  <2>1. SamePicture(doTransaction(layer[l]), layer'[l])
    BY <1>1, <1>3 DEF Transacted
  <2> QED BY <1>2, <2>1, DoTransactionFacts DEF SamePicture
<1>4. ASSUME NEW l \in Layers, ~NeedsTransaction(l)
      PROVE  SamePicture(layer[l], layer'[l])
  BY <1>1, <1>4 DEF Transacted
<1>5. ASSUME NEW l \in Layers
      PROVE  /\ layer[l].current.active = layer[l].drawing.active
             /\ Fits(layer[l].mActiveBuffer, layer[l])
  BY DEF BuffersFit, Latched
<1>6. ASSUME NEW l \in Layers
      PROVE  /\ layer'[l].current.active = layer'[l].drawing.active
             /\ Fits(layer'[l].mActiveBuffer, layer'[l])
  <2>1. CASE NeedsTransaction(l)
    BY <1>3, <1>5, <2>1 DEF Fits, NewActive, isFixedSize
  <2>2. CASE ~NeedsTransaction(l)
    BY <1>4, <1>5, <2>2 DEF SamePicture, Fits
  <2> QED BY <2>1, <2>2
<1>7. BuffersFit'
  BY <1>6 DEF BuffersFit, Latched
<1>8. BumpsAreKnown'
  <2> SUFFICES ASSUME NEW l \in Layers, ~layer'[l].bumped
               PROVE  /\ layer'[l].current.z = layer'[l].drawing.z
                      /\ layer'[l].current.alpha = layer'[l].drawing.alpha
    BY DEF BumpsAreKnown
  <2>1. CASE NeedsTransaction(l)
    BY <1>3, <2>1
  <2>2. CASE ~NeedsTransaction(l)
    BY <1>4, <2>2 DEF SamePicture, BumpsAreKnown
  <2> QED BY <2>1, <2>2
<1>9. RegionsFit'
  <2> SUFFICES ASSUME ~mVisibleRegionsDirty' PROVE visibleRegions' = ComputedRegions'
    BY DEF RegionsFit
  <2>1. /\ ~mVisibleRegionsDirty /\ ~TransactionMovesRegions
        /\ visibleRegions' = visibleRegions /\ mDrawingState' = mCurrentState
    BY DEF handleTransaction
  <2>2. /\ ~mLayersRemoved /\ ~(Cardinality(mCurrentState) > Cardinality(mDrawingState))
        /\ \A l \in mCurrentState : NeedsTransaction(l) => ~TransactionDirties(layer[l])
    BY <2>1 DEF TransactionMovesRegions
  <2>3. mLayersPendingRemoval = {} /\ mDrawingState \subseteq mCurrentState
    BY <2>2 DEF LifeInv, ListsFit
  <2>4. mCurrentState = mDrawingState
    <3>1. IsFiniteSet(mCurrentState) /\ IsFiniteSet(mDrawingState)
      BY SurfaceFlingerAssumption, FS_Subset DEF LifeInv, ListsFit
    <3>2. Cardinality(mCurrentState) \in Nat /\ Cardinality(mDrawingState) \in Nat
      BY <3>1, FS_CardinalityType
    <3>3. Cardinality(mDrawingState) <= Cardinality(mCurrentState)
      BY <2>3, <3>1, FS_Subset
    <3>4. Cardinality(mDrawingState) = Cardinality(mCurrentState)
      BY <2>2, <3>2, <3>3
    <3> QED BY <2>3, <3>1, <3>4, FS_Subset
  <2>5. ASSUME NEW l \in mDrawingState
        PROVE  Visible(layer'[l]) = Visible(layer[l])
    <3>1. l \in Layers
      BY DEF LifeInv, ListsFit
    <3>2. CASE NeedsTransaction(l)
      <4>1. ~layer[l].bumped /\ layer[l].drawing.active = NewActive(layer[l])
        BY <2>2, <2>4, <3>2 DEF TransactionDirties
      <4> QED BY <1>3, <3>1, <3>2, <4>1 DEF BumpsAreKnown, Visible
    <3>3. CASE ~NeedsTransaction(l)
      BY <1>4, <3>1, <3>3, SameVisible
    <3> QED BY <3>2, <3>3
  <2>6. ComputedRegions' = ComputedRegions
    BY <2>1, <2>4, <2>5, SameRegions
  <2>7. visibleRegions = ComputedRegions
    BY <2>1 DEF RegionsFit
  <2> QED BY <2>1, <2>6, <2>7
<1> QED BY <1>7, <1>8, <1>9

(* A frame that is taken fits, and says so when it moves regions.          *)
LEMMA LatchPictures ==
  ASSUME LifeInv, BuffersFit, BumpsAreKnown, RegionsFit,
         NEW l \in Layers, latchBuffer(l)
  PROVE  BuffersFit' /\ BumpsAreKnown' /\ RegionsFit'
<1>1. /\ main.at = "latch" /\ main'.at \in {"latch", "latched"}
      /\ main.dirty => main'.dirty
      /\ \A k \in Layers \ {l} : layer'[k] = layer[k]
      /\ \/ main'.at = "latch" /\ SamePicture(layer[l], layer'[l])
         \/ /\ main'.at = "latched" /\ main'.layer = l
            /\ \E answer : /\ GoodAnswer(layer[l], answer)
                           /\ layer'[l] = answer.layer
                           /\ main'.result = answer.result
                           /\ main'.frame = answer.frame
                           /\ answer.dirty => main'.dirty
  BY LatchFacts DEF LifeInv
<1>2. /\ visibleRegions' = visibleRegions /\ mDrawingState' = mDrawingState
      /\ mVisibleRegionsDirty' = mVisibleRegionsDirty
  BY DEF latchBuffer, screenVars, flingerVars
<1>3. CASE main'.at = "latch" /\ SamePicture(layer[l], layer'[l])
  <2>1. \A k \in Layers : SamePicture(layer[k], layer'[k])
    BY <1>1, <1>3 DEF SamePicture
  <2>2. BuffersFit' /\ BumpsAreKnown'
    BY <1>1, <1>3, <2>1, SameBuffers
  <2>3. \A k \in Layers : Visible(layer'[k]) = Visible(layer[k])
    BY <2>1, SameVisible
  <2>4. RegionsFit'
    BY <1>1, <1>2, <2>3, StillFit DEF LifeInv
  <2> QED BY <2>2, <2>4
<1>4. ASSUME main'.at = "latched", main'.layer = l, NEW answer,
             GoodAnswer(layer[l], answer), layer'[l] = answer.layer,
             main'.result = answer.result, main'.frame = answer.frame,
             answer.dirty => main'.dirty
      PROVE  BuffersFit' /\ BumpsAreKnown' /\ RegionsFit'
  <2>1. /\ SameButLatched(layer[l], layer'[l])
        /\ main'.frame = None \/ ~answer.dirty =>
             layer'[l].drawing.active = layer[l].drawing.active
        /\ Fits(main'.frame, layer'[l])
        /\ main'.result # "NO_ERROR" => main'.frame = None
    BY <1>4 DEF GoodAnswer
  <2>2. \A k \in Layers : /\ layer[k].current.active = layer[k].drawing.active
                          /\ Fits(layer[k].mActiveBuffer, layer[k])
    BY <1>1 DEF BuffersFit, Latched
  <2>3. ASSUME NEW k \in Layers \ {l}
        PROVE  /\ layer'[k].current.active = layer'[k].drawing.active
               /\ IF Latched(k)' /\ main'.frame # None
                  THEN Fits(main'.frame, layer'[k])
                  ELSE Fits(layer'[k].mActiveBuffer, layer'[k])
    BY <1>1, <1>4, <2>2 DEF Latched
  <2>4. /\ layer'[l].current.active = layer'[l].drawing.active
        /\ IF Latched(l)' /\ main'.frame # None
           THEN Fits(main'.frame, layer'[l])
           ELSE Fits(layer'[l].mActiveBuffer, layer'[l])
    <3>1. layer'[l].current.active = layer'[l].drawing.active
      BY <2>1, <2>2 DEF SameButLatched
    <3>2. CASE main'.frame = None
      BY <2>1, <2>2, <3>1, <3>2 DEF SameButLatched, Fits
    <3>3. CASE main'.frame # None
      BY <1>4, <2>1, <3>1, <3>3 DEF Latched
    <3> QED BY <3>1, <3>2, <3>3
  <2>5. BuffersFit'
    BY <2>1, <2>3, <2>4 DEF BuffersFit, Latched
  <2>6. BumpsAreKnown'
    <3> SUFFICES ASSUME NEW k \in Layers, ~layer'[k].bumped
                 PROVE  /\ layer'[k].current.z = layer'[k].drawing.z
                        /\ layer'[k].current.alpha = layer'[k].drawing.alpha
      BY DEF BumpsAreKnown
    <3> QED BY <1>1, <2>1 DEF BumpsAreKnown, SameButLatched
  <2>7. RegionsFit'
    <3>1. CASE main'.dirty
      BY <1>4, <3>1 DEF RegionsFit
    <3>2. CASE ~main'.dirty
      <4>1. Visible(layer'[l]) = Visible(layer[l])
        BY <1>4, <2>1, <3>2 DEF Visible, SameButLatched
      <4>2. \A k \in Layers : Visible(layer'[k]) = Visible(layer[k])
        BY <1>1, <4>1
      <4> QED BY <1>1, <1>2, <4>2, StillFit DEF LifeInv
    <3> QED BY <3>1, <3>2
  <2> QED BY <2>5, <2>6, <2>7
<1> QED BY <1>1, <1>3, <1>4

(* So does the buffer that it becomes.                                     *)
LEMMA DonePictures ==
  ASSUME LifeInv, FramesInv, BuffersFit, BumpsAreKnown, RegionsFit, latchBufferDone
  PROVE  BuffersFit' /\ BumpsAreKnown' /\ RegionsFit'
<1> DEFINE l == main.layer
           r == layer[l]
           s == layer'[l]
<1>1. /\ main.at = "latched" /\ l \in Layers
      /\ \A k \in Layers \ {l} : layer'[k] = layer[k]
      /\ s.drawing = r.drawing /\ s.current = r.current /\ s.bumped = r.bumped
      /\ s.mActiveBuffer = IF main.result = "NO_INIT" \/ main.frame = None
                           THEN r.mActiveBuffer ELSE main.frame
      /\ BufferDirties(r, main.frame) => main'.dirty
      /\ main'.at = "latch" /\ (main.dirty => main'.dirty)
  BY LatchDoneFacts DEF LifeInv
<1>2. /\ visibleRegions' = visibleRegions /\ mDrawingState' = mDrawingState
      /\ mVisibleRegionsDirty' = mVisibleRegionsDirty
  BY DEF latchBufferDone, screenVars, flingerVars
<1>3. main.result # "NO_ERROR" => main.frame = None
  BY <1>1 DEF BuffersFit
<1>4. ASSUME NEW k \in Layers
      PROVE  /\ layer'[k].current.active = layer'[k].drawing.active
             /\ Fits(layer'[k].mActiveBuffer, layer'[k])
  <2>1. /\ layer[k].current.active = layer[k].drawing.active
        /\ IF Latched(k) /\ main.frame # None THEN Fits(main.frame, layer[k])
           ELSE Fits(layer[k].mActiveBuffer, layer[k])
    BY DEF BuffersFit
  <2>2. CASE k # l
    <3>1. layer'[k] = layer[k] /\ ~Latched(k)
      BY <1>1, <2>2 DEF Latched
    <3> QED BY <2>1, <3>1
  <2>3. CASE k = l
    <3>1. CASE main.frame = None
      BY <1>1, <2>1, <2>3, <3>1 DEF Fits
    <3>2. CASE main.frame # None
      <4>1. s.mActiveBuffer = main.frame /\ Latched(l)
        BY <1>1, <1>3, <3>2 DEF Latched
      <4> QED BY <1>1, <2>1, <2>3, <3>2, <4>1 DEF Fits
    <3> QED BY <3>1, <3>2
  <2> QED BY <2>2, <2>3
<1>5. BuffersFit'
  BY <1>1, <1>4 DEF BuffersFit, Latched
<1>6. BumpsAreKnown'
  <2> SUFFICES ASSUME NEW k \in Layers, ~layer'[k].bumped
               PROVE  /\ layer'[k].current.z = layer'[k].drawing.z
                      /\ layer'[k].current.alpha = layer'[k].drawing.alpha
    BY DEF BumpsAreKnown
  <2>1. CASE k = l
    BY <1>1, <2>1 DEF BumpsAreKnown
  <2>2. CASE k # l
    BY <1>1, <2>2 DEF BumpsAreKnown
  <2> QED BY <2>1, <2>2
<1>7. RegionsFit'
  <2>1. CASE main'.dirty
    BY <1>1, <2>1 DEF RegionsFit
  <2>2. CASE ~main'.dirty
    <3>1. (s.mActiveBuffer # None) = (r.mActiveBuffer # None)
      BY <1>1, <2>2 DEF BufferDirties
    <3>2. Visible(s) = Visible(r)
      BY <1>1, <3>1 DEF Visible
    <3>3. \A k \in Layers : Visible(layer'[k]) = Visible(layer[k])
      BY <1>1, <3>2
    <3> QED BY <1>1, <1>2, <3>3, StillFit DEF LifeInv
  <2> QED BY <2>1, <2>2
<1> QED BY <1>5, <1>6, <1>7

(* The main thread draws what goes together.                               *)
LEMMA MainPictures ==
  ASSUME LifeInv, FramesInv, BuffersFit, BumpsAreKnown, RegionsFit, MainNext
  PROVE  BuffersFit' /\ BumpsAreKnown' /\ RegionsFit'
<1> USE DEF flingerVars, screenVars, LeavesMain
<1>0. SfTypeInv /\ ListsFit /\ mDrawingState \subseteq Layers
  BY DEF LifeInv, ListsFit
<1>1. ASSUME \A l \in Layers : SamePicture(layer[l], layer'[l]),
             \/ main' = main
             \/ main'.at # "latched" /\ (main.at = "latched" => main.frame = None),
             UNCHANGED <<mDrawingState, visibleRegions>>,
             mVisibleRegionsDirty => mVisibleRegionsDirty',
             main.at \in {"latch", "latched"} /\ main.dirty =>
               mVisibleRegionsDirty' \/ (main'.at \in {"latch", "latched"} /\ main'.dirty)
      PROVE  BuffersFit' /\ BumpsAreKnown' /\ RegionsFit'
  <2>1. BuffersFit' /\ BumpsAreKnown'
    BY <1>1, SameBuffers
  <2>2. \A l \in Layers : Visible(layer'[l]) = Visible(layer[l])
    BY <1>1, SameVisible
  <2> QED BY <1>0, <1>1, <2>1, <2>2, StillFit
<1>2. layer' = layer => \A l \in Layers : SamePicture(layer[l], layer'[l])
  BY DEF SamePicture
<1>3. CASE receiveVsync
  BY <1>1, <1>2, <1>3 DEF receiveVsync
<1>4. CASE receiveMessage
  <2>1. main.at = "idle" /\ main'.at \notin {"latch", "latched"}
    BY <1>0, <1>4, MainPlaces DEF receiveMessage, HandlerOf
  <2> QED BY <1>1, <1>2, <1>4, <2>1 DEF receiveMessage
<1>5. CASE createLayer
  <2>1. main.at = "create" /\ main' = Idle
        /\ layer' = [layer EXCEPT ![main.message.layer] = NewLayer]
        /\ UNCHANGED <<mDrawingState, mVisibleRegionsDirty, visibleRegions>>
    BY <1>5 DEF createLayer
  <2>2. ~Exists(main.message.layer)
    BY <2>1 DEF LifeInv, CreatedAreFresh
  <2>3. \A l \in Layers : layer'[l] = layer[l]
    BY <1>0, <2>1, <2>2 DEF LifeInv, FreshAreNew, SfTypeInv
  <2>4. \A l \in Layers : SamePicture(layer[l], layer'[l])
    BY <2>3 DEF SamePicture
  <2>5. main'.at = "idle"
    BY <2>1 DEF Idle
  <2> QED BY <1>1, <2>1, <2>4, <2>5
<1>6. CASE captureScreenHandler
  BY <1>1, <1>2, <1>6 DEF captureScreenHandler, Idle
<1>7. CASE handleMessageTransaction
  <2>1. /\ main.at \in {"transaction", "invalidate"}
        /\ main'.at \in {"idle", "pageFlip"}
    BY <1>7 DEF handleMessageTransaction, AfterTransaction, Idle
  <2>2. CASE handleTransaction
    BY <2>1, <2>2, TransactionPictures
  <2>3. CASE UNCHANGED <<mDrawingState, visibleRegions, mVisibleRegionsDirty, layer>>
    BY <1>1, <1>2, <2>1, <2>3
  <2> QED BY <1>7, <2>2, <2>3 DEF handleMessageTransaction
<1>8. CASE handlePageFlip
  <2>1. main.at = "pageFlip" /\ main'.at = "latch"
    BY <1>8 DEF handlePageFlip
  <2> QED BY <1>1, <1>2, <1>8, <2>1 DEF handlePageFlip
<1>9. CASE \E l \in Layers : latchBuffer(l)
  BY <1>9, LatchPictures
<1>10. CASE latchBufferLater
  <2>1. /\ main.at = "latched" /\ main.result = "PRESENT_LATER"
        /\ main'.at = "latch" /\ main'.dirty = main.dirty
    BY <1>10 DEF latchBufferLater, BackToLatch
  <2>2. main.frame = None
    BY <2>1 DEF BuffersFit
  <2> QED BY <1>1, <1>2, <1>10, <2>1, <2>2 DEF latchBufferLater
<1>11. CASE latchBufferDone
  BY <1>11, DonePictures
<1>12. CASE signalRefresh
  <2>1. /\ main.at = "latch" /\ main'.at = "idle"
        /\ mVisibleRegionsDirty' = (mVisibleRegionsDirty \/ main.dirty)
        /\ UNCHANGED <<mDrawingState, visibleRegions, layer>>
    BY <1>12 DEF signalRefresh, Idle
  <2> QED BY <1>1, <1>2, <2>1
<1>13. CASE handleMessageRefresh
  <2>1. /\ main.at = "refresh" /\ main'.at = "idle" /\ mDrawingState' = mDrawingState
        /\ visibleRegions' = IF mVisibleRegionsDirty THEN ComputedRegions
                             ELSE visibleRegions
    BY <1>13 DEF handleMessageRefresh, Idle
  <2>2. \A l \in Layers : SamePicture(layer[l], layer'[l])
    BY <1>0, <1>13, RefreshFacts
  <2>3. BuffersFit' /\ BumpsAreKnown'
    BY <2>1, <2>2, SameBuffers
  <2>4. \A l \in mDrawingState : Visible(layer'[l]) = Visible(layer[l])
    BY <1>0, <2>2, SameVisible
  <2>5. ComputedRegions' = ComputedRegions
    BY <2>1, <2>4, SameRegions
  <2>6. visibleRegions' = ComputedRegions
    BY <2>1 DEF RegionsFit
  <2> QED BY <2>3, <2>5, <2>6 DEF RegionsFit
<1> QED
  BY <1>3, <1>4, <1>5, <1>6, <1>7, <1>8, <1>9, <1>10, <1>11, <1>12, <1>13 DEF MainNext

(* What the main thread has not committed has left a flag.                 *)
LEMMA MainTells ==
  ASSUME SfTypeInv, FlagsTell, MainNext
  PROVE  FlagsTell'
<1> USE DEF flingerVars, historyVars, LeavesMain
<1>0. applied \in Nat /\ committed \in Nat
  BY DEF SfTypeInv
<1>1. CASE UNCHANGED <<mTransactionFlags, applied, committed>>
  BY <1>1 DEF FlagsTell
<1>2. CASE createLayer
  <2>1. mTransactionFlags' # {} /\ applied' = applied + 1 /\ committed' = committed
    BY <1>2 DEF createLayer, setTransactionFlags
  <2> QED BY <1>0, <2>1 DEF FlagsTell
<1>3. CASE handleTransaction
  BY <1>0, <1>3 DEF handleTransaction, FlagsTell
<1>4. CASE handleMessageTransaction
  BY <1>1, <1>3, <1>4 DEF handleMessageTransaction
<1>5. CASE receiveVsync \/ receiveMessage \/ captureScreenHandler
  BY <1>1, <1>5 DEF receiveVsync, receiveMessage, captureScreenHandler
<1>6. CASE handlePageFlip \/ \E l \in Layers : latchBuffer(l)
  BY <1>1, <1>6 DEF handlePageFlip, latchBuffer
<1>7. CASE latchBufferLater \/ latchBufferDone
  BY <1>1, <1>7 DEF latchBufferLater, latchBufferDone
<1>8. CASE signalRefresh \/ handleMessageRefresh
  BY <1>1, <1>8 DEF signalRefresh, handleMessageRefresh
<1> QED BY <1>2, <1>4, <1>5, <1>6, <1>7, <1>8 DEF MainNext

(* Numbers of transactions only grow, and a transaction under way commits. *)
LEMMA HistoryGrows ==
  ASSUME SfTypeInv, FlagsTell, SurfaceFlingerNext
  PROVE  /\ applied <= applied' /\ committed <= committed'
         /\ main.at = "transaction" => main' = main \/ committed' = applied
<1> USE DEF flingerVars, historyVars, LeavesMain
<1>0. applied \in Nat /\ committed \in Nat /\ committed <= applied
  BY DEF SfTypeInv, FlagsTell
<1>1. CASE ~MainNext
  BY <1>0, <1>1, OthersSignal DEF Signalled, DrawnAlone
<1>2. CASE handleMessageTransaction
  <2>1. applied' = applied /\ (committed' = applied \/ committed' = committed)
        /\ (mTransactionFlags = {} => committed' = committed)
        /\ (mTransactionFlags # {} => committed' = applied)
    BY <1>2 DEF handleMessageTransaction, handleTransaction
  <2>2. committed' = applied
    BY <2>1 DEF FlagsTell
  <2> QED BY <1>0, <2>1, <2>2
<1>3. CASE MainNext /\ ~handleMessageTransaction
  <2>1. main.at # "transaction"
    BY <1>3, MainPlaces
  <2>2. committed' = committed /\ (applied' = applied \/ applied' = applied + 1)
    <3>1. CASE createLayer
      BY <3>1 DEF createLayer
    <3>2. CASE receiveVsync \/ receiveMessage \/ captureScreenHandler
      BY <3>2 DEF receiveVsync, receiveMessage, captureScreenHandler
    <3>3. CASE handlePageFlip \/ \E l \in Layers : latchBuffer(l)
      BY <3>3 DEF handlePageFlip, latchBuffer
    <3>4. CASE latchBufferLater \/ latchBufferDone
      BY <3>4 DEF latchBufferLater, latchBufferDone
    <3>5. CASE signalRefresh \/ handleMessageRefresh
      BY <3>5 DEF signalRefresh, handleMessageRefresh
    <3> QED BY <1>3, <3>1, <3>2, <3>3, <3>4, <3>5 DEF MainNext
  <2> QED BY <1>0, <2>1, <2>2
<1> QED BY <1>1, <1>2, <1>3

(* A number that is served stays served.                                   *)
LEMMA StaysServed ==
  ASSUME SfTypeInv, SfTypeInv', FlagsTell, SurfaceFlingerNext,
         NEW n \in Nat, n <= applied
  PROVE  n <= applied' /\ (Served(n) => Served(n)')
<1>1. /\ applied <= applied' /\ committed <= committed'
      /\ main.at = "transaction" => main' = main \/ committed' = applied
  BY HistoryGrows
<1>2. applied \in Nat /\ committed \in Nat /\ applied' \in Nat /\ committed' \in Nat
  BY DEF SfTypeInv
<1>3. n <= applied' /\ (committed >= n => committed' >= n)
      /\ (committed' = applied => committed' >= n)
  BY <1>1, <1>2
<1> QED BY <1>1, <1>3 DEF Served

(* A screenshot that keeps its place in the looper keeps its transaction.  *)
LEMMA KeptCaptures ==
  ASSUME SfTypeInv, SfTypeInv', FlagsTell, CapturesWait, SurfaceFlingerNext,
         \A j \in Places : mLooper'[j] = mLooper[j],
         NEW i \in Places, mLooper[i].what = "CAPTURE"
  PROVE  CaptureWaits(i)'
<1>1. CaptureWaits(i)
  BY DEF CapturesWait
<1>2. mLooper[i].applied \in Nat /\ mLooper'[i] = mLooper[i]
  <2>1. mLooper[i] \in Messages
    BY DEF SfTypeInv, Places
  <2> QED BY <2>1 DEF Messages, Kinds
<1>3. \A j \in 1 .. i - 1 : j \in Places
  BY DEF Places
<1>4. PICK n \in Nat : n = mLooper[i].applied
  BY <1>2
<1>5. n <= applied' /\ (Served(n) => Served(n)')
  BY <1>1, <1>4, StaysServed DEF CaptureWaits
<1>6. (\E j \in 1 .. i - 1 : mLooper[j].what = "TRANSACTION") =>
        \E j \in 1 .. i - 1 : mLooper'[j].what = "TRANSACTION"
  BY <1>3
<1> QED BY <1>1, <1>2, <1>4, <1>5, <1>6 DEF CaptureWaits, Served

(* Screenshots wait for their transactions after every step.               *)
LEMMA CapturesStep ==
  ASSUME SfTypeInv, SfTypeInv', MaskFits, FlagsTell, CapturesWait, SurfaceFlingerNext
  PROVE  CapturesWait'
<1>0. mLooper \in Seq(Messages) /\ applied \in Nat /\ committed \in Nat /\ committed' \in Nat
  BY DEF SfTypeInv
<1>1. main.at = "capture" => committed' >= main.message.applied
  <2>1. main.at = "capture" =>
          main.message.applied \in Nat /\ committed >= main.message.applied
    BY MainFacts DEF CapturesWait
  <2>2. committed <= committed'
    BY HistoryGrows
  <2> QED BY <1>0, <2>1, <2>2
<1>2. ASSUME \A j \in Places : mLooper'[j] = mLooper[j],
             main' = main \/ main'.at # "capture",
             \A i \in 1 .. Len(mLooper') : mLooper'[i].what = "CAPTURE" =>
               i \in Places \/ CaptureWaits(i)'
      PROVE  CapturesWait'
  <2>1. ASSUME NEW i \in 1 .. Len(mLooper'), mLooper'[i].what = "CAPTURE"
        PROVE  CaptureWaits(i)'
    <3>1. CASE i \in Places
      BY <1>2, <2>1, <3>1, KeptCaptures
    <3> QED BY <1>2, <2>1, <3>1
  <2>2. main'.at = "capture" => committed' >= main'.message.applied
    BY <1>1, <1>2
  <2> QED BY <2>1, <2>2 DEF CapturesWait, Places
<1>3. CASE /\ UNCHANGED <<mLooper, mEventMask>>
           /\ main' = main \/ main'.at \in {"idle", "pageFlip", "latch", "latched"}
  BY <1>2, <1>3 DEF Places
<1>4. ASSUME NEW what \in Kinds, dispatch(what, << >>), main' = main \/ main' = Idle
      PROVE  CapturesWait'
  <2>1. << >> \in Seq(Messages) /\ 1 .. Len(<< >>) = {}
    OBVIOUS
  <2>2. \A j \in Places : mLooper'[j] = mLooper[j]
    BY <1>0, <1>4, <2>1, DispatchFacts
  <2>3. \A i \in 1 .. Len(mLooper') : i \in Places \/ mLooper'[i] = [what |-> what]
    BY <1>0, <1>4, <2>1, DispatchedAre
  <2>4. what # "CAPTURE"
    BY DEF Kinds
  <2> QED BY <1>2, <1>4, <2>2, <2>3, <2>4 DEF Idle
<1>5. ASSUME NEW t \in Threads, createSurface(t)
      PROVE  CapturesWait'
  <2>1. PICK l \in Layers :
          /\ mLooper' = Append(mLooper, [what |-> "CREATE", layer |-> l, caller |-> t])
          /\ main' = main
    BY <1>5 DEF createSurface, postMessage
  <2>2. /\ Len(mLooper') = Len(mLooper) + 1 /\ Len(mLooper) \in Nat
        /\ \A i \in Places : mLooper'[i] = mLooper[i]
        /\ mLooper'[Len(mLooper) + 1].what = "CREATE"
    BY <1>0, <2>1, AppendProperties DEF Places
  <2>3. \A i \in 1 .. Len(mLooper') : i \in Places \/ i = Len(mLooper) + 1
    BY <2>2 DEF Places
  <2> QED BY <1>2, <2>1, <2>2, <2>3
<1>6. ASSUME NEW t \in Threads, captureScreen(t)
      PROVE  CapturesWait'
  <2>1. PICK m : m = [what |-> "CAPTURE", caller |-> t, applied |-> applied]
    OBVIOUS
  <2>2. /\ dispatch("TRANSACTION", <<m>>) /\ main' = main
        /\ applied' = applied /\ committed' = committed
    BY <1>6, <2>1 DEF captureScreen, historyVars
  <2>3. m \in Messages /\ "TRANSACTION" \in Kinds /\ m.applied = applied
    BY <1>0, <2>1 DEF Messages, Kinds
  <2>4. <<m>> \in Seq(Messages) /\ Len(<<m>>) = 1 /\ <<m>>[1] = m
    BY <2>3
  <2>5. /\ \A j \in Places : mLooper'[j] = mLooper[j]
        /\ "TRANSACTION" \notin mEventMask =>
             mLooper'[Len(mLooper) + 1] = [what |-> "TRANSACTION"]
        /\ Len(mLooper') = Len(mLooper) + Len(<<m>>) +
                             (IF "TRANSACTION" \in mEventMask THEN 0 ELSE 1)
    BY <1>0, <2>2, <2>3, <2>4, DispatchFacts
  <2>6. Len(mLooper) \in Nat /\ Len(mLooper') \in Nat
    BY <1>0 DEF SfTypeInv
  <2>7. \E j \in 1 .. Len(mLooper') - 1 : mLooper'[j].what = "TRANSACTION"
    <3>1. CASE "TRANSACTION" \in mEventMask
      <4>1. PICK j \in Places : mLooper[j].what = "TRANSACTION"
        BY <2>3, <3>1 DEF MaskFits
      <4>2. Len(mLooper') = Len(mLooper) + 1
        BY <2>4, <2>5, <2>6, <3>1
      <4>3. j \in 1 .. Len(mLooper') - 1
        BY <2>6, <4>2 DEF Places
      <4> QED BY <2>5, <4>1, <4>3
    <3>2. CASE "TRANSACTION" \notin mEventMask
      <4>1. Len(mLooper') = Len(mLooper) + 2
        BY <2>4, <2>5, <2>6, <3>2
      <4>2. Len(mLooper) + 1 \in 1 .. Len(mLooper') - 1
        BY <2>6, <4>1
      <4> QED BY <2>5, <3>2, <4>2
    <3> QED BY <3>1, <3>2
  <2>8. ASSUME NEW i \in 1 .. Len(mLooper'), mLooper'[i].what = "CAPTURE"
        PROVE  i \in Places \/ CaptureWaits(i)'
    <3>1. \/ i \in Places
          \/ mLooper'[i] = [what |-> "TRANSACTION"]
          \/ \E k \in 1 .. Len(<<m>>) :
               i = Len(mLooper') - Len(<<m>>) + k /\ mLooper'[i] = <<m>>[k]
      BY <1>0, <2>2, <2>3, <2>4, DispatchedAre
    <3>2. CASE \E k \in 1 .. Len(<<m>>) :
                 i = Len(mLooper') - Len(<<m>>) + k /\ mLooper'[i] = <<m>>[k]
      <4>1. PICK k \in 1 .. Len(<<m>>) :
              i = Len(mLooper') - Len(<<m>>) + k /\ mLooper'[i] = <<m>>[k]
        BY <3>2
      <4>2. k = 1
        BY <2>4, <4>1
      <4>3. i = Len(mLooper') /\ mLooper'[i] = m
        BY <2>4, <2>6, <4>1, <4>2
      <4>4. mLooper'[i].applied <= applied'
        BY <1>0, <2>2, <2>3, <4>3
      <4> QED BY <2>7, <4>3, <4>4 DEF CaptureWaits
    <3> QED BY <2>8, <3>1, <3>2
  <2> QED BY <1>2, <2>2, <2>5, <2>8
<1>7. CASE receiveMessage
  <2>1. /\ 1 \in Places /\ mLooper[1] \in Messages /\ Head(mLooper) = mLooper[1]
        /\ Len(mLooper') = Len(mLooper) - 1
        /\ \A i \in 1 .. Len(mLooper) - 1 : mLooper'[i] = mLooper[i + 1]
    BY <1>0, <1>7, HandleMessageFacts DEF receiveMessage
  <2>2. /\ main.at = "idle" /\ committed' = committed /\ applied' = applied
        /\ main' = [at |-> HandlerOf(mLooper[1].what), message |-> mLooper[1]]
    BY <1>7, <2>1 DEF receiveMessage, LeavesMain, historyVars
  <2>3. ASSUME NEW i \in 1 .. Len(mLooper'), mLooper'[i].what = "CAPTURE"
        PROVE  CaptureWaits(i)'
    <3>1. i + 1 \in Places /\ mLooper'[i] = mLooper[i + 1] /\ i + 1 - 1 = i
      BY <1>0, <2>1 DEF Places
    <3>2. CaptureWaits(i + 1)
      BY <2>3, <3>1 DEF CapturesWait
    <3>3. CASE committed >= mLooper[i + 1].applied
      BY <2>2, <3>1, <3>2, <3>3 DEF CaptureWaits, Served
    <3>4. CASE \E j \in 1 .. i : mLooper[j].what = "TRANSACTION"
      <4>1. PICK j \in 1 .. i : mLooper[j].what = "TRANSACTION"
        BY <3>4
      <4>2. CASE j = 1
        <5>1. main'.at = "transaction"
          BY <2>2, <4>1, <4>2 DEF HandlerOf
        <5> QED BY <2>2, <3>1, <3>2, <5>1 DEF CaptureWaits, Served
      <4>3. CASE j # 1
        <5>1. j - 1 \in 1 .. i - 1 /\ j - 1 \in 1 .. Len(mLooper) - 1 /\ (j - 1) + 1 = j
          BY <1>0, <2>1, <4>1, <4>3
        <5>2. mLooper'[j - 1] = mLooper[j]
          BY <2>1, <5>1
        <5>3. \E k \in 1 .. i - 1 : mLooper'[k].what = "TRANSACTION"
          BY <4>1, <5>1, <5>2
        <5> QED BY <2>2, <3>1, <3>2, <5>3 DEF CaptureWaits
      <4> QED BY <4>2, <4>3
    <3> QED BY <2>2, <3>1, <3>2, <3>3, <3>4 DEF CaptureWaits, Served
  <2>4. ASSUME main'.at = "capture"
        PROVE  committed' >= main'.message.applied
    <3>1. mLooper[1].what = "CAPTURE"
      BY <2>1, <2>2, <2>4 DEF Messages, HandlerOf, Kinds
    <3>2. CaptureWaits(1)
      BY <2>1, <3>1 DEF CapturesWait
    <3>3. 1 .. 1 - 1 = {}
      OBVIOUS
    <3>4. Served(mLooper[1].applied)
      BY <3>2, <3>3 DEF CaptureWaits
    <3> QED BY <2>2, <3>4 DEF Served
  <2> QED BY <2>3, <2>4 DEF CapturesWait, Places
<1>8. "INVALIDATE" \in Kinds /\ "REFRESH" \in Kinds
  BY DEF Kinds
<1> QED BY <1>3, <1>4, <1>5, <1>6, <1>7, <1>8, LooperChanges

(* What is drawn goes together after every step.                           *)
LEMMA PicturesStep ==
  ASSUME LifeInv, FramesInv, MaskFits, PicturesInv, SurfaceFlingerNext
  PROVE  PicturesInv'
<1>1. SfTypeInv /\ SfTypeInv' /\ applied' \in Nat
  BY LifeStep DEF LifeInv, SfTypeInv
<1>2. CapturesWait'
  BY <1>1, CapturesStep DEF PicturesInv
<1>3. CASE MainNext
  BY <1>1, <1>2, <1>3, MainPictures, MainTells DEF PicturesInv
<1>4. CASE ~MainNext
  BY <1>1, <1>2, <1>4, OthersSignal, OthersPictures DEF PicturesInv
<1> QED BY <1>3, <1>4

(* What is drawn goes together, always.                                    *)
LEMMA AlwaysPictures ==
  SurfaceFlingerSpec => [](LifeInv /\ FramesInv /\ WorkInv /\ PicturesInv)
<1>1. SurfaceFlingerInit => PicturesInv
  <2> SUFFICES ASSUME SurfaceFlingerInit PROVE PicturesInv
    OBVIOUS
  <2>1. /\ \A l \in Layers : layer[l] = NewLayer
        /\ main.at = "idle" /\ mLooper = << >>
        /\ applied = 0 /\ committed = 0
        /\ visibleRegions = ComputedRegions
    BY DEF SurfaceFlingerInit, QueueInit, Idle, ComputedRegions
  <2>2. /\ NewLayer.current = NewLayer.drawing /\ NewLayer.mActiveBuffer = None
    BY DEF NewLayer
  <2>3. BuffersFit
    BY <2>1, <2>2 DEF BuffersFit, Latched, Fits
  <2>4. BumpsAreKnown /\ RegionsFit
    BY <2>1, <2>2 DEF BumpsAreKnown, RegionsFit
  <2>5. FlagsTell /\ CapturesWait
    BY <2>1 DEF FlagsTell, CapturesWait, Places
  <2> QED BY <2>3, <2>4, <2>5 DEF PicturesInv
<1>2. UNCHANGED sfVars /\ PicturesInv => PicturesInv'
  <2> SUFFICES ASSUME UNCHANGED sfVars, PicturesInv PROVE PicturesInv'
    OBVIOUS
  <2> USE DEF sfVars, flingerVars, screenVars, historyVars, queueVars
  <2>1. BuffersFit' /\ BumpsAreKnown'
    BY DEF PicturesInv, BuffersFit, BumpsAreKnown, Latched, Fits
  <2>2. RegionsFit' /\ FlagsTell'
    BY DEF PicturesInv, RegionsFit, FlagsTell, ComputedRegions
  <2>3. CapturesWait'
    BY DEF PicturesInv, CapturesWait, CaptureWaits, Served, Places
  <2> QED BY <2>1, <2>2, <2>3 DEF PicturesInv
<1>3. PicturesInv /\ (LifeInv /\ FramesInv /\ WorkInv) /\ [SurfaceFlingerNext]_sfVars
        => PicturesInv'
  BY <1>2, PicturesStep DEF WorkInv
<1> QED BY <1>1, <1>3, AlwaysWorking, PTL DEF SurfaceFlingerSpec

(* A buffer that may not be scaled is drawn at its own size, the visible   *)
(* regions are those of the layers as they are drawn unless they are said  *)
(* to be dirty, and a screenshot shows every transaction that was applied  *)
(* before it (Layer.cpp:926-1185, SurfaceFlinger.cpp:1571-1601, 3200-3205).*)
THEOREM PicturesStayConsistent == SurfaceFlingerSpec => []PicturesAreConsistent
<1>1. LifeInv /\ PicturesInv => PicturesAreConsistent
  <2> SUFFICES ASSUME LifeInv, PicturesInv PROVE PicturesAreConsistent
    OBVIOUS
  <2>1. DrawnAtItsSize
    <3> SUFFICES ASSUME NEW l \in mDrawingState,
                        layer[l].mActiveBuffer # None, ~layer[l].mActiveBuffer.scales,
                        ~(main.at = "latched" /\ main.layer = l)
                 PROVE  layer[l].mActiveBuffer.size = layer[l].drawing.active.size
      BY DEF DrawnAtItsSize
    <3>1. l \in Layers
      BY DEF LifeInv, ListsFit
    <3>2. Fits(layer[l].mActiveBuffer, layer[l])
      BY <3>1 DEF PicturesInv, BuffersFit, Latched
    <3> QED BY <3>2 DEF Fits
  <2>2. RegionsAreFresh
    BY DEF PicturesInv, RegionsFit, RegionsAreFresh
  <2>3. ScreenshotsAreCurrent
    BY DEF PicturesInv, CapturesWait, ScreenshotsAreCurrent
  <2> QED BY <2>1, <2>2, <2>3 DEF PicturesAreConsistent
<1> QED BY <1>1, AlwaysPictures, PTL
-----------------------------------------------------------------------------
(***************************************************************************)
(* Those who wait.                                                         *)
(***************************************************************************)

(* A thread that waits for a commit has a number, and keeps it.            *)
Waits(t) == At(t) \in {"syncWait", "syncWoken"}

WaitGoesOn(t) ==
  \/ thread'[t] = thread[t]
  \/ ~Waits(t)'
  \/ /\ Waits(t) /\ thread'[t].applied = thread[t].applied
     /\ thread'[t].at = "syncWait" \/ committed' = applied
  \/ thread'[t].at = "syncWait" /\ thread'[t].applied = applied'

(* An animation frame is pending, committed or given up: nothing is        *)
(* forgotten, or the frame before is committed and a new one is pending.   *)
AnimationGoesOn ==
  /\ animation' = animation \/ animation' = applied'
  /\ \/ /\ animation' = animation /\ gaveUp' = gaveUp
        /\ mAnimTransactionPending => mAnimTransactionPending'
     \/ animation' = animation /\ committed' = applied
     \/ mAnimTransactionPending' /\ ~mAnimTransactionPending /\ gaveUp' = gaveUp
     \/ gaveUp'

(* What a client's call does to those who wait.                            *)
LEMMA ClientWaits ==
  ASSUME SfTypeInv, NEW t \in Threads, ClientNext(t)
  PROVE  AnimationGoesOn /\ \A u \in Threads : WaitGoesOn(u)
<1> USE DEF flingerVars, historyVars
<1>1. ASSUME \A u \in Threads \ {t} : thread'[u] = thread[u], WaitGoesOn(t)
      PROVE  \A u \in Threads : WaitGoesOn(u)
  BY <1>1 DEF WaitGoesOn
<1>2. \A s : thread' = [thread EXCEPT ![t] = s] =>
        thread'[t] = s /\ \A u \in Threads \ {t} : thread'[u] = thread[u]
  BY DEF SfTypeInv
<1>3. ASSUME NEW changes \in SUBSET [layer : Layers, change : Changes],
             NEW sync \in BOOLEAN, NEW anim \in BOOLEAN,
             apply(t, changes, sync, anim)
      PROVE  /\ \A u \in Threads : WaitGoesOn(u)
             /\ animation' = IF FlagsOf(changes) # {} /\ anim THEN applied' ELSE animation
  <2>1. \/ thread' = [thread EXCEPT ![t] = Idle]
        \/ thread' = [thread EXCEPT ![t] =
                        [at |-> "syncWait", sync |-> sync, applied |-> applied']]
    BY <1>3, ApplyFacts
  <2>2. WaitGoesOn(t)
    <3>1. CASE thread' = [thread EXCEPT ![t] = Idle]
      BY <1>2, <3>1 DEF WaitGoesOn, Waits, At, Idle
    <3>2. CASE thread' = [thread EXCEPT ![t] =
                        [at |-> "syncWait", sync |-> sync, applied |-> applied']]
      <4>1. thread'[t] = [at |-> "syncWait", sync |-> sync, applied |-> applied']
        BY <1>2, <3>2
      <4> QED BY <4>1 DEF WaitGoesOn
    <3> QED BY <2>1, <3>1, <3>2
  <2>3. \A u \in Threads \ {t} : thread'[u] = thread[u]
    BY <1>2, <2>1
  <2> QED BY <1>1, <1>3, <2>2, <2>3, ApplyFacts
<1>4. ASSUME At(t) \in {"sent", "animWait", "animWoken"}
      PROVE  /\ thread[t].changes \in SUBSET [layer : Layers, change : Changes]
             /\ thread[t].eSynchronous \in BOOLEAN /\ thread[t].eAnimation \in BOOLEAN
  BY <1>4, StateFacts
<1>5. CASE setTransactionState(t)
  <2>1. /\ At(t) \in {"sent", "animWoken"} /\ ~MustWaitForAnimation(thread[t])
        /\ mAnimTransactionPending' = (mAnimTransactionPending \/
             AnimPending(thread[t].changes, thread[t].eAnimation))
        /\ apply(t, thread[t].changes, thread[t].eSynchronous, thread[t].eAnimation)
        /\ UNCHANGED gaveUp
    BY <1>5 DEF setTransactionState
  <2>2. /\ \A u \in Threads : WaitGoesOn(u)
        /\ animation' = IF FlagsOf(thread[t].changes) # {} /\ thread[t].eAnimation
                        THEN applied' ELSE animation
    BY <1>3, <1>4, <2>1
  <2>3. CASE FlagsOf(thread[t].changes) # {} /\ thread[t].eAnimation
    <3>1. ~mAnimTransactionPending /\ mAnimTransactionPending'
      BY <2>1, <2>3 DEF MustWaitForAnimation, AnimPending
    <3> QED BY <2>1, <2>2, <2>3, <3>1 DEF AnimationGoesOn
  <2>4. CASE ~(FlagsOf(thread[t].changes) # {} /\ thread[t].eAnimation)
    <3>1. animation' = animation
      BY <2>2, <2>4
    <3>2. mAnimTransactionPending => mAnimTransactionPending'
      BY <2>1
    <3> QED BY <2>1, <2>2, <3>1, <3>2 DEF AnimationGoesOn
  <2> QED BY <2>3, <2>4
<1>6. CASE animationWaitTimesOut(t)
  <2>1. /\ At(t) = "animWait" /\ gaveUp' = TRUE
        /\ apply(t, thread[t].changes, thread[t].eSynchronous, TRUE)
    BY <1>6 DEF animationWaitTimesOut
  <2>2. /\ \A u \in Threads : WaitGoesOn(u)
        /\ animation' = applied' \/ animation' = animation
    BY <1>3, <1>4, <2>1
  <2> QED BY <2>1, <2>2 DEF AnimationGoesOn
<1>7. CASE /\ UNCHANGED <<mAnimTransactionPending, animation, gaveUp>>
           /\ WaitGoesOn(t) /\ \A u \in Threads \ {t} : thread'[u] = thread[u]
  BY <1>1, <1>7 DEF AnimationGoesOn
<1>8. ASSUME NEW s, thread' = [thread EXCEPT ![t] = s],
             s.at \notin {"syncWait", "syncWoken"}
      PROVE  WaitGoesOn(t) /\ \A u \in Threads \ {t} : thread'[u] = thread[u]
  BY <1>2, <1>8 DEF WaitGoesOn, Waits, At
<1>9. CASE callSetTransactionState(t)
  <2>1. PICK call \in Calls : thread' = [thread EXCEPT ![t] =
            [at |-> "sent", changes |-> call.changes,
             eSynchronous |-> call.eSynchronous, eAnimation |-> call.eAnimation]]
    BY <1>9 DEF callSetTransactionState
  <2>2. WaitGoesOn(t) /\ \A u \in Threads \ {t} : thread'[u] = thread[u]
    BY <1>8, <2>1
  <2> QED BY <1>7, <1>9, <2>2 DEF callSetTransactionState
<1>10. CASE setTransactionStateWaits(t)
  <2>1. At(t) \in {"sent", "animWoken"}
        /\ thread' = [thread EXCEPT ![t] = [thread[t] EXCEPT !.at = "animWait"]]
    BY <1>10 DEF setTransactionStateWaits
  <2>2. [thread[t] EXCEPT !.at = "animWait"].at = "animWait"
    BY <2>1, StateFacts
  <2>3. WaitGoesOn(t) /\ \A u \in Threads \ {t} : thread'[u] = thread[u]
    BY <1>8, <2>1, <2>2
  <2> QED BY <1>7, <1>10, <2>3 DEF setTransactionStateWaits
<1>11. CASE syncWaitEnds(t)
  <2>1. At(t) = "syncWoken"
        /\ \/ thread' = [thread EXCEPT ![t] = [thread[t] EXCEPT !.at = "syncWait"]]
           \/ thread' = [thread EXCEPT ![t] = Idle]
    BY <1>11 DEF syncWaitEnds
  <2>2. /\ [thread[t] EXCEPT !.at = "syncWait"].at = "syncWait"
        /\ [thread[t] EXCEPT !.at = "syncWait"].applied = thread[t].applied
    BY <2>1, StateFacts
  <2>3. WaitGoesOn(t)
    <3>1. \/ thread'[t] = [thread[t] EXCEPT !.at = "syncWait"]
          \/ thread'[t] = Idle
      BY <1>2, <2>1
    <3>2. CASE thread'[t] = Idle
      BY <3>2 DEF WaitGoesOn, Waits, At, Idle
    <3>3. CASE thread'[t] = [thread[t] EXCEPT !.at = "syncWait"]
      <4>1. thread'[t].at = "syncWait" /\ thread'[t].applied = thread[t].applied
        BY <2>2, <3>3
      <4> QED BY <2>1, <4>1 DEF WaitGoesOn, Waits
    <3> QED BY <3>1, <3>2, <3>3
  <2>4. \A u \in Threads \ {t} : thread'[u] = thread[u]
    BY <1>2, <2>1
  <2> QED BY <1>7, <1>11, <2>3, <2>4 DEF syncWaitEnds
<1>12. CASE syncWaitTimesOut(t)
  <2>1. thread' = [thread EXCEPT ![t] = Idle]
    BY <1>12 DEF syncWaitTimesOut
  <2>2. WaitGoesOn(t) /\ \A u \in Threads \ {t} : thread'[u] = thread[u]
    BY <1>8, <2>1 DEF Idle
  <2> QED BY <1>7, <1>12, <2>2 DEF syncWaitTimesOut
<1>13. CASE createSurface(t) \/ captureScreen(t)
  <2>1. thread' = [thread EXCEPT ![t] = [at |-> "blocked"]]
        /\ UNCHANGED <<mAnimTransactionPending, animation, gaveUp>>
    BY <1>13 DEF createSurface, captureScreen
  <2>2. WaitGoesOn(t) /\ \A u \in Threads \ {t} : thread'[u] = thread[u]
    BY <1>8, <2>1
  <2> QED BY <1>7, <2>1, <2>2
<1> QED
  BY <1>5, <1>6, <1>9, <1>10, <1>11, <1>12, <1>13 DEF ClientNext

(* What the main thread does to those who wait.                            *)
LEMMA MainWaits ==
  ASSUME SfTypeInv, MainNext
  PROVE  AnimationGoesOn /\ \A u \in Threads : WaitGoesOn(u)
<1> USE DEF flingerVars, historyVars, LeavesMain
<1>1. CASE UNCHANGED <<mAnimTransactionPending, animation, gaveUp, thread>>
  BY <1>1 DEF AnimationGoesOn, WaitGoesOn
<1>2. ASSUME NEW t, thread' = [thread EXCEPT ![t] = Idle],
             UNCHANGED <<mAnimTransactionPending, animation, gaveUp>>
      PROVE  AnimationGoesOn /\ \A u \in Threads : WaitGoesOn(u)
  <2>1. \A u \in Threads : thread'[u] = thread[u] \/ thread'[u] = Idle
    BY <1>2 DEF SfTypeInv
  <2> QED BY <1>2, <2>1 DEF AnimationGoesOn, WaitGoesOn, Waits, At, Idle
<1>3. CASE createLayer
  BY <1>2, <1>3 DEF createLayer
<1>4. CASE captureScreenHandler
  BY <1>2, <1>4 DEF captureScreenHandler
<1>5. CASE handleTransaction
  <2>1. committed' = applied /\ animation' = animation
    BY <1>5 DEF handleTransaction
  <2>2. AnimationGoesOn
    BY <2>1 DEF AnimationGoesOn
  <2>3. ASSUME NEW u \in Threads
        PROVE  WaitGoesOn(u)
    <3>1. \/ thread'[u] = thread[u]
          \/ /\ At(u) = "syncWait" /\ thread'[u].at = "syncWoken"
             /\ thread'[u].applied = thread[u].applied
          \/ thread'[u].at = "animWoken"
      BY <1>5, CommitFacts
    <3> QED BY <2>1, <3>1 DEF WaitGoesOn, Waits, At
  <2> QED BY <2>2, <2>3
<1>6. CASE handleMessageTransaction
  BY <1>1, <1>5, <1>6 DEF handleMessageTransaction
<1>7. CASE receiveVsync \/ receiveMessage
  BY <1>1, <1>7 DEF receiveVsync, receiveMessage
<1>8. CASE handlePageFlip \/ \E l \in Layers : latchBuffer(l)
  BY <1>1, <1>8 DEF handlePageFlip, latchBuffer
<1>9. CASE latchBufferLater \/ latchBufferDone
  BY <1>1, <1>9 DEF latchBufferLater, latchBufferDone
<1>10. CASE signalRefresh \/ handleMessageRefresh
  BY <1>1, <1>10 DEF signalRefresh, handleMessageRefresh
<1> QED BY <1>3, <1>4, <1>6, <1>7, <1>8, <1>9, <1>10 DEF MainNext

(* Others leave them alone.                                                *)
LEMMA AllWaits ==
  ASSUME SfTypeInv, SurfaceFlingerNext
  PROVE  AnimationGoesOn /\ \A u \in Threads : WaitGoesOn(u)
<1> USE DEF flingerVars, historyVars
<1>1. CASE UNCHANGED <<mAnimTransactionPending, animation, gaveUp, thread>>
  BY <1>1 DEF AnimationGoesOn, WaitGoesOn
<1>2. ASSUME NEW l \in Layers, ProducerNext(l) \/ removeLayer(l)
      PROVE  AnimationGoesOn /\ \A u \in Threads : WaitGoesOn(u)
  <2>1. CASE removeLayer(l)
    BY <1>1, <2>1 DEF removeLayer
  <2>2. CASE ProducerNext(l)
    BY <1>1, <2>2 DEF ProducerNext, dequeue, queue, notify, notified, setSidebandStream
  <2> QED BY <1>2, <2>1, <2>2
<1>3. CASE repaintEverything \/ eventThreadAnswers \/ passTime
  BY <1>1, <1>3 DEF repaintEverything, eventThreadAnswers, passTime, LeavesMain
<1> QED BY <1>2, <1>3, ClientWaits, MainWaits DEF SurfaceFlingerNext

(* Those who wait are served after every step.                             *)
LEMMA WaitersStep ==
  ASSUME SfTypeInv, SfTypeInv', FlagsTell, WaitersInv, SurfaceFlingerNext
  PROVE  WaitersInv'
<1>1. /\ applied <= applied' /\ committed <= committed'
      /\ AnimationGoesOn /\ \A u \in Threads : WaitGoesOn(u)
  BY HistoryGrows, AllWaits
<1>2. /\ applied \in Nat /\ committed \in Nat /\ animation \in Nat
      /\ applied' \in Nat /\ committed' \in Nat /\ animation' \in Nat
  BY DEF SfTypeInv
<1>3. animation' <= applied'
  BY <1>1, <1>2 DEF WaitersInv, AnimationGoesOn
<1>4. mAnimTransactionPending' \/ animation' <= committed' \/ gaveUp'
  <2>1. /\ mAnimTransactionPending \/ animation <= committed \/ gaveUp
        /\ animation <= applied
    BY DEF WaitersInv
  <2>2. \A a \in Nat : a <= committed => a <= committed'
    BY <1>1, <1>2
  <2>3. CASE /\ animation' = animation /\ gaveUp' = gaveUp
             /\ mAnimTransactionPending => mAnimTransactionPending'
    BY <1>2, <2>1, <2>2, <2>3
  <2>4. CASE animation' = animation /\ committed' = applied
    BY <2>1, <2>4
  <2> QED BY <1>1, <2>3, <2>4 DEF AnimationGoesOn
<1>5. ASSUME NEW t \in Threads, Waits(t)'
      PROVE  /\ thread'[t].applied <= applied'
             /\ thread'[t].at = "syncWoken" => thread'[t].applied <= committed'
  <2>1. /\ thread'[t].applied \in Nat
        /\ Waits(t) => /\ thread[t].applied \in Nat /\ thread[t].applied <= applied
                       /\ thread[t].at = "syncWoken" => thread[t].applied <= committed
    <3>1. thread[t] \in ThreadStates /\ thread'[t] \in ThreadStates
      BY DEF SfTypeInv
    <3>2. \A s \in ThreadStates : s.at \in {"syncWait", "syncWoken"} => s.applied \in Nat
      BY DEF ThreadStates
    <3> QED BY <1>5, <3>1, <3>2 DEF Waits, At, WaitersInv
  <2>2. \A n \in Nat : /\ n <= applied => n <= applied'
                       /\ n <= committed => n <= committed'
                       /\ n <= applied /\ committed' = applied => n <= committed'
    BY <1>1, <1>2
  <2>3. WaitGoesOn(t)
    BY <1>1
  <2>4. CASE thread'[t] = thread[t]
    BY <1>5, <2>1, <2>2, <2>4 DEF Waits, At
  <2>5. CASE /\ Waits(t) /\ thread'[t].applied = thread[t].applied
             /\ thread'[t].at = "syncWait" \/ committed' = applied
    BY <2>1, <2>2, <2>5
  <2>6. CASE thread'[t].at = "syncWait" /\ thread'[t].applied = applied'
    BY <1>2, <2>6
  <2> QED BY <1>5, <2>3, <2>4, <2>5, <2>6 DEF WaitGoesOn
<1> QED BY <1>3, <1>4, <1>5 DEF WaitersInv, Waits, At

(* An animation frame begins when the one before is committed, or given up.*)
LEMMA AnimationBegins ==
  ASSUME WaitersInv, AnimationGoesOn, animation' # animation
  PROVE  animation <= committed \/ gaveUp'
BY DEF WaitersInv, AnimationGoesOn

(* Those who wait for a commit go on after it and not before: a synchronous*)
(* transaction returns when its changes are committed, and an animation    *)
(* frame is applied when the one before is, unless a wait timed out        *)
(* (SurfaceFlinger.cpp:2098-2164).                                         *)
THEOREM WaitersGoOnServed == SurfaceFlingerSpec => WaitersAreServed
<1> DEFINE Returns == \A t \in Threads :
             At(t) = "syncWoken" /\ thread'[t].at = "idle" =>
               committed >= thread[t].applied
           Turns == animation' # animation => animation <= committed \/ gaveUp'
<1>1. SurfaceFlingerInit => WaitersInv
  BY DEF SurfaceFlingerInit, WaitersInv, Idle, At
<1>2. LifeInv /\ FramesInv /\ PicturesInv /\ WaitersInv /\ [SurfaceFlingerNext]_sfVars
        => WaitersInv'
  <2> SUFFICES ASSUME LifeInv, FramesInv, PicturesInv, WaitersInv,
                      [SurfaceFlingerNext]_sfVars
               PROVE  WaitersInv'
    OBVIOUS
  <2>1. CASE SurfaceFlingerNext
    BY <2>1, LifeStep, WaitersStep DEF LifeInv, PicturesInv
  <2>2. CASE UNCHANGED sfVars
    BY <2>2 DEF sfVars, flingerVars, historyVars, WaitersInv, At
  <2> QED BY <2>1, <2>2
<1>3. WaitersInv => Returns
  <2> SUFFICES ASSUME WaitersInv, NEW t \in Threads, At(t) = "syncWoken"
               PROVE  committed >= thread[t].applied
    OBVIOUS
  <2>1. thread[t].applied <= committed
    BY DEF WaitersInv
  <2> QED BY <2>1
<1>4. LifeInv /\ WaitersInv /\ [SurfaceFlingerNext]_sfVars => Turns
  <2> SUFFICES ASSUME LifeInv, WaitersInv, [SurfaceFlingerNext]_sfVars
               PROVE  Turns
    OBVIOUS
  <2>1. CASE SurfaceFlingerNext
    BY <2>1, AllWaits, AnimationBegins DEF LifeInv
  <2>2. CASE UNCHANGED sfVars
    BY <2>2 DEF sfVars, historyVars
  <2> QED BY <2>1, <2>2
<1>5. LifeInv /\ WaitersInv /\ [SurfaceFlingerNext]_sfVars => [Returns]_sfVars /\ [Turns]_sfVars
  BY <1>3, <1>4
<1>6. WaitersAreServed <=> [][Returns]_sfVars /\ [][Turns]_sfVars
  BY DEF WaitersAreServed, ReturnsCommitted, AnimationsTakeTurns
<1> HIDE DEF Returns, Turns
<1> QED BY <1>1, <1>2, <1>5, <1>6, AlwaysPictures, PTL DEF SurfaceFlingerSpec
=============================================================================
