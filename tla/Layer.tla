-------------------------------- MODULE Layer -------------------------------
(***************************************************************************)
(* A layer of SurfaceFlinger (services/surfaceflinger/Layer.cpp) as a      *)
(* record, and its operations as functions of it: the state that clients   *)
(* set (mCurrentState) and the one that is drawn (mDrawingState), and the  *)
(* way of a frame from its BufferQueue to mActiveBuffer.                   *)
(*                                                                         *)
(* A geometry is a size and a crop; width, height and rectangles are       *)
(* values.  z stands for z and layerStack, whose change also sorts the     *)
(* list of layers, alpha for position, alpha, flags and matrix, whose      *)
(* change does not.  Transparent regions, rotated buffers and the sticky   *)
(* transform are left out.                                                 *)
(*                                                                         *)
(* The BufferQueue is modelled in module BufferQueue; here it is queue,    *)
(* the frames in it.  A frame has the size of its buffer, whether its      *)
(* scaling mode allows another size than the layer's (scales), the time it *)
(* is due, and whether it may be replaced (droppable).                     *)
(***************************************************************************)
EXTENDS Naturals, Sequences, SequencesExt

CONSTANTS
  Sizes, Crops, Zs, Alphas,
  InitialSize, InitialCrop, InitialZ, InitialAlpha,
  None

Times == {0, 1}
Geometries == [size : Sizes, crop : Crops]
Frames == [size : Sizes, scales : BOOLEAN, due : Times, droppable : BOOLEAN]

ASSUME LayerAssumption ==
  /\ InitialSize \in Sizes /\ InitialCrop \in Crops
  /\ InitialZ \in Zs /\ InitialAlpha \in Alphas
  /\ None \notin Frames

(* Layer::State; that the sequence numbers of the two states differ is     *)
(* kept as bumped.                                                         *)
States == [active : Geometries, requested : Geometries,
           z : Zs, alpha : Alphas]

InitialState ==
  LET geometry == [size |-> InitialSize, crop |-> InitialCrop]
  IN [active |-> geometry, requested |-> geometry,
      z |-> InitialZ, alpha |-> InitialAlpha]

NewLayer ==
  [current |-> InitialState, drawing |-> InitialState, bumped |-> FALSE,
   mTransactionFlags |-> FALSE,
   defaultSize |-> InitialSize, queue |-> <<>>,
   mQueueItems |-> <<>>, mQueuedFrames |-> 0,
   mSidebandStreamChanged |-> FALSE, mRefreshPending |-> FALSE,
   mActiveBuffer |-> None, abandoned |-> FALSE]

-----------------------------------------------------------------------------
(* Setters, called for a client with mStateLock held.  A change is what    *)
(* and a value.                                                            *)

Changes == [what : {"size"}, value : Sizes] \union
           [what : {"crop"}, value : Crops] \union
           [what : {"z"}, value : Zs] \union
           [what : {"alpha"}, value : Alphas]

Requested(state, what) ==
  IF what \in {"size", "crop"} THEN state.requested[what] ELSE state[what]

IsChange(r, change) == Requested(r.current, change.what) # change.value

(* Those of a set of changes that change something.                        *)
News(r, changes) == {c \in changes : IsChange(r, c)}

(* What is asked for of a kind; a client's state has one value of each.    *)
Asked(state, changes, what) ==
  IF \E c \in changes : c.what = what
  THEN (CHOOSE c \in changes : c.what = what).value
  ELSE Requested(state, what)

(* A size waits for a buffer, so it does not bump the sequence. *)
set(r, changes) ==
  IF News(r, changes) = {} THEN r
  ELSE [r EXCEPT
         !.current = [active |-> @.active,
                      requested |-> [size |-> Asked(@, changes, "size"),
                                     crop |-> Asked(@, changes, "crop")],
                      z |-> Asked(@, changes, "z"),
                      alpha |-> Asked(@, changes, "alpha")],
         !.bumped = @ \/ \E c \in News(r, changes) : c.what # "size",
         !.mTransactionFlags = TRUE]

-----------------------------------------------------------------------------
(* The transaction, on the main thread with mStateLock held.               *)

isFixedSize(r) == r.mActiveBuffer # None /\ r.mActiveBuffer.scales

(* current.active follows current.requested, except while a resize waits   *)
(* for a buffer of the new size.                                           *)
NewActive(r) ==
  IF ~isFixedSize(r) /\ r.current.requested.size # r.current.active.size
  THEN r.current.active
  ELSE r.current.requested

doTransaction(r) ==
  LET state == [r.current EXCEPT !.active = NewActive(r)]
  IN [r EXCEPT
       !.defaultSize = IF r.current.requested.size # r.drawing.requested.size
                       THEN r.current.requested.size ELSE @,
       !.current = state, !.drawing = state,
       !.bumped = FALSE, !.mTransactionFlags = FALSE]

(* Mutant: only the geometry counts. *)
GeometryDirties(r) == r.drawing.active # NewActive(r)

TransactionDirties(r) == r.bumped \/ r.drawing.active # NewActive(r)

-----------------------------------------------------------------------------
(* Frames come from the producer: into the queue with the queue locked,    *)
(* and then to the listener.  Layer::onFrameReplaced is never called:      *)
(* ProxyConsumerListener and ConsumerBase do not forward it, so the        *)
(* tracker keeps the item of the frame that was replaced.                  *)

Replaces(r) == r.queue # <<>> /\ Head(r.queue).droppable

queueBuffer(r, frame) ==
  [r EXCEPT !.queue = IF Replaces(r) THEN <<frame>> \o Tail(@)
                      ELSE Append(@, frame)]

onFrameAvailablePush(r, frame) == [r EXCEPT !.mQueueItems = Append(@, frame)]
onFrameAvailableCount(r) == [r EXCEPT !.mQueuedFrames = @ + 1]

onSidebandStreamChanged(r) == [r EXCEPT !.mSidebandStreamChanged = TRUE]
onRemoved(r) == [r EXCEPT !.abandoned = TRUE, !.queue = <<>>]

-----------------------------------------------------------------------------
(* Page flip, on the main thread.                                          *)

hasQueuedFrame(r) == r.mQueuedFrames > 0 \/ r.mSidebandStreamChanged

shouldPresentNow(r, now) ==
  r.mQueueItems # <<>> /\ Head(r.mQueueItems).due <= now

(* A buffer of the requested size, or one that scales, lets the pending    *)
(* geometry take effect; a buffer of another size than that of the layer   *)
(* is rejected.                                                            *)
TakesGeometry(r, frame) ==
  /\ r.drawing.active # r.drawing.requested
  /\ frame.scales \/ frame.size = r.drawing.requested.size

(* Mutant: the current state keeps the old geometry. *)
WithDrawingGeometry(r, frame) ==
  IF ~TakesGeometry(r, frame) THEN r
  ELSE [r EXCEPT !.drawing.active = r.drawing.requested]

WithGeometry(r, frame) ==
  IF ~TakesGeometry(r, frame) THEN r
  ELSE [r EXCEPT !.drawing.active = r.drawing.requested,
                 !.current.active = r.drawing.requested]

reject(r, frame) == ~frame.scales /\ r.drawing.active.size # frame.size

(* acquireBuffer drops the frames before the last one that is due, unless  *)
(* their timestamps are automatic.                                         *)
Droppable(r, now) ==
  {n \in 0 .. Len(r.queue) - 1 : \A i \in 2 .. n + 1 : r.queue[i].due <= now}

(* updateTexImage: what it answers, and the frame it took, if any. *)
Answers(result, frame, r, dirty) ==
  [result |-> result, frame |-> frame, layer |-> r, dirty |-> dirty]

updateTexImage(r, now, drop) ==
  IF r.abandoned THEN Answers("NO_INIT", None, r, TRUE)
  ELSE IF r.queue = <<>> THEN Answers("NO_ERROR", None, r, FALSE)
  ELSE LET frame == r.queue[drop + 1]
           taken == [r EXCEPT !.queue = SubSeq(@, drop + 2, Len(@))]
           sized == WithGeometry(taken, frame)
       IN IF frame.due > now
          THEN Answers("PRESENT_LATER", None,
                       [r EXCEPT !.queue = SubSeq(@, drop + 1, Len(@))], FALSE)
          ELSE Answers("NO_ERROR", IF reject(sized, frame) THEN None ELSE frame,
                       sized, TakesGeometry(r, frame))

(* What latchBuffer does with the answer: the tracker forgets its first    *)
(* frame, and the layer has a new buffer, unless there was an error or the *)
(* very first buffer was rejected.                                         *)
(* Mutant: the count is left to the next frame. *)
UntrackedUncounted(r) == [r EXCEPT !.mQueueItems = Tail(@)]

Untracked(r) ==
  [r EXCEPT !.mQueueItems = Tail(@), !.mQueuedFrames = @ - 1]

setActiveBuffer(r, frame) ==
  IF frame = None /\ r.mActiveBuffer = None THEN r
  ELSE [r EXCEPT !.mActiveBuffer = IF frame = None THEN @ ELSE frame,
                 !.mRefreshPending = TRUE]

(* A first buffer, or one of another size or scaling, moves regions. *)
BufferDirties(r, frame) ==
  /\ frame # None
  /\ \/ r.mActiveBuffer = None
     \/ r.mActiveBuffer.size # frame.size
     \/ r.mActiveBuffer.scales # frame.scales

onPreComposition(r) == [r EXCEPT !.mRefreshPending = FALSE]

(* What computeVisibleRegions reads of a layer. *)
Visible(r) == [geometry |-> r.drawing.active, z |-> r.drawing.z,
               alpha |-> r.drawing.alpha,
               buffer |-> r.mActiveBuffer # None]
=============================================================================
