--------------------------- MODULE SurfaceFlinger ---------------------------
(***************************************************************************)
(* Transactions, page flips and refreshes of SurfaceFlinger                *)
(* (services/surfaceflinger/SurfaceFlinger.cpp).  Client threads set the   *)
(* state of layers and may wait for the commit; producers queue frames for *)
(* the layers; the main thread handles the messages of its MessageQueue,   *)
(* one step of the code after another.  What makes up a transaction of a   *)
(* client is in module Composer.                                           *)
(*                                                                         *)
(* main is where the main thread is:                                       *)
(*   idle         in waitMessage                                           *)
(*   invalidate, transaction, refresh   a message of that kind received    *)
(*   create, capture                    ... or one of a client, who waits  *)
(*   pageFlip     the transaction of the message is handled                *)
(*   latch        in handlePageFlip, with the layers still to latch        *)
(*   latched      there, after updateTexImage of a layer                   *)
(* thread[t] is where a client thread is:                                  *)
(*   sent         setTransactionState is called                            *)
(*   animWait     in it, waiting for the previous animation frame          *)
(*   syncWait     in it, waiting for its commit                            *)
(*   animWoken, syncWoken   there, after mTransactionCV.broadcast          *)
(*   blocked      in postMessageSync                                       *)
(* producer[l] is where the producer of a layer is: idle, dequeued with a  *)
(* buffer, queued, before the listener is called, or pushed, inside it.    *)
(*                                                                         *)
(* The displays, and what a refresh does with them, are in module          *)
(* Displays; here a refresh copies the drawing state to the screen.        *)
(***************************************************************************)
EXTENDS Layer, MessageQueue, FiniteSets

CONSTANTS
  Threads, Layers, FirstLayer,
  Calls,           \* what clients ask of setTransactionState
  FrameKinds,      \* the [scales, due, droppable] of the frames producers queue
  MaxEvents,       \* bound on the captures, removals, repaints
                   \* and sideband changes of a behaviour, in all
  Captures,        \* may a client capture the screen?
  Timeouts         \* may a wait in setTransactionState time out?

ASSUME SurfaceFlingerAssumption ==
  /\ FrameKinds \subseteq [scales : BOOLEAN, due : Times, droppable : BOOLEAN]
  /\ Calls \subseteq [changes : SUBSET [layer : Layers, change : Changes],
                      eSynchronous : BOOLEAN, eAnimation : BOOLEAN]
  /\ FirstLayer \in Layers /\ IsFiniteSet(Layers)
  /\ MaxEvents \in Nat
  /\ Captures \in BOOLEAN /\ Timeouts \in BOOLEAN

VARIABLES
  mCurrentState, mDrawingState,    \* their layersSortedByZ, as sets
  layer,                           \* the layers, records of module Layer
  mTransactionFlags,
  mTransactionPending, mAnimTransactionPending,
  mLayersPendingRemoval, mLayersRemoved,
  mVisibleRegionsDirty, mRepaintEverything,
  visibleRegions,    \* what rebuildLayerStacks last computed, by layer
  screen,            \* and what the last refresh showed
  main,
  thread,            \* the client threads
  producer,
  budget,            \* how many events are left of MaxEvents
  now,
  applied, committed,    \* history: transactions applied, and those of them
                         \* that have been committed
  animation, gaveUp      \* the last one that was an animation frame; has a
                         \* wait for one timed out since the last commit?

flingerVars == <<mCurrentState, mDrawingState, mTransactionFlags,
                 mTransactionPending, mAnimTransactionPending,
                 mLayersPendingRemoval, mLayersRemoved>>
screenVars == <<mVisibleRegionsDirty, mRepaintEverything, visibleRegions, screen>>
historyVars == <<applied, committed, animation, gaveUp>>
sfVars == <<flingerVars, screenVars, historyVars, producer, queueVars,
            thread, layer, main, budget, now>>

Idle == [at |-> "idle"]
At(t) == thread[t].at

(* Client threads are alike: the next call is that of one idle thread.     *)
MayCall(t) ==
  /\ At(t) = "idle" /\ t = CHOOSE u \in Threads : At(u) = "idle"
  /\ budget > 0

(* One layer is there from the start; the others can be created. *)
SurfaceFlingerInit ==
  /\ QueueInit
  /\ mCurrentState = {FirstLayer} /\ mDrawingState = {FirstLayer}
  /\ layer = [l \in Layers |-> NewLayer]
  /\ mTransactionFlags = {}
  /\ mTransactionPending = FALSE /\ mAnimTransactionPending = FALSE
  /\ mLayersPendingRemoval = {} /\ mLayersRemoved = FALSE
  /\ mVisibleRegionsDirty = FALSE /\ mRepaintEverything = FALSE
  /\ visibleRegions = [l \in mDrawingState |-> Visible(layer[l])]
  /\ screen = visibleRegions
  /\ main = Idle
  /\ thread = [t \in Threads |-> Idle]
  /\ producer = [l \in Layers |-> Idle]
  /\ budget = MaxEvents
  /\ now = 0
  /\ applied = 0 /\ committed = 0 /\ animation = 0 /\ gaveUp = FALSE

(* Has the layer been created: it is listed, or it was and is removed. *)
Exists(l) ==
  \/ l \in mCurrentState \union mDrawingState \union mLayersPendingRemoval
  \/ layer[l].abandoned

-----------------------------------------------------------------------------
(* Transaction flags.                                                      *)

(* Mutant: woken only for flags that are set already. *)
WakesAgain(flags) == mTransactionFlags \cap flags # {}

Wakes(flags) == flags # {} /\ mTransactionFlags \cap flags = {}

setTransactionFlags(flags) ==
  /\ mTransactionFlags' = mTransactionFlags \union flags
  /\ invalidateIf(Wakes(flags))

-----------------------------------------------------------------------------
(* setTransactionState, with mStateLock held but for its waits.            *)

callSetTransactionState(t) ==
  /\ MayCall(t)
  /\ budget' = budget - 1
  /\ \E call \in Calls :
       thread' = [thread EXCEPT ![t] =
         [at |-> "sent", changes |-> call.changes,
          eSynchronous |-> call.eSynchronous, eAnimation |-> call.eAnimation]]
  /\ UNCHANGED <<flingerVars, screenVars, historyVars, producer, queueVars,
                 layer, main, now>>

(* setClientStateLocked for a set of changes: the flags of those that      *)
(* change something.                                                       *)
EffectiveIn(changes) ==
  {s \in changes : Exists(s.layer) /\ IsChange(layer[s.layer], s.change)}

Restacked(changes) ==
  {s.layer : s \in {e \in EffectiveIn(changes) : e.change.what = "z"}}

FlagsOf(changes) ==
  {"traversal" : s \in EffectiveIn(changes)} \union
  {"transaction" : l \in Restacked(changes)}

ChangedLayer(l, changes) ==
  set(layer[l], {s.change : s \in {e \in EffectiveIn(changes) : e.layer = l}})

(* A layer with a new z is taken out of the sorted list and put in again:  *)
(* listed from now on, even if it was removed, or abandoned, before.       *)
apply(t, changes, sync, anim) ==
  LET flags == FlagsOf(changes)
      pending == flags # {} /\ (sync \/ mTransactionPending)
  IN /\ layer' = [l \in Layers |-> ChangedLayer(l, changes)]
     /\ mCurrentState' = mCurrentState \union Restacked(changes)
     /\ setTransactionFlags(flags)
     /\ mTransactionPending' = (mTransactionPending \/ (flags # {} /\ sync))
     /\ applied' = IF flags = {} THEN applied ELSE applied + 1
     /\ animation' = IF flags # {} /\ anim THEN applied' ELSE animation
     /\ thread' = [thread EXCEPT ![t] =
          IF pending THEN [at |-> "syncWait", sync |-> sync, applied |-> applied']
          ELSE Idle]
     /\ UNCHANGED <<mDrawingState, mLayersPendingRemoval,
                    mLayersRemoved, screenVars, committed, producer,
                    mEventTube, mEventMask, mLooper, main,
                    budget, now>>

(* The anim flag raised by a transaction with changes. *)
AnimPending(changes, anim) == anim /\ FlagsOf(changes) # {}

(* Mutant: "if" instead of "while". *)
MustWaitOnce(call) ==
  call.eAnimation /\ mAnimTransactionPending /\ call.at = "sent"

MustWaitForAnimation(call) == call.eAnimation /\ mAnimTransactionPending

setTransactionState(t) ==
  /\ At(t) \in {"sent", "animWoken"}
  /\ LET call == thread[t]
     IN /\ ~MustWaitForAnimation(call)
        /\ mAnimTransactionPending' =
             (mAnimTransactionPending \/ AnimPending(call.changes, call.eAnimation))
        /\ apply(t, call.changes, call.eSynchronous, call.eAnimation)
        /\ UNCHANGED gaveUp

setTransactionStateWaits(t) ==
  /\ At(t) \in {"sent", "animWoken"}
  /\ MustWaitForAnimation(thread[t])
  /\ thread' = [thread EXCEPT ![t].at = "animWait"]
  /\ UNCHANGED <<flingerVars, screenVars, historyVars, producer, queueVars,
                 layer, main, budget, now>>

animationWaitTimesOut(t) ==
  /\ Timeouts
  /\ At(t) = "animWait"
  /\ LET call == thread[t]
     IN /\ mAnimTransactionPending' = AnimPending(call.changes, TRUE)
        /\ gaveUp' = TRUE
        /\ apply(t, call.changes, call.eSynchronous, TRUE)

syncWaitEnds(t) ==
  /\ At(t) = "syncWoken"
  /\ thread' = [thread EXCEPT ![t] =
                  IF mTransactionPending THEN [@ EXCEPT !.at = "syncWait"] ELSE Idle]
  /\ UNCHANGED <<flingerVars, screenVars, historyVars, producer, queueVars,
                 layer, main, budget, now>>

(* Mutant: the timeout wakes the others too. *)
syncWaitTimesOutForAll(t) ==
  /\ Timeouts
  /\ At(t) = "syncWait"
  /\ mTransactionPending' = FALSE
  /\ thread' = [u \in Threads |->
       IF u = t THEN Idle
       ELSE IF At(u) = "syncWait" THEN [thread[u] EXCEPT !.at = "syncWoken"]
       ELSE thread[u]]
  /\ UNCHANGED <<mCurrentState, mDrawingState, mTransactionFlags,
                 mAnimTransactionPending, mLayersPendingRemoval, mLayersRemoved,
                 screenVars, historyVars, producer, queueVars,
                 layer, main, budget, now>>

syncWaitTimesOut(t) ==
  /\ Timeouts
  /\ At(t) = "syncWait"
  /\ mTransactionPending' = FALSE
  /\ thread' = [thread EXCEPT ![t] = Idle]
  /\ UNCHANGED <<mCurrentState, mDrawingState, mTransactionFlags,
                 mAnimTransactionPending, mLayersPendingRemoval, mLayersRemoved,
                 screenVars, historyVars, producer, queueVars,
                 layer, main, budget, now>>

-----------------------------------------------------------------------------
(* Layers come and go.                                                     *)

(* Client::createSurface and captureScreen send the main thread a message  *)
(* and wait for it; captureScreen first asks for the pending transaction.  *)
createSurface(t) ==
  /\ MayCall(t)
  /\ budget' = budget - 1
  /\ \E l \in Layers :
       /\ ~Exists(l)
       /\ \A i \in 1 .. Len(mLooper) : mLooper[i].what # "CREATE"
       /\ main.at # "create"
       /\ postMessage([what |-> "CREATE", layer |-> l, caller |-> t])
  /\ thread' = [thread EXCEPT ![t] = [at |-> "blocked"]]
  /\ UNCHANGED <<flingerVars, screenVars, historyVars, producer,
                 vsyncRequested, mEventTube, layer, main, now>>

captureScreen(t) ==
  /\ Captures
  /\ MayCall(t)
  /\ budget' = budget - 1
  /\ dispatch("TRANSACTION",
              <<[what |-> "CAPTURE", caller |-> t, applied |-> applied]>>)
  /\ thread' = [thread EXCEPT ![t] = [at |-> "blocked"]]
  /\ UNCHANGED <<flingerVars, screenVars, historyVars, producer,
                 vsyncRequested, mEventTube, layer, main, now>>

(* From destroySurface, the last reference to a handle or the end of a     *)
(* client.                                                                 *)
removeLayer(l) ==
  /\ l \in mCurrentState
  /\ budget > 0
  /\ budget' = budget - 1
  /\ mCurrentState' = mCurrentState \ {l}
  /\ mLayersPendingRemoval' = mLayersPendingRemoval \union {l}
  /\ mLayersRemoved' = TRUE
  /\ setTransactionFlags({"transaction"})
  /\ applied' = applied + 1
  /\ UNCHANGED <<mDrawingState, mTransactionPending, mAnimTransactionPending,
                 screenVars, committed, animation, gaveUp, producer,
                 mEventTube, mEventMask, mLooper, thread, layer,
                 main, now>>

repaintEverything ==
  /\ budget > 0
  /\ budget' = budget - 1
  /\ mRepaintEverything' = TRUE
  /\ invalidate
  /\ UNCHANGED <<flingerVars, mVisibleRegionsDirty, visibleRegions, screen,
                 historyVars, producer, mEventTube, mEventMask, mLooper,
                 thread, layer, main, now>>

-----------------------------------------------------------------------------
(* Producers.  A buffer has the default size of the time it is dequeued.   *)

dequeue(l) ==
  /\ l \in mCurrentState \union mDrawingState /\ ~layer[l].abandoned
  /\ producer[l].at = "idle"
  /\ budget > 0
  /\ budget' = budget - 1
  /\ producer' = [producer EXCEPT ![l] =
                    [at |-> "dequeued", size |-> layer[l].defaultSize]]
  /\ UNCHANGED <<flingerVars, screenVars, historyVars, queueVars,
                 thread, layer, main, now>>

queue(l) ==
  /\ producer[l].at = "dequeued"
  /\ \E kind \in FrameKinds :
       LET frame == [size |-> producer[l].size, scales |-> kind.scales,
                     due |-> kind.due, droppable |-> kind.droppable]
       IN IF layer[l].abandoned
          THEN producer' = [producer EXCEPT ![l] = Idle] /\ UNCHANGED layer
          ELSE /\ layer' = [layer EXCEPT ![l] = queueBuffer(@, frame)]
               /\ producer' = [producer EXCEPT ![l] =
                    [at |-> "queued", frame |-> frame,
                     replaces |-> Replaces(layer[l])]]
  /\ UNCHANGED <<flingerVars, screenVars, historyVars, queueVars,
                 thread, main, budget, now>>

(* Nothing for a frame that replaces another, or the first half of         *)
(* onFrameAvailable ...                                                    *)
notify(l) ==
  /\ producer[l].at = "queued"
  /\ LET frame == producer[l].frame
     IN IF producer[l].replaces
        THEN /\ UNCHANGED layer
             /\ producer' = [producer EXCEPT ![l] = Idle]
        ELSE /\ layer' = [layer EXCEPT ![l] = onFrameAvailablePush(@, frame)]
             /\ producer' = [producer EXCEPT ![l] = [at |-> "pushed"]]
  /\ UNCHANGED <<flingerVars, screenVars, historyVars, queueVars,
                 thread, main, budget, now>>

(* ... and the second: count, and signalLayerUpdate. *)
notified(l) ==
  /\ producer[l].at = "pushed"
  /\ layer' = [layer EXCEPT ![l] = onFrameAvailableCount(@)]
  /\ producer' = [producer EXCEPT ![l] = Idle]
  /\ invalidate
  /\ UNCHANGED <<flingerVars, screenVars, historyVars, mEventTube,
                 mEventMask, mLooper, thread, main, budget, now>>

setSidebandStream(l) ==
  /\ l \in mDrawingState /\ ~layer[l].abandoned
  /\ budget > 0
  /\ budget' = budget - 1
  /\ layer' = [layer EXCEPT ![l] = onSidebandStreamChanged(@)]
  /\ invalidateIf(~layer[l].mSidebandStreamChanged)
  /\ UNCHANGED <<flingerVars, screenVars, historyVars, producer, mEventTube,
                 mEventMask, mLooper, thread, main, now>>

(* Time matters only to frames in a queue or a tracker.                    *)
passTime ==
  /\ \E l \in Layers : \E frame \in Range(layer[l].queue \o layer[l].mQueueItems) :
       frame.due > now
  /\ now' = now + 1
  /\ UNCHANGED <<flingerVars, screenVars, historyVars, producer, queueVars,
                 thread, layer, main, budget>>

-----------------------------------------------------------------------------
(* The main thread.                                                        *)

LeavesMain == <<historyVars, producer, budget, now>>

HandlerOf(what) ==
  CASE what = "INVALIDATE" -> "invalidate"
    [] what = "TRANSACTION" -> "transaction"
    [] what = "REFRESH" -> "refresh"
    [] what = "CREATE" -> "create"
    [] what = "CAPTURE" -> "capture"

receiveVsync ==
  /\ main.at = "idle"
  /\ eventReceiver
  /\ UNCHANGED <<flingerVars, screenVars, LeavesMain, thread, layer, main>>

receiveMessage ==
  /\ main.at = "idle"
  /\ handleMessage
  /\ main' = [at |-> HandlerOf(Head(mLooper).what), message |-> Head(mLooper)]
  /\ UNCHANGED <<flingerVars, screenVars, LeavesMain, vsyncRequested,
                 mEventTube, thread, layer>>

createLayer ==
  /\ main.at = "create"
  /\ LET l == main.message.layer
     IN /\ mCurrentState' = mCurrentState \union {l}
        /\ layer' = [layer EXCEPT ![l] = NewLayer]
  /\ setTransactionFlags({"transaction"})
  /\ applied' = applied + 1
  /\ thread' = [thread EXCEPT ![main.message.caller] = Idle]
  /\ main' = Idle
  /\ UNCHANGED <<mDrawingState, mTransactionPending, mAnimTransactionPending,
                 mLayersPendingRemoval, mLayersRemoved, screenVars, committed,
                 animation, gaveUp, producer, mEventTube, mEventMask,
                 mLooper, budget, now>>

captureScreenHandler ==
  /\ main.at = "capture"
  /\ thread' = [thread EXCEPT ![main.message.caller] = Idle]
  /\ main' = Idle
  /\ UNCHANGED <<flingerVars, screenVars, LeavesMain, queueVars, layer>>

(* commitTransaction: removed layers are abandoned, the waits end. *)
Committed(l) == l \in mLayersPendingRemoval

Broadcast ==
  thread' = [t \in Threads |->
    CASE At(t) = "syncWait" -> [thread[t] EXCEPT !.at = "syncWoken"]
      [] At(t) = "animWait" -> [thread[t] EXCEPT !.at = "animWoken"]
      [] OTHER -> thread[t]]

NeedsTransaction(l) ==
  "traversal" \in mTransactionFlags /\ l \in mCurrentState
    /\ layer[l].mTransactionFlags

TransactionMovesRegions ==
  \/ \E l \in mCurrentState : NeedsTransaction(l) /\ TransactionDirties(layer[l])
  \/ Cardinality(mCurrentState) > Cardinality(mDrawingState)
  \/ mLayersRemoved

Transacted(l) == IF NeedsTransaction(l) THEN doTransaction(layer[l]) ELSE layer[l]

(* handleTransactionLocked, without the displays, and commitTransaction.   *)
(* A layer that was listed again after its removal goes through both.      *)
handleTransaction ==
  /\ layer' = [l \in Layers |->
       IF Committed(l) THEN onRemoved(Transacted(l)) ELSE Transacted(l)]
  /\ mVisibleRegionsDirty' = (mVisibleRegionsDirty \/ TransactionMovesRegions)
  /\ mLayersRemoved' = FALSE
  /\ mLayersPendingRemoval' = {}
  /\ mDrawingState' = mCurrentState
  /\ mTransactionPending' = FALSE /\ mAnimTransactionPending' = FALSE
  /\ mTransactionFlags' = {}
  /\ committed' = applied /\ gaveUp' = FALSE
  /\ Broadcast
  /\ UNCHANGED <<mCurrentState, mRepaintEverything, visibleRegions, screen,
                 applied, animation, producer, budget, now>>

(* TRANSACTION and INVALIDATE both begin with handleMessageTransaction;    *)
(* TRANSACTION asks for no refresh.                                        *)
AfterTransaction ==
  IF main.at = "transaction" THEN Idle
  ELSE [at |-> "pageFlip", refresh |-> mTransactionFlags # {}]

handleMessageTransaction ==
  /\ main.at \in {"transaction", "invalidate"}
  /\ IF mTransactionFlags # {} THEN handleTransaction
     ELSE UNCHANGED <<flingerVars, screenVars, LeavesMain, thread, layer>>
  /\ main' = AfterTransaction
  /\ UNCHANGED queueVars

(* handlePageFlip: the layers to latch are chosen before any is latched. *)
LayersWithQueuedFrames ==
  {l \in mDrawingState : hasQueuedFrame(layer[l]) /\ shouldPresentNow(layer[l], now)}

handlePageFlip ==
  /\ main.at = "pageFlip"
  /\ main' = [at |-> "latch", todo |-> LayersWithQueuedFrames, dirty |-> FALSE,
              refresh |-> main.refresh \/ LayersWithQueuedFrames # {}]
  /\ invalidateIf(/\ LayersWithQueuedFrames = {}
                  /\ \E l \in mDrawingState : hasQueuedFrame(layer[l]))
  /\ UNCHANGED <<flingerVars, screenVars, LeavesMain, mEventTube, mEventMask,
                 mLooper, thread, layer>>

(* latchBuffer, up to updateTexImage; a layer whose sideband stream has    *)
(* changed, or that waits for its refresh, is done.                        *)
latchBuffer(l) ==
  /\ main.at = "latch" /\ l \in main.todo
  /\ LET r == layer[l]
         rest == [main EXCEPT !.todo = @ \ {l}]
     IN \/ /\ r.mSidebandStreamChanged
           /\ layer' = [layer EXCEPT ![l].mSidebandStreamChanged = FALSE]
           /\ main' = [rest EXCEPT !.dirty = TRUE]
        \/ /\ ~r.mSidebandStreamChanged /\ (r.mQueuedFrames = 0 \/ r.mRefreshPending)
           /\ main' = rest
           /\ UNCHANGED layer
        \/ /\ ~r.mSidebandStreamChanged /\ r.mQueuedFrames > 0 /\ ~r.mRefreshPending
           /\ \E drop \in IF r.queue = <<>> THEN {0} ELSE Droppable(r, now) :
                LET answer == updateTexImage(r, now, drop)
                IN /\ layer' = [layer EXCEPT ![l] = answer.layer]
                   /\ main' = [at |-> "latched", todo |-> rest.todo, layer |-> l,
                               refresh |-> main.refresh,
                               dirty |-> main.dirty \/ answer.dirty,
                               result |-> answer.result, frame |-> answer.frame]
  /\ UNCHANGED <<flingerVars, screenVars, LeavesMain, queueVars, thread>>

BackToLatch(dirty) ==
  main' = [at |-> "latch", todo |-> main.todo, refresh |-> main.refresh,
           dirty |-> dirty]

latchBufferLater ==
  /\ main.at = "latched" /\ main.result = "PRESENT_LATER"
  /\ BackToLatch(main.dirty)
  /\ invalidate
  /\ UNCHANGED <<flingerVars, screenVars, LeavesMain, mEventTube, mEventMask,
                 mLooper, thread, layer>>

latchBufferDone ==
  /\ main.at = "latched" /\ main.result # "PRESENT_LATER"
  /\ LET l == main.layer
         untracked == Untracked(layer[l])
     IN /\ layer' = [layer EXCEPT ![l] =
             IF main.result = "NO_INIT" THEN untracked
             ELSE setActiveBuffer(untracked, main.frame)]
        /\ BackToLatch(main.dirty \/ BufferDirties(layer[l], main.frame))
        /\ invalidateIf(layer[l].mQueuedFrames > 1)
  /\ UNCHANGED <<flingerVars, screenVars, LeavesMain, mEventTube, mEventMask,
                 mLooper, thread>>

(* The end of handlePageFlip and of the INVALIDATE message. *)
signalRefresh ==
  /\ main.at = "latch" /\ main.todo = {}
  /\ mVisibleRegionsDirty' = (mVisibleRegionsDirty \/ main.dirty)
  /\ IF main.refresh \/ mRepaintEverything
     THEN dispatch("REFRESH", <<>>) ELSE UNCHANGED <<mEventMask, mLooper>>
  /\ main' = Idle
  /\ UNCHANGED <<flingerVars, mRepaintEverything, visibleRegions, screen,
                 LeavesMain, vsyncRequested, mEventTube, thread, layer>>

ComputedRegions == [l \in mDrawingState |-> Visible(layer[l])]

(* preComposition, rebuildLayerStacks and doComposition. *)
handleMessageRefresh ==
  /\ main.at = "refresh"
  /\ layer' = [l \in Layers |->
       IF l \in mDrawingState THEN onPreComposition(layer[l]) ELSE layer[l]]
  /\ invalidateIf(\E l \in mDrawingState : hasQueuedFrame(layer[l]))
  /\ visibleRegions' = IF mVisibleRegionsDirty THEN ComputedRegions ELSE visibleRegions
  /\ screen' = visibleRegions'
  /\ mVisibleRegionsDirty' = FALSE
  /\ mRepaintEverything' = FALSE
  /\ main' = Idle
  /\ UNCHANGED <<flingerVars, LeavesMain, mEventTube, mEventMask, mLooper, thread>>

MainNext ==
  \/ receiveVsync \/ receiveMessage
  \/ createLayer \/ captureScreenHandler
  \/ handleMessageTransaction
  \/ handlePageFlip \/ \E l \in Layers : latchBuffer(l)
  \/ latchBufferLater \/ latchBufferDone \/ signalRefresh
  \/ handleMessageRefresh

ClientNext(t) ==
  \/ callSetTransactionState(t)
  \/ setTransactionState(t) \/ setTransactionStateWaits(t)
  \/ animationWaitTimesOut(t)
  \/ syncWaitEnds(t) \/ syncWaitTimesOut(t)
  \/ createSurface(t) \/ captureScreen(t)

ProducerNext(l) ==
  dequeue(l) \/ queue(l) \/ notify(l) \/ notified(l) \/ setSidebandStream(l)

eventThreadAnswers ==
  deliverVsync /\ UNCHANGED <<flingerVars, screenVars, LeavesMain, thread, layer, main>>

SurfaceFlingerNext ==
  \/ MainNext
  \/ \E t \in Threads : ClientNext(t)
  \/ \E l \in Layers : ProducerNext(l) \/ removeLayer(l)
  \/ repaintEverything
  \/ eventThreadAnswers \/ passTime

(* The main thread and EventThread are always scheduled, a call that has   *)
(* begun goes on, and time passes.                                         *)
SurfaceFlingerSpec ==
  /\ SurfaceFlingerInit /\ [][SurfaceFlingerNext]_sfVars
  /\ WF_sfVars(MainNext)
  /\ WF_sfVars(eventThreadAnswers)
  /\ WF_sfVars(passTime)
  /\ \A t \in Threads :
       WF_sfVars(\/ setTransactionState(t) \/ setTransactionStateWaits(t)
                 \/ syncWaitEnds(t))
  /\ \A l \in Layers : WF_sfVars(notify(l) \/ notified(l))
-----------------------------------------------------------------------------
(* Nothing that asks for work is forgotten: while transaction flags, a     *)
(* repaint or a queued frame wait, a vsync has been asked for or has come, *)
(* or a message is in the looper, or the main thread is on its way to them *)
(* (SurfaceFlinger.cpp:2081, Layer.cpp:1235-1251, MessageQueue.cpp:52-85); *)
(* and the mask has a kind exactly when the looper has its message, once.  *)
Coming(what) ==
  \/ what \in mEventMask
  \/ main.at = HandlerOf(what)

VsyncComing == vsyncRequested \/ mEventTube \/ Coming("INVALIDATE")

MaskIsLooper ==
  \A what \in Kinds :
    Cardinality({i \in 1 .. Len(mLooper) : mLooper[i].what = what}) =
      IF what \in mEventMask THEN 1 ELSE 0

WorkIsComing ==
  /\ MaskIsLooper
  /\ mTransactionFlags # {} => VsyncComing \/ Coming("TRANSACTION")
  /\ mRepaintEverything =>
       VsyncComing \/ Coming("REFRESH") \/ main.at \in {"pageFlip", "latch", "latched"}
  /\ \A l \in mDrawingState :
       /\ layer[l].mQueuedFrames > 0 =>
            \/ VsyncComing \/ Coming("REFRESH")
            \/ main.at \in {"pageFlip", "latch", "latched"}
       /\ layer[l].mRefreshPending /\ ~layer[l].abandoned =>
            Coming("REFRESH") \/ main.at \in {"latch", "latched"}

(* A frame of the BufferQueue is always known to the layer's counter, or   *)
(* about to be, and the tracker has an item for each frame counted, so     *)
(* that latchBuffer removes none from an empty one (Layer.cpp:163-181,     *)
(* 1241-1251).                                                             *)
FramesAreTracked ==
  \A l \in Layers :
    LET r == layer[l]
        pushed == IF producer[l].at = "pushed" THEN 1 ELSE 0
        coming == IF producer[l].at = "queued" THEN 1 ELSE pushed
    IN /\ Len(r.mQueueItems) = r.mQueuedFrames + pushed
       /\ Len(r.queue) <= r.mQueuedFrames + coming
       /\ main.at = "latched" /\ main.layer = l => r.mQueueItems # <<>>

(* A buffer that may not be scaled is drawn at its own size: no transaction*)
(* and no later frame moves the drawn geometry away from the buffer that   *)
(* is shown (Layer.cpp:926-955, 1143-1185).                                *)
DrawnAtItsSize ==
  \A l \in mDrawingState :
    LET r == layer[l]
    IN r.mActiveBuffer # None /\ ~r.mActiveBuffer.scales
         /\ ~(main.at = "latched" /\ main.layer = l)
       => r.mActiveBuffer.size = r.drawing.active.size

(* When nothing says they are dirty, the visible regions are those of the  *)
(* layers as they are drawn now (SurfaceFlinger.cpp:1571-1601, 1825-1836). *)
RegionsAreFresh ==
  main.at \notin {"latch", "latched"} /\ ~mVisibleRegionsDirty =>
    visibleRegions = ComputedRegions

(* A screenshot shows every transaction that was applied before it was     *)
(* asked for (SurfaceFlinger.cpp:3200-3205).                               *)
ScreenshotsAreCurrent ==
  main.at = "capture" => committed >= main.message.applied

(* What is drawn goes together: the buffer and the geometry of a layer, the*)
(* layers and the visible regions, a screenshot and the transactions before*)
(* it (Layer.cpp:926-1185, SurfaceFlinger.cpp:1571-1601, 3200-3205).       *)
PicturesAreConsistent == DrawnAtItsSize /\ RegionsAreFresh /\ ScreenshotsAreCurrent

(* A synchronous transaction returns when its changes are committed,       *)
(* unless its wait timed out (SurfaceFlinger.cpp:2142-2164).               *)
ReturnsCommitted ==
  [][\A t \in Threads :
       At(t) = "syncWoken" /\ thread'[t].at = "idle" =>
         committed >= thread[t].applied]_sfVars

(* An animation frame is applied when the one before it has been           *)
(* committed, unless a wait timed out (SurfaceFlinger.cpp:2098-2113).      *)
AnimationsTakeTurns ==
  [][animation' # animation => animation <= committed \/ gaveUp']_sfVars

(* A client that waits, for its own commit or for that of the animation    *)
(* frame before, goes on after it and not before                           *)
(* (SurfaceFlinger.cpp:2098-2164).                                         *)
WaitersAreServed == ReturnsCommitted /\ AnimationsTakeTurns

(* Every transaction is committed (SurfaceFlinger.cpp:2081-2087, 959-966). *)
TransactionsAreCommitted == (committed < applied) ~> (committed = applied)

(* What clients have set comes to the screen: "Signal a refresh if a       *)
(* transaction modified the window state" (SurfaceFlinger.cpp:945).        *)
Shown == [l \in DOMAIN screen |-> [z |-> screen[l].z, alpha |-> screen[l].alpha]]
Set == [l \in mCurrentState |->
          [z |-> layer[l].current.z, alpha |-> layer[l].current.alpha]]

ChangesAreShown == (Shown # Set) ~> (Shown = Set)

(* A queued frame is taken from the queue (Layer.cpp:163-172, 1093-1251),  *)
(* or its layer is removed.                                                *)
FramesAreLatched ==
  \A l \in Layers :
    (layer[l].queue # <<>>) ~> (layer[l].queue = <<>>)

(* All work is done in the end: transactions are committed and frames are  *)
(* taken from their queues (SurfaceFlinger.cpp:959-966,                    *)
(* Layer.cpp:1093-1251).                                                   *)
WorkIsDone == TransactionsAreCommitted /\ FramesAreLatched
=============================================================================
