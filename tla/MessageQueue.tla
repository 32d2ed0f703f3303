---------------------------- MODULE MessageQueue ----------------------------
(***************************************************************************)
(* The message queue of SurfaceFlinger's main thread                       *)
(* (services/surfaceflinger/MessageQueue.cpp): a Looper with messages in   *)
(* the order they were sent, an event mask that keeps at most one message  *)
(* of a kind in it, and the tube on which EventThread, modelled in module  *)
(* EventThread, answers the request for the next vsync.                    *)
(* The operators that send are conjuncts of other modules' actions.        *)
(***************************************************************************)
EXTENDS Naturals, Sequences

VARIABLES
  vsyncRequested,    \* EventThread owes mEvents a vsync
  mEventTube,        \* is there a vsync to read in it?
  mEventMask,        \* the kinds of message that are in the looper
  mLooper            \* its messages

queueVars == <<vsyncRequested, mEventTube, mEventMask, mLooper>>

Kinds == {"INVALIDATE", "REFRESH", "TRANSACTION"}

QueueInit ==
  /\ vsyncRequested = FALSE
  /\ mEventTube = FALSE
  /\ mEventMask = {}
  /\ mLooper = <<>>

Event(what) == [what |-> what]

(* With INVALIDATE_ON_VSYNC invalidate() only asks for a vsync ...         *)
invalidate == vsyncRequested' = TRUE

(* Mutant: nothing asks for a frame that is not due yet. *)
ForgetsNeed(needed) == UNCHANGED vsyncRequested

invalidateIf(needed) == vsyncRequested' = (vsyncRequested \/ needed)

(* ... while refresh() and invalidateTransactionNow() send a message, if   *)
(* the mask has none of its kind, followed here by messages (postMessage). *)
dispatch(what, messages) ==
  /\ mEventMask' = mEventMask \union {what}
  /\ mLooper' = (IF what \in mEventMask THEN mLooper
                 ELSE Append(mLooper, Event(what))) \o messages

postMessage(message) ==
  /\ mLooper' = Append(mLooper, message)
  /\ UNCHANGED mEventMask

(* EventThread answers the request. *)
deliverVsync ==
  /\ vsyncRequested
  /\ vsyncRequested' = FALSE
  /\ mEventTube' = TRUE
  /\ UNCHANGED <<mEventMask, mLooper>>

(* The main thread reads the tube dry and sends itself one message. *)
eventReceiver ==
  /\ mEventTube
  /\ mEventTube' = FALSE
  /\ dispatch("INVALIDATE", <<>>)
  /\ UNCHANGED vsyncRequested

(* Mutant: the mask is cleared by nobody. *)
MaskKept(what) == mEventMask

(* The mask that a handler leaves before it handles the message. *)
MaskOnReceipt(what) == mEventMask \ {what}

handleMessage ==
  /\ mLooper # <<>>
  /\ mLooper' = Tail(mLooper)
  /\ mEventMask' = MaskOnReceipt(Head(mLooper).what)
=============================================================================
