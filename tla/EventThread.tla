---------------------------- MODULE EventThread ----------------------------
(***************************************************************************)
(* The delivery of vsync and hotplug events to the clients of              *)
(* SurfaceFlinger (services/surfaceflinger/EventThread.cpp), with the      *)
(* tube of each client (libs/gui/BitTube.cpp) and the place of its vsync   *)
(* source in DispSync (DispSyncSource in SurfaceFlinger.cpp).              *)
(*                                                                         *)
(* thread.at is where EventThread's threadLoop is:                         *)
(*   loop       about to look at its state, with mLock held                *)
(*   waiting    in mCondition.wait        waitingVsync   in waitRelative   *)
(*   timedOut   waitRelative gave up, mLock not yet taken again            *)
(*   posting    sending thread.event to the clients thread.to, unlocked    *)
(* A broadcast moves waiting and waitingVsync to loop.  The power hint and *)
(* the events' contents are left out; a timestamp is there or not there.   *)
(***************************************************************************)
EXTENDS Integers, Sequences, FiniteSets

CONSTANTS
  Connections,
  Paced,        \* those that may set a vsync rate
  OneShotClient, \* one that does not, whose view is stated below
  Rates,        \* arguments of setVsyncRate, 0 among them
  TubeSize,     \* events a tube holds
  CountModulus, \* bound: vsync.count is kept modulo this multiple of Rates
  MaxPending    \* bound: hotplugs in mPendingEvents

ASSUME EventThreadAssumption ==
  /\ Paced \subseteq Connections
  /\ OneShotClient \in Connections \ Paced
  /\ Rates \subseteq Nat
  /\ TubeSize \in Nat \ {0}
  /\ CountModulus \in Nat \ {0}
  /\ MaxPending \in Nat

VARIABLES
  mDisplayEventConnections,
  clients,       \* connections somebody holds: the weak references in
                 \* mDisplayEventConnections to these can be promoted
  count,         \* Connection::count
  mVSyncEvent,   \* of the primary display
  mPendingEvents,
  mUseSoftwareVSync,
  mVsyncEnabled, \* the source is among DispSync's listeners
  thread,
  firing,        \* DispSync has gathered the callback and not yet called it
  mChannel,      \* the events in each tube
  calls          \* history: flips when a request of OneShotClient counts

sourceVars == <<mVsyncEnabled, firing>>
etVars == <<mDisplayEventConnections, clients, count, mVSyncEvent,
            mPendingEvents, mUseSoftwareVSync, sourceVars, thread, mChannel,
            calls>>

Hotplug == [type: {"hotplug"}]
Event == [type: {"vsync"}] \cup Hotplug
ThreadState ==
       [at: {"loop", "waiting", "waitingVsync", "timedOut"}]
  \cup [at: {"posting"}, event: Event, to: SUBSET Connections]

At(place) == [at |-> place]
Vsync == [type |-> "vsync"]

TypeOK ==
  /\ mDisplayEventConnections \subseteq Connections
  /\ clients \subseteq Connections
  /\ count \in [Connections -> {-1} \cup Rates \cup {0}]
  /\ mVSyncEvent \in [timestamp: BOOLEAN, count: 0 .. CountModulus - 1]
  /\ mPendingEvents \in Seq(Hotplug)
  /\ mUseSoftwareVSync \in BOOLEAN
  /\ mVsyncEnabled \in BOOLEAN
  /\ firing \in BOOLEAN
  /\ thread \in ThreadState
  /\ mChannel \in [Connections -> Seq(Event)]
  /\ calls \in BOOLEAN

Init ==
  /\ mDisplayEventConnections = {}
  /\ clients = {}
  /\ count = [c \in Connections |-> -1]
  /\ mVSyncEvent = [timestamp |-> FALSE, count |-> 0]
  /\ mPendingEvents = << >>
  /\ mUseSoftwareVSync = FALSE
  /\ mVsyncEnabled = FALSE
  /\ firing = FALSE
  /\ thread = At("loop")
  /\ mChannel = [c \in Connections |-> << >>]
  /\ calls = FALSE

(* Mutant: a wait with a timeout is left to time out. *)
BroadcastUntimed ==
  thread' = IF thread.at = "waiting" THEN At("loop") ELSE thread

Broadcast ==
  thread' = IF thread.at \in {"waiting", "waitingVsync"} THEN At("loop")
            ELSE thread
-----------------------------------------------------------------------------
(* A client creates its connection, whose onFirstRef registers it.         *)
registerDisplayEventConnection(c) ==
  /\ c \notin clients \cup mDisplayEventConnections
  /\ thread.at = "posting" => c \notin thread.to
  /\ clients' = clients \cup {c}
  /\ mDisplayEventConnections' = mDisplayEventConnections \cup {c}
  /\ Broadcast
  /\ UNCHANGED <<count, mVSyncEvent, mPendingEvents, mUseSoftwareVSync,
                 sourceVars, mChannel, calls>>

(* It drops it, or dies, and its end of the tube closes.  EventThread is   *)
(* not told.                                                               *)
Disconnect(c) ==
  /\ c \in clients
  /\ clients' = clients \ {c}
  /\ count' = [count EXCEPT ![c] = -1]
  /\ mChannel' = [mChannel EXCEPT ![c] = << >>]
  /\ UNCHANGED <<mDisplayEventConnections, mVSyncEvent, mPendingEvents,
                 mUseSoftwareVSync, sourceVars, thread, calls>>

setVsyncRate(c, rate) ==
  /\ c \in clients
  /\ LET new_count == IF rate = 0 THEN -1 ELSE rate
     IN /\ count[c] # new_count
        /\ count' = [count EXCEPT ![c] = new_count]
  /\ Broadcast
  /\ UNCHANGED <<mDisplayEventConnections, clients, mVSyncEvent,
                 mPendingEvents, mUseSoftwareVSync, sourceVars, mChannel,
                 calls>>

requestNextVsync(c) ==
  /\ c \in clients
  /\ count[c] < 0
  /\ count' = [count EXCEPT ![c] = 0]
  /\ calls' = IF c = OneShotClient THEN ~calls ELSE calls
  /\ Broadcast
  /\ UNCHANGED <<mDisplayEventConnections, clients, mVSyncEvent,
                 mPendingEvents, mUseSoftwareVSync, sourceVars, mChannel>>

(* BitTube::read on a SOCK_SEQPACKET socket returns one event. *)
getEvents(c) ==
  /\ c \in clients
  /\ mChannel[c] # << >>
  /\ mChannel' = [mChannel EXCEPT ![c] = Tail(@)]
  /\ UNCHANGED <<mDisplayEventConnections, clients, count, mVSyncEvent,
                 mPendingEvents, mUseSoftwareVSync, sourceVars, thread, calls>>

(* The main thread turns the screen off and on. *)
onScreen(released) ==
  /\ mUseSoftwareVSync # released
  /\ mUseSoftwareVSync' = released
  /\ Broadcast
  /\ UNCHANGED <<mDisplayEventConnections, clients, count, mVSyncEvent,
                 mPendingEvents, sourceVars, mChannel, calls>>

onHotplugReceived ==
  /\ Len(mPendingEvents) < MaxPending
  /\ mPendingEvents' = Append(mPendingEvents, [type |-> "hotplug"])
  /\ Broadcast
  /\ UNCHANGED <<mDisplayEventConnections, clients, count, mVSyncEvent,
                 mUseSoftwareVSync, sourceVars, mChannel, calls>>
-----------------------------------------------------------------------------
(* DispSync's thread gathers the source among the listeners that are due,  *)
(* and calls it with no lock held: perhaps after it has been removed.      *)
gatherCallbackInvocations ==
  /\ mVsyncEnabled /\ ~firing
  /\ firing' = TRUE
  /\ UNCHANGED <<mDisplayEventConnections, clients, count, mVSyncEvent,
                 mPendingEvents, mUseSoftwareVSync, mVsyncEnabled, thread,
                 mChannel, calls>>

NewVSync ==
  mVSyncEvent' = [timestamp |-> TRUE,
                  count |-> (mVSyncEvent.count + 1) % CountModulus]

onVSyncEvent ==
  /\ firing
  /\ firing' = FALSE
  /\ NewVSync
  /\ Broadcast
  /\ UNCHANGED <<mDisplayEventConnections, clients, count, mPendingEvents,
                 mUseSoftwareVSync, mVsyncEnabled, mChannel, calls>>
-----------------------------------------------------------------------------
(* The clients the thread finds alive, and what they wait for. *)
Live == mDisplayEventConnections \cap clients
waitForVSync == \E c \in Live : count[c] >= 0

EventPending == ~mVSyncEvent.timestamp /\ mPendingEvents # << >>

Due(c) ==
  /\ mVSyncEvent.timestamp
  /\ \/ count[c] = 0
     \/ count[c] > 0 /\ mVSyncEvent.count % count[c] = 0

signalConnections == {c \in Live : Due(c) \/ EventPending}

(* Mutant: a one-shot request stays in force. *)
Unfired == count

Fired ==
  [c \in Connections |->
     IF c \in Live /\ mVSyncEvent.timestamp /\ count[c] = 0 THEN -1
     ELSE count[c]]

(* Mutant: an idle source is left on. *)
NeverUnwanted == FALSE

(* enableVSyncLocked and disableVSyncLocked *)
VsyncWanted ==
  \/ mVsyncEnabled
  \/ waitForVSync /\ ~mVSyncEvent.timestamp /\ ~mUseSoftwareVSync
VsyncUnwanted == mVSyncEvent.timestamp /\ ~waitForVSync

(* Mutant: the timeout only guards against a driver that sends no vsync. *)
SleepUntimed ==
  IF waitForVSync /\ ~mUseSoftwareVSync THEN "waitingVsync" ELSE "waiting"

(* How to wait.  Software vsync is nothing but the timeout. *)
Sleep == IF waitForVSync THEN "waitingVsync" ELSE "waiting"

(* One turn of the loop in waitForEvent, up to its wait or its return.  A  *)
(* vsync goes before the pending events, and is used up even if no client  *)
(* is due.                                                                 *)
waitForEvent ==
  /\ thread.at = "loop"
  /\ mVSyncEvent' = [mVSyncEvent EXCEPT !.timestamp = FALSE]
  /\ mPendingEvents' = IF EventPending THEN Tail(mPendingEvents)
                       ELSE mPendingEvents
  /\ mDisplayEventConnections' = Live
  /\ count' = Fired
  /\ mVsyncEnabled' = (VsyncWanted /\ ~VsyncUnwanted)
  /\ thread' =
       IF signalConnections # {}
       THEN [at |-> "posting", to |-> signalConnections,
             event |-> IF EventPending THEN Head(mPendingEvents) ELSE Vsync]
       ELSE IF mVSyncEvent.timestamp \/ EventPending THEN thread
       ELSE At(Sleep)
  /\ UNCHANGED <<clients, mUseSoftwareVSync, firing, mChannel, calls>>

Timeout ==
  /\ thread.at = "waitingVsync"
  /\ thread' = At("timedOut")
  /\ UNCHANGED <<mDisplayEventConnections, clients, count, mVSyncEvent,
                 mPendingEvents, mUseSoftwareVSync, sourceVars, mChannel,
                 calls>>

(* No vsync came in time: the thread makes one up. *)
FakeVsync ==
  /\ thread.at = "timedOut"
  /\ NewVSync
  /\ thread' = At("loop")
  /\ UNCHANGED <<mDisplayEventConnections, clients, count, mPendingEvents,
                 mUseSoftwareVSync, sourceVars, mChannel, calls>>

(* postEvent to one of the clients.  An event for a full tube is dropped;  *)
(* a client whose tube is closed is removed.                               *)
postEvent(c) ==
  /\ thread.at = "posting" /\ c \in thread.to
  /\ IF c \in clients
     THEN /\ mChannel' = IF Len(mChannel[c]) < TubeSize
                         THEN [mChannel EXCEPT ![c] = Append(@, thread.event)]
                         ELSE mChannel
          /\ UNCHANGED mDisplayEventConnections
     ELSE /\ mDisplayEventConnections' = mDisplayEventConnections \ {c}
          /\ UNCHANGED mChannel
  /\ thread' = IF thread.to = {c} THEN At("loop")
               ELSE [thread EXCEPT !.to = @ \ {c}]
  /\ UNCHANGED <<clients, count, mVSyncEvent, mPendingEvents,
                 mUseSoftwareVSync, sourceVars, calls>>
-----------------------------------------------------------------------------
ClientNext ==
  \E c \in Connections :
    \/ registerDisplayEventConnection(c)
    \/ Disconnect(c)
    \/ c \in Paced /\ \E rate \in Rates : setVsyncRate(c, rate)
    \/ requestNextVsync(c)
    \/ getEvents(c)

ThreadNext ==
  waitForEvent \/ FakeVsync \/ \E c \in Connections : postEvent(c)

SourceNext == gatherCallbackInvocations \/ onVSyncEvent

Next ==
  \/ ClientNext
  \/ \E released \in BOOLEAN : onScreen(released)
  \/ onHotplugReceived
  \/ SourceNext
  \/ ThreadNext \/ Timeout

Spec == Init /\ [][Next]_etVars

(* The threads run.  Nobody makes a client call or read, and the screen    *)
(* may stay off for ever.                                                  *)
FairSpec ==
  /\ Spec
  /\ WF_etVars(ThreadNext) /\ WF_etVars(Timeout) /\ WF_etVars(SourceNext)
-----------------------------------------------------------------------------
(* The thread sleeps only when it has nothing to do, and without a timeout *)
(* only when no client it knows waits for a vsync: each call that changes  *)
(* that wakes it (EventThread.cpp:95-171, 278-327).                        *)
NoLostWakeup ==
  /\ thread.at \in {"waiting", "waitingVsync"} =>
       ~mVSyncEvent.timestamp /\ mPendingEvents = << >>
  /\ thread.at = "waiting" => ~waitForVSync

(* A client that asks for one vsync at a time gets one event for each      *)
(* request and none unasked, whatever other clients do, through fake and   *)
(* late vsyncs, hotplugs and the screen going off (EventThread.cpp:249).   *)
Outstanding(c) ==
    (IF count[c] = 0 THEN 1 ELSE 0)
  + (IF thread.at = "posting" /\ c \in thread.to /\ thread.event = Vsync
     THEN 1 ELSE 0)

Client == INSTANCE VsyncClient WITH
  Capacity <- TubeSize, Answer <- Vsync, Unasked <- Hotplug,
  connected <- OneShotClient \in clients,
  outstanding <- Outstanding(OneShotClient),
  tube <- mChannel[OneShotClient],
  calls <- calls

OneShotSpec == Client!Spec

(* Every request of a client that stays is answered: with the screen on,   *)
(* whatever the other clients and hotplugs do, since a vsync goes first    *)
(* (EventThread.cpp:215-231); with the screen off, once the calls that     *)
(* wake the thread leave it a timeout, for each of them starts its wait    *)
(* anew (EventThread.cpp:297-320).                                         *)
Calm == <>[][ThreadNext \/ Timeout \/ SourceNext]_etVars
RequestsAnswered ==
  (Calm \/ <>[](~mUseSoftwareVSync)) =>
    \A c \in Connections :
      (c \in Live /\ count[c] = 0) ~> (c \notin Live \/ count[c] # 0)

(* When nobody wants vsyncs any more, the source is taken off DispSync,    *)
(* which is what lets hardware vsync stop (EventThread.cpp:278-282).       *)
SourceReleased == <>[](~waitForVSync) => <>[](~mVsyncEnabled)
=============================================================================
