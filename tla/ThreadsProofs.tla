--------------------------- MODULE ThreadsProofs ----------------------------
(***************************************************************************)
(* Theorems about the threads that keep each other awake and alive: the    *)
(* event thread, the thread that controls hardware vsync, and the threads  *)
(* that create and remove surfaces.                                        *)
(***************************************************************************)
EXTENDS EventThread, HardwareVsync, Surfaces, SequenceFacts, TLAPS

-----------------------------------------------------------------------------
(***************************************************************************)
(* EventThread is well typed and loses no wakeup: proofs for any number of *)
(* connections, tubes of any size and any schedule.                        *)
(***************************************************************************)

(* Recorded for the provers: the two kinds of thread state.                *)
LEMMA ThreadFields ==
  ASSUME thread \in ThreadState
  PROVE  /\ thread.at \in {"loop", "waiting", "waitingVsync", "timedOut",
                           "posting"}
         /\ thread.at = "posting" =>
              /\ thread.event \in Event /\ thread.to \subseteq Connections
              /\ thread \in [at: {"posting"}, event: Event,
                             to: SUBSET Connections]
  BY DEF ThreadState

(* States of the thread are well typed,                                    *)
LEMMA AtTyped ==
  ASSUME NEW place \in {"loop", "waiting", "waitingVsync", "timedOut"}
  PROVE  At(place) \in ThreadState
  BY DEF At, ThreadState

(* also when it is woken,                                                  *)
LEMMA BroadcastTyped ==
  ASSUME thread \in ThreadState, Broadcast
  PROVE  thread' \in ThreadState
  BY AtTyped DEF Broadcast

(* A broadcast leaves nobody in a wait.                                    *)
LEMMA BroadcastWakes ==
  ASSUME thread \in ThreadState, Broadcast
  PROVE  thread'.at \notin {"waiting", "waitingVsync"}
  BY DEF Broadcast, At

(* and a new vsync is well typed.                                          *)
LEMMA NewVSyncTyped ==
  ASSUME TypeOK, NewVSync
  PROVE  mVSyncEvent' \in [timestamp: BOOLEAN, count: 0 .. CountModulus - 1]
<1>1. mVSyncEvent.count \in Nat
  BY DEF TypeOK
<1>2. (mVSyncEvent.count + 1) % CountModulus \in 0 .. CountModulus - 1
  BY <1>1, EventThreadAssumption DEF EventThreadAssumption
<1>. QED  BY <1>2 DEF NewVSync
-----------------------------------------------------------------------------
(* The initial states are well typed.                                      *)
LEMMA TypeInit == Init => TypeOK
<1>. SUFFICES ASSUME Init PROVE TypeOK
  OBVIOUS
<1>1. mVSyncEvent \in [timestamp: BOOLEAN, count: 0 .. CountModulus - 1]
  BY EventThreadAssumption DEF Init, EventThreadAssumption
<1>2. thread \in ThreadState
  BY AtTyped DEF Init
<1>3. mChannel \in [Connections -> Seq(Event)]
  BY DEF Init
<1>4. count \in [Connections -> {-1} \cup Rates \cup {0}]
  BY DEF Init
<1>5. /\ mDisplayEventConnections \subseteq Connections
      /\ clients \subseteq Connections
      /\ mPendingEvents \in Seq(Hotplug)
  BY DEF Init
<1>6. /\ mUseSoftwareVSync \in BOOLEAN /\ mVsyncEnabled \in BOOLEAN
      /\ firing \in BOOLEAN /\ calls \in BOOLEAN
  BY DEF Init
<1>. QED  BY <1>1, <1>2, <1>3, <1>4, <1>5, <1>6 DEF TypeOK

(* Calls of clients keep the types.                                        *)
LEMMA ClientTyped ==
  ASSUME TypeOK, NEW c \in Connections
  PROVE  /\ registerDisplayEventConnection(c) => TypeOK'
         /\ Disconnect(c) => TypeOK'
         /\ \A rate \in Rates : setVsyncRate(c, rate) => TypeOK'
         /\ requestNextVsync(c) => TypeOK'
         /\ getEvents(c) => TypeOK'
<1>1. ASSUME registerDisplayEventConnection(c) PROVE TypeOK'
  <2>1. thread' \in ThreadState
    BY <1>1, BroadcastTyped DEF registerDisplayEventConnection, TypeOK
  <2>. QED
    BY <1>1, <2>1 DEF registerDisplayEventConnection, TypeOK, sourceVars
<1>2. ASSUME Disconnect(c) PROVE TypeOK'
  <2>1. mChannel' \in [Connections -> Seq(Event)]
    BY <1>2 DEF Disconnect, TypeOK
  <2>2. count' \in [Connections -> {-1} \cup Rates \cup {0}]
    BY <1>2 DEF Disconnect, TypeOK
  <2>. QED  BY <1>2, <2>1, <2>2 DEF Disconnect, TypeOK, sourceVars
<1>3. ASSUME NEW rate \in Rates, setVsyncRate(c, rate) PROVE TypeOK'
  <2>1. thread' \in ThreadState
    BY <1>3, BroadcastTyped DEF setVsyncRate, TypeOK
  <2>2. count' \in [Connections -> {-1} \cup Rates \cup {0}]
    BY <1>3 DEF setVsyncRate, TypeOK
  <2>. QED  BY <1>3, <2>1, <2>2 DEF setVsyncRate, TypeOK, sourceVars
<1>4. ASSUME requestNextVsync(c) PROVE TypeOK'
  <2>1. thread' \in ThreadState
    BY <1>4, BroadcastTyped DEF requestNextVsync, TypeOK
  <2>2. count' \in [Connections -> {-1} \cup Rates \cup {0}]
    BY <1>4 DEF requestNextVsync, TypeOK
  <2>3. calls' \in BOOLEAN
    BY <1>4 DEF requestNextVsync, TypeOK
  <2>. QED
    BY <1>4, <2>1, <2>2, <2>3 DEF requestNextVsync, TypeOK, sourceVars
<1>5. ASSUME getEvents(c) PROVE TypeOK'
  <2>1. Tail(mChannel[c]) \in Seq(Event)
    BY <1>5 DEF getEvents, TypeOK
  <2>2. mChannel' \in [Connections -> Seq(Event)]
    BY <1>5, <2>1 DEF getEvents, TypeOK
  <2>. QED  BY <1>5, <2>2 DEF getEvents, TypeOK, sourceVars
<1>. QED  BY <1>1, <1>2, <1>3, <1>4, <1>5

(* So do the screen, hotplug and DispSync,                                 *)
LEMMA EnvironmentTyped ==
  ASSUME TypeOK
  PROVE  /\ \A freed \in BOOLEAN : onScreen(freed) => TypeOK'
         /\ onHotplugReceived => TypeOK'
         /\ gatherCallbackInvocations => TypeOK'
         /\ onVSyncEvent => TypeOK'
<1>1. ASSUME NEW freed \in BOOLEAN, onScreen(freed) PROVE TypeOK'
  <2>1. thread' \in ThreadState
    BY <1>1, BroadcastTyped DEF onScreen, TypeOK
  <2>. QED  BY <1>1, <2>1 DEF onScreen, TypeOK, sourceVars
<1>2. ASSUME onHotplugReceived PROVE TypeOK'
  <2>1. thread' \in ThreadState
    BY <1>2, BroadcastTyped DEF onHotplugReceived, TypeOK
  <2>2. mPendingEvents' \in Seq(Hotplug)
    BY <1>2 DEF onHotplugReceived, TypeOK, Hotplug
  <2>. QED  BY <1>2, <2>1, <2>2 DEF onHotplugReceived, TypeOK, sourceVars
<1>3. ASSUME gatherCallbackInvocations PROVE TypeOK'
  BY <1>3 DEF gatherCallbackInvocations, TypeOK
<1>4. ASSUME onVSyncEvent PROVE TypeOK'
  <2>1. thread' \in ThreadState
    BY <1>4, BroadcastTyped DEF onVSyncEvent, TypeOK
  <2>2. mVSyncEvent' \in [timestamp: BOOLEAN, count: 0 .. CountModulus - 1]
    BY <1>4, NewVSyncTyped DEF onVSyncEvent
  <2>. QED  BY <1>4, <2>1, <2>2 DEF onVSyncEvent, TypeOK
<1>. QED  BY <1>1, <1>2, <1>3, <1>4

(* the loop of waitForEvent,                                               *)
LEMMA WaitForEventTyped ==
  ASSUME TypeOK, waitForEvent
  PROVE  TypeOK'
<1>1. mVSyncEvent' \in [timestamp: BOOLEAN, count: 0 .. CountModulus - 1]
  BY DEF waitForEvent, TypeOK
<1>2. mPendingEvents' \in Seq(Hotplug)
  BY DEF waitForEvent, TypeOK, EventPending
<1>3. mDisplayEventConnections' \subseteq Connections
  BY DEF waitForEvent, TypeOK, Live
<1>4. count' \in [Connections -> {-1} \cup Rates \cup {0}]
  BY DEF waitForEvent, TypeOK, Fired
<1>5. mVsyncEnabled' \in BOOLEAN
  BY DEF waitForEvent, TypeOK, VsyncWanted, VsyncUnwanted, waitForVSync
<1>6. thread' \in ThreadState
  <2>1. CASE signalConnections # {}
    <3>1. signalConnections \subseteq Connections
      BY DEF signalConnections, Live, TypeOK
    <3>2. EventPending => Head(mPendingEvents) \in Hotplug
      BY DEF EventPending, TypeOK
    <3>3. (IF EventPending THEN Head(mPendingEvents) ELSE Vsync) \in Event
      BY <3>2 DEF Event, Vsync
    <3>. QED  BY <2>1, <3>1, <3>3 DEF waitForEvent, ThreadState
  <2>2. CASE signalConnections = {} /\ (mVSyncEvent.timestamp \/ EventPending)
    BY <2>2 DEF waitForEvent, TypeOK
  <2>3. CASE signalConnections = {} /\ ~(mVSyncEvent.timestamp \/ EventPending)
    BY <2>3, AtTyped DEF waitForEvent, Sleep
  <2>. QED  BY <2>1, <2>2, <2>3
<1>. QED
  BY <1>1, <1>2, <1>3, <1>4, <1>5, <1>6 DEF waitForEvent, TypeOK

(* the delivery to a tube,                                                 *)
LEMMA PostEventTyped ==
  ASSUME TypeOK, NEW c \in Connections, postEvent(c)
  PROVE  TypeOK'
<1>1. /\ thread.event \in Event /\ thread.to \subseteq Connections
      /\ thread \in [at: {"posting"}, event: Event, to: SUBSET Connections]
  BY ThreadFields DEF postEvent, TypeOK
<1>2. [thread EXCEPT !.to = @ \ {c}] \in ThreadState
  BY <1>1 DEF ThreadState
<1>3. thread' \in ThreadState
  BY <1>2, AtTyped DEF postEvent
<1>4. mChannel' \in [Connections -> Seq(Event)]
  <2>1. Append(mChannel[c], thread.event) \in Seq(Event)
    BY <1>1 DEF TypeOK
  <2>. QED  BY <2>1 DEF postEvent, TypeOK
<1>5. mDisplayEventConnections' \subseteq Connections
  BY DEF postEvent, TypeOK
<1>. QED  BY <1>3, <1>4, <1>5 DEF postEvent, TypeOK, sourceVars

(* thus all of the thread,                                                 *)
LEMMA ThreadTyped ==
  ASSUME TypeOK
  PROVE  /\ ThreadNext => TypeOK'
         /\ Timeout => TypeOK'
<1>1. ASSUME FakeVsync PROVE TypeOK'
  <2>1. thread' \in ThreadState
    BY <1>1, AtTyped DEF FakeVsync
  <2>2. mVSyncEvent' \in [timestamp: BOOLEAN, count: 0 .. CountModulus - 1]
    BY <1>1, NewVSyncTyped DEF FakeVsync
  <2>. QED  BY <1>1, <2>1, <2>2 DEF FakeVsync, TypeOK, sourceVars
<1>2. ASSUME Timeout PROVE TypeOK'
  <2>1. thread' \in ThreadState
    BY <1>2, AtTyped DEF Timeout
  <2>. QED  BY <1>2, <2>1 DEF Timeout, TypeOK, sourceVars
<1>. QED  BY <1>1, <1>2, WaitForEventTyped, PostEventTyped DEF ThreadNext

(* and every step.                                                         *)
LEMMA TypeStep ==
  ASSUME TypeOK, [Next]_etVars
  PROVE  TypeOK'
<1>1. CASE UNCHANGED etVars
  BY <1>1 DEF etVars, sourceVars, TypeOK
<1>2. CASE Next
  BY <1>2, ClientTyped, EnvironmentTyped, ThreadTyped
  DEF Next, ClientNext, SourceNext
<1>. QED  BY <1>1, <1>2

(* Every state of EventThread is well typed: what a connection waits for,  *)
(* the event that is kept and what the thread is sending stay in range     *)
(* (EventThread.h:54-130).                                                 *)
THEOREM TypeCorrect == Spec => []TypeOK
<1>. QED  BY TypeInit, TypeStep, PTL DEF Spec
-----------------------------------------------------------------------------
(* A step after which the thread is not in a wait, or which leaves what it *)
(* waits for as it was.                                                    *)
LEMMA Awake ==
  ASSUME thread'.at \notin {"waiting", "waitingVsync"}
  PROVE  NoLostWakeup'
  BY DEF NoLostWakeup

(* What gives nobody a reason to wake keeps the thread rightly asleep.     *)
LEMMA StillNothingToDo ==
  ASSUME NoLostWakeup,
         UNCHANGED <<thread, mVSyncEvent, mPendingEvents, count,
                     mDisplayEventConnections, clients>>
  PROVE  NoLostWakeup'
  BY DEF NoLostWakeup, waitForVSync, Live

(* The thread goes to sleep with nothing to do, and without a timeout only *)
(* if nobody waits for a vsync.                                            *)
LEMMA GoesToSleep ==
  ASSUME TypeOK, waitForEvent
  PROVE  NoLostWakeup'
<1>1. CASE thread'.at \notin {"waiting", "waitingVsync"}
  BY <1>1, Awake
<1>2. CASE thread'.at \in {"waiting", "waitingVsync"}
  <2>1. /\ ~mVSyncEvent.timestamp /\ ~EventPending
        /\ thread' = At(Sleep)
    BY <1>2 DEF waitForEvent
  <2>2. mPendingEvents' = << >>
    BY <2>1 DEF waitForEvent, EventPending
  <2>3. ~mVSyncEvent'.timestamp
    BY DEF waitForEvent, TypeOK
  <2>4. Live' = Live
    BY DEF waitForEvent, Live
  <2>5. \A c \in Live : count'[c] = count[c]
    BY <2>1 DEF waitForEvent, Fired, TypeOK, Live
  <2>6. waitForVSync' = waitForVSync
    BY <2>4, <2>5 DEF waitForVSync
  <2>7. thread'.at = "waiting" => ~waitForVSync
    BY <2>1 DEF Sleep, At
  <2>. QED  BY <2>2, <2>3, <2>6, <2>7 DEF NoLostWakeup
<1>. QED  BY <1>1, <1>2

(* No step loses a wakeup.                                                 *)
LEMMA WakeupStep ==
  ASSUME TypeOK, NoLostWakeup, [Next]_etVars
  PROVE  NoLostWakeup'
<1>0. thread \in ThreadState
  BY DEF TypeOK
<1>1. CASE UNCHANGED etVars
  BY <1>1, StillNothingToDo DEF etVars
<1>2. ASSUME NEW c \in Connections,
             \/ registerDisplayEventConnection(c)
             \/ \E rate \in Rates : setVsyncRate(c, rate)
             \/ requestNextVsync(c)
      PROVE NoLostWakeup'
  BY <1>0, <1>2, BroadcastWakes, Awake
  DEF registerDisplayEventConnection, setVsyncRate, requestNextVsync
<1>3. ASSUME NEW c \in Connections, Disconnect(c)
      PROVE NoLostWakeup'
  <2>1. Live' \subseteq Live
    BY <1>3 DEF Disconnect, Live
  <2>2. \A d \in Live' : count'[d] = count[d]
    BY <1>3 DEF Disconnect, Live, TypeOK
  <2>3. waitForVSync' => waitForVSync
    BY <2>1, <2>2 DEF waitForVSync
  <2>. QED  BY <1>3, <2>3 DEF Disconnect, NoLostWakeup
<1>4. ASSUME NEW c \in Connections, getEvents(c)
      PROVE NoLostWakeup'
  BY <1>4, StillNothingToDo DEF getEvents
<1>5. ASSUME \/ \E freed \in BOOLEAN : onScreen(freed)
             \/ onHotplugReceived
             \/ onVSyncEvent
      PROVE NoLostWakeup'
  BY <1>0, <1>5, BroadcastWakes, Awake
  DEF onScreen, onHotplugReceived, onVSyncEvent
<1>6. ASSUME gatherCallbackInvocations
      PROVE NoLostWakeup'
  BY <1>6, StillNothingToDo DEF gatherCallbackInvocations
<1>7. ASSUME waitForEvent
      PROVE NoLostWakeup'
  BY <1>7, GoesToSleep
<1>8. ASSUME FakeVsync \/ Timeout
      PROVE NoLostWakeup'
  BY <1>8, Awake DEF FakeVsync, Timeout, At
<1>9. ASSUME NEW c \in Connections, postEvent(c)
      PROVE NoLostWakeup'
  <2>1. thread'.at \notin {"waiting", "waitingVsync"}
    BY <1>0, <1>9, ThreadFields DEF postEvent, At
  <2>. QED  BY <2>1, Awake
<1>. QED
  BY <1>1, <1>2, <1>3, <1>4, <1>5, <1>6, <1>7, <1>8, <1>9
  DEF Next, ClientNext, SourceNext, ThreadNext

(* No wakeup is lost: each call that gives the thread something to do, or  *)
(* makes it need a timeout, ends its wait (EventThread.cpp:95-171).        *)
THEOREM NoWakeupIsLost == Spec => []NoLostWakeup
<1>1. Init => NoLostWakeup
  BY DEF Init, At, NoLostWakeup
<1>2. TypeOK /\ NoLostWakeup /\ [Next]_etVars => NoLostWakeup'
  BY WakeupStep
<1>. QED  BY <1>1, <1>2, TypeCorrect, PTL DEF Spec

-----------------------------------------------------------------------------
(***************************************************************************)
(* EventThread implements VsyncClient: proofs for any number of other      *)
(* connections, tubes of any size and any schedule.                        *)
(***************************************************************************)

(* A client that sets no rate waits for one vsync or for none, and one     *)
(* that is gone waits for none and has nothing in its tube.                *)
OneShotInv ==
  /\ TypeOK
  /\ count[OneShotClient] \in {-1, 0}
  /\ OneShotClient \notin clients =>
       count[OneShotClient] = -1 /\ mChannel[OneShotClient] = << >>

(* Vsync is no hotplug.                                                    *)
LEMMA EventsAreApart ==
  /\ Vsync \notin Hotplug /\ Event = Hotplug \union {Vsync}
  BY DEF Vsync, Hotplug, Event

(* The requests of the client that are not answered.                       *)
LEMMA OutstandingFacts ==
  ASSUME OneShotInv
  PROVE  /\ Outstanding(OneShotClient) \in 0 .. 2
         /\ count[OneShotClient] = -1 => Outstanding(OneShotClient) \in 0 .. 1
  BY DEF OneShotInv, Outstanding

(* A broadcast is nothing to it.                                           *)
LEMMA BroadcastAnswersNothing ==
  ASSUME OneShotInv, Broadcast
  PROVE  /\ count'[OneShotClient] = count[OneShotClient] =>
              Outstanding(OneShotClient)' = Outstanding(OneShotClient)
         /\ count[OneShotClient] = -1 /\ count'[OneShotClient] = 0 =>
              Outstanding(OneShotClient)' = Outstanding(OneShotClient) + 1
<1>1. CASE thread' = thread
  BY <1>1 DEF OneShotInv, Outstanding
<1>2. CASE thread' = At("loop") /\ thread.at # "posting"
  BY <1>2 DEF Outstanding, At
<1> QED BY <1>1, <1>2 DEF Broadcast

(* The client's own calls, and those of others.                            *)
LEMMA ClientsImplement ==
  ASSUME OneShotInv, NEW c \in Connections,
         \/ registerDisplayEventConnection(c)
         \/ Disconnect(c)
         \/ c \in Paced /\ \E rate \in Rates : setVsyncRate(c, rate)
         \/ requestNextVsync(c)
         \/ getEvents(c)
  PROVE  /\ count'[OneShotClient] \in {-1, 0}
         /\ OneShotClient \notin clients' =>
              count'[OneShotClient] = -1 /\ mChannel'[OneShotClient] = << >>
         /\ [Client!Next]_(Client!clientVars)
<1> DEFINE o == OneShotClient
<1>1. /\ o \in Connections /\ o \notin Paced
  BY EventThreadAssumption DEF EventThreadAssumption
<1>2. /\ count \in [Connections -> {-1} \cup Rates \cup {0}]
      /\ mChannel \in [Connections -> Seq(Event)] /\ clients \subseteq Connections
      /\ calls \in BOOLEAN
  BY DEF OneShotInv, TypeOK
<1>3. CASE registerDisplayEventConnection(c)
  <2>1. /\ clients' = clients \cup {c} /\ c \notin clients
        /\ Broadcast /\ UNCHANGED <<count, mChannel, calls>>
    BY <1>3 DEF registerDisplayEventConnection
  <2>2. Outstanding(o)' = Outstanding(o)
    BY <2>1, BroadcastAnswersNothing
  <2>3. CASE c = o
    BY <2>1, <2>2, <2>3 DEF OneShotInv, Client!Next, Client!connect
  <2>4. CASE c # o
    BY <2>1, <2>2, <2>4 DEF OneShotInv, Client!clientVars
  <2> QED BY <2>3, <2>4
<1>4. CASE Disconnect(c)
  <2>1. /\ clients' = clients \ {c} /\ c \in clients
        /\ count' = [count EXCEPT ![c] = -1]
        /\ mChannel' = [mChannel EXCEPT ![c] = << >>]
        /\ UNCHANGED <<thread, calls>>
    BY <1>4 DEF Disconnect
  <2>2. CASE c = o
    <3>1. /\ o \notin clients' /\ count'[o] = -1 /\ mChannel'[o] = << >>
      BY <1>1, <1>2, <2>1, <2>2
    <3>2. Outstanding(o)' \in 0 .. Outstanding(o)
      BY <2>1, <3>1 DEF OneShotInv, Outstanding
    <3> QED BY <2>1, <3>1, <3>2 DEF Client!Next, Client!disconnect
  <2>3. CASE c # o
    <3>1. /\ o \in clients' <=> o \in clients
          /\ count'[o] = count[o] /\ mChannel'[o] = mChannel[o]
      BY <1>1, <1>2, <2>1, <2>3
    <3>2. Outstanding(o)' = Outstanding(o)
      BY <2>1, <3>1 DEF Outstanding
    <3> QED BY <2>1, <3>1, <3>2 DEF OneShotInv, Client!clientVars
  <2> QED BY <2>2, <2>3
<1>5. CASE c \in Paced /\ \E rate \in Rates : setVsyncRate(c, rate)
  <2>1. PICK rate \in Rates : setVsyncRate(c, rate)
    BY <1>5
  <2>2. /\ count'[o] = count[o] /\ UNCHANGED <<clients, mChannel, calls>> /\ Broadcast
    BY <1>1, <1>2, <1>5, <2>1 DEF setVsyncRate
  <2>3. Outstanding(o)' = Outstanding(o)
    BY <2>2, BroadcastAnswersNothing
  <2> QED BY <2>2, <2>3 DEF OneShotInv, Client!clientVars
<1>6. CASE requestNextVsync(c)
  <2>1. /\ c \in clients /\ count[c] < 0 /\ count' = [count EXCEPT ![c] = 0]
        /\ calls' = IF c = o THEN ~calls ELSE calls
        /\ Broadcast /\ UNCHANGED <<clients, mChannel>>
    BY <1>6 DEF requestNextVsync
  <2>2. CASE c = o
    <3>1. count[o] = -1 /\ count'[o] = 0
      BY <1>1, <1>2, <2>1, <2>2 DEF OneShotInv
    <3>2. Outstanding(o)' = Outstanding(o) + 1 /\ Outstanding(o) < 2
      BY <2>1, <3>1, BroadcastAnswersNothing, OutstandingFacts
    <3> QED BY <2>1, <2>2, <3>1, <3>2 DEF Client!Next, Client!requestNextVsync
  <2>3. CASE c # o
    <3>1. count'[o] = count[o]
      BY <1>1, <1>2, <2>1, <2>3
    <3>2. Outstanding(o)' = Outstanding(o)
      BY <2>1, <3>1, BroadcastAnswersNothing
    <3> QED BY <2>1, <2>3, <3>1, <3>2 DEF OneShotInv, Client!clientVars
  <2> QED BY <2>2, <2>3
<1>7. CASE getEvents(c)
  <2>1. /\ c \in clients /\ mChannel[c] # << >>
        /\ mChannel' = [mChannel EXCEPT ![c] = Tail(@)]
        /\ UNCHANGED <<clients, count, thread, calls>>
    BY <1>7 DEF getEvents
  <2>2. Outstanding(o)' = Outstanding(o)
    BY <2>1 DEF Outstanding
  <2>3. CASE c = o
    BY <1>1, <1>2, <2>1, <2>2, <2>3 DEF OneShotInv, Client!Next, Client!getEvents
  <2>4. CASE c # o
    BY <1>1, <1>2, <2>1, <2>2, <2>4 DEF OneShotInv, Client!clientVars
  <2> QED BY <2>3, <2>4
<1> QED BY <1>3, <1>4, <1>5, <1>6, <1>7

(* The thread takes the request and has the answer to send.                *)
LEMMA LoopImplements ==
  ASSUME OneShotInv, waitForEvent
  PROVE  /\ count'[OneShotClient] \in {-1, 0}
         /\ OneShotClient \notin clients' =>
              count'[OneShotClient] = -1 /\ mChannel'[OneShotClient] = << >>
         /\ UNCHANGED Client!clientVars
<1> DEFINE o == OneShotClient
           signalled == signalConnections
<1>1. o \in Connections
  BY EventThreadAssumption DEF EventThreadAssumption
<1>2. /\ count' = Fired /\ thread.at = "loop"
      /\ UNCHANGED <<clients, mChannel, calls>>
      /\ thread' = IF signalled # {}
                   THEN [at |-> "posting", to |-> signalled,
                         event |-> IF EventPending THEN Head(mPendingEvents) ELSE Vsync]
                   ELSE IF mVSyncEvent.timestamp \/ EventPending THEN thread
                   ELSE At(Sleep)
  BY DEF waitForEvent
<1>3. count'[o] = IF o \in Live /\ mVSyncEvent.timestamp /\ count[o] = 0 THEN -1 ELSE count[o]
  BY <1>1, <1>2 DEF Fired
<1>4. o \in signalled <=> o \in Live /\ (Due(o) \/ EventPending)
  BY <1>1 DEF signalConnections, Live, OneShotInv, TypeOK
<1>5. Due(o) <=> mVSyncEvent.timestamp /\ count[o] = 0
  BY DEF Due, OneShotInv
<1>6. EventPending => ~mVSyncEvent.timestamp /\ Head(mPendingEvents) # Vsync
  BY EventsAreApart DEF EventPending, OneShotInv, TypeOK
<1> HIDE DEF signalled
<1>7. Outstanding(o)' = Outstanding(o)
  <2>1. CASE signalled # {}
    <3>1. /\ thread'.at = "posting" /\ thread'.to = signalled
          /\ thread'.event = IF EventPending THEN Head(mPendingEvents) ELSE Vsync
      BY <1>2, <2>1
    <3>2. CASE o \in signalled /\ ~EventPending
      <4>1. count[o] = 0 /\ count'[o] = -1
        BY <1>3, <1>4, <1>5, <3>2
      <4>2. Outstanding(o)' = 1 /\ Outstanding(o) = 1
        BY <1>2, <3>1, <3>2, <4>1 DEF Outstanding
      <4> QED BY <4>2
    <3>3. CASE o \notin signalled \/ EventPending
      <4>1. count'[o] = count[o]
        BY <1>3, <1>4, <1>5, <1>6, <3>3
      <4>2. ~(o \in thread'.to /\ thread'.event = Vsync)
        BY <1>6, <3>1, <3>3
      <4> QED BY <1>2, <4>1, <4>2 DEF Outstanding
    <3> QED BY <3>2, <3>3
  <2>2. CASE signalled = {}
    <3>1. thread'.at # "posting"
      BY <1>2, <2>2 DEF At, Sleep
    <3>2. count'[o] = count[o]
      BY <1>3, <1>4, <1>5, <2>2
    <3> QED BY <1>2, <3>1, <3>2 DEF Outstanding
  <2> QED BY <2>1, <2>2
<1> QED BY <1>2, <1>3, <1>7 DEF OneShotInv, Client!clientVars

(* The event is sent, or its client has gone.                              *)
LEMMA PostImplements ==
  ASSUME OneShotInv, NEW c \in Connections, postEvent(c)
  PROVE  /\ count'[OneShotClient] \in {-1, 0}
         /\ OneShotClient \notin clients' =>
              count'[OneShotClient] = -1 /\ mChannel'[OneShotClient] = << >>
         /\ [Client!Next]_(Client!clientVars)
<1> DEFINE o == OneShotClient
<1>1. o \in Connections
  BY EventThreadAssumption DEF EventThreadAssumption
<1>2. /\ thread.at = "posting" /\ c \in thread.to
      /\ UNCHANGED <<clients, count, calls>>
      /\ c \in clients => mChannel' = IF Len(mChannel[c]) < TubeSize
                                      THEN [mChannel EXCEPT ![c] = Append(@, thread.event)]
                                      ELSE mChannel
      /\ c \notin clients => UNCHANGED mChannel
      /\ thread' = IF thread.to = {c} THEN At("loop") ELSE [thread EXCEPT !.to = @ \ {c}]
  BY DEF postEvent
<1>3. mChannel \in [Connections -> Seq(Event)] /\ thread.event \in Event
  BY <1>2, ThreadFields DEF OneShotInv, TypeOK
<1>4. /\ thread'.at = "posting" /\ o \in thread'.to /\ thread'.event = Vsync
           <=> o \in thread.to /\ o # c /\ thread.event = Vsync
  <2>1. CASE thread.to = {c}
    BY <1>2, <2>1 DEF At
  <2>2. CASE thread.to # {c}
    <3>1. thread \in [at: {"posting"}, event: Event, to: SUBSET Connections]
      BY <1>2, ThreadFields DEF OneShotInv, TypeOK
    <3> QED BY <1>2, <2>2, <3>1
  <2> QED BY <2>1, <2>2
<1>5. CASE c # o
  <2>1. mChannel'[o] = mChannel[o]
    BY <1>1, <1>2, <1>3, <1>5
  <2>2. Outstanding(o)' = Outstanding(o)
    BY <1>2, <1>4, <1>5 DEF Outstanding
  <2> QED BY <1>2, <2>1, <2>2 DEF OneShotInv, Client!clientVars
<1>6. CASE c = o /\ o \in clients
  <2>1. mChannel'[o] = IF Len(mChannel[o]) < TubeSize
                       THEN Append(mChannel[o], thread.event) ELSE mChannel[o]
    BY <1>1, <1>2, <1>3, <1>6
  <2>2. CASE thread.event = Vsync
    <3>1. Outstanding(o) > 0 /\ Outstanding(o)' = Outstanding(o) - 1
      BY <1>2, <1>4, <1>6, <2>2 DEF Outstanding
    <3>2. Client!answer
      BY <1>2, <1>6, <2>1, <2>2, <3>1 DEF Client!answer, Client!Sent
    <3> QED BY <1>2, <1>6, <3>2 DEF OneShotInv, Client!Next
  <2>3. CASE thread.event # Vsync
    <3>1. Outstanding(o)' = Outstanding(o)
      BY <1>2, <1>4, <2>3 DEF Outstanding
    <3>2. thread.event \in Hotplug
      BY <1>3, <2>3, EventsAreApart
    <3>3. Client!notify
      BY <1>2, <1>6, <2>1, <3>1, <3>2 DEF Client!notify, Client!Sent
    <3> QED BY <1>2, <1>6, <3>3 DEF OneShotInv, Client!Next
  <2> QED BY <2>2, <2>3
<1>7. CASE c = o /\ o \notin clients
  <2>1. mChannel'[o] = << >> /\ count'[o] = -1
    BY <1>2, <1>7 DEF OneShotInv
  <2>2. Outstanding(o)' \in 0 .. Outstanding(o)
    BY <1>2, <1>4, <1>7 DEF Outstanding
  <2> QED BY <1>2, <1>7, <2>1, <2>2 DEF Client!Next, Client!disconnect
<1> QED BY <1>5, <1>6, <1>7

(* No other step changes what the client sees.                             *)
LEMMA OthersImplement ==
  ASSUME OneShotInv,
         \/ UNCHANGED etVars
         \/ \E freed \in BOOLEAN : onScreen(freed)
         \/ onHotplugReceived \/ SourceNext \/ FakeVsync \/ Timeout
  PROVE  UNCHANGED <<clients, count, mChannel>> /\ UNCHANGED Client!clientVars
<1>1. UNCHANGED <<clients, count, mChannel, calls>>
  BY DEF etVars, onScreen, onHotplugReceived, SourceNext, gatherCallbackInvocations,
         onVSyncEvent, FakeVsync, Timeout
<1>2. CASE Broadcast
  BY <1>1, <1>2, BroadcastAnswersNothing DEF Client!clientVars
<1>3. CASE thread' = thread
  BY <1>1, <1>3 DEF Client!clientVars, Outstanding
<1>4. CASE thread.at # "posting" /\ thread'.at # "posting"
  BY <1>1, <1>4 DEF Client!clientVars, Outstanding
<1>5. Broadcast \/ thread' = thread \/ (thread.at # "posting" /\ thread'.at # "posting")
  BY DEF etVars, onScreen, onHotplugReceived, SourceNext, gatherCallbackInvocations,
         onVSyncEvent, FakeVsync, Timeout, At
<1> QED BY <1>1, <1>2, <1>3, <1>4, <1>5

(* Each request for a vsync is answered by one event, and no vsync event   *)
(* comes unasked, through fake and late vsyncs, hotplugs and the screen    *)
(* going off, whatever other clients do (EventThread.cpp:95-280).          *)
THEOREM RequestsAreAnsweredOnce == Spec => OneShotSpec
<1>1. Init => OneShotInv /\ Client!Init
  <2> SUFFICES ASSUME Init PROVE OneShotInv /\ Client!Init
    OBVIOUS
  <2>1. OneShotClient \in Connections
    BY EventThreadAssumption DEF EventThreadAssumption
  <2> QED BY <2>1, TypeInit DEF Init, OneShotInv, Client!Init, Outstanding, At
<1>2. OneShotInv /\ TypeOK' /\ [Next]_etVars =>
        OneShotInv' /\ [Client!Next]_(Client!clientVars)
  <2> SUFFICES ASSUME OneShotInv, TypeOK', [Next]_etVars
               PROVE  OneShotInv' /\ [Client!Next]_(Client!clientVars)
    OBVIOUS
  <2>1. CASE \/ UNCHANGED etVars
             \/ \E freed \in BOOLEAN : onScreen(freed)
             \/ onHotplugReceived \/ SourceNext \/ FakeVsync \/ Timeout
    BY <2>1, OthersImplement DEF OneShotInv
  <2>2. CASE ClientNext
    BY <2>2, ClientsImplement DEF ClientNext, OneShotInv
  <2>3. CASE waitForEvent
    BY <2>3, LoopImplements DEF OneShotInv
  <2>4. CASE \E c \in Connections : postEvent(c)
    BY <2>4, PostImplements DEF OneShotInv
  <2> QED BY <2>1, <2>2, <2>3, <2>4 DEF Next, ThreadNext
<1> QED BY <1>1, <1>2, TypeCorrect, PTL DEF Spec, OneShotSpec, Client!Spec

-----------------------------------------------------------------------------
(***************************************************************************)
(* Hardware vsync is on only while the display can send it, and the        *)
(* hardware is told: proofs for any number of samples, build and schedule. *)
(***************************************************************************)

(* The main thread turns hardware vsync on when the display has its power. *)
PoweredOn == main.at = "acquired" => mPowerMode = "on"

(* What EventControlThread keeps in its local variable is what it told the *)
(* hardware last, but a hardware composer may have been turned off since.  *)
ControlInv ==
  /\ control \in [at: {"starting", "waiting", "signalled"},
                  vsyncEnabled: BOOLEAN]
  /\ ectVsyncEnabled \in BOOLEAN /\ mPrimaryHWVsyncEnabled \in BOOLEAN
  /\ events \in BOOLEAN /\ mHwc \in BOOLEAN
  /\ ectVsyncEnabled = mPrimaryHWVsyncEnabled
  /\ control.at = "waiting" => control.vsyncEnabled = ectVsyncEnabled
  /\ control.at # "starting" =>
       /\ events = TRUE => control.vsyncEnabled = TRUE
       /\ mHwc = FALSE => events = control.vsyncEnabled

-----------------------------------------------------------------------------
(* The request to the thread.                                              *)
LEMMA SetVsyncKeepsControl ==
  ASSUME ControlInv, NEW enabled \in BOOLEAN,
         setVsyncEnabled(enabled), mPrimaryHWVsyncEnabled' = enabled,
         UNCHANGED <<events, mHwc>>
  PROVE  ControlInv'
<1>1. CASE control.at = "waiting"
  BY <1>1 DEF ControlInv, setVsyncEnabled
<1>2. CASE control.at # "waiting"
  BY <1>2 DEF ControlInv, setVsyncEnabled
<1>. QED  BY <1>1, <1>2

(* Enabling asks the thread and notes it.                                  *)
LEMMA EnableKeepsControl ==
  ASSUME ControlInv, enableHardwareVsync, UNCHANGED <<events, mHwc>>
  PROVE  ControlInv'
<1>1. CASE ~mPrimaryHWVsyncEnabled /\ mHWVsyncAvailable
  BY <1>1, SetVsyncKeepsControl DEF enableHardwareVsync
<1>2. CASE ~(~mPrimaryHWVsyncEnabled /\ mHWVsyncAvailable)
  BY <1>2 DEF enableHardwareVsync, ControlInv, controlVars, flagVars
<1>. QED  BY <1>1, <1>2

(* So does disabling.                                                      *)
LEMMA DisableKeepsControl ==
  ASSUME ControlInv, NEW unavailable \in BOOLEAN,
         disableHardwareVsync(unavailable), UNCHANGED <<events, mHwc>>
  PROVE  ControlInv'
<1>1. CASE mPrimaryHWVsyncEnabled
  BY <1>1, SetVsyncKeepsControl DEF disableHardwareVsync
<1>2. CASE ~mPrimaryHWVsyncEnabled
  BY <1>2 DEF disableHardwareVsync, ControlInv, controlVars
<1>. QED  BY <1>1, <1>2

-----------------------------------------------------------------------------
(* ControlInv is inductive.                                                *)
LEMMA ControlInit == HwInit => ControlInv
<1>. SUFFICES ASSUME HwInit PROVE ControlInv
  OBVIOUS
<1>1. /\ control = [at |-> "starting", vsyncEnabled |-> FALSE]
      /\ ectVsyncEnabled = FALSE /\ mPrimaryHWVsyncEnabled = FALSE
      /\ events = FALSE /\ mHwc \in BOOLEAN
  BY DEF HwInit
<1>. QED  BY <1>1 DEF ControlInv

(* ControlInv is inductive.                                                *)
LEMMA ControlStep ==
  ASSUME ControlInv, [HwNext]_hvVars
  PROVE  ControlInv'
<1>1. CASE UNCHANGED hvVars
  BY <1>1 DEF hvVars, flagVars, controlVars, ControlInv
<1>2. CASE HwNext
  <2>0. UNCHANGED mHwc
    BY <1>2 DEF HwNext, SameBuild
  <2>1. CASE turnOff
    BY <2>0, <2>1, DisableKeepsControl DEF turnOff
  <2>2. CASE resyncAfterPowerOn
    <3>1. CASE mPrimaryHWVsyncEnabled
      BY <2>0, <2>2, <3>1
      DEF resyncAfterPowerOn, resyncToHardwareVsync, ControlInv, controlVars
    <3>2. CASE ~mPrimaryHWVsyncEnabled
      BY <2>0, <2>2, <3>2, SetVsyncKeepsControl
      DEF resyncAfterPowerOn, resyncToHardwareVsync
    <3>. QED  BY <3>1, <3>2
  <2>3. CASE powerDown
    BY <2>0, <2>3 DEF powerDown, ControlInv, controlVars, flagVars
  <2>4. CASE afterPresent
    BY <2>0, <2>4, EnableKeepsControl, DisableKeepsControl
    DEF afterPresent
  <2>5. CASE afterComposition
    <3>1. CASE kIgnorePresentFences /\ mPowerMode = "on"
      BY <2>0, <2>5, <3>1, EnableKeepsControl DEF afterComposition
    <3>2. CASE ~(kIgnorePresentFences /\ mPowerMode = "on")
      BY <2>0, <2>5, <3>2
      DEF afterComposition, ControlInv, controlVars, flagVars
    <3>. QED  BY <3>1, <3>2
  <2>6. CASE afterSample
    BY <2>0, <2>6, EnableKeepsControl, DisableKeepsControl DEF afterSample
  <2>7. CASE startControl
    BY <2>0, <2>7 DEF startControl, ControlInv, flagVars
  <2>8. CASE controlLoop
    BY <2>0, <2>8 DEF controlLoop, ControlInv, flagVars
  <2>9. CASE turnOn \/ addPresentFence \/ composedWithoutFence
             \/ setListeners \/ vsync \/ onVSyncReceived
    BY <2>0, <2>9
    DEF turnOn, addPresentFence, composedWithoutFence, setListeners, vsync,
        onVSyncReceived, ControlInv, controlVars, flagVars
  <2>. QED
    BY <1>2, <2>1, <2>2, <2>3, <2>4, <2>5, <2>6, <2>7, <2>8, <2>9
    DEF HwNext, MainNext, ControlNext, VsyncNext
<1>. QED  BY <1>1, <1>2

(* The hardware follows what SurfaceFlinger wants (the local variable of   *)
(* EventControlThread::threadLoop), for every schedule of the threads.     *)
THEOREM ControlFollows == HwSpec => []HardwareFollows
<1>1. HwSpec => []ControlInv
  BY ControlInit, ControlStep, PTL DEF HwSpec
<1>2. ControlInv => HardwareFollows
  BY DEF ControlInv, HardwareFollows
<1>. QED  BY <1>1, <1>2, PTL

-----------------------------------------------------------------------------
(* Hardware vsync is enabled only while it is available, and available     *)
(* only while the display is on: decisions of addPresentFence and          *)
(* addResyncSample that come late change nothing.                          *)
AvailableInv == OnlyWhenAvailable /\ PoweredOn

(* AvailableInv is inductive.                                              *)
LEMMA AvailableStep ==
  ASSUME AvailableInv, [HwNext]_hvVars
  PROVE  AvailableInv'
<1>1. CASE UNCHANGED hvVars
  BY <1>1 DEF hvVars, flagVars, AvailableInv, OnlyWhenAvailable, PoweredOn
<1>2. CASE HwNext
  <2>. USE DEF AvailableInv, OnlyWhenAvailable, PoweredOn, flagVars, HwAt
  <2>1. CASE turnOn
    BY <2>1 DEF turnOn
  <2>2. CASE turnOff
    BY <2>2 DEF turnOff, disableHardwareVsync
  <2>3. CASE resyncAfterPowerOn
    BY <2>3 DEF resyncAfterPowerOn, resyncToHardwareVsync
  <2>4. CASE powerDown \/ addPresentFence \/ composedWithoutFence
    BY <2>4 DEF powerDown, addPresentFence, composedWithoutFence
  <2>5. CASE afterPresent
    BY <2>5 DEF afterPresent, enableHardwareVsync, disableHardwareVsync
  <2>6. CASE afterComposition
    BY <2>6 DEF afterComposition, enableHardwareVsync
  <2>7. CASE afterSample
    BY <2>7 DEF afterSample, enableHardwareVsync, disableHardwareVsync
  <2>8. CASE setListeners \/ startControl \/ controlLoop \/ vsync
             \/ onVSyncReceived
    BY <2>8 DEF setListeners, startControl, controlLoop, vsync,
                onVSyncReceived
  <2>. QED
    BY <1>2, <2>1, <2>2, <2>3, <2>4, <2>5, <2>6, <2>7, <2>8
    DEF HwNext, MainNext, ControlNext, VsyncNext
<1>. QED  BY <1>1, <1>2

(* Hardware vsync is enabled only while it is available                    *)
(* (SurfaceFlinger.cpp:843-900).                                           *)
THEOREM EnabledOnlyWhenAvailable == HwSpec => []OnlyWhenAvailable
<1>1. HwInit => AvailableInv
  BY DEF HwInit, HwAt, AvailableInv, OnlyWhenAvailable, PoweredOn
<1>2. HwSpec => []AvailableInv
  BY <1>1, AvailableStep, PTL DEF HwSpec
<1>3. AvailableInv => OnlyWhenAvailable
  BY DEF AvailableInv
<1>. QED  BY <1>2, <1>3, PTL

-----------------------------------------------------------------------------
(***************************************************************************)
(* Theorems about Surfaces, for any number of applications and surfaces.   *)
(*                                                                         *)
(* Three ways lead to the removal of a layer (destroySurface, the last     *)
(* reference to its handle, the last reference to its Client), and they    *)
(* come in any order.  What keeps it a single removal is that each of them *)
(* lists only what is in the current state, and that a layer gets there in *)
(* two ways only: a surface is created once, before any of the other sets  *)
(* has heard of it, and a transaction that brings it back is recorded in   *)
(* `relisted'.                                                             *)
(***************************************************************************)

(* What has not been created is in no set of SurfaceFlinger's.             *)
FreshIsNowhere ==
  \A s \in SurfaceIds : surface[s] \in {"none", "requested"} =>
    s \notin mCurrentState \union ToSet(mLayersPendingRemoval) \union abandoned
               \union layerAlive \union messages

(* Until the application has the reply, the layer is held by it.           *)
CreatedIsAlive ==
  \A s \in SurfaceIds : surface[s] = "created" => s \in layerAlive

(* Surfaces and messages have the shape they are used with.                *)
SurfacesTypeInv ==
  /\ DOMAIN surface = SurfaceIds
  /\ mCurrentState \subseteq SurfaceIds /\ IsFiniteSet(mCurrentState)
  /\ mLayersPendingRemoval \in Seq(SurfaceIds)

(* The inductive invariant of surfaces.                                    *)
SurfacesInv ==
  /\ SurfacesTypeInv
  /\ FreshIsNowhere
  /\ CreatedIsAlive
  /\ GoneIsGone

-----------------------------------------------------------------------------
(* removeLayers lists what was current, once, and takes it off the current *)
(* state.                                                                  *)
LEMMA RemovalListsOnce ==
  ASSUME SurfacesTypeInv, RemovedOnce, NEW layers, removeLayers(layers)
  PROVE  /\ mLayersPendingRemoval' \in Seq(SurfaceIds)
         /\ \A i, j \in DOMAIN mLayersPendingRemoval' :
              mLayersPendingRemoval'[i] = mLayersPendingRemoval'[j] /\ i # j =>
                mLayersPendingRemoval'[i] \in relisted
         /\ ToSet(mLayersPendingRemoval') =
              ToSet(mLayersPendingRemoval) \union (layers \intersect mCurrentState)
         /\ mCurrentState' = mCurrentState \ layers
         /\ IsFiniteSet(mCurrentState')
<1> DEFINE Gone == layers \intersect mCurrentState
<1>1. IsFiniteSet(Gone) /\ IsFiniteSet(mCurrentState \ layers)
  <2>1. Gone \in SUBSET mCurrentState /\ mCurrentState \ layers \in SUBSET mCurrentState
    OBVIOUS
  <2> QED BY <2>1, FS_Subset DEF SurfacesTypeInv
<1>2. /\ SetToSeq(Gone) \in Seq(Gone) /\ IsInjective(SetToSeq(Gone))
      /\ ToSet(SetToSeq(Gone)) = Gone
  BY <1>1, SetToSeqProperties
<1>3. SetToSeq(Gone) \in Seq(SurfaceIds)
  <2>1. Gone \subseteq SurfaceIds  BY DEF SurfacesTypeInv
  <2> QED BY <1>2, <2>1, SeqMonotonic
<1>4. mLayersPendingRemoval \in Seq(SurfaceIds)  BY DEF SurfacesTypeInv
<1>5. ToSet(mLayersPendingRemoval) \intersect ToSet(SetToSeq(Gone)) \subseteq relisted
  BY <1>2 DEF RemovedOnce
<1>6. mLayersPendingRemoval' = mLayersPendingRemoval \o SetToSeq(Gone)
  BY DEF removeLayers
<1>7. mLayersPendingRemoval' \in Seq(SurfaceIds)
  BY <1>3, <1>4, <1>6, ConcatProperties
<1>8. ASSUME NEW i \in DOMAIN mLayersPendingRemoval', NEW j \in DOMAIN mLayersPendingRemoval',
             mLayersPendingRemoval'[i] = mLayersPendingRemoval'[j], i # j
      PROVE  mLayersPendingRemoval'[i] \in relisted
  <2> DEFINE p == mLayersPendingRemoval
             q == SetToSeq(Gone)
  <2>0. /\ p \in Seq(SurfaceIds) /\ q \in Seq(SurfaceIds) /\ IsInjective(q)
        /\ ToSet(p) \intersect ToSet(q) \subseteq relisted
    BY <1>2, <1>3, <1>4, <1>5
  <2>1. \A k, l \in 1..Len(p) : p[k] = p[l] /\ k # l => p[k] \in relisted
    BY <1>4 DEF RemovedOnce
  <2>2. \A k, l \in 1..Len(q) : q[k] = q[l] => k = l
    <3> HIDE DEF q
    <3> QED BY <2>0 DEF IsInjective
  <2>3. \A k \in 1..Len(p), l \in 1..Len(q) : p[k] = q[l] => p[k] \in relisted
    <3> HIDE DEF p, q
    <3> QED BY <2>0 DEF ToSet
  <2>4. /\ i \in 1..(Len(p) + Len(q)) /\ j \in 1..(Len(p) + Len(q))
        /\ \A k \in 1..(Len(p) + Len(q)) :
             mLayersPendingRemoval'[k] = IF k <= Len(p) THEN p[k] ELSE q[k - Len(p)]
    BY <1>3, <1>4, <1>6, ConcatProperties
  <2>5. Len(p) \in Nat /\ Len(q) \in Nat  BY <1>3, <1>4
  <2> HIDE DEF p, q
  <2>6. CASE i <= Len(p) /\ j <= Len(p)
    BY <1>8, <2>1, <2>4, <2>5, <2>6
  <2>7. CASE i <= Len(p) /\ j > Len(p)
    <3>1. j - Len(p) \in 1..Len(q) /\ i \in 1..Len(p)  BY <2>4, <2>5, <2>7
    <3> QED BY <1>8, <2>3, <2>4, <2>5, <2>7, <3>1
  <2>8. CASE i > Len(p) /\ j <= Len(p)
    <3>1. i - Len(p) \in 1..Len(q) /\ j \in 1..Len(p)  BY <2>4, <2>5, <2>8
    <3> QED BY <1>8, <2>3, <2>4, <2>5, <2>8, <3>1
  <2>9. CASE i > Len(p) /\ j > Len(p)
    <3>1. /\ i - Len(p) \in 1..Len(q) /\ j - Len(p) \in 1..Len(q)
          /\ i - Len(p) # j - Len(p)
      BY <1>8, <2>4, <2>5, <2>9
    <3> QED BY <1>8, <2>2, <2>4, <2>9, <3>1
  <2> QED BY <2>4, <2>5, <2>6, <2>7, <2>8, <2>9
<1>9. ToSet(mLayersPendingRemoval') = ToSet(mLayersPendingRemoval) \union Gone
  <2>1. ToSet(mLayersPendingRemoval \o SetToSeq(Gone)) =
          ToSet(mLayersPendingRemoval) \union ToSet(SetToSeq(Gone))
    BY <1>3, <1>4, ToSetConcat
  <2> QED BY <1>2, <1>6, <2>1
<1> QED BY <1>1, <1>7, <1>8, <1>9 DEF removeLayers

(* A step that removes layers, and at most lets go of a surface, keeps the *)
(* invariant: destroySurface, the handle's and the Client's release.       *)
LEMMA RemovalKeepsInv ==
  ASSUME SurfacesInv, NEW layers, removeLayers(layers),
         UNCHANGED <<relisted, lifeVars>>,
         DOMAIN surface' = SurfaceIds,
         \A s \in SurfaceIds : \/ surface'[s] = surface[s]
                               \/ surface[s] = "valid" /\ surface'[s] = "gone"
  PROVE  SurfacesInv'
<1> USE DEF SurfacesInv, lifeVars
<1>1. /\ mLayersPendingRemoval' \in Seq(SurfaceIds)
      /\ \A i, j \in DOMAIN mLayersPendingRemoval' :
           mLayersPendingRemoval'[i] = mLayersPendingRemoval'[j] /\ i # j =>
             mLayersPendingRemoval'[i] \in relisted
      /\ ToSet(mLayersPendingRemoval') =
           ToSet(mLayersPendingRemoval) \union (layers \intersect mCurrentState)
      /\ mCurrentState' = mCurrentState \ layers
      /\ IsFiniteSet(mCurrentState')
  BY RemovalListsOnce DEF GoneIsGone
<1>2. SurfacesTypeInv'
  BY <1>1 DEF SurfacesTypeInv
<1>3. FreshIsNowhere'
  <2> SUFFICES ASSUME NEW s \in SurfaceIds, surface'[s] \in {"none", "requested"}
               PROVE  s \notin mCurrentState' \union ToSet(mLayersPendingRemoval')
                        \union abandoned' \union layerAlive' \union messages'
    BY DEF FreshIsNowhere
  <2>1. surface[s] \in {"none", "requested"}  OBVIOUS
  <2> QED BY <1>1, <2>1 DEF FreshIsNowhere
<1>4. CreatedIsAlive'
  BY DEF CreatedIsAlive
<1>5. RemovedOnce'
  BY <1>1 DEF GoneIsGone, RemovedOnce
<1>6. NoneSlipsAway'
  BY <1>1 DEF GoneIsGone, NoneSlipsAway
<1>7. ProducersAreKnown'
  BY DEF GoneIsGone, ProducersAreKnown
<1> QED BY <1>2, <1>3, <1>4, <1>5, <1>6, <1>7 DEF GoneIsGone

(* The application's calls.                                                *)
LEMMA AppKeepsInv ==
  ASSUME SurfacesInv, NEW a \in Apps, onFirstRef(a) \/ dispose(a) \/ appDies(a)
  PROVE  SurfacesInv'
<1> USE DEF SurfacesInv, SurfacesTypeInv, FreshIsNowhere, CreatedIsAlive,
            GoneIsGone, RemovedOnce, NoneSlipsAway, ProducersAreKnown
<1>1. CASE onFirstRef(a) \/ dispose(a)
  BY <1>1 DEF onFirstRef, dispose, stateVars, lifeVars
<1>2. CASE appDies(a)
  <2>1. UNCHANGED <<stateVars, lifeVars>>
    BY <1>2 DEF appDies
  <2>2. /\ DOMAIN surface' = SurfaceIds
        /\ \A s \in SurfaceIds : \/ surface'[s] = surface[s]
                                 \/ surface[s] = "valid" /\ surface'[s] = "gone"
    BY <1>2 DEF appDies
  <2> QED BY <2>1, <2>2 DEF stateVars, lifeVars
<1> QED BY <1>1, <1>2

(* createSurface, the layer's creation and the reply.                      *)
LEMMA CreationKeepsInv ==
  ASSUME SurfacesInv, NEW s \in SurfaceIds,
         createSurface(s) \/ createLayer(s) \/ replyToCreate(s)
  PROVE  SurfacesInv'
<1> USE DEF SurfacesInv, SurfacesTypeInv, FreshIsNowhere, CreatedIsAlive,
            GoneIsGone, RemovedOnce, NoneSlipsAway, ProducersAreKnown
<1>1. CASE createSurface(s)
  BY <1>1 DEF createSurface, stateVars, lifeVars
<1>2. CASE createLayer(s)
  <2>1. s \notin mCurrentState \union ToSet(mLayersPendingRemoval) \union abandoned
             \union layerAlive \union messages
    BY <1>2 DEF createLayer
  <2>2. mCurrentState' = mCurrentState \union {s} /\ IsFiniteSet(mCurrentState')
    BY <1>2, FS_AddElement DEF createLayer
  <2> QED BY <1>2, <2>1, <2>2 DEF createLayer
<1>3. CASE replyToCreate(s)
  <2>1. s \in layerAlive  BY <1>3 DEF replyToCreate
  <2>2. UNCHANGED <<stateVars, lifeVars>>  BY <1>3 DEF replyToCreate
  <2>3. /\ DOMAIN surface' = SurfaceIds
        /\ surface[s] = "created" /\ surface'[s] \in {"valid", "lost"}
        /\ \A q \in SurfaceIds \ {s} : surface'[q] = surface[q]
    BY <1>3 DEF replyToCreate
  <2> QED BY <2>1, <2>2, <2>3 DEF stateVars, lifeVars
<1> QED BY <1>1, <1>2, <1>3

(* The ways to remove a layer.                                             *)
LEMMA WaysToRemoveKeepInv ==
  ASSUME SurfacesInv,
         \/ \E s \in SurfaceIds : destroySurface(s) \/ handleReleased(s)
         \/ \E a \in Apps : clientReleased(a)
  PROVE  SurfacesInv'
<1>0. DOMAIN surface = SurfaceIds  BY DEF SurfacesInv, SurfacesTypeInv
<1>1. ASSUME NEW s \in SurfaceIds, destroySurface(s) PROVE SurfacesInv'
  <2>1. PICK layers : removeLayers(layers)  BY <1>1 DEF destroySurface
  <2>2. /\ UNCHANGED <<relisted, lifeVars>> /\ DOMAIN surface' = SurfaceIds
        /\ \A q \in SurfaceIds : \/ surface'[q] = surface[q]
                                 \/ surface[q] = "valid" /\ surface'[q] = "gone"
    BY <1>0, <1>1 DEF destroySurface
  <2> QED BY <2>1, <2>2, RemovalKeepsInv
<1>2. ASSUME NEW s \in SurfaceIds, handleReleased(s) PROVE SurfacesInv'
  <2>1. removeLayers({s} \intersect layerAlive)
    BY <1>2 DEF handleReleased, onLayerDestroyed
  <2>2. /\ UNCHANGED <<relisted, lifeVars>> /\ surface' = surface
    BY <1>2 DEF handleReleased, appVars
  <2> QED BY <1>0, <2>1, <2>2, RemovalKeepsInv
<1>3. ASSUME NEW a \in Apps, clientReleased(a) PROVE SurfacesInv'
  <2>1. removeLayers(LayerUsers(a))  BY <1>3 DEF clientReleased
  <2>2. /\ UNCHANGED <<relisted, lifeVars>> /\ surface' = surface
    BY <1>3 DEF clientReleased, appVars
  <2> QED BY <1>0, <2>1, <2>2, RemovalKeepsInv
<1> QED BY <1>1, <1>2, <1>3

(* A transaction that reaches the layer, listed or not.                    *)
LEMMA RelistingKeepsInv ==
  ASSUME SurfacesInv, NEW s \in SurfaceIds, setLayer(s)
  PROVE  SurfacesInv'
<1> USE DEF SurfacesInv, SurfacesTypeInv, FreshIsNowhere, CreatedIsAlive,
            GoneIsGone, RemovedOnce, NoneSlipsAway, ProducersAreKnown
<1>1. /\ surface[s] \in {"valid", "gone"}
      /\ mCurrentState' = mCurrentState \union {s}
      /\ relisted' = relisted \union ({s} \ mCurrentState)
      /\ UNCHANGED <<appVars, mLayersPendingRemoval, lifeVars>>
  BY DEF setLayer
<1>2. IsFiniteSet(mCurrentState')
  BY <1>1, FS_AddElement
<1> QED BY <1>1, <1>2 DEF appVars, lifeVars

(* What the removal leads to: the commit, the layer's destruction and the  *)
(* cleaning of the list.                                                   *)
LEMMA EndingsKeepInv ==
  ASSUME SurfacesInv,
         \/ commitTransaction
         \/ \E s \in SurfaceIds : layerDestroyed(s) \/ cleanUpList(s)
  PROVE  SurfacesInv'
<1> USE DEF SurfacesInv, SurfacesTypeInv, FreshIsNowhere, CreatedIsAlive,
            GoneIsGone, RemovedOnce, NoneSlipsAway, ProducersAreKnown
<1>1. CASE commitTransaction
  <2>1. /\ abandoned' = abandoned \union ToSet(mLayersPendingRemoval)
        /\ mLayersPendingRemoval' = << >>
        /\ UNCHANGED <<appVars, mCurrentState, relisted, layerAlive,
                       mGraphicBufferProducerList, messages>>
    BY <1>1 DEF commitTransaction
  <2>2. ToSet(mLayersPendingRemoval') = {} /\ DOMAIN mLayersPendingRemoval' = {}
    BY <2>1, ToSetEmpty
  <2>3. mLayersPendingRemoval' \in Seq(SurfaceIds)
    BY <2>1, ToSetEmpty
  <2> QED BY <2>1, <2>2, <2>3 DEF appVars
<1>2. ASSUME NEW s \in SurfaceIds, layerDestroyed(s) PROVE SurfacesInv'
  <2>1. /\ layerAlive' = layerAlive \ {s} /\ surface[s] # "created"
        /\ s \in layerAlive
        /\ messages' = messages \union {s}
        /\ UNCHANGED <<appVars, stateVars, abandoned, mGraphicBufferProducerList>>
    BY <1>2 DEF layerDestroyed
  <2> QED BY <2>1 DEF appVars, stateVars
<1>3. ASSUME NEW s \in SurfaceIds, cleanUpList(s) PROVE SurfacesInv'
  BY <1>3 DEF cleanUpList, stateVars, appVars
<1> QED BY <1>1, <1>2, <1>3

-----------------------------------------------------------------------------
(* A layer is removed once, unless a late transaction brought it back; none*)
(* leaves without its consumer being abandoned, and its producer is known  *)
(* as long as it lives: in whatever order handle, Client and transactions  *)
(* go and whatever the applications do (SurfaceFlinger.cpp:2047-2071,      *)
(* 2229-2239, MonitoredProducer.cpp:27-53).                                *)
THEOREM RemovedSurfacesStayGone == SurfacesSpec => []GoneIsGone
<1>1. SurfacesInit => SurfacesInv
  BY ToSetEmpty, FS_EmptySet
  DEF SurfacesInit, SurfacesInv, SurfacesTypeInv, FreshIsNowhere, CreatedIsAlive,
      GoneIsGone, RemovedOnce, NoneSlipsAway, ProducersAreKnown
<1>2. SurfacesInv /\ [SurfacesNext]_surfacesVars => SurfacesInv'
  <2> SUFFICES ASSUME SurfacesInv, [SurfacesNext]_surfacesVars PROVE SurfacesInv'
    OBVIOUS
  <2>1. CASE SurfacesNext
    BY <2>1, AppKeepsInv, CreationKeepsInv, RelistingKeepsInv, WaysToRemoveKeepInv,
       EndingsKeepInv
    DEF SurfacesNext, FlingerNext
  <2>2. CASE UNCHANGED surfacesVars
    BY <2>2
    DEF surfacesVars, appVars, stateVars, lifeVars, SurfacesInv, SurfacesTypeInv,
        FreshIsNowhere, CreatedIsAlive, GoneIsGone, RemovedOnce, NoneSlipsAway,
        ProducersAreKnown
  <2> QED BY <2>1, <2>2
<1>3. SurfacesInv => GoneIsGone
  BY DEF SurfacesInv
<1> QED BY <1>1, <1>2, <1>3, PTL DEF SurfacesSpec
=============================================================================
