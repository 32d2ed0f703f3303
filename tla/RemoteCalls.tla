---------------------------- MODULE RemoteCalls -----------------------------
(***************************************************************************)
(* Calls through the interfaces of module Interfaces: a thread of a        *)
(* client, a service that may die at any moment, the transaction between.  *)
(*                                                                         *)
(* What a read past the end of a parcel finds is a zero, and a result that *)
(* is zero is NO_ERROR; an item of another type than the one read gives    *)
(* rubbish.                                                                *)
(***************************************************************************)
EXTENDS Interfaces

CONSTANTS
  Called,           \* the interfaces whose calls are explored
  Widths            \* whether 64-bit values fit in 32 bits (FALSE), or not

VARIABLES
  service,          \* "alive" or "dead"
  call              \* the call in progress: its stage, method, parcels

remoteVars == <<service, call>>

Cases == [some : BOOLEAN, ok : BOOLEAN, wide : Widths]

Proxies(c) == [
  IGraphicBufferProducer |-> BpProducerBuffers(c) @@ BpProducerControls(c),
  IGraphicBufferConsumer |-> BpConsumerBuffers(c) @@ BpConsumerSettings(c),
  ISurfaceComposer |-> BpComposerScreen(c) @@ BpComposerDisplays(c),
  ISurfaceComposerClient |-> BpComposerClient,
  Listeners |-> BpListeners(c),
  IDisplayEventConnection |-> BpEventConnection,
  IGraphicBufferAlloc |-> BpGraphicBufferAlloc(c),
  Sensors |-> BpSensorServer(c) @@ BpSensorEventConnection,
  IVideoShare |-> BpVideoShare]

Stubs(c) == [
  IGraphicBufferProducer |-> BnProducerBuffers(c) @@ BnProducerControls(c),
  IGraphicBufferConsumer |-> BnGraphicBufferConsumer(c),
  ISurfaceComposer |-> BnComposerScreen(c) @@ BnComposerDisplays(c),
  ISurfaceComposerClient |-> BnComposerClient,
  Listeners |-> BnListeners(c),
  IDisplayEventConnection |-> BnEventConnection,
  IGraphicBufferAlloc |-> BnGraphicBufferAlloc(c),
  Sensors |-> BnSensorServer(c) @@ BnSensorEventConnection(c),
  IVideoShare |-> BnVideoShare]

Proxy == Proxies(call.c)[call.interface][call.method]
Stub == Stubs(call.c)[call.interface][call.method]

ValueOf(item) == IF item.of = "result" /\ call.c.ok THEN "zero" ELSE item.of

Read(parcel, layout) ==
  [i \in DOMAIN layout |->
     IF i \notin DOMAIN parcel THEN "zero"
     ELSE IF parcel[i].type # layout[i].type THEN "rubbish"
     ELSE ValueOf(parcel[i])]

(* A reply that never came: the flags in it read zero.                     *)
NothingRead ==
  LET c == [some |-> FALSE, ok |-> TRUE, wide |-> FALSE] IN
  Read(<< >>, Proxies(c)[call.interface][call.method].gets)

-----------------------------------------------------------------------------
RemoteInit ==
  /\ service = "alive"
  /\ call = [stage |-> "none"]

write ==
  /\ call.stage = "none"
  /\ \E i \in Called, c \in Cases :
       \E m \in DOMAIN Proxies(c)[i] :
         /\ m \in AlwaysSucceeds => c.ok
         /\ call' = [stage |-> "written", interface |-> i, method |-> m, c |-> c,
                     data |-> Proxies(c)[i][m].sends, executed |-> FALSE]
  /\ UNCHANGED service

(* onTransact: the arguments are read and the method is called.  InitParam *)
(* answers its own status for that of the transaction.                     *)
onTransact ==
  /\ call.stage = "written" /\ service = "alive"
  /\ call.method \in DOMAIN Stubs(call.c)[call.interface]
  /\ call' = [call EXCEPT !.stage = "executed", !.executed = TRUE]
             @@ [received |-> Read(call.data, Stub.reads),
                 reply |-> IF call.method = "InitParam" /\ ~call.c.ok
                           THEN << >> ELSE Stub.replies]
  /\ UNCHANGED service

Returned(error, results) ==
  [call EXCEPT !.stage = "returned"] @@ [error |-> error, results |-> results]

transactReturns ==
  /\ call.stage = "executed" /\ service = "alive"
  /\ call' = IF Proxy.oneway \/ (call.method = "InitParam" /\ ~call.c.ok)
             THEN Returned(~Proxy.oneway, << >>)
             ELSE Returned(FALSE, Read(call.reply, Proxy.gets))
  /\ UNCHANGED service

(* Mutant: the error of the transaction is not looked at.                  *)
NeverChecked == FALSE

ErrorIsReturned == Proxy.checked

(* The service has died, before or after it executed the call; it does not *)
(* know the code; or it does not permit it.                                *)
Refused ==
  /\ call.stage = "written"
  /\ \/ call.method \notin DOMAIN Stubs(call.c)[call.interface]
     \/ call.method \in NeedsPermission

transactFails ==
  /\ call.stage \in {"written", "executed"}
  /\ service = "dead" \/ Refused
  /\ call' = Returned(ErrorIsReturned,
                      IF ErrorIsReturned \/ Proxy.oneway THEN << >> ELSE NothingRead)
  /\ UNCHANGED service

goOn ==
  /\ call.stage = "returned"
  /\ call' = [stage |-> "none"]
  /\ UNCHANGED service

serviceDies ==
  /\ service = "alive"
  /\ service' = "dead"
  /\ UNCHANGED call

RemoteNext == write \/ onTransact \/ transactReturns \/ transactFails \/ goOn \/ serviceDies

RemoteSpec == RemoteInit /\ [][RemoteNext]_remoteVars

-----------------------------------------------------------------------------
(* The method is called with the arguments its caller gave, each in its    *)
(* place, and nothing of the parcel is left unread (the transact calls of  *)
(* the proxies against the readings of onTransact).                        *)
ArgumentsArrive ==
  call.stage = "executed" =>
    /\ Len(call.data) = Len(Stub.reads)
    /\ \A i \in DOMAIN Stub.reads :
         call.received[i] = ValueOf(Proxy.sends[i]) /\ Stub.reads[i].of = Proxy.sends[i].of

(* A call that came back through a living service gives its caller the     *)
(* results of the method; a missing result counts as NO_ERROR              *)
(* (ISurfaceComposer.cpp:531-540).                                         *)
ResultsArrive ==
  call.stage = "returned" /\ ~call.error /\ service = "alive" /\ call.executed
    /\ ~Proxy.oneway =>
      \A i \in DOMAIN Proxy.gets : call.results[i] = ValueOf(Proxy.gets[i])

(* A parcel is understood at the other end: arguments by the stub, results *)
(* by the proxy, value by value (the transact calls and onTransact of the  *)
(* interfaces of libgui and of IVideoShare).                               *)
ParcelsAreUnderstood == ArgumentsArrive /\ ResultsArrive

(* The caller of the two ends of a BufferQueue can believe NO_ERROR: the   *)
(* method has been executed (IGraphicBufferProducer.cpp:64-260).           *)
SuccessMeansDone ==
  call.stage = "returned" /\ ~call.executed
    /\ call.interface \in {"IGraphicBufferProducer", "IGraphicBufferConsumer"} =>
      \A i \in DOMAIN call.results :
        Proxy.gets[i].of = "result" => call.results[i] # "zero"
=============================================================================
