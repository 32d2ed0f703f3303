---------------------------- MODULE VsyncClient ----------------------------
(***************************************************************************)
(* What a client of EventThread that asks for one vsync at a time may      *)
(* rely on (include/gui/DisplayEventReceiver.h:115-127): each request is   *)
(* answered by one vsync event, which is lost only if the client's tube is *)
(* full, and there is no vsync event without a request.  A request that    *)
(* finds another one waiting for its vsync has no effect.  Events come out *)
(* of the tube as they went in; other events come unasked.                 *)
(***************************************************************************)
EXTENDS Naturals, Sequences

CONSTANTS
  Capacity,    \* events a tube holds
  Answer,      \* the vsync event
  Unasked      \* the other events

VARIABLES
  connected,   \* the client holds its connection
  outstanding, \* requests not answered yet: one waiting for its vsync, and
               \* one whose event is about to be sent
  tube,        \* the events sent and not read
  calls        \* flips with each request that has an effect

clientVars == <<connected, outstanding, tube, calls>>

Init == ~connected /\ outstanding = 0 /\ tube = << >> /\ calls = FALSE

connect ==
  /\ ~connected /\ connected'
  /\ UNCHANGED <<outstanding, tube, calls>>

requestNextVsync ==
  /\ connected /\ connected'
  /\ outstanding < 2
  /\ outstanding' = outstanding + 1
  /\ calls' = ~calls
  /\ UNCHANGED tube

Sent(event) ==
  tube' = IF Len(tube) < Capacity THEN Append(tube, event) ELSE tube

answer ==
  /\ connected /\ connected'
  /\ outstanding > 0
  /\ outstanding' = outstanding - 1
  /\ Sent(Answer)
  /\ UNCHANGED calls

notify ==
  /\ connected /\ connected'
  /\ \E event \in Unasked : Sent(event)
  /\ UNCHANGED <<outstanding, calls>>

getEvents ==
  /\ connected /\ connected'
  /\ tube # << >>
  /\ tube' = Tail(tube)
  /\ UNCHANGED <<outstanding, calls>>

(* The client goes.  An event on its way to it is still outstanding. *)
disconnect ==
  /\ ~connected'
  /\ tube' = << >>
  /\ outstanding' \in 0 .. outstanding
  /\ UNCHANGED calls

Next == connect \/ requestNextVsync \/ answer \/ notify \/ getEvents \/ disconnect

Spec == Init /\ [][Next]_clientVars
=============================================================================
