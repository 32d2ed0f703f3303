------------------------------- MODULE MCParts -------------------------------
(***************************************************************************)
(* Instances for TLC of the parts that act when they are called: the       *)
(* displays, the surface of a virtual display, the transactions of a       *)
(* client, the calls over Binder, DispSync and the ring of VideoShare.     *)
(* They share no state, so a behaviour is one of one of them: `part' tells *)
(* whose, and the others stay as they began.                               *)
(***************************************************************************)
EXTENDS Displays, VirtualDisplaySurface, Composer, RemoteCalls, DispSync,
        DataBuffer

CONSTANTS
  p, e1, e2, v1, v2, s1, s2,  \* display tokens and layer stacks
  app, sf                     \* listeners of DispSync

TokenOrder == <<v1, p, e1, e2, v2>>
OrderOfOneVirtual == <<v1, p, e1, e2>>
View(s, n) == [stack |-> s, projection |-> n]
PrimaryView == View(s1, 0)
OtherView == View(NoStack, 0)
ViewsAway == {View(s1, 1)}
Views == {View(s1, 0), View(s2, 1), View(NoStack, 0)} \union ViewsAway

PhasesOfListeners == [l \in Listeners |-> IF l = app THEN 0 ELSE 1]
ModelsOfDisplay ==
  {[period |-> 4, phase |-> 0], [period |-> 4, phase |-> 3],
   [period |-> 5, phase |-> 1]}

VARIABLE part

partsVars == <<displayVars, vdsVars, composerVars, remoteVars, dsVars,
               ringBufferVars>>

PartsInit ==
  /\ part \in {"displays", "virtual", "composer", "calls", "sync", "ring"}
  /\ DisplaysInit /\ VdsInit /\ ComposerInit /\ RemoteInit /\ DsInit /\ RingInit

DisplaysPart ==
  part = "displays" /\ DisplaysNext
  /\ UNCHANGED <<vdsVars, composerVars, remoteVars, dsVars, ringBufferVars>>

VirtualPart ==
  part = "virtual" /\ VdsNext
  /\ UNCHANGED <<displayVars, composerVars, remoteVars, dsVars, ringBufferVars>>

ComposerPart ==
  part = "composer" /\ ComposerNext
  /\ UNCHANGED <<displayVars, vdsVars, remoteVars, dsVars, ringBufferVars>>

CallsPart ==
  part = "calls" /\ RemoteNext
  /\ UNCHANGED <<displayVars, vdsVars, composerVars, dsVars, ringBufferVars>>

SyncPart ==
  part = "sync" /\ DsNext
  /\ UNCHANGED <<displayVars, vdsVars, composerVars, remoteVars, ringBufferVars>>

RingPart ==
  part = "ring" /\ RingNext
  /\ UNCHANGED <<displayVars, vdsVars, composerVars, remoteVars, dsVars>>

PartsNext ==
  /\ UNCHANGED part
  /\ \/ DisplaysPart \/ VirtualPart \/ ComposerPart
     \/ CallsPart \/ SyncPart \/ RingPart

PartsSpec == PartsInit /\ [][PartsNext]_<<part, partsVars>>
=============================================================================
