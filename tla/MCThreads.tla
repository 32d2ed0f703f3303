------------------------------ MODULE MCThreads ------------------------------
(***************************************************************************)
(* Instances for TLC of the parts with threads or callbacks of their own:  *)
(* EventThread, the control of hardware vsync and the removal of surfaces. *)
(* They share no state, so a behaviour is one of one of them: `part' tells *)
(* whose, and the others stay as they began.                               *)
(***************************************************************************)
EXTENDS EventThread, HardwareVsync, Surfaces

CONSTANTS a1

Owners == [s \in SurfaceIds |-> a1]

VARIABLE part

threadsVars == <<etVars, hvVars, surfacesVars>>

ThreadsInit ==
  /\ part \in {"events", "vsync", "surfaces"}
  /\ Init /\ HwInit /\ SurfacesInit
  /\ part # "vsync" => mHwc /\ ~kIgnorePresentFences

EventsPart ==
  part = "events" /\ Next /\ UNCHANGED <<hvVars, surfacesVars>>

VsyncPart ==
  part = "vsync" /\ HwNext /\ UNCHANGED <<etVars, surfacesVars>>

SurfacesPart ==
  part = "surfaces" /\ SurfacesNext /\ UNCHANGED <<etVars, hvVars>>

(* A surface is created once; the other parts never stop.                  *)
AtBound == part = "surfaces" /\ UNCHANGED threadsVars

ThreadsNext ==
  /\ UNCHANGED part
  /\ EventsPart \/ VsyncPart \/ SurfacesPart \/ AtBound

(* The fairness of each part, as its own module has it.                    *)
ThreadsSpec ==
  /\ ThreadsInit /\ [][ThreadsNext]_<<part, threadsVars>>
  /\ WF_etVars(part = "events" /\ ThreadNext)
  /\ WF_etVars(part = "events" /\ Timeout)
  /\ WF_etVars(part = "events" /\ SourceNext)
  /\ WF_hvVars(part = "vsync" /\ MainNext /\ SameBuild)
  /\ WF_hvVars(part = "vsync" /\ ControlNext /\ SameBuild)
  /\ WF_hvVars(part = "vsync" /\ VsyncNext /\ SameBuild)
  /\ WF_surfacesVars(part = "surfaces" /\ FlingerNext)
=============================================================================
