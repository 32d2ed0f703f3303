-------------------------- MODULE MCSurfaceFlinger --------------------------
(* Constants of the runs of SurfaceFlinger. *)
EXTENDS SurfaceFlinger

TwoSizes == {1, 2}
OneValue == {0}
TwoValues == {0, 1}

Change(l, what, value) == [layer |-> l, change |-> [what |-> what, value |-> value]]

Call(changes, sync, anim) ==
  [changes |-> changes, eSynchronous |-> sync, eAnimation |-> anim]

MCCalls ==
  {Call({Change(FirstLayer, "size", 2)}, sync, ~sync) : sync \in BOOLEAN}
  \union
  {Call({Change(FirstLayer, "alpha", 1)}, FALSE, TRUE),
   Call({Change(FirstLayer, "z", 1), Change(FirstLayer, "alpha", 0)}, FALSE, TRUE)}

MCFrameKinds == {[scales |-> FALSE, due |-> 0, droppable |-> FALSE],
                 [scales |-> TRUE, due |-> 1, droppable |-> TRUE]}
=============================================================================
