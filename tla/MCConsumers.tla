----------------------------- MODULE MCConsumers -----------------------------
(***************************************************************************)
(* One queue and its consumer: GLConsumer or FramebufferSurface ("image"), *)
(* CpuConsumer or BufferItemConsumer ("item").                             *)
(***************************************************************************)
EXTENDS GLConsumer, CpuConsumer, TLC

CONSTANTS
  small, large, LargeBuffers,
  MaxItemFrames  \* frames a producer queues for an "item" consumer

Sized == [b \in Buffers |-> IF b \in LargeBuffers THEN large ELSE small]
Symmetry ==
       Permutations(LargeBuffers) \cup Permutations(Buffers \ LargeBuffers)
  \cup Permutations(Producers) \cup Permutations(Contexts)
  \cup Permutations(Threads)

VARIABLE kind

imageVars == <<isTexture, contextVars, currentVars, updating, reading>>

MCInit ==
  /\ GlInit /\ CpuInit
  /\ kind \in {"image", "item"}
  /\ kind = "image" => ~locksBuffers
  /\ kind = "item" => ~isTexture

MCNext ==
  /\ UNCHANGED kind
  /\ \/ kind = "image" /\ GlNext /\ UNCHANGED cpuVars
     \/ kind = "item" /\ CpuNext /\ mFrameCounter' <= MaxItemFrames
        /\ UNCHANGED imageVars

MCSpec == MCInit /\ [][MCNext]_<<kind, glVars, cpuVars>>

(* OneIsHeld, of the consumers it is about (FramebufferSurface.cpp:96-113).*)
OneImageIsHeld == kind = "image" => OneIsHeld

(* The image that is shown is held, and it alone (GLConsumer.cpp:365-443,  *)
(* FramebufferSurface.cpp:86-122).                                         *)
ImagesAreHeld == CurrentIsHeld /\ OneImageIsHeld
=============================================================================
