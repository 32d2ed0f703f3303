-------------------------- MODULE MCBufferQueue --------------------------
(***************************************************************************)
(* Instances of BufferQueue for TLC: buffers come in two sizes.            *)
(***************************************************************************)
EXTENDS BufferQueue, TLC

CONSTANTS small, large, LargeBuffers

Sized == [b \in Buffers |-> IF b \in LargeBuffers THEN large ELSE small]

(* Buffers of one size are interchangeable, and so are producer threads.   *)
Symmetry ==
       Permutations(LargeBuffers) \cup Permutations(Buffers \ LargeBuffers)
  \cup Permutations(Producers)
=============================================================================
