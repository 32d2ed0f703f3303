-------------------------- MODULE MCConsumerBase --------------------------
(***************************************************************************)
(* Instances of ConsumerBase for TLC: buffers come in two sizes.           *)
(***************************************************************************)
EXTENDS ConsumerBase, TLC

CONSTANTS small, large, LargeBuffers

Sized == [b \in Buffers |-> IF b \in LargeBuffers THEN large ELSE small]

(* Buffers of one size are interchangeable, and so are producer threads.   *)
Symmetry ==
       Permutations(LargeBuffers) \cup Permutations(Buffers \ LargeBuffers)
  \cup Permutations(Producers)
=============================================================================
