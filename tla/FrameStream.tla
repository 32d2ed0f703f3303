----------------------------- MODULE FrameStream -----------------------------
(***************************************************************************)
(* What a BufferQueue promises about frames, with no slots and no buffers: *)
(* the producer's frames are numbered from 1, they are kept in a FIFO, and *)
(* the consumer gets them from its front.  A frame that is never delivered *)
(* was replaced by the next one (only if MayReplace), was dropped because  *)
(* a later one was timely (only if MayDrop), or went when the consumer     *)
(* left.  mQueue is documented as "a FIFO of queued buffers"               *)
(* (include/gui/BufferQueueCore.h:177).                                    *)
(***************************************************************************)
EXTENDS Naturals, Sequences

CONSTANTS MayReplace, MayDrop

VARIABLES pending, produced, delivered

streamVars == <<pending, produced, delivered>>

StreamInit == pending = << >> /\ produced = 0 /\ delivered = 0

Produce ==
  /\ produced' = produced + 1
  /\ \/ pending' = Append(pending, produced')
     \/ /\ MayReplace /\ pending # << >>
        /\ pending' = [pending EXCEPT ![Len(pending)] = produced']
  /\ UNCHANGED delivered

Deliver ==
  \E n \in 1 .. Len(pending) :
    /\ n = 1 \/ MayDrop
    /\ delivered' = pending[n]
    /\ pending' = SubSeq(pending, n + 1, Len(pending))
    /\ UNCHANGED produced

Abandon == pending' = << >> /\ UNCHANGED <<produced, delivered>>

StreamNext == Produce \/ Deliver \/ Abandon
StreamSpec == StreamInit /\ [][StreamNext]_streamVars
=============================================================================
