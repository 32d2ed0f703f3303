------------------------------ MODULE MCStreams ------------------------------
(***************************************************************************)
(* Instances for TLC of the two parts that pass a stream of frames on: the *)
(* pipeline of VideoShare and StreamSplitter.  They share no state, so a   *)
(* behaviour is one of one of them: `part' tells whose, and the other      *)
(* stays as it began.                                                      *)
(***************************************************************************)
EXTENDS VideoShare, StreamSplitter

CONSTANTS o1, o2

OutputList == <<o1, o2>>

VARIABLE part

StreamsInit == part \in {"share", "splitter"} /\ VideoInit /\ SplitInit

SharePart == part = "share" /\ VideoNext /\ UNCHANGED splitVars
SplitterPart == part = "splitter" /\ SplitNext /\ UNCHANGED videoVars

(* The splitter is given a bounded number of frames; the other never stops.*)
AtBound == part = "splitter" /\ UNCHANGED <<videoVars, splitVars>>

(* The fairness of each part, as its own module has it.                    *)
StreamsSpec ==
  /\ StreamsInit
  /\ [][(SharePart \/ SplitterPart \/ AtBound) /\ UNCHANGED part]_<<part, videoVars, splitVars>>
  /\ WF_videoVars(part = "share" /\ CompressorStep)
  /\ WF_videoVars(part = "share" /\ TransmitterStep)
  /\ \A q \in Hooks :
       WF_videoVars(part = "share" /\ HookGoesOn(q))
  /\ WF_splitVars(part = "splitter" /\ fatal = "no" /\ SplitterNext)
  /\ \A o \in OutputSet :
       /\ WF_splitVars(part = "splitter" /\ fatal = "no" /\ OutputNext(o))
       /\ WF_splitVars(part = "splitter" /\ fatal = "no" /\ binderDied(o))
=============================================================================
