--------------------------- MODULE StreamSplitter ---------------------------
(***************************************************************************)
(* StreamSplitter (libs/gui/StreamSplitter.cpp): a buffer acquired from    *)
(* the input queue is attached to every output queue, and goes back to the *)
(* input when each output has released it.                                 *)
(*                                                                         *)
(* onFrameAvailable runs on the thread of the input's producer and         *)
(* onBufferReleasedByOutput on those of the outputs' consumers; both hold  *)
(* mMutex, and the queues' own locks are free between two calls of them.   *)
(* A queue is what these calls make of it (module BufferQueueProducer):    *)
(* attachBuffer takes the oldest FREE slot, whatever is in it.             *)
(***************************************************************************)
EXTENDS Naturals, SequencesExt, FiniteSetsExt

CONSTANTS
  Buffers, NoBuffer,
  Outputs,          \* mOutputs, a sequence of output queues
  Slots, NoSlot,    \* slots of an output queue below its maximum count
  MAX_OUTSTANDING_BUFFERS,
  MaxInputFrames    \* bound on the frames queued to the input

(* An output is added once: its queue refuses a second producer.           *)
ASSUME SplitterAssumption ==
  /\ Outputs \in Seq(ToSet(Outputs)) /\ IsInjective(Outputs)
  /\ NoBuffer \notin Buffers /\ NoSlot \notin Slots
  /\ MaxInputFrames \in Nat

VARIABLES
  input,            \* buffers queued to the input and not acquired
  inputBuffers,     \* those that are the input's or its producer's
  frames,           \* how many were queued
  inputConnected,   \* the splitter has not disconnected from it
  handler,          \* onFrameAvailable: where it is, buffer, next output, slot
  mIsAbandoned, mOutstandingBuffers,
  mBuffers,         \* buffer -> mReleaseCount of its tracker
  slots,            \* of each output
  queues,           \* the slots queued to each output
  frameCounter,
  alive,            \* outputs not abandoned by their consumers
  dead,             \* outputs whose process has died
  splitterCalls,    \* outputs whose consumer's thread calls onBufferReleased
  deaths,           \* outputs whose binderDied is to come
  fatal             \* the LOG_ALWAYS_FATAL_IF that ended the process, if any

inputVars == <<input, inputBuffers, frames, inputConnected>>
splitterVars == <<handler, mIsAbandoned, mOutstandingBuffers, mBuffers>>
outputVars == <<slots, queues, frameCounter, alive, dead, splitterCalls, deaths>>
splitVars == <<inputVars, splitterVars, outputVars, fatal>>

OutputSet == ToSet(Outputs)
NewestFrame == MaxInputFrames + 1  \* UINT32_MAX, the frame number of a freed slot
FreedSlot == [state |-> "FREE", buffer |-> NoBuffer, frame |-> NewestFrame]
Resting == [at |-> "rest"]

SplitInit ==
  /\ input = << >> /\ inputBuffers = Buffers
  /\ frames = 0 /\ inputConnected = TRUE
  /\ handler = Resting
  /\ mIsAbandoned = FALSE /\ mOutstandingBuffers = 0 /\ mBuffers = << >>
  /\ slots = [o \in OutputSet |-> [s \in Slots |-> [FreedSlot EXCEPT !.frame = 0]]]
  /\ queues = [o \in OutputSet |-> << >>]
  /\ frameCounter = [o \in OutputSet |-> 0]
  /\ alive = OutputSet /\ dead = {} /\ splitterCalls = {} /\ deaths = {}
  /\ fatal = "no"

MutexIsFree == handler.at # "splitting"

-----------------------------------------------------------------------------
(* The producer queues a frame; the listener it will call is taken under   *)
(* the queue's lock, and called after it.                                  *)
queueToInput ==
  /\ inputConnected /\ handler = Resting
  /\ frames < MaxInputFrames
  /\ \E b \in inputBuffers :
       /\ input' = Append(input, b)
       /\ inputBuffers' = inputBuffers \ {b}
  /\ frames' = frames + 1
  /\ handler' = [at |-> "called"]
  /\ UNCHANGED <<inputConnected, mIsAbandoned, mOutstandingBuffers, mBuffers,
                 outputVars, fatal>>

Stalls == mOutstandingBuffers >= MAX_OUTSTANDING_BUFFERS

(* A waiting call returns if the splitter has been abandoned meanwhile.    *)
waitForRelease ==
  /\ handler.at \in {"called", "woken"}
  /\ ~(handler.at = "woken" /\ mIsAbandoned)
  /\ Stalls
  /\ handler' = [at |-> "waiting"]
  /\ UNCHANGED <<inputVars, mIsAbandoned, mOutstandingBuffers, mBuffers,
                 outputVars, fatal>>

returnAbandoned ==
  /\ handler.at = "woken" /\ mIsAbandoned
  /\ handler' = Resting
  /\ UNCHANGED <<inputVars, mIsAbandoned, mOutstandingBuffers, mBuffers,
                 outputVars, fatal>>

Tracked(b) ==
  [c \in DOMAIN mBuffers \union {b} |-> IF c = b THEN 0 ELSE mBuffers[c]]
Untracked(b) == [c \in DOMAIN mBuffers \ {b} |-> mBuffers[c]]

(* acquireBuffer and detachBuffer; there is nothing to acquire from an     *)
(* input that has been disconnected.                                       *)
acquireFromInput ==
  /\ handler.at = "called" \/ (handler.at = "woken" /\ ~mIsAbandoned)
  /\ ~Stalls
  /\ IF input = << >>
     THEN /\ fatal' = "acquire"
          /\ UNCHANGED <<input, handler, mOutstandingBuffers, mBuffers>>
     ELSE /\ mOutstandingBuffers' = mOutstandingBuffers + 1
          /\ mBuffers' = Tracked(Head(input))
          /\ input' = Tail(input)
          /\ handler' = [at |-> "splitting", buffer |-> Head(input), next |-> 1,
                         slot |-> NoSlot]
          /\ UNCHANGED fatal
  /\ UNCHANGED <<inputBuffers, frames, inputConnected, mIsAbandoned, outputVars>>

-----------------------------------------------------------------------------
IsSplitting == handler.at = "splitting" /\ handler.next <= Len(Outputs)
Output == Outputs[handler.next]
FreeSlots(o) == {s \in Slots : slots[o][s].state = "FREE"}

IsOldestOf(s, o, candidates) ==
  /\ s \in candidates
  /\ \A r \in candidates : slots[o][s].frame <= slots[o][r].frame

(* Mutant: nobody is woken.                                                *)
StaysAsleep == handler

Woken == IF handler.at = "waiting" THEN [at |-> "woken"] ELSE handler

(* consumerDisconnect clears the input's queue.                            *)
onAbandoned ==
  /\ mIsAbandoned' = TRUE
  /\ inputConnected' = FALSE
  /\ input' = IF mIsAbandoned THEN input ELSE << >>

ReleaseCounted(b) == [mBuffers EXCEPT ![b] = @ + 1]

(* An abandoned queue answers NO_INIT.                                     *)
outputIsAbandoned ==
  /\ IsSplitting /\ Output \notin alive \union dead
  /\ onAbandoned
  /\ mBuffers' = ReleaseCounted(handler.buffer)
  /\ handler' = [handler EXCEPT !.next = @ + 1, !.slot = NoSlot]
  /\ UNCHANGED <<inputBuffers, frames, mOutstandingBuffers, outputVars, fatal>>

(* The queue of a process that died answers DEAD_OBJECT, which is fatal.   *)
outputIsDead ==
  /\ IsSplitting /\ Output \in dead
  /\ fatal' = "output"
  /\ UNCHANGED <<inputVars, splitterVars, outputVars>>

attachToOutput ==
  /\ IsSplitting /\ Output \in alive
  /\ handler.slot = NoSlot
  /\ \E s \in Slots :
       /\ IsOldestOf(s, Output, FreeSlots(Output))
       /\ slots' = [slots EXCEPT ![Output][s].state = "DEQUEUED",
                                 ![Output][s].buffer = handler.buffer]
       /\ handler' = [handler EXCEPT !.slot = s]
  /\ UNCHANGED <<inputVars, mIsAbandoned, mOutstandingBuffers, mBuffers, queues,
                 frameCounter, alive, dead, splitterCalls, deaths, fatal>>

queueToOutput ==
  LET s == handler.slot IN
  /\ IsSplitting /\ Output \in alive
  /\ s # NoSlot
  /\ frameCounter' = [frameCounter EXCEPT ![Output] = @ + 1]
  /\ slots' = [slots EXCEPT ![Output][s].state = "QUEUED",
                            ![Output][s].frame = frameCounter'[Output]]
  /\ queues' = [queues EXCEPT ![Output] = Append(@, s)]
  /\ handler' = [handler EXCEPT !.next = @ + 1, !.slot = NoSlot]
  /\ UNCHANGED <<inputVars, mIsAbandoned, mOutstandingBuffers, mBuffers, alive,
                 dead, splitterCalls, deaths, fatal>>

endOfSplit ==
  /\ handler.at = "splitting" /\ ~IsSplitting
  /\ handler' = Resting
  /\ UNCHANGED <<inputVars, mIsAbandoned, mOutstandingBuffers, mBuffers,
                 outputVars, fatal>>

-----------------------------------------------------------------------------
(* The consumer of an output: one thread, which calls the listener after   *)
(* each release.                                                           *)
acquireFromOutput(o) ==
  /\ o \in alive \ splitterCalls
  /\ queues[o] # << >>
  /\ slots' = [slots EXCEPT ![o][Head(queues[o])].state = "ACQUIRED"]
  /\ queues' = [queues EXCEPT ![o] = Tail(@)]
  /\ UNCHANGED <<inputVars, splitterVars, frameCounter, alive, dead, splitterCalls,
                 deaths, fatal>>

releaseByOutput(o) ==
  /\ o \in alive \ splitterCalls
  /\ \E s \in Slots : /\ slots[o][s].state = "ACQUIRED"
                      /\ slots' = [slots EXCEPT ![o][s].state = "FREE"]
  /\ splitterCalls' = splitterCalls \union {o}
  /\ UNCHANGED <<inputVars, splitterVars, queues, frameCounter, alive, dead, deaths, fatal>>

Freed(o) ==
  /\ alive' = alive \ {o}
  /\ slots' = [slots EXCEPT ![o] = [s \in Slots |-> FreedSlot]]
  /\ queues' = [queues EXCEPT ![o] = << >>]

(* It disconnects.                                                         *)
abandonOutput(o) ==
  /\ o \in alive
  /\ Freed(o)
  /\ UNCHANGED <<inputVars, splitterVars, frameCounter, dead, splitterCalls, deaths, fatal>>

(* Its process dies, and the splitter will be told.                        *)
outputDies(o) ==
  /\ o \notin dead
  /\ dead' = dead \union {o}
  /\ deaths' = deaths \union {o}
  /\ Freed(o)
  /\ UNCHANGED <<inputVars, splitterVars, frameCounter, splitterCalls, fatal>>

-----------------------------------------------------------------------------
(* Mutant: one output less will do.                                        *)
ReleasedByMost(b) == mBuffers[b] + 2 >= Len(Outputs)

ReleasedByAll(b) == mBuffers[b] + 1 >= Len(Outputs)

giveBack(b) ==
  IF mIsAbandoned
  THEN /\ mBuffers' = Untracked(b)
       /\ UNCHANGED <<inputBuffers, mOutstandingBuffers, handler>>
  ELSE /\ mBuffers' = Untracked(b)
       /\ inputBuffers' = inputBuffers \union {b}
       /\ mOutstandingBuffers' = mOutstandingBuffers - 1
       /\ handler' = Woken

(* An output that has been abandoned meanwhile has no buffer to detach; of *)
(* a process that died, detachNextBuffer gets DEAD_OBJECT.                 *)
releasedByAbandoned(o) ==
  /\ o \in splitterCalls \ (alive \union dead)
  /\ MutexIsFree
  /\ splitterCalls' = splitterCalls \ {o}
  /\ onAbandoned
  /\ handler' = Woken
  /\ UNCHANGED <<inputBuffers, frames, mOutstandingBuffers, mBuffers, slots,
                 queues, frameCounter, alive, dead, deaths, fatal>>

releasedByDead(o) ==
  /\ o \in splitterCalls \intersect dead
  /\ MutexIsFree
  /\ fatal' = "output"
  /\ UNCHANGED <<inputVars, splitterVars, outputVars>>

(* detachNextBuffer finds the oldest FREE slot with a buffer, if there is  *)
(* one.                                                                    *)
onBufferReleasedByOutput(o) ==
  LET candidates == {s \in FreeSlots(o) : slots[o][s].buffer # NoBuffer} IN
  /\ o \in splitterCalls \intersect alive
  /\ MutexIsFree
  /\ splitterCalls' = splitterCalls \ {o}
  /\ IF candidates = {}
     THEN fatal' = "detach" /\ UNCHANGED <<inputBuffers, mOutstandingBuffers,
                                           mBuffers, handler, slots>>
     ELSE \E s \in Slots :
            /\ IsOldestOf(s, o, candidates)
            /\ slots' = [slots EXCEPT ![o][s] = FreedSlot]
            /\ LET b == slots[o][s].buffer IN
               IF ReleasedByAll(b) THEN giveBack(b)
               ELSE /\ mBuffers' = ReleaseCounted(b)
                    /\ UNCHANGED <<inputBuffers, mOutstandingBuffers, handler>>
            /\ UNCHANGED fatal
  /\ UNCHANGED <<input, frames, inputConnected, mIsAbandoned, queues,
                 frameCounter, alive, dead, deaths>>

binderDied(o) ==
  /\ o \in deaths
  /\ MutexIsFree
  /\ deaths' = deaths \ {o}
  /\ onAbandoned
  /\ handler' = Woken
  /\ UNCHANGED <<inputBuffers, frames, mOutstandingBuffers, mBuffers, slots,
                 queues, frameCounter, alive, dead, splitterCalls, fatal>>

-----------------------------------------------------------------------------
SplitterNext ==
  \/ waitForRelease \/ returnAbandoned \/ acquireFromInput
  \/ outputIsAbandoned \/ outputIsDead \/ attachToOutput \/ queueToOutput \/ endOfSplit

OutputNext(o) ==
  \/ acquireFromOutput(o) \/ releaseByOutput(o)
  \/ onBufferReleasedByOutput(o) \/ releasedByAbandoned(o) \/ releasedByDead(o)

SplitNext ==
  /\ fatal = "no"
  /\ \/ queueToInput \/ SplitterNext
     \/ \E o \in OutputSet :
          OutputNext(o) \/ binderDied(o) \/ abandonOutput(o) \/ outputDies(o)

(* The threads run, and an output's consumer goes on consuming.            *)
SplitFairness ==
  /\ WF_splitVars(fatal = "no" /\ SplitterNext)
  /\ \A o \in OutputSet : WF_splitVars(fatal = "no" /\ OutputNext(o))
  /\ \A o \in OutputSet : WF_splitVars(fatal = "no" /\ binderDied(o))

SplitSpec == SplitInit /\ [][SplitNext]_splitVars /\ SplitFairness

-----------------------------------------------------------------------------
(* The producer gets a buffer back only when no output shows or keeps it,  *)
(* and as many are outstanding as the splitter will be told of: otherwise  *)
(* a frame is overwritten while a consumer reads it, or the input stalls   *)
(* for ever (StreamSplitter.cpp:186-248, 163-177).                         *)
OutputsAreDone ==
  /\ \A b \in inputBuffers, o \in OutputSet, s \in Slots : slots[o][s].buffer # b
  /\ ~mIsAbandoned => mOutstandingBuffers = Cardinality(DOMAIN mBuffers)

(* A producer stalled in onFrameAvailable returns: the outputs release, or *)
(* the splitter hears that one has died, and no wake-up is lost. It may    *)
(* stall for ever if an output disconnects without a word while it holds   *)
(* the buffers, or if the splitter had been abandoned before the wait, and *)
(* the process ends if it calls an output before it hears of its death     *)
(* (StreamSplitter.cpp:116-124, 153-163, 191-201, 246-247, 255-256).       *)
StalledFramesGoOn ==
  handler.at = "waiting" /\ ~mIsAbandoned
    ~> handler = Resting \/ fatal # "no" \/ OutputSet \ (alive \union dead) # {}

(* "it will disconnect from the input and not attempt to communicate with  *)
(* it further" (StreamSplitter.h:166-167).                                 *)
AbandonedStaysAway == fatal # "acquire"
=============================================================================
