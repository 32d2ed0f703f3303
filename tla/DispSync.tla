------------------------------ MODULE DispSync ------------------------------
(***************************************************************************)
(* The software vsync of services/surfaceflinger/DispSync.cpp: a thread    *)
(* that calls each listener once in a period, at the listener's phase,     *)
(* while the model (period and phase) is updated from hardware vsyncs and  *)
(* listeners come and go.                                                  *)
(*                                                                         *)
(* Time is in units of the instance.  thread.at is where DispSyncThread's  *)
(* threadLoop is:                                                          *)
(*   loop      about to take mMutex         noModel   waiting for a period *)
(*   sleeping  in waitRelative, for thread.target, until thread.until      *)
(*   woken     signalled while sleeping     firing    calling the          *)
(*             listeners in thread.calls, with no lock held                *)
(* thread.now is the local variable now: the time of the last wakeup, so   *)
(* the longer the callbacks take the later waitRelative ends.              *)
(* DispSync::mMutex is taken before the thread's mMutex by every call, so  *)
(* both locks make one critical section.  How updateModelLocked averages   *)
(* its samples is left out: any of Models may come out.                    *)
(***************************************************************************)
EXTENDS Integers, Sequences, SequencesExt, FiniteSets, FiniteSetsExt

CONSTANTS
  Listeners,
  PhaseOf,   \* the phase each listener is added with
  Models,    \* the values of [period, phase]
  StartTime, \* the time when the thread starts
  EndTime    \* bound

Model == [period: Nat \ {0}, phase: Nat]

(* The phases are smaller than the time since boot, so that the division   *)
(* in computeListenerNextEventTimeLocked, which truncates, rounds down.    *)
ASSUME DispSyncAssumption ==
  /\ Models \subseteq Model
  /\ PhaseOf \in [Listeners -> Nat]
  /\ StartTime \in Nat /\ EndTime \in Nat
  /\ \A m \in Models, l \in Listeners :
       m.phase + PhaseOf[l] + m.period <= StartTime

VARIABLES
  time,            \* systemTime
  mPeriod, mPhase, \* the model; mPeriod is 0 before the first
  mEventListeners, \* listener -> mLastEventTime, for those registered
  thread

modelVars == <<mPeriod, mPhase>>
dsVars == <<time, modelVars, mEventListeners, thread>>

Registered == DOMAIN mEventListeners
Never == EndTime + 1000 \* INT64_MAX

CallbackInvocation == [listener: Listeners, when: Int]
ThreadState ==
       [at: {"loop", "noModel", "woken"}, now: Int]
  \cup [at: {"sleeping"}, now: Int, target: Int, until: Int]
  \cup [at: {"firing"}, now: Int, calls: Seq(CallbackInvocation)]

DsTypeOK ==
  /\ time \in Int
  /\ mPeriod \in Nat
  /\ mPhase \in Nat
  /\ \E S \in SUBSET Listeners : mEventListeners \in [S -> Int]
  /\ thread \in ThreadState

DsInit ==
  /\ time = StartTime
  /\ mPeriod = 0 /\ mPhase = 0
  /\ mEventListeners = [l \in {} |-> 0]
  /\ thread = [at |-> "loop", now |-> StartTime]

DsAt(place) == [at |-> place, now |-> thread.now]

Signal ==
  thread' = IF thread.at = "noModel" THEN DsAt("loop")
            ELSE IF thread.at = "sleeping" THEN DsAt("woken")
            ELSE thread
-----------------------------------------------------------------------------
(* computeListenerNextEventTimeLocked: the first time after ref, and after *)
(* the listener's last event, that is at its phase; not sooner than half a *)
(* period after that event.                                                *)
Later(a, b) == IF a < b THEN b ELSE a

(* Mutant: an event is repeated when the model moves a little. *)
FirstAtPhase(l, ref) ==
  LET phase == mPhase + PhaseOf[l]
      r == Later(ref, mEventListeners[l])
  IN ((r - phase) \div mPeriod + 1) * mPeriod + phase

NextEventTime(l, ref) ==
  LET phase == mPhase + PhaseOf[l]
      last == mEventListeners[l]
      t == ((Later(ref, last) - phase) \div mPeriod + 1) * mPeriod + phase
  IN IF t - last < mPeriod \div 2 THEN t + mPeriod ELSE t

computeNextEventTimeLocked(now) ==
  Min({NextEventTime(l, now) : l \in Registered} \cup {Never})

(* gatherCallbackInvocationsLocked(now): who is called, and when it should *)
(* have been.                                                              *)
Due(now) == {l \in Registered : NextEventTime(l, now - mPeriod) < now}
-----------------------------------------------------------------------------
Tick ==
  /\ time < EndTime
  /\ time' = time + 1
  /\ UNCHANGED <<modelVars, mEventListeners, thread>>

(* setPeriod, and updateModelLocked for enough samples *)
updateModel ==
  /\ \E m \in Models : mPeriod' = m.period /\ mPhase' = m.phase
  /\ Signal
  /\ UNCHANGED <<time, mEventListeners>>

(* Mutant: the thread is left to find the new listener by itself. *)
AddQuietly(l) ==
  /\ l \notin Registered
  /\ mEventListeners' =
       [k \in Registered \cup {l} |->
          IF k = l THEN time - mPeriod \div 2 ELSE mEventListeners[k]]
  /\ UNCHANGED <<time, modelVars, thread>>

(* The thread's own period is used for the half-period of grace. *)
addEventListener(l) ==
  /\ l \notin Registered
  /\ mEventListeners' =
       [k \in Registered \cup {l} |->
          IF k = l THEN time - mPeriod \div 2 ELSE mEventListeners[k]]
  /\ Signal
  /\ UNCHANGED <<time, modelVars>>

removeEventListener(l) ==
  /\ l \in Registered
  /\ mEventListeners' = [k \in Registered \ {l} |-> mEventListeners[k]]
  /\ Signal
  /\ UNCHANGED <<time, modelVars>>
-----------------------------------------------------------------------------
(* The rest of the critical section, once the thread has taken the time.   *)
(* The listeners are in the order in which they were added, any order here.*)
Gather(now) ==
  LET due == Due(now) IN
  /\ mEventListeners' =
       [l \in Registered |-> IF l \in due THEN NextEventTime(l, now - mPeriod)
                             ELSE mEventListeners[l]]
  /\ IF due = {} THEN thread' = [at |-> "loop", now |-> now]
     ELSE \E calls \in SetToSeqs({[listener |-> l, when |-> mEventListeners'[l]]
                                   : l \in due}) :
            thread' = [at |-> "firing", now |-> now, calls |-> calls]

(* The time computed is always later than now, so the thread always waits. *)
Loop ==
  /\ thread.at = "loop"
  /\ thread' =
       IF mPeriod = 0 THEN DsAt("noModel")
       ELSE LET target == computeNextEventTimeLocked(thread.now)
            IN [at |-> "sleeping", now |-> thread.now, target |-> target,
                until |-> time + (target - thread.now)]
  /\ UNCHANGED <<time, modelVars, mEventListeners>>

(* A wait that times out returns after its end, by the wakeup latency. *)
Wake ==
  /\ \/ thread.at = "woken"
     \/ thread.at = "sleeping" /\ time > thread.until
  /\ Gather(time)
  /\ UNCHANGED <<time, modelVars>>

fireCallbackInvocations ==
  /\ thread.at = "firing"
  /\ thread' = IF Len(thread.calls) = 1 THEN DsAt("loop")
               ELSE [thread EXCEPT !.calls = Tail(@)]
  /\ UNCHANGED <<time, modelVars, mEventListeners>>
-----------------------------------------------------------------------------
ThreadNext == Loop \/ Wake \/ fireCallbackInvocations

DsNext ==
  \/ Tick
  \/ updateModel
  \/ \E l \in Listeners : addEventListener(l) \/ removeEventListener(l)
  \/ ThreadNext

DsSpec == DsInit /\ [][DsNext]_dsVars
-----------------------------------------------------------------------------
(* While the thread sleeps nothing is due before what it waits for: each   *)
(* change of the model or of the listeners wakes it (DispSync.cpp:64-186). *)
NoOversleep ==
  thread.at = "sleeping" =>
    \A l \in Registered : thread.target <= NextEventTime(l, thread.now)

(* A listener is never called for two times less than half a period apart, *)
(* nor for a time to come, however the model moves in between              *)
(* (DispSync.cpp:221-257).                                                 *)
CalledOncePerPeriod ==
  [][\A l \in Registered \cap DOMAIN mEventListeners' :
       mEventListeners'[l] # mEventListeners[l] =>
         /\ mEventListeners'[l] - mEventListeners[l] >= mPeriod \div 2
         /\ mEventListeners[l] < mEventListeners'[l]
         /\ mEventListeners'[l] < time]_dsVars

(* Events come once a period and none is slept through, while listeners and*)
(* the model change (DispSync.cpp:64-257).                                 *)
EventsAreOnTime == []NoOversleep /\ CalledOncePerPeriod

(* "Once this method returns that callback will no longer be called by the *)
(* DispSync object" (services/surfaceflinger/DispSync.h:119).              *)
RemovedAreNotCalled ==
  [][fireCallbackInvocations => thread.calls[1].listener \in Registered]_dsVars
=============================================================================
