---------------------------- MODULE HardwareVsync ----------------------------
(***************************************************************************)
(* When the hardware vsync of the primary display is on.  SurfaceFlinger   *)
(* turns it on to resynchronize DispSync's model and off to save power     *)
(* (services/surfaceflinger/SurfaceFlinger.cpp:841-903), EventControlThread*)
(* (EventControlThread.cpp) tells the hardware, and HWComposer             *)
(* (DisplayHardware/HWComposer.cpp) delivers the vsyncs, or a thread of    *)
(* its own does where there is no hardware composer.                       *)
(*                                                                         *)
(* main is where the main thread is:                                       *)
(*   idle                                                                  *)
(*   presented     in postComposition, with the answer of addPresentFence  *)
(*   composed      there, after what follows from it                       *)
(*   acquired      in setPowerModeInternal, the display is powered and     *)
(*                 resyncToHardwareVsync(true) is next                     *)
(*   released      there, hardware vsync is disabled and the display is    *)
(*                 next to lose its power                                  *)
(* vsyncThread is where the thread that delivers a vsync is:               *)
(*   idle          received   before onVSyncReceived takes mHWVsyncLock    *)
(*   sampled       after it, with the answer of addResyncSample            *)
(* DispSync is represented by what decides whether it needs samples: that  *)
(* it has a period, whether mError is above its threshold, and its counts. *)
(***************************************************************************)
EXTENDS Naturals

CONSTANTS
  MIN_RESYNC_SAMPLES_FOR_UPDATE,
  MAX_RESYNC_SAMPLES,
  MAX_RESYNC_SAMPLES_WITHOUT_PRESENT

ASSUME HardwareVsyncAssumption ==
  /\ MIN_RESYNC_SAMPLES_FOR_UPDATE \in Nat
  /\ MAX_RESYNC_SAMPLES \in Nat
  /\ MAX_RESYNC_SAMPLES_WITHOUT_PRESENT \in Nat

VARIABLES
  kIgnorePresentFences,   \* how DispSync was built
  mHwc,                   \* is there a hardware composer?
  mPowerMode,             \* of the primary DisplayDevice, "on" or "off"
  main,
  mHWVsyncAvailable, mPrimaryHWVsyncEnabled,
  hasPeriod,              \* DispSync::mPeriod # 0
  largeError,             \* DispSync::mError > kErrorThreshold
  mNumResyncSamples,
  mNumResyncSamplesSincePresent,
  hasListeners,           \* EventThreads that listen, see EventThread
  ectVsyncEnabled,          \* EventControlThread::mVsyncEnabled
  control,                \* and its thread: where it is, and the local
                          \* vsyncEnabled
  events,                 \* HWComposer::DisplayData::events, or
                          \* VSyncThread::mEnabled
  vsyncThread

flagVars == <<mHWVsyncAvailable, mPrimaryHWVsyncEnabled>>
syncVars == <<hasPeriod, largeError, mNumResyncSamples,
              mNumResyncSamplesSincePresent>>
controlVars == <<ectVsyncEnabled, control>>
hvVars == <<kIgnorePresentFences, mHwc, mPowerMode, main, flagVars, syncVars,
            hasListeners, controlVars, events, vsyncThread>>

HwAt(place) == [at |-> place]

HwTypeOK ==
  /\ kIgnorePresentFences \in BOOLEAN /\ mHwc \in BOOLEAN
  /\ mPowerMode \in {"on", "off"}
  /\ main \in [at: {"idle", "composed", "acquired", "released"}]
         \cup [at: {"presented"}, needs: BOOLEAN]
  /\ mHWVsyncAvailable \in BOOLEAN /\ mPrimaryHWVsyncEnabled \in BOOLEAN
  /\ hasPeriod \in BOOLEAN /\ largeError \in BOOLEAN
  /\ mNumResyncSamples \in 0 .. MAX_RESYNC_SAMPLES
  /\ mNumResyncSamplesSincePresent \in Nat
  /\ hasListeners \in BOOLEAN
  /\ ectVsyncEnabled \in BOOLEAN
  /\ control \in [at: {"starting", "waiting", "signalled"},
                  vsyncEnabled: BOOLEAN]
  /\ events \in BOOLEAN
  /\ vsyncThread \in [at: {"idle", "received"}]
                \cup [at: {"sampled"}, needs: BOOLEAN]

(* The display is off until initializeDisplays.  Without a hardware        *)
(* composer init has set a period.                                         *)
HwInit ==
  /\ kIgnorePresentFences \in BOOLEAN /\ mHwc \in BOOLEAN
  /\ mPowerMode = "off" /\ main = HwAt("idle")
  /\ mHWVsyncAvailable = FALSE /\ mPrimaryHWVsyncEnabled = FALSE
  /\ hasPeriod = ~mHwc /\ largeError = FALSE
  /\ mNumResyncSamples = 0 /\ mNumResyncSamplesSincePresent = 0
  /\ hasListeners = FALSE
  /\ ectVsyncEnabled = FALSE
  /\ control = [at |-> "starting", vsyncEnabled |-> FALSE]
  /\ events = FALSE
  /\ vsyncThread = HwAt("idle")
-----------------------------------------------------------------------------
(* EventControlThread::setVsyncEnabled *)
setVsyncEnabled(enabled) ==
  /\ ectVsyncEnabled' = enabled
  /\ control' = IF control.at = "waiting"
                THEN [control EXCEPT !.at = "signalled"] ELSE control

(* Mutant: hardware vsync is enabled while the display is off. *)
EnableWhenever ==
  IF ~mPrimaryHWVsyncEnabled
  THEN /\ mNumResyncSamples' = 0
       /\ setVsyncEnabled(TRUE)
       /\ mPrimaryHWVsyncEnabled' = TRUE
       /\ UNCHANGED mHWVsyncAvailable
  ELSE UNCHANGED <<mNumResyncSamples, controlVars, flagVars>>

enableHardwareVsync ==
  IF ~mPrimaryHWVsyncEnabled /\ mHWVsyncAvailable
  THEN /\ mNumResyncSamples' = 0
       /\ setVsyncEnabled(TRUE)
       /\ mPrimaryHWVsyncEnabled' = TRUE
       /\ UNCHANGED mHWVsyncAvailable
  ELSE UNCHANGED <<mNumResyncSamples, controlVars, flagVars>>

(* Mutant: it can be turned on again by whoever has decided so before. *)
DisableForNow(makeUnavailable) ==
  /\ IF mPrimaryHWVsyncEnabled
     THEN setVsyncEnabled(FALSE)
     ELSE UNCHANGED controlVars
  /\ mPrimaryHWVsyncEnabled' = FALSE
  /\ UNCHANGED mHWVsyncAvailable

disableHardwareVsync(makeUnavailable) ==
  /\ IF mPrimaryHWVsyncEnabled
     THEN setVsyncEnabled(FALSE)
     ELSE UNCHANGED controlVars
  /\ mPrimaryHWVsyncEnabled' = FALSE
  /\ mHWVsyncAvailable' = (mHWVsyncAvailable /\ ~makeUnavailable)

(* resyncToHardwareVsync(true), with DispSync's reset and setPeriod *)
resyncToHardwareVsync ==
  /\ mHWVsyncAvailable' = TRUE
  /\ mNumResyncSamples' = 0 /\ mNumResyncSamplesSincePresent' = 0
  /\ largeError' = FALSE
  /\ hasPeriod' = TRUE
  /\ IF mPrimaryHWVsyncEnabled
     THEN UNCHANGED controlVars
     ELSE setVsyncEnabled(TRUE)
  /\ mPrimaryHWVsyncEnabled' = TRUE

(* setPowerModeInternal.  The display is off or not; the modes in which it *)
(* is not are one here.                                                    *)
turnOn ==
  /\ main.at = "idle" /\ mPowerMode = "off"
  /\ mPowerMode' = "on" /\ main' = HwAt("acquired")
  /\ UNCHANGED <<flagVars, syncVars, hasListeners, controlVars, events,
                 vsyncThread>>

resyncAfterPowerOn ==
  /\ main.at = "acquired"
  /\ resyncToHardwareVsync
  /\ main' = HwAt("idle")
  /\ UNCHANGED <<mPowerMode, hasListeners, events, vsyncThread>>

turnOff ==
  /\ main.at = "idle" /\ mPowerMode = "on"
  /\ mPowerMode' = "off" /\ main' = HwAt("released")
  /\ disableHardwareVsync(TRUE)
  /\ UNCHANGED <<syncVars, hasListeners, events, vsyncThread>>

(* HWComposer::setPowerMode(OFF), which turns off the vsync of a hardware  *)
(* composer without EventControlThread.                                    *)
powerDown ==
  /\ main.at = "released"
  /\ main' = HwAt("idle")
  /\ events' = (events /\ ~mHwc)
  /\ UNCHANGED <<mPowerMode, flagVars, syncVars, hasListeners, controlVars,
                 vsyncThread>>

(* postComposition with a valid fence.  When there is a period             *)
(* updateErrorLocked compares the fences with the model, and any error may *)
(* come out.                                                               *)
addPresentFence ==
  /\ main.at = "idle"
  /\ mNumResyncSamplesSincePresent' = 0
  /\ IF hasPeriod THEN largeError' \in BOOLEAN ELSE UNCHANGED largeError
  /\ main' = [at |-> "presented", needs |-> ~hasPeriod \/ largeError']
  /\ UNCHANGED <<mPowerMode, flagVars, hasPeriod, mNumResyncSamples,
                 hasListeners, controlVars, events, vsyncThread>>

afterPresent ==
  /\ main.at = "presented"
  /\ IF main.needs THEN enableHardwareVsync
     ELSE disableHardwareVsync(FALSE) /\ UNCHANGED mNumResyncSamples
  /\ main' = HwAt("composed")
  /\ UNCHANGED <<mPowerMode, hasPeriod, largeError,
                 mNumResyncSamplesSincePresent, hasListeners, events,
                 vsyncThread>>

(* postComposition without a valid fence *)
composedWithoutFence ==
  /\ main.at = "idle"
  /\ main' = HwAt("composed")
  /\ UNCHANGED <<mPowerMode, flagVars, syncVars, hasListeners, controlVars,
                 events, vsyncThread>>

afterComposition ==
  /\ main.at = "composed"
  /\ IF kIgnorePresentFences /\ mPowerMode = "on" THEN enableHardwareVsync
     ELSE UNCHANGED <<mNumResyncSamples, controlVars, flagVars>>
  /\ main' = HwAt("idle")
  /\ UNCHANGED <<mPowerMode, hasPeriod, largeError,
                 mNumResyncSamplesSincePresent, hasListeners, events,
                 vsyncThread>>

(* An EventThread adds or removes its listener. *)
setListeners ==
  /\ hasListeners' = ~hasListeners
  /\ UNCHANGED <<mPowerMode, main, flagVars, syncVars, controlVars, events,
                 vsyncThread>>
-----------------------------------------------------------------------------
(* EventControlThread::threadLoop, which holds mMutex but while it waits,  *)
(* and HWComposer::eventControl.  It waits without looking again whether   *)
(* mVsyncEnabled has changed, but nobody can change it in between.         *)
startControl ==
  /\ control.at = "starting"
  /\ events' = ectVsyncEnabled
  /\ control' = [at |-> "waiting", vsyncEnabled |-> ectVsyncEnabled]
  /\ UNCHANGED <<mPowerMode, main, flagVars, syncVars, hasListeners,
                 ectVsyncEnabled, vsyncThread>>

(* Mutant: the thread compares with the value it started with. *)
ControlOnce ==
  /\ control.at = "signalled"
  /\ IF control.vsyncEnabled # ectVsyncEnabled
     THEN events' = ectVsyncEnabled ELSE UNCHANGED events
  /\ control' = [control EXCEPT !.at = "waiting"]
  /\ UNCHANGED <<mPowerMode, main, flagVars, syncVars, hasListeners,
                 ectVsyncEnabled, vsyncThread>>

controlLoop ==
  /\ control.at = "signalled"
  /\ IF control.vsyncEnabled # ectVsyncEnabled
     THEN events' = ectVsyncEnabled ELSE UNCHANGED events
  /\ control' = [at |-> "waiting", vsyncEnabled |-> ectVsyncEnabled]
  /\ UNCHANGED <<mPowerMode, main, flagVars, syncVars, hasListeners,
                 ectVsyncEnabled, vsyncThread>>
-----------------------------------------------------------------------------
(* A vsync.  It may come to onVSyncReceived when vsync is off again. *)
vsync ==
  /\ vsyncThread.at = "idle" /\ events
  /\ vsyncThread' = HwAt("received")
  /\ UNCHANGED <<mPowerMode, main, flagVars, syncVars, hasListeners,
                 controlVars, events>>

(* Mutant: an error stays until the next frame is presented. *)
KeepsError == FALSE

(* DispSync::addResyncSample: the model gets a period from the samples,    *)
(* and an error nobody has measured for too long is forgotten.  The count  *)
(* since the last present is cut off where it no longer matters.           *)
ForgetsError ==
  mNumResyncSamplesSincePresent > MAX_RESYNC_SAMPLES_WITHOUT_PRESENT

(* The samples are a ring, of which the oldest is overwritten. *)
SamplesAfter == IF mNumResyncSamples < MAX_RESYNC_SAMPLES
                THEN mNumResyncSamples + 1 ELSE mNumResyncSamples

addResyncSample ==
  /\ mNumResyncSamples' = SamplesAfter
  /\ hasPeriod' =
       (hasPeriod \/ mNumResyncSamples' >= MIN_RESYNC_SAMPLES_FOR_UPDATE)
  /\ largeError' = (largeError /\ ~ForgetsError)
  /\ mNumResyncSamplesSincePresent' =
       IF mNumResyncSamplesSincePresent > MAX_RESYNC_SAMPLES_WITHOUT_PRESENT
       THEN mNumResyncSamplesSincePresent
       ELSE mNumResyncSamplesSincePresent + 1
  /\ vsyncThread' =
       [at |-> "sampled",
        needs |-> IF kIgnorePresentFences THEN hasListeners
                  ELSE ~hasPeriod' \/ largeError']

onVSyncReceived ==
  /\ vsyncThread.at = "received"
  /\ IF mPrimaryHWVsyncEnabled
     THEN addResyncSample
     ELSE /\ vsyncThread' = [at |-> "sampled", needs |-> FALSE]
          /\ UNCHANGED syncVars
  /\ UNCHANGED <<mPowerMode, main, flagVars, hasListeners, controlVars,
                 events>>

(* It acts on its answer, which may be an old one, after an unlock. *)
afterSample ==
  /\ vsyncThread.at = "sampled"
  /\ IF vsyncThread.needs THEN enableHardwareVsync
     ELSE disableHardwareVsync(FALSE) /\ UNCHANGED mNumResyncSamples
  /\ vsyncThread' = HwAt("idle")
  /\ UNCHANGED <<mPowerMode, main, hasPeriod, largeError,
                 mNumResyncSamplesSincePresent, hasListeners, events>>
-----------------------------------------------------------------------------
(* Every step leaves the build alone. *)
SameBuild == UNCHANGED <<kIgnorePresentFences, mHwc>>

MainNext ==
  resyncAfterPowerOn \/ powerDown \/ afterPresent \/ afterComposition
ControlNext == startControl \/ controlLoop
VsyncNext == vsync \/ onVSyncReceived \/ afterSample

HwNext ==
  /\ \/ turnOn \/ turnOff \/ addPresentFence \/ composedWithoutFence
     \/ MainNext
     \/ setListeners
     \/ ControlNext
     \/ VsyncNext
  /\ SameBuild

HwSpec == HwInit /\ [][HwNext]_hvVars

(* The threads run, and a display whose vsync is on sends vsyncs. *)
HwFairSpec ==
  /\ HwSpec
  /\ WF_hvVars(MainNext /\ SameBuild)
  /\ WF_hvVars(ControlNext /\ SameBuild)
  /\ WF_hvVars(VsyncNext /\ SameBuild)
-----------------------------------------------------------------------------
(* Hardware vsync is on only while the display can send it: a late answer  *)
(* of either thread does not turn it on again (SurfaceFlinger.cpp:843).    *)
OnlyWhenAvailable ==
  /\ mPrimaryHWVsyncEnabled => mHWVsyncAvailable
  /\ mHWVsyncAvailable => mPowerMode = "on"

(* EventControlThread waits only when the hardware has been told the last  *)
(* value that was set (EventControlThread.cpp:34-57); a hardware composer  *)
(* whose vsync powerDown has turned off may not have been told TRUE.       *)
HardwareFollows ==
  /\ ectVsyncEnabled = mPrimaryHWVsyncEnabled
  /\ control.at = "waiting" =>
       /\ events => ectVsyncEnabled
       /\ ~mHwc => events = ectVsyncEnabled

(* Whatever happened before, the hardware ends up without vsync once the   *)
(* display stays off.                                                      *)
OffStaysOff == <>[](mPowerMode = "off") => <>[](~events)

(* With present fences, when nothing is presented any more hardware vsync  *)
(* is turned off for good, even if the last fence showed a large error     *)
(* (DispSync.cpp:366-380), unless the screen is turned on again and again. *)
Still == <>[][~addPresentFence /\ ~turnOn]_hvVars
SavesPower == (Still /\ ~kIgnorePresentFences) => <>[](~events)

(* Hardware vsync goes off for good when the display stays off, and when   *)
(* nothing is presented any more (DispSync.cpp:366-380,                    *)
(* SurfaceFlinger.cpp:836-852).                                            *)
VsyncGoesOff == OffStaysOff /\ SavesPower

(* "This resynchronization process should be performed whenever the        *)
(* display is turned on" (DispSync.h:90): hardware vsync that is enabled   *)
(* gives a sample, or is disabled again.                                   *)
ResyncsWhenTurnedOn ==
  mPrimaryHWVsyncEnabled /\ mNumResyncSamples = 0
    ~> ~mPrimaryHWVsyncEnabled \/ mNumResyncSamples > 0
=============================================================================
