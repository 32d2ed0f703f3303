------------------------------ MODULE Displays ------------------------------
(***************************************************************************)
(* The displays of SurfaceFlinger: their tokens in the current and the     *)
(* drawing state, the DisplayDevices made for them when a transaction is   *)
(* committed, the data HWComposer keeps for each hardware display, and the *)
(* refresh that composes the layer stack of each device on its screen      *)
(* (services/surfaceflinger/SurfaceFlinger.cpp, DisplayDevice.cpp and      *)
(* DisplayHardware/HWComposer.cpp).                                        *)
(*                                                                         *)
(* Three threads take part: binder threads of clients, the hardware's      *)
(* thread that reports hotplug events, and the main thread, which handles  *)
(* one message at a time; a REFRESH takes it from idle over rebuilt and    *)
(* prepared back to idle.  A view is what a display shows of the layers:   *)
(* a layer stack with a projection (orientation, viewport, frame, size).   *)
(***************************************************************************)
EXTENDS Naturals, Sequences, FiniteSets

CONSTANTS
  Primary, Externals, Virtuals,   \* tokens; those of the external display are
                                  \* made anew whenever it is connected
  Order,             \* all of them, in the order of the keys in mDisplays
  Stacks, NoStack,   \* NO_LAYER_STACK
  OfferedViews,      \* the [stack, projection] that clients set
  AwayViews,         \* of those, the ones whose viewport lies off the bounds
                     \* of the device
  FirstView, DefaultView,   \* at start: the primary display's, any other's
  Surfaces, SmallSurfaces,  \* small: within MAX_VIRTUAL_DISPLAY_DIMENSION
  MaxHwcDisplays,    \* MAX_HWC_DISPLAYS
  MaxConfigs,        \* the configs that a connected display reports
  None,
  MaxDisplayEvents   \* bound on the events from outside

Tokens == {Primary} \union Externals \union Virtuals

(* The first two ids are those of the built-in displays.                   *)
ASSUME DisplaysAssumption ==
  /\ Primary \notin Externals \union Virtuals /\ Externals \intersect Virtuals = {}
  /\ None \notin Tokens /\ IsFiniteSet(Virtuals)
  /\ Order \in Seq(Tokens) /\ \A d \in Tokens : \E i \in DOMAIN Order : Order[i] = d
  /\ MaxHwcDisplays \in Nat /\ MaxHwcDisplays >= 2
  /\ NoStack \notin Stacks
  /\ \A v \in OfferedViews \union {FirstView, DefaultView} :
       v.stack \in Stacks \union {NoStack}

VARIABLES
  currentDisplays, drawingDisplays,   \* of mCurrentState and mDrawingState
  mBuiltinExternal,      \* mBuiltinDisplays[DISPLAY_EXTERNAL]
  mDisplays,             \* the devices
  mAllocatedDisplayIDs,  \* those of virtual displays
  mDisplayData,          \* HWComposer's records, by id
  eDisplayTransactionNeeded, mVisibleRegionsDirty, mHwWorkListDirty,
  mRepaintEverything, refreshNeeded,
  content,        \* what is to be seen of each layer stack
  transformHint,  \* the display whose orientation the layers of it are told
  main, hotplugEvent, plugged,
  displayBudget   \* how many events are left of MaxDisplayEvents

tokenVars == <<currentDisplays, mBuiltinExternal>>
hardwareVars == <<mAllocatedDisplayIDs, mDisplayData>>
flagVars == <<eDisplayTransactionNeeded, mVisibleRegionsDirty,
              mHwWorkListDirty, mRepaintEverything, refreshNeeded>>
plugVars == <<hotplugEvent, plugged>>
displayVars == <<tokenVars, drawingDisplays, mDisplays, hardwareVars, flagVars,
                 content, transformHint, main, plugVars, displayBudget>>

IsVirtual(d) == d \in Virtuals
Position(d) == CHOOSE i \in DOMAIN Order : Order[i] = d

(* HWC_DISPLAY_PRIMARY and HWC_DISPLAY_EXTERNAL are reserved.              *)
PrimaryId == 0
ExternalId == 1
VirtualIds == 2 .. MaxHwcDisplays - 1
Ids == 0 .. MaxHwcDisplays - 1
NoId == MaxHwcDisplays

NoDisplayData ==
  [connected |-> FALSE, configs |-> 0, currentConfig |-> 0,
   list |-> FALSE, outbuf |-> None]

(* The dirty region is filled with the bounds of the device although it is *)
(* in layer-stack space: projected, nothing may be left of it.             *)
IsAway(view) == view \in AwayViews

(* The surface clients set for a built-in display is ignored.              *)
SurfaceOf(d, state) == IF IsVirtual(d) THEN state.surface ELSE None

(* A device, initially dirty all over.  shown is what its screen shows:    *)
(* nothing, its view, or something older.  missed is history: has a change *)
(* of what is to be seen on it not been added to its dirty region?         *)
NewDevice(d, state, id) ==
  [hwcId |-> id, surface |-> SurfaceOf(d, state), view |-> state.view,
   on |-> IsVirtual(d), dirty |-> ~IsAway(state.view), visible |-> FALSE,
   lastCompositionHadVisibleLayers |-> FALSE, mustRecompose |-> FALSE,
   shown |-> "blank", missed |-> IsAway(state.view)]

Outdated(device) ==
  [device EXCEPT !.shown = IF @ = "blank" THEN "blank" ELSE "old"]
Dirtied(device) == [Outdated(device) EXCEPT !.dirty = TRUE]

HasLayers(stack) == stack # NoStack /\ ~content[stack].empty

DisplaysInit ==
  LET state == [surface |-> None, view |-> FirstView] IN
  /\ currentDisplays = [d \in {Primary} |-> state]
  /\ drawingDisplays = currentDisplays
  /\ mBuiltinExternal = None
  /\ mDisplays = [d \in {Primary} |->
                    [NewDevice(Primary, state, PrimaryId) EXCEPT !.on = TRUE]]
  /\ mAllocatedDisplayIDs = {}
  /\ mDisplayData = [id \in Ids |-> IF id = PrimaryId
       THEN [NoDisplayData EXCEPT !.connected = TRUE, !.configs = MaxConfigs]
       ELSE NoDisplayData]
  /\ eDisplayTransactionNeeded = FALSE
  /\ mVisibleRegionsDirty = TRUE /\ mHwWorkListDirty = FALSE
  /\ mRepaintEverything = FALSE /\ refreshNeeded = TRUE
  /\ content = [s \in Stacks |-> [empty |-> s # FirstView.stack,
                                  contentDirty |-> FALSE]]
  /\ transformHint = [s \in Stacks |-> Primary]
  /\ main = "idle" /\ hotplugEvent = "none" /\ plugged = FALSE
  /\ displayBudget = MaxDisplayEvents

FromOutside == displayBudget > 0 /\ displayBudget' = displayBudget - 1

-----------------------------------------------------------------------------
(* Binder threads, with mStateLock held.                                   *)

(* A new virtual display is dormant: nothing is committed for it.          *)
createDisplay(d) ==
  /\ FromOutside
  /\ d \in Virtuals \ (DOMAIN currentDisplays \union DOMAIN drawingDisplays)
  /\ currentDisplays' = [e \in DOMAIN currentDisplays \union {d} |->
       IF e = d THEN [surface |-> None, view |-> DefaultView]
                ELSE currentDisplays[e]]
  /\ UNCHANGED <<mBuiltinExternal, drawingDisplays, mDisplays, hardwareVars,
                 flagVars, content, transformHint, main, plugVars>>

(* By destroyDisplay, or when the last reference to the token goes.        *)
destroyDisplay(d) ==
  /\ FromOutside
  /\ d \in Virtuals \cap DOMAIN currentDisplays
  /\ currentDisplays' = [e \in DOMAIN currentDisplays \ {d} |-> currentDisplays[e]]
  /\ eDisplayTransactionNeeded' = TRUE
  /\ UNCHANGED <<mBuiltinExternal, drawingDisplays, mDisplays, hardwareVars,
                 mVisibleRegionsDirty, mHwWorkListDirty, mRepaintEverything,
                 refreshNeeded, content, transformHint, main, plugVars>>

setDisplayStateLocked(d, state) ==
  /\ FromOutside
  /\ d \in DOMAIN currentDisplays
  /\ currentDisplays' = [currentDisplays EXCEPT ![d] = state]
  /\ eDisplayTransactionNeeded' =
       (eDisplayTransactionNeeded \/ state # currentDisplays[d])
  /\ UNCHANGED <<mBuiltinExternal, drawingDisplays, mDisplays, hardwareVars,
                 mVisibleRegionsDirty, mHwWorkListDirty, mRepaintEverything,
                 refreshNeeded, content, transformHint, main, plugVars>>

-----------------------------------------------------------------------------
(* The hardware's thread: the external display is connected or not.        *)

(* Without a lock; the configs of an earlier connection are not cleared.   *)
queryDisplayProperties ==
  /\ FromOutside
  /\ hotplugEvent = "none"
  /\ plugged' = ~plugged
  /\ hotplugEvent' = IF plugged' THEN "connected" ELSE "disconnected"
  /\ mDisplayData' = [mDisplayData EXCEPT ![ExternalId] =
       IF plugged'
       THEN [@ EXCEPT !.connected = TRUE, !.configs = @ + MaxConfigs,
                      !.currentConfig = 0]
       ELSE [@ EXCEPT !.connected = FALSE]]
  /\ UNCHANGED <<tokenVars, drawingDisplays, mDisplays, mAllocatedDisplayIDs,
                 flagVars, content, transformHint, main>>

createBuiltinDisplayLocked(d) ==
  /\ d \notin DOMAIN currentDisplays \union DOMAIN drawingDisplays
  /\ mBuiltinExternal' = d
  /\ currentDisplays' = [e \in DOMAIN currentDisplays \union {d} |->
       IF e = d THEN [surface |-> None, view |-> DefaultView]
                ELSE currentDisplays[e]]

removeBuiltinDisplay ==
  /\ mBuiltinExternal' = None
  /\ currentDisplays' = [e \in DOMAIN currentDisplays \ {mBuiltinExternal} |->
                           currentDisplays[e]]

onHotplugReceived ==
  /\ \/ /\ hotplugEvent = "connected"
        /\ \E d \in Externals : createBuiltinDisplayLocked(d)
     \/ /\ hotplugEvent = "disconnected"
        /\ removeBuiltinDisplay
  /\ hotplugEvent' = "none"
  /\ eDisplayTransactionNeeded' = TRUE
  /\ UNCHANGED <<drawingDisplays, mDisplays, hardwareVars, mVisibleRegionsDirty,
                 mHwWorkListDirty, mRepaintEverything, refreshNeeded, content,
                 transformHint, main, plugged, displayBudget>>

-----------------------------------------------------------------------------
(* The main thread: the displays' part of handleTransactionLocked.         *)

Kept == DOMAIN currentDisplays \cap DOMAIN drawingDisplays

(* Mutant: a new surface is given to the device that exists.               *)
NoneReplaced == {}

(* A new surface means a new device.                                       *)
Replaced ==
  {d \in Kept : currentDisplays[d].surface # drawingDisplays[d].surface}

Removed == (DOMAIN drawingDisplays \ DOMAIN currentDisplays) \union Replaced
Added == (DOMAIN currentDisplays \ DOMAIN drawingDisplays) \union Replaced

(* Of a virtual display without a surface there is no device.              *)
IsDormant(d) == IsVirtual(d) /\ currentDisplays[d].surface = None

DisconnectedIds ==
  {mDisplays[d].hwcId : d \in Removed \cap DOMAIN mDisplays} \ {NoId}

(* Mutant: the id stays allocated.                                         *)
IdsKeptAllocated == mAllocatedDisplayIDs

(* DisplayDevice::disconnect, freeDisplayId                                *)
IdsAfterDisconnect == mAllocatedDisplayIDs \ DisconnectedIds

(* Mutant: HWComposer forgets the list and keeps the output buffer.        *)
DisconnectedWithOutput(data) == [data EXCEPT !.list = FALSE, !.configs = 0]

disconnectDisplay(data) ==
  [data EXCEPT !.list = FALSE, !.outbuf = None, !.configs = 0]

(* allocateHwcDisplayId, for the virtual displays whose surface the        *)
(* hardware can write: in the order of the tokens, each takes the first id *)
(* that is not allocated.                                                  *)
WantsId(d) ==
  d \in Added /\ IsVirtual(d) /\ ~IsDormant(d)
    /\ currentDisplays[d].surface \in SmallSurfaces

FreeIds == VirtualIds \ IdsAfterDisconnect

GetsId(d, id) ==
  /\ WantsId(d)
  /\ Cardinality({e \in Virtuals : WantsId(e) /\ Position(e) < Position(d)})
       = Cardinality({i \in FreeIds : i < id})

AllocatedId(d) ==
  CASE d = Primary -> PrimaryId
    [] d \in Externals -> ExternalId
    [] d \in Virtuals -> IF \E id \in FreeIds : GetsId(d, id)
                        THEN CHOOSE id \in FreeIds : GetsId(d, id)
                        ELSE NoId

(* setLayerStack, setProjection and setDisplaySize of the device: each     *)
(* makes the bounds the whole of the dirty region.                         *)
Updated(device, state) ==
  IF device.view = state.view THEN device
  ELSE [Outdated(device) EXCEPT !.view = state.view,
          !.dirty = ~IsAway(state.view), !.missed = IsAway(state.view)]

CommittedDevices ==
  LET added == {d \in Added : ~IsDormant(d)}
  IN [d \in (DOMAIN mDisplays \ Removed) \union added |->
        IF d \in added THEN NewDevice(d, currentDisplays[d], AllocatedId(d))
        ELSE Updated(mDisplays[d], currentDisplays[d])]

CommittedData(devices) ==
  LET new == {devices[d].hwcId : d \in Added \cap DOMAIN devices}
      Kept1(id) == IF id \in DisconnectedIds
                   THEN [disconnectDisplay(mDisplayData[id]) EXCEPT
                           !.connected = @ /\ id \notin VirtualIds]
                   ELSE mDisplayData[id]
  IN [id \in Ids |-> IF id \in new \cap VirtualIds
        THEN [Kept1(id) EXCEPT !.connected = TRUE, !.configs = 1, !.currentConfig = 0]
        ELSE Kept1(id)]

(* Layers that one display alone shows are told its orientation, others    *)
(* that of the default display.                                            *)
HintFor(devices, stack) ==
  LET showing == {d \in DOMAIN devices : devices[d].view.stack = stack}
  IN IF Cardinality(showing) = 1 THEN CHOOSE d \in showing : TRUE ELSE Primary

(* Mutant: the hints are those of the displays before the transaction.     *)
HintsBefore(devices) == [s \in Stacks |-> HintFor(mDisplays, s)]

Hints(devices) == [s \in Stacks |-> HintFor(devices, s)]

(* HWComposer does not disconnect the primary display: LOG_ALWAYS_FATAL.   *)
abort ==
  /\ main' = "aborted"
  /\ UNCHANGED <<tokenVars, drawingDisplays, mDisplays, hardwareVars, flagVars,
                 content, transformHint, plugVars, displayBudget>>

commitDisplays ==
  /\ eDisplayTransactionNeeded' = FALSE
  /\ mVisibleRegionsDirty' =
       (mVisibleRegionsDirty \/ currentDisplays # drawingDisplays)
  /\ mDisplays' = CommittedDevices
  /\ mAllocatedDisplayIDs' = IdsAfterDisconnect \union
       ({mDisplays'[d].hwcId : d \in DOMAIN mDisplays'} \cap VirtualIds)
  /\ mDisplayData' = CommittedData(mDisplays')
  /\ drawingDisplays' = currentDisplays
  /\ transformHint' = Hints(mDisplays')
  /\ refreshNeeded' = TRUE
  /\ UNCHANGED <<tokenVars, mHwWorkListDirty, mRepaintEverything, content,
                 main, plugVars, displayBudget>>

handleDisplayTransaction ==
  /\ main = "idle"
  /\ eDisplayTransactionNeeded
  /\ IF Primary \in Replaced THEN abort ELSE commitDisplays

-----------------------------------------------------------------------------
(* The main thread: what else the handlers of messages do to displays.     *)

ShowsStack(device, s) == device.view.stack = s

(* A transaction changes the geometry of layers, or hides or shows them.   *)
handleLayerTransaction(s, empty) ==
  /\ main = "idle"
  /\ FromOutside
  /\ content' = [content EXCEPT ![s] = [empty |-> empty, contentDirty |-> TRUE]]
  /\ mVisibleRegionsDirty' = TRUE
  /\ mDisplays' = [d \in DOMAIN mDisplays |->
       IF ShowsStack(mDisplays[d], s) THEN Outdated(mDisplays[d]) ELSE mDisplays[d]]
  /\ transformHint' = Hints(mDisplays)
  /\ refreshNeeded' = TRUE
  /\ UNCHANGED <<tokenVars, drawingDisplays, hardwareVars, mHwWorkListDirty,
                 eDisplayTransactionNeeded, mRepaintEverything, main, plugVars>>

invalidateLayerStack(s) ==
  mDisplays' = [d \in DOMAIN mDisplays |->
    IF ShowsStack(mDisplays[d], s) THEN Dirtied(mDisplays[d]) ELSE mDisplays[d]]

(* handlePageFlip latches a frame, the first one of a layer or another ... *)
handlePageFlip(s) ==
  /\ main = "idle"
  /\ FromOutside
  /\ content' = [content EXCEPT ![s].empty = FALSE]
  /\ mVisibleRegionsDirty' = (mVisibleRegionsDirty \/ content[s].empty)
  /\ invalidateLayerStack(s)
  /\ refreshNeeded' = TRUE
  /\ UNCHANGED <<tokenVars, drawingDisplays, hardwareVars, mHwWorkListDirty,
                 eDisplayTransactionNeeded, mRepaintEverything, transformHint,
                 main, plugVars>>

(* ... and a transaction removes the last layer of a stack.                *)
removeLayers(s) ==
  /\ main = "idle"
  /\ FromOutside
  /\ ~content[s].empty
  /\ content' = [content EXCEPT ![s].empty = TRUE]
  /\ mVisibleRegionsDirty' = TRUE
  /\ invalidateLayerStack(s)
  /\ transformHint' = Hints(mDisplays)
  /\ refreshNeeded' = TRUE
  /\ UNCHANGED <<tokenVars, drawingDisplays, hardwareVars, mHwWorkListDirty,
                 eDisplayTransactionNeeded, mRepaintEverything, main, plugVars>>

(* A layer that is seen goes to another stack, where its content is dirty. *)
(* On the displays of the stack it leaves nothing is, but for the layers   *)
(* it has covered, if it has covered any.                                  *)
LeftBehind(device, exposes) ==
  [Outdated(device) EXCEPT !.missed = @ \/ ~exposes]

setLayerStack(from, to) ==
  /\ main = "idle"
  /\ FromOutside
  /\ from # to /\ ~content[from].empty
  /\ \E last, exposes \in BOOLEAN :
       /\ last => ~exposes
       /\ content' = [content EXCEPT
            ![from] = [empty |-> last, contentDirty |-> @.contentDirty \/ exposes],
            ![to] = [empty |-> FALSE, contentDirty |-> TRUE]]
       /\ mDisplays' = [d \in DOMAIN mDisplays |->
            CASE ShowsStack(mDisplays[d], from) -> LeftBehind(mDisplays[d], exposes)
              [] ShowsStack(mDisplays[d], to) -> Outdated(mDisplays[d])
              [] OTHER -> mDisplays[d]]
  /\ mVisibleRegionsDirty' = TRUE
  /\ transformHint' = Hints(mDisplays)
  /\ refreshNeeded' = TRUE
  /\ UNCHANGED <<tokenVars, drawingDisplays, hardwareVars, mHwWorkListDirty,
                 eDisplayTransactionNeeded, mRepaintEverything, main, plugVars>>

(* setPowerMode, of built-in displays only.                                *)
setPowerMode(d, on) ==
  /\ main = "idle"
  /\ FromOutside
  /\ d \in DOMAIN mDisplays \ Virtuals
  /\ mDisplays[d].on # on
  /\ mDisplays' = [mDisplays EXCEPT ![d] = [Outdated(@) EXCEPT !.on = on]]
  /\ mVisibleRegionsDirty' = TRUE
  /\ mRepaintEverything' = (mRepaintEverything \/ on)
  /\ refreshNeeded' = (refreshNeeded \/ on)
  /\ UNCHANGED <<tokenVars, drawingDisplays, hardwareVars, mHwWorkListDirty,
                 eDisplayTransactionNeeded, content, transformHint, main, plugVars>>

(* Clients pass an index of the configs they were given; the handler only  *)
(* logs another one.                                                       *)
setActiveConfig(d, mode) ==
  /\ main = "idle"
  /\ FromOutside
  /\ d \in DOMAIN mDisplays \ Virtuals
  /\ mode < mDisplayData[mDisplays[d].hwcId].configs
  /\ mDisplayData' = [mDisplayData EXCEPT ![mDisplays[d].hwcId].currentConfig = mode]
  /\ UNCHANGED <<tokenVars, drawingDisplays, mDisplays, mAllocatedDisplayIDs,
                 flagVars, content, transformHint, main, plugVars>>

-----------------------------------------------------------------------------
(* The main thread: a REFRESH.                                             *)

On(d) == mDisplays[d].on
(* computeVisibleRegions runs for each display that is on, and the first   *)
(* one of a stack takes the dirty region of layers whose content is dirty. *)
TakesDirtyRegion(d) ==
  \A e \in DOMAIN mDisplays :
    On(e) /\ ShowsStack(mDisplays[e], mDisplays[d].view.stack)
      => Position(d) <= Position(e)

ContentIsDirty(d) ==
  LET s == mDisplays[d].view.stack IN s # NoStack /\ content[s].contentDirty

Rebuilt(d) ==
  IF On(d)
  THEN [mDisplays[d] EXCEPT
          !.visible = HasLayers(mDisplays[d].view.stack),
          !.dirty = @ \/ (ContentIsDirty(d) /\ TakesDirtyRegion(d)),
          !.missed = @ \/ (ContentIsDirty(d) /\ ~TakesDirtyRegion(d))]
  ELSE [mDisplays[d] EXCEPT !.visible = FALSE]

rebuildLayerStacks ==
  /\ main = "idle"
  /\ refreshNeeded
  /\ refreshNeeded' = FALSE
  /\ main' = "rebuilt"
  /\ mVisibleRegionsDirty' = FALSE
  /\ mHwWorkListDirty' = (mHwWorkListDirty \/ mVisibleRegionsDirty)
  /\ IF mVisibleRegionsDirty
     THEN /\ mDisplays' = [d \in DOMAIN mDisplays |-> Rebuilt(d)]
          /\ content' = [s \in Stacks |-> [content[s] EXCEPT !.contentDirty =
               @ /\ ~\E d \in DOMAIN mDisplays : On(d) /\ ShowsStack(mDisplays[d], s)]]
     ELSE UNCHANGED <<mDisplays, content>>
  /\ UNCHANGED <<tokenVars, drawingDisplays, hardwareVars, transformHint,
                 eDisplayTransactionNeeded, mRepaintEverything, plugVars,
                 displayBudget>>

(* Mutant: a display without visible layers is never composed.             *)
NeverEmpty(device) == device.dirty /\ device.visible

MustRecompose(device) ==
  device.dirty /\ (device.visible \/ device.lastCompositionHadVisibleLayers)

DevicesWith(ids) == {d \in DOMAIN mDisplays : mDisplays[d].hwcId \in ids}

(* beginFrame gives the hardware the output buffer of a virtual display,   *)
(* and work lists are made if they must be, of the size of the config.     *)
setUpHWComposer ==
  /\ main = "rebuilt"
  /\ main' = "prepared"
  /\ mDisplays' = [d \in DOMAIN mDisplays |->
       LET must == MustRecompose(mDisplays[d]) IN
       [mDisplays[d] EXCEPT
          !.mustRecompose = must,
          !.lastCompositionHadVisibleLayers =
             IF must THEN mDisplays[d].visible ELSE @]]
  /\ mDisplayData' = [id \in Ids |->
       [mDisplayData[id] EXCEPT
          !.list = @ \/ (mHwWorkListDirty /\ DevicesWith({id}) # {}),
          !.outbuf = IF id \in VirtualIds /\ DevicesWith({id}) # {}
                     THEN mDisplays[CHOOSE d \in DevicesWith({id}) : TRUE].surface
                     ELSE @]]
  /\ mHwWorkListDirty' = FALSE
  /\ UNCHANGED <<tokenVars, drawingDisplays, mAllocatedDisplayIDs, content,
                 eDisplayTransactionNeeded, mVisibleRegionsDirty, refreshNeeded,
                 mRepaintEverything, transformHint, plugVars, displayBudget>>

(* A display of the hardware is always composed, another one if there is   *)
(* something to do; what the hardware composed of a virtual display is     *)
(* queued to its surface or cancelled.                                     *)
IsComposed(d) ==
  On(d) /\ (mDisplays[d].hwcId # NoId \/ mDisplays[d].dirty \/ mRepaintEverything)

IsShown(d) ==
  /\ IsComposed(d)
  /\ IsVirtual(d) /\ mDisplays[d].hwcId # NoId => mDisplays[d].mustRecompose

doComposition ==
  /\ main = "prepared"
  /\ main' = "idle"
  /\ mRepaintEverything' = FALSE
  /\ mDisplays' = [d \in DOMAIN mDisplays |->
       LET device == [mDisplays[d] EXCEPT !.dirty = @ /\ ~On(d)] IN
       IF IsShown(d)
       THEN [device EXCEPT !.shown = IF device.visible THEN "current" ELSE "blank",
                           !.missed = FALSE]
       ELSE device]
  /\ UNCHANGED <<tokenVars, drawingDisplays, hardwareVars, transformHint, content,
                 eDisplayTransactionNeeded, mVisibleRegionsDirty, mHwWorkListDirty,
                 refreshNeeded, plugVars, displayBudget>>

-----------------------------------------------------------------------------
OutsideNext ==
  \/ \E d \in Virtuals : createDisplay(d) \/ destroyDisplay(d)
  \/ \E d \in DOMAIN currentDisplays, surface \in Surfaces \union {None},
        view \in OfferedViews :
       setDisplayStateLocked(d, [surface |-> surface, view |-> view])
  \/ queryDisplayProperties
  \/ onHotplugReceived

MainNext ==
  \/ handleDisplayTransaction
  \/ \E s \in Stacks :
       \/ \E empty \in BOOLEAN : handleLayerTransaction(s, empty)
       \/ \E to \in Stacks : setLayerStack(s, to)
       \/ handlePageFlip(s)
       \/ removeLayers(s)
  \/ \E d \in DOMAIN mDisplays :
       \/ \E on \in BOOLEAN : setPowerMode(d, on)
       \/ \E mode \in 0 .. MaxConfigs - 1 : setActiveConfig(d, mode)
  \/ rebuildLayerStacks
  \/ setUpHWComposer
  \/ doComposition

DisplaysNext == main # "aborted" /\ (OutsideNext \/ MainNext)

DisplaysSpec == DisplaysInit /\ [][DisplaysNext]_displayVars

-----------------------------------------------------------------------------
(* There is a device for each display of the drawing state that is not     *)
(* dormant, and it has the surface and the view of that state: a display   *)
(* removed, added again or given another surface between two commits       *)
(* leaves no device behind (SurfaceFlinger.cpp:1357-1510).                 *)
DevicesMatchDrawingState ==
  /\ DOMAIN mDisplays = {d \in DOMAIN drawingDisplays :
                           IsVirtual(d) => drawingDisplays[d].surface # None}
  /\ \A d \in DOMAIN mDisplays :
       /\ mDisplays[d].surface = SurfaceOf(d, drawingDisplays[d])
       /\ mDisplays[d].view = drawingDisplays[d].view

(* The hardware ids of virtual displays are neither leaked nor shared: an  *)
(* id is allocated as long as one device has it (HWComposer.cpp:423-446).  *)
IdsAreInUse ==
  /\ mAllocatedDisplayIDs =
       {mDisplays[d].hwcId : d \in DOMAIN mDisplays} \cap VirtualIds
  /\ \A d, e \in DOMAIN mDisplays :
       mDisplays[d].hwcId = mDisplays[e].hwcId /\ d # e => mDisplays[d].hwcId = NoId

(* When the hardware is given a frame, an id with an output buffer has a   *)
(* work list to put it in, and the buffer is one of the surface of the     *)
(* device that has the id (HWComposer::commit, HWComposer.cpp:749-756,     *)
(* does not look before it writes to the list).                            *)
OutputsHaveLists ==
  main = "prepared" =>
    \A id \in VirtualIds : mDisplayData[id].outbuf # None =>
      /\ mDisplayData[id].list
      /\ \E d \in DevicesWith({id}) : mDisplays[d].surface = mDisplayData[id].outbuf

(* Displays, hardware ids and output buffers belong together at every step *)
(* of a transaction and a frame (SurfaceFlinger.cpp:1357-1510,             *)
(* HWComposer.cpp:423-446, 700-756).                                       *)
DevicesAreBacked == DevicesMatchDrawingState /\ IdsAreInUse /\ OutputsHaveLists

(* When nothing is left to do, a display that is on shows its view as it   *)
(* is now, or nothing if there is nothing to see.  Excepted is a virtual   *)
(* display that missed a change, because it was accounted to another       *)
(* display with the view, because a layer went to another stack, or        *)
(* because its viewport lies off the bounds of the device.                 *)
IsQuiet ==
  main = "idle" /\ ~refreshNeeded /\ ~eDisplayTransactionNeeded

ShowsItsView(d) ==
  mDisplays[d].shown =
    IF HasLayers(mDisplays[d].view.stack) THEN "current" ELSE "blank"

ScreensAreCurrent ==
  IsQuiet => \A d \in DOMAIN mDisplays :
    On(d) => ShowsItsView(d) \/ (IsVirtual(d) /\ mDisplays[d].missed)

(* A display that has nothing left to show is blank when nothing is left   *)
(* to do (SurfaceFlinger.cpp:1128, "When all layers are removed from a     *)
(* display, we'll emit one black frame").                                  *)
EmptiedDisplaysGoBlank ==
  IsQuiet => \A d \in DOMAIN mDisplays :
    On(d) /\ ~HasLayers(mDisplays[d].view.stack) => mDisplays[d].shown = "blank"

(* The hint that producers are given to draw in is the orientation of the  *)
(* display that shows their layers, whatever display came or went last     *)
(* (SurfaceFlinger.cpp:1512-1569).                                         *)
HintsAreCurrent == IsQuiet => transformHint = Hints(mDisplays)

(* When nothing is left to do, what displays show and what producers are   *)
(* told is up to date (SurfaceFlinger.cpp:1079-1150, 1512-1569).           *)
ScreensShowTheState == ScreensAreCurrent /\ HintsAreCurrent

(* A display that has a device has a current config, which HWComposer      *)
(* reads without looking (DisplayHardware/HWComposer.cpp:815, "clear all   *)
(* the previous configs and repopulate when a new device is added").       *)
ConfigsAreKnown ==
  \A d \in DOMAIN mDisplays : mDisplays[d].hwcId # NoId =>
    mDisplayData[mDisplays[d].hwcId].currentConfig
      < mDisplayData[mDisplays[d].hwcId].configs
=============================================================================
