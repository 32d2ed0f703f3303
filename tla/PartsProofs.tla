------------------------------ MODULE PartsProofs ------------------------------
(***************************************************************************)
(* Theorems about the parts around the queue that run in one thread: the   *)
(* displays of SurfaceFlinger, the surface of a virtual display, the       *)
(* transactions of the composer's clients, the schedule of vsync events    *)
(* and the ring of bytes.                                                  *)
(***************************************************************************)
EXTENDS Displays, VirtualDisplaySurface, Composer, DispSync, DataBuffer, SequenceFacts, FiniteSetTheorems, WellFoundedInduction, TLAPS

-----------------------------------------------------------------------------
(***************************************************************************)
(* Theorems about Displays, for any number of displays, layer stacks and   *)
(* virtual display ids.                                                    *)
(*                                                                         *)
(* The first half ties the devices of SurfaceFlinger to the drawing state, *)
(* to the ids that are allocated and to what HWComposer holds for them;    *)
(* the second half is about the screens: whatever makes one of them out of *)
(* date leaves a flag behind that makes the next refresh bring it up to    *)
(* date.                                                                   *)
(***************************************************************************)

(* What a display device and the data of a display of HWComposer are made  *)
(* of.                                                                     *)
DeviceFields ==
  {"hwcId", "surface", "view", "on", "dirty", "visible",
   "lastCompositionHadVisibleLayers", "mustRecompose", "shown", "missed"}

(* So for what HWComposer keeps of a display.                              *)
DataFields == {"connected", "configs", "currentConfig", "list", "outbuf"}

(* Devices, states and display data have the shape they are used with.     *)
DisplaysTypeInv ==
  /\ DOMAIN currentDisplays \subseteq Tokens /\ DOMAIN drawingDisplays \subseteq Tokens
  /\ \A d \in DOMAIN mDisplays : DOMAIN mDisplays[d] = DeviceFields
  /\ DOMAIN mDisplayData = Ids
  /\ \A id \in Ids : DOMAIN mDisplayData[id] = DataFields

(* There is one external display at a time, and what the hardware last     *)
(* reported of it.                                                         *)
OneExternal ==
  /\ \A d \in DOMAIN currentDisplays \intersect Externals : d = mBuiltinExternal
  /\ hotplugEvent \in {"none", "connected", "disconnected"}
  /\ hotplugEvent = "none" => (plugged <=> mBuiltinExternal # None)
  /\ hotplugEvent = "connected" => plugged /\ mBuiltinExternal = None
  /\ hotplugEvent = "disconnected" => ~plugged

(* The kind of a display tells its hardware id.                            *)
IdsFit ==
  \A d \in DOMAIN mDisplays :
    /\ d = Primary => mDisplays[d].hwcId = PrimaryId
    /\ d \in Externals => mDisplays[d].hwcId = ExternalId
    /\ d \in Virtuals => mDisplays[d].hwcId \in VirtualIds \union {NoId}

(* An id with an output buffer is that of a device with the surface.       *)
OutputsAreBacked ==
  \A id \in VirtualIds : mDisplayData[id].outbuf # None =>
    /\ mDisplayData[id].list
    /\ \E d \in DevicesWith({id}) : mDisplays[d].surface = mDisplayData[id].outbuf

(* A new device makes work lists dirty before the hardware is set up.      *)
ListsAreComing ==
  /\ main = "rebuilt" => ~mVisibleRegionsDirty
  /\ \A d \in DOMAIN mDisplays : mDisplays[d].hwcId \in VirtualIds =>
       mDisplayData[mDisplays[d].hwcId].list \/ mHwWorkListDirty \/ mVisibleRegionsDirty

(* The inductive invariant of devices, ids and what HWComposer holds.      *)
DisplaysInv ==
  /\ DisplaysTypeInv
  /\ OneExternal
  /\ IdsFit
  /\ DevicesMatchDrawingState
  /\ IdsAreInUse
  /\ OutputsAreBacked
  /\ ListsAreComing

(* What the screens depend on: the stacks, and who is on.                  *)
ScreensTypeInv ==
  /\ DOMAIN content = Stacks
  /\ \A s \in Stacks : /\ DOMAIN content[s] = {"empty", "contentDirty"}
                       /\ content[s].empty \in BOOLEAN
                       /\ content[s].contentDirty \in BOOLEAN
  /\ \A d \in DOMAIN currentDisplays :
       currentDisplays[d].view.stack \in Stacks \union {NoStack}
  /\ \A d \in DOMAIN mDisplays :
       /\ mDisplays[d].view.stack \in Stacks \union {NoStack}
       /\ mDisplays[d].shown \in {"blank", "current", "old"}
       /\ IsVirtual(d) => On(d)
  /\ main \in {"idle", "rebuilt", "prepared", "aborted"}
  /\ main \in {"rebuilt", "prepared"} => ~mVisibleRegionsDirty

(* Visible regions are as of the layers, unless they are to be computed.   *)
VisibleIsKnown ==
  ~mVisibleRegionsDirty => \A d \in DOMAIN mDisplays : On(d) =>
    mDisplays[d].visible = HasLayers(mDisplays[d].view.stack)

(* A virtual display that is behind is dirty, or will be when the visible  *)
(* regions are computed.                                                   *)
StaleIsDirty ==
  \A d \in DOMAIN mDisplays :
    IsVirtual(d) /\ ~ShowsItsView(d) /\ ~mDisplays[d].missed =>
      mDisplays[d].dirty \/ (mVisibleRegionsDirty /\ ContentIsDirty(d))

(* The frame under way composes d.                                         *)
Recomposed(d) == main = "prepared" /\ mDisplays[d].mustRecompose

(* A virtual display with a hardware id composes what it has not shown: one*)
(* that is passed over is blank, and had nothing to show before or now.    *)
RecomposedWhenDirty ==
  \A d \in DOMAIN mDisplays : IsVirtual(d) /\ mDisplays[d].hwcId # NoId =>
    /\ Recomposed(d) =>
         mDisplays[d].lastCompositionHadVisibleLayers = mDisplays[d].visible
    /\ ~Recomposed(d) /\ ~mDisplays[d].lastCompositionHadVisibleLayers =>
         mDisplays[d].shown = "blank"
    /\ main = "prepared" /\ ~Recomposed(d) /\ mDisplays[d].dirty =>
         ~mDisplays[d].visible /\ ~mDisplays[d].lastCompositionHadVisibleLayers

(* When there is nothing left to do the screens are current.               *)
ScreensSettle ==
  main = "idle" /\ ~refreshNeeded => \A d \in DOMAIN mDisplays :
    On(d) => ShowsItsView(d) \/ (IsVirtual(d) /\ mDisplays[d].missed)

(* The inductive invariant of the screens.                                 *)
ScreensInv ==
  /\ DisplaysInv
  /\ ScreensTypeInv
  /\ VisibleIsKnown
  /\ StaleIsDirty
  /\ RecomposedWhenDirty
  /\ ScreensSettle
  /\ transformHint = Hints(mDisplays)

-----------------------------------------------------------------------------
(* The devices have the same ids, surfaces and views after the step.       *)
SameDevices ==
  /\ DOMAIN mDisplays' = DOMAIN mDisplays
  /\ \A d \in DOMAIN mDisplays :
       /\ DOMAIN mDisplays'[d] = DeviceFields
       /\ mDisplays'[d].hwcId = mDisplays[d].hwcId
       /\ mDisplays'[d].surface = mDisplays[d].surface
       /\ mDisplays'[d].view = mDisplays[d].view

(* No two displays that want an id have as many others before them, so     *)
(* each gets an id of its own, of those that were not allocated.           *)
LEMMA PositionsDiffer ==
  \A d, e \in Tokens :
    /\ Position(d) \in Nat
    /\ Position(d) = Position(e) => d = e
<1> SUFFICES ASSUME NEW d \in Tokens, NEW e \in Tokens
             PROVE  Position(d) \in Nat /\ (Position(d) = Position(e) => d = e)
  OBVIOUS
<1>1. \A c \in Tokens : Position(c) \in DOMAIN Order /\ Order[Position(c)] = c
  BY DisplaysAssumption DEF Position
<1>2. DOMAIN Order \subseteq Nat
  BY DisplaysAssumption
<1> QED BY <1>1, <1>2

(* Of two displays in line for an id one is before the other.              *)
LEMMA RanksDiffer ==
  ASSUME NEW d \in Virtuals, NEW e \in Virtuals, WantsId(d), WantsId(e), d # e,
         NEW id \in FreeIds, GetsId(d, id), GetsId(e, id)
  PROVE  FALSE
<1> DEFINE Before(c) == {b \in Virtuals : WantsId(b) /\ Position(b) < Position(c)}
<1>1. Cardinality(Before(d)) = Cardinality(Before(e))
  BY DEF GetsId
<1>2. ASSUME NEW b \in Virtuals, NEW c \in Virtuals, WantsId(b),
             Position(b) < Position(c)
      PROVE  Cardinality(Before(b)) < Cardinality(Before(c))
  <2>1. IsFiniteSet(Before(c))
    BY DisplaysAssumption, FS_Subset
  <2>2. \A a \in Virtuals : Position(a) \in Nat
    BY PositionsDiffer DEF Tokens
  <2>3. Before(b) \subseteq Before(c) /\ b \in Before(c) /\ b \notin Before(b)
    BY <1>2, <2>2
  <2>4. Before(b) # Before(c)
    BY <2>3
  <2>5. Cardinality(Before(b)) < Cardinality(Before(c))
    BY <2>1, <2>3, <2>4, FS_Subset, FS_CardinalityType
  <2> QED BY <2>5
<1>3. \A a \in Virtuals : Cardinality(Before(a)) \in Nat
  <2> TAKE a \in Virtuals
  <2>1. IsFiniteSet(Before(a))
    BY DisplaysAssumption, FS_Subset
  <2> QED BY <2>1, FS_CardinalityType
<1>4. Position(d) < Position(e) \/ Position(e) < Position(d)
  BY PositionsDiffer DEF Tokens
<1> HIDE DEF Before
<1> QED BY <1>1, <1>2, <1>3, <1>4

(* What HWComposer allocates to the displays of each kind.                 *)
LEMMA AllocatedIdFacts ==
  /\ AllocatedId(Primary) = PrimaryId
  /\ \A d \in Externals : AllocatedId(d) = ExternalId
  /\ \A d \in Virtuals : AllocatedId(d) \in FreeIds \union {NoId}
  /\ \A d, e \in Virtuals :
       d # e /\ AllocatedId(d) = AllocatedId(e) => AllocatedId(d) = NoId
<1>1. AllocatedId(Primary) = PrimaryId
  BY DisplaysAssumption DEF AllocatedId
<1>2. \A d \in Externals : AllocatedId(d) = ExternalId
  BY DisplaysAssumption DEF AllocatedId
<1>3. \A d \in Virtuals :
        AllocatedId(d) = IF \E id \in FreeIds : GetsId(d, id)
                         THEN CHOOSE id \in FreeIds : GetsId(d, id)
                         ELSE NoId
  BY DisplaysAssumption DEF AllocatedId
<1>4. \A d \in Virtuals :
        \/ AllocatedId(d) = NoId
        \/ AllocatedId(d) \in FreeIds /\ GetsId(d, AllocatedId(d))
  BY <1>3
<1>5. ASSUME NEW d \in Virtuals, NEW e \in Virtuals, d # e,
             AllocatedId(d) = AllocatedId(e), AllocatedId(d) # NoId
      PROVE  FALSE
  BY <1>4, <1>5, RanksDiffer DEF GetsId
<1> QED BY <1>1, <1>2, <1>4, <1>5

-----------------------------------------------------------------------------
(* A step that leaves the devices and the drawing state alone keeps what   *)
(* relates them.                                                           *)
LEMMA DevicesKept ==
  ASSUME DisplaysInv, SameDevices, UNCHANGED <<drawingDisplays, mAllocatedDisplayIDs>>
  PROVE  IdsFit' /\ DevicesMatchDrawingState' /\ IdsAreInUse'
<1>1. IdsFit'  BY DEF DisplaysInv, IdsFit, SameDevices
<1>2. DevicesMatchDrawingState'
  BY DEF DisplaysInv, DevicesMatchDrawingState, SameDevices
<1>3. IdsAreInUse'
  <2>1. {mDisplays'[d].hwcId : d \in DOMAIN mDisplays'}
          = {mDisplays[d].hwcId : d \in DOMAIN mDisplays}
    BY DEF SameDevices
  <2>2. \A d, e \in DOMAIN mDisplays' :
          mDisplays'[d].hwcId = mDisplays'[e].hwcId /\ d # e => mDisplays'[d].hwcId = NoId
    BY DEF SameDevices, DisplaysInv, IdsAreInUse
  <2> QED BY <2>1, <2>2 DEF DisplaysInv, IdsAreInUse
<1> QED BY <1>1, <1>2, <1>3

(* The step leaves the hardware's lists and outputs alone, too.            *)
SameData ==
  /\ DOMAIN mDisplayData' = Ids
  /\ \A id \in Ids : DOMAIN mDisplayData'[id] = DataFields
  /\ \A id \in VirtualIds : /\ mDisplayData'[id].list = mDisplayData[id].list
                            /\ mDisplayData'[id].outbuf = mDisplayData[id].outbuf

(* A step that keeps devices and display data keeps what relates them.     *)
LEMMA DataKept ==
  ASSUME DisplaysInv, SameDevices, SameData, UNCHANGED mHwWorkListDirty,
         mVisibleRegionsDirty => mVisibleRegionsDirty',
         main' # "rebuilt" \/ UNCHANGED <<main, mVisibleRegionsDirty>>
  PROVE  OutputsAreBacked' /\ ListsAreComing'
<1>1. \A id : DevicesWith({id})' = DevicesWith({id})
  BY DEF DevicesWith, SameDevices
<1>2. OutputsAreBacked'
  BY <1>1 DEF DisplaysInv, OutputsAreBacked, SameData, SameDevices, DevicesWith
<1>3. ListsAreComing'
  BY DEF DisplaysInv, ListsAreComing, SameData, SameDevices
<1> QED BY <1>2, <1>3

(* What is unchanged is kept.                                              *)
LEMMA Unchanged ==
  /\ DisplaysInv /\ UNCHANGED mDisplays => SameDevices
  /\ DisplaysInv /\ UNCHANGED mDisplayData => SameData
  BY DEF DisplaysInv, DisplaysTypeInv, SameDevices, SameData

(* Clients change the current state only.                                  *)
LEMMA ClientsKeepDisplays ==
  ASSUME DisplaysInv,
         \/ \E d \in Virtuals : createDisplay(d) \/ destroyDisplay(d)
         \/ \E d \in DOMAIN currentDisplays, surface \in Surfaces \union {None},
              view \in OfferedViews :
                setDisplayStateLocked(d, [surface |-> surface, view |-> view])
  PROVE  DisplaysInv'
<1>1. UNCHANGED <<mBuiltinExternal, drawingDisplays, mDisplays, mAllocatedDisplayIDs,
                  mDisplayData, main, mVisibleRegionsDirty, mHwWorkListDirty, hotplugEvent,
                  plugged>>
  BY DEF createDisplay, destroyDisplay, setDisplayStateLocked, hardwareVars, flagVars,
         plugVars
<1>2. \A d \in DOMAIN currentDisplays' : d \in DOMAIN currentDisplays \union Virtuals
  BY DEF createDisplay, destroyDisplay, setDisplayStateLocked
<1>3. DisplaysTypeInv' /\ OneExternal'
  BY <1>1, <1>2, DisplaysAssumption
  DEF DisplaysInv, DisplaysTypeInv, OneExternal, Tokens
<1>4. SameDevices /\ SameData  BY <1>1, Unchanged
<1>5. IdsFit' /\ DevicesMatchDrawingState' /\ IdsAreInUse'
  BY <1>1, <1>4, DevicesKept
<1>6. OutputsAreBacked' /\ ListsAreComing'
  BY <1>1, <1>4, DataKept
<1> QED BY <1>3, <1>5, <1>6 DEF DisplaysInv

(* The hardware's thread writes what it found before it reports it.        *)
LEMMA QueryKeepsDisplays ==
  ASSUME DisplaysInv, queryDisplayProperties
  PROVE  DisplaysInv'
<1>1. /\ UNCHANGED <<currentDisplays, mBuiltinExternal, drawingDisplays, mDisplays,
                     mAllocatedDisplayIDs, main, mVisibleRegionsDirty, mHwWorkListDirty>>
      /\ hotplugEvent = "none" /\ plugged' = ~plugged
      /\ hotplugEvent' = IF plugged' THEN "connected" ELSE "disconnected"
  BY DEF queryDisplayProperties, tokenVars, flagVars
<1>2. /\ DOMAIN mDisplayData' = Ids
      /\ DOMAIN mDisplayData'[ExternalId] = DataFields
      /\ \A id \in Ids \ {ExternalId} : mDisplayData'[id] = mDisplayData[id]
  <2>1. ExternalId \in Ids
    BY DisplaysAssumption DEF ExternalId, Ids
  <2>2. DOMAIN mDisplayData = Ids /\ DOMAIN mDisplayData[ExternalId] = DataFields
    BY <2>1 DEF DisplaysInv, DisplaysTypeInv
  <2> QED BY <2>1, <2>2 DEF queryDisplayProperties
<1>3. SameData
  BY <1>2 DEF SameData, DisplaysInv, DisplaysTypeInv, VirtualIds, ExternalId, Ids
<1>4. SameDevices  BY <1>1, Unchanged
<1>5. DisplaysTypeInv'
  BY <1>1, <1>3 DEF DisplaysInv, DisplaysTypeInv, SameData
<1>6. OneExternal'
  BY <1>1 DEF DisplaysInv, OneExternal
<1>7. IdsFit' /\ DevicesMatchDrawingState' /\ IdsAreInUse'
  BY <1>1, <1>4, DevicesKept
<1>8. OutputsAreBacked' /\ ListsAreComing'
  BY <1>1, <1>3, <1>4, DataKept
<1> QED BY <1>5, <1>6, <1>7, <1>8 DEF DisplaysInv

(* Hotplug of the external display.                                        *)
LEMMA HotplugKeepsDisplays ==
  ASSUME DisplaysInv, onHotplugReceived
  PROVE  DisplaysInv'
<1>1. /\ UNCHANGED <<drawingDisplays, mDisplays, mAllocatedDisplayIDs, mDisplayData, main,
                     mVisibleRegionsDirty, mHwWorkListDirty, plugged>>
      /\ hotplugEvent' = "none"
  BY DEF onHotplugReceived, hardwareVars
<1>2. DOMAIN currentDisplays' \subseteq Tokens /\ OneExternal'
  <2>1. CASE hotplugEvent = "connected"
    <3>1. PICK d \in Externals : createBuiltinDisplayLocked(d)
      BY <2>1 DEF onHotplugReceived
    <3>2. mBuiltinExternal = None /\ plugged
      BY <2>1 DEF DisplaysInv, OneExternal
    <3>3. /\ mBuiltinExternal' = d
          /\ DOMAIN currentDisplays' = DOMAIN currentDisplays \union {d}
          /\ d \in Tokens
      BY <3>1 DEF createBuiltinDisplayLocked, Tokens
    <3>4. \A e \in DOMAIN currentDisplays \intersect Externals : FALSE
      BY <3>2, DisplaysAssumption DEF DisplaysInv, OneExternal, Tokens
    <3> QED BY <1>1, <3>2, <3>3, <3>4, DisplaysAssumption
            DEF DisplaysInv, DisplaysTypeInv, OneExternal
  <2>2. CASE hotplugEvent = "disconnected"
    <3>1. /\ mBuiltinExternal' = None
          /\ DOMAIN currentDisplays' = DOMAIN currentDisplays \ {mBuiltinExternal}
      BY <2>2 DEF onHotplugReceived, removeBuiltinDisplay
    <3> QED BY <1>1, <2>2, <3>1 DEF DisplaysInv, DisplaysTypeInv, OneExternal
  <2> QED BY <2>1, <2>2 DEF onHotplugReceived
<1>3. DisplaysTypeInv'
  BY <1>1, <1>2 DEF DisplaysInv, DisplaysTypeInv
<1>4. SameDevices /\ SameData  BY <1>1, Unchanged
<1>5. IdsFit' /\ DevicesMatchDrawingState' /\ IdsAreInUse'
  BY <1>1, <1>4, DevicesKept
<1>6. OutputsAreBacked' /\ ListsAreComing'
  BY <1>1, <1>4, DataKept
<1> QED BY <1>2, <1>3, <1>5, <1>6 DEF DisplaysInv

-----------------------------------------------------------------------------
(* Messages that dirty devices or set their power, between two refreshes.  *)
LEMMA OutdatedFacts ==
  ASSUME NEW device, DOMAIN device = DeviceFields, NEW after,
         \/ after \in {Outdated(device), Dirtied(device)}
         \/ \E exposes \in BOOLEAN : after = LeftBehind(device, exposes)
  PROVE  /\ DOMAIN after = DeviceFields
         /\ after.hwcId = device.hwcId /\ after.surface = device.surface
         /\ after.view = device.view
  BY DEF Outdated, Dirtied, LeftBehind, DeviceFields

(* The handlers of messages change no id, surface or view.                 *)
LEMMA MessagesKeepDevices ==
  ASSUME DisplaysInv,
         \/ \E s \in Stacks :
              \/ \E empty \in BOOLEAN : handleLayerTransaction(s, empty)
              \/ \E to \in Stacks : setLayerStack(s, to)
              \/ handlePageFlip(s)
              \/ removeLayers(s)
         \/ \E d \in DOMAIN mDisplays, on \in BOOLEAN : setPowerMode(d, on)
  PROVE  SameDevices
<1>1. \A d \in DOMAIN mDisplays : DOMAIN mDisplays[d] = DeviceFields
  BY DEF DisplaysInv, DisplaysTypeInv
<1>2. CASE \E s \in Stacks : (\E empty \in BOOLEAN : handleLayerTransaction(s, empty))
                             \/ handlePageFlip(s) \/ removeLayers(s)
  <2>1. /\ DOMAIN mDisplays' = DOMAIN mDisplays
        /\ \A d \in DOMAIN mDisplays :
             mDisplays'[d] \in {mDisplays[d], Outdated(mDisplays[d]), Dirtied(mDisplays[d])}
    BY <1>2 DEF handleLayerTransaction, handlePageFlip, removeLayers, invalidateLayerStack
  <2> QED BY <1>1, <2>1, OutdatedFacts DEF SameDevices
<1>3. CASE \E d \in DOMAIN mDisplays, on \in BOOLEAN : setPowerMode(d, on)
  <2>1. PICK d \in DOMAIN mDisplays, on \in BOOLEAN : setPowerMode(d, on)
    BY <1>3
  <2>2. PICK device : device = Outdated(mDisplays[d])
    OBVIOUS
  <2>3. mDisplays' = [mDisplays EXCEPT ![d] = [device EXCEPT !.on = on]]
    BY <2>1, <2>2 DEF setPowerMode
  <2>4. /\ DOMAIN device = DeviceFields /\ device.hwcId = mDisplays[d].hwcId
        /\ device.surface = mDisplays[d].surface /\ device.view = mDisplays[d].view
    BY <1>1, <2>2, OutdatedFacts
  <2> QED BY <1>1, <2>3, <2>4 DEF SameDevices, DeviceFields
<1>4. ASSUME NEW from \in Stacks, NEW to \in Stacks, setLayerStack(from, to)
      PROVE  SameDevices
  <2>1. PICK exposes \in BOOLEAN :
          mDisplays' = [d \in DOMAIN mDisplays |->
            CASE ShowsStack(mDisplays[d], from) -> LeftBehind(mDisplays[d], exposes)
              [] ShowsStack(mDisplays[d], to) -> Outdated(mDisplays[d])
              [] OTHER -> mDisplays[d]]
    BY <1>4 DEF setLayerStack
  <2>2. /\ DOMAIN mDisplays' = DOMAIN mDisplays
        /\ \A d \in DOMAIN mDisplays :
             mDisplays'[d] \in {mDisplays[d], Outdated(mDisplays[d]),
                               LeftBehind(mDisplays[d], exposes)}
    BY <2>1
  <2> QED BY <1>1, <2>2, OutdatedFacts DEF SameDevices
<1> QED BY <1>2, <1>3, <1>4

(* Transactions of layers, page flips and power modes change no device's   *)
(* identity.                                                               *)
LEMMA MessagesKeepDisplays ==
  ASSUME DisplaysInv,
         \/ \E s \in Stacks :
              \/ \E empty \in BOOLEAN : handleLayerTransaction(s, empty)
              \/ \E to \in Stacks : setLayerStack(s, to)
              \/ handlePageFlip(s)
              \/ removeLayers(s)
         \/ \E d \in DOMAIN mDisplays, on \in BOOLEAN : setPowerMode(d, on)
  PROVE  DisplaysInv'
<1>1. /\ UNCHANGED <<currentDisplays, mBuiltinExternal, drawingDisplays,
                     mAllocatedDisplayIDs, mDisplayData, main, mHwWorkListDirty,
                     hotplugEvent, plugged>>
      /\ main = "idle"
      /\ mVisibleRegionsDirty => mVisibleRegionsDirty'
  BY DEF handleLayerTransaction, setLayerStack, handlePageFlip, removeLayers, setPowerMode,
         tokenVars, hardwareVars, plugVars
<1>2. SameDevices  BY MessagesKeepDevices
<1>3. SameData  BY <1>1, Unchanged
<1>4. DisplaysTypeInv' /\ OneExternal'
  BY <1>1, <1>2 DEF DisplaysInv, DisplaysTypeInv, OneExternal, SameDevices
<1>5. IdsFit' /\ DevicesMatchDrawingState' /\ IdsAreInUse'
  BY <1>1, <1>2, DevicesKept
<1>6. OutputsAreBacked' /\ ListsAreComing'
  BY <1>1, <1>2, <1>3, DataKept
<1> QED BY <1>4, <1>5, <1>6 DEF DisplaysInv

(* setActiveConfig changes the data of the display alone.                  *)
LEMMA ConfigKeepsDisplays ==
  ASSUME DisplaysInv, NEW d \in DOMAIN mDisplays, NEW mode, setActiveConfig(d, mode)
  PROVE  DisplaysInv'
<1>1. UNCHANGED <<currentDisplays, mBuiltinExternal, drawingDisplays, mDisplays,
                  mAllocatedDisplayIDs, main, mVisibleRegionsDirty, mHwWorkListDirty,
                  hotplugEvent, plugged>>
  BY DEF setActiveConfig, tokenVars, flagVars, plugVars
<1>2. SameData
  <2> DEFINE id == mDisplays[d].hwcId
  <2>1. mDisplayData' = [mDisplayData EXCEPT ![id].currentConfig = mode]
    BY DEF setActiveConfig
  <2>2. DOMAIN mDisplayData = Ids /\ \A i \in Ids : DOMAIN mDisplayData[i] = DataFields
    BY DEF DisplaysInv, DisplaysTypeInv
  <2>3. VirtualIds \subseteq Ids
    BY DEF VirtualIds, Ids
  <2> HIDE DEF id
  <2> QED BY <2>1, <2>2, <2>3 DEF SameData, DataFields
<1>3. SameDevices  BY <1>1, Unchanged
<1>4. DisplaysTypeInv' /\ OneExternal'
  BY <1>1, <1>2 DEF DisplaysInv, DisplaysTypeInv, OneExternal, SameData
<1>5. IdsFit' /\ DevicesMatchDrawingState' /\ IdsAreInUse'
  BY <1>1, <1>3, DevicesKept
<1>6. OutputsAreBacked' /\ ListsAreComing'
  BY <1>1, <1>2, <1>3, DataKept
<1> QED BY <1>4, <1>5, <1>6 DEF DisplaysInv

-----------------------------------------------------------------------------
(* The transaction is committed: devices of displays that are gone or have *)
(* another surface go with their ids and outputs, and new ones take ids    *)
(* that nobody has.                                                        *)
LEMMA CommittedFacts ==
  ASSUME DisplaysInv, commitDisplays
  PROVE  /\ DOMAIN mDisplays' =
              {d \in DOMAIN currentDisplays :
                 IsVirtual(d) => currentDisplays[d].surface # None}
         /\ \A d \in DOMAIN mDisplays' :
              /\ DOMAIN mDisplays'[d] = DeviceFields
              /\ mDisplays'[d].surface = SurfaceOf(d, currentDisplays[d])
              /\ mDisplays'[d].view = currentDisplays[d].view
              /\ d \in Added => mDisplays'[d].hwcId = AllocatedId(d)
              /\ d \notin Added => /\ d \in DOMAIN mDisplays \ Removed
                                   /\ mDisplays'[d].hwcId = mDisplays[d].hwcId
                                   /\ mDisplays'[d].surface = mDisplays[d].surface
         /\ \A d \in DOMAIN mDisplays \ Removed :
              d \in DOMAIN mDisplays' /\ d \notin Added
<1> DEFINE added == {d \in Added : ~IsDormant(d)}
<1>1. mDisplays' = [d \in (DOMAIN mDisplays \ Removed) \union added |->
                      IF d \in added THEN NewDevice(d, currentDisplays[d], AllocatedId(d))
                      ELSE Updated(mDisplays[d], currentDisplays[d])]
  BY DEF commitDisplays, CommittedDevices
<1>2. /\ DOMAIN mDisplays = {d \in DOMAIN drawingDisplays :
                              IsVirtual(d) => drawingDisplays[d].surface # None}
      /\ \A d \in DOMAIN mDisplays :
           /\ mDisplays[d].surface = SurfaceOf(d, drawingDisplays[d])
           /\ DOMAIN mDisplays[d] = DeviceFields
  BY DEF DisplaysInv, DevicesMatchDrawingState, DisplaysTypeInv
<1>3. (DOMAIN mDisplays \ Removed) \union added
        = {d \in DOMAIN currentDisplays : IsVirtual(d) => currentDisplays[d].surface # None}
  BY <1>2 DEF Removed, Added, Replaced, Kept, IsDormant
<1>4. \A d \in DOMAIN mDisplays \ Removed :
        d \notin Added /\ SurfaceOf(d, currentDisplays[d]) = mDisplays[d].surface
  BY <1>2 DEF Removed, Added, Replaced, Kept, SurfaceOf
<1>5. \A d \in added : LET device == NewDevice(d, currentDisplays[d], AllocatedId(d)) IN
        /\ DOMAIN device = DeviceFields
        /\ device.surface = SurfaceOf(d, currentDisplays[d])
        /\ device.view = currentDisplays[d].view /\ device.hwcId = AllocatedId(d)
  BY DEF NewDevice, DeviceFields
<1>6. ASSUME NEW d \in DOMAIN mDisplays \ Removed
      PROVE  LET device == Updated(mDisplays[d], currentDisplays[d]) IN
             /\ DOMAIN device = DeviceFields
             /\ device.surface = mDisplays[d].surface
             /\ device.view = currentDisplays[d].view /\ device.hwcId = mDisplays[d].hwcId
  <2> DEFINE outdated == Outdated(mDisplays[d])
             view == currentDisplays[d].view
  <2>1. DOMAIN mDisplays[d] = DeviceFields  BY <1>2
  <2>2. /\ DOMAIN outdated = DeviceFields /\ outdated.hwcId = mDisplays[d].hwcId
        /\ outdated.surface = mDisplays[d].surface
    BY <2>1, OutdatedFacts
  <2>3. Updated(mDisplays[d], currentDisplays[d]) =
          IF mDisplays[d].view = view THEN mDisplays[d]
          ELSE [outdated EXCEPT !.view = view, !.dirty = ~IsAway(view),
                                !.missed = IsAway(view)]
    BY DEF Updated
  <2> HIDE DEF outdated
  <2> QED BY <2>1, <2>2, <2>3 DEF DeviceFields
<1>7. DOMAIN mDisplays'
        = {d \in DOMAIN currentDisplays : IsVirtual(d) => currentDisplays[d].surface # None}
  BY <1>1, <1>3
<1>8. \A d \in DOMAIN mDisplays \ Removed : d \in DOMAIN mDisplays' /\ d \notin Added
  BY <1>3, <1>4, <1>7
<1>9. ASSUME NEW d \in DOMAIN mDisplays'
      PROVE  /\ DOMAIN mDisplays'[d] = DeviceFields
             /\ mDisplays'[d].surface = SurfaceOf(d, currentDisplays[d])
             /\ mDisplays'[d].view = currentDisplays[d].view
             /\ d \in Added => mDisplays'[d].hwcId = AllocatedId(d)
             /\ d \notin Added => /\ d \in DOMAIN mDisplays \ Removed
                                  /\ mDisplays'[d].hwcId = mDisplays[d].hwcId
                                  /\ mDisplays'[d].surface = mDisplays[d].surface
  <2>1. CASE d \in added
    BY <1>1, <1>3, <1>5, <1>7, <2>1
  <2>2. CASE d \notin added
    <3>1. d \in DOMAIN mDisplays \ Removed /\ d \notin Added
      BY <1>3, <1>4, <1>7, <2>2
    <3>2. mDisplays'[d] = Updated(mDisplays[d], currentDisplays[d])
      BY <1>1, <2>2, <3>1
    <3> QED BY <1>4, <1>6, <3>1, <3>2
  <2> QED BY <2>1, <2>2
<1> QED BY <1>7, <1>8, <1>9

(* The id of a device that stays is not given back.                        *)
LEMMA KeptIdsStay ==
  ASSUME DisplaysInv, NEW d \in DOMAIN mDisplays \ Removed,
         mDisplays[d].hwcId \in VirtualIds
  PROVE  mDisplays[d].hwcId \notin DisconnectedIds
<1>1. SUFFICES ASSUME NEW e \in Removed \intersect DOMAIN mDisplays,
                      mDisplays[e].hwcId = mDisplays[d].hwcId
               PROVE  FALSE
  BY DEF DisconnectedIds
<1>2. mDisplays[d].hwcId # NoId
  BY DisplaysAssumption DEF VirtualIds, NoId
<1> QED BY <1>1, <1>2 DEF DisplaysInv, IdsAreInUse

(* What a commit leaves in the data of HWComposer: nothing of the ids it   *)
(* disconnects.                                                            *)
LEMMA CommittedDataFacts ==
  ASSUME DisplaysInv, commitDisplays
  PROVE  /\ DOMAIN mDisplayData' = Ids
         /\ \A id \in Ids : DOMAIN mDisplayData'[id] = DataFields
         /\ \A id \in VirtualIds :
              IF id \in DisconnectedIds THEN mDisplayData'[id].outbuf = None
              ELSE /\ mDisplayData'[id].outbuf = mDisplayData[id].outbuf
                   /\ mDisplayData'[id].list = mDisplayData[id].list
<1> DEFINE new == {mDisplays'[d].hwcId : d \in Added \intersect DOMAIN mDisplays'}
           Kept1(id) == IF id \in DisconnectedIds
                        THEN [disconnectDisplay(mDisplayData[id]) EXCEPT
                                !.connected = @ /\ id \notin VirtualIds]
                        ELSE mDisplayData[id]
<1>1. mDisplayData' = [id \in Ids |-> IF id \in new \intersect VirtualIds
        THEN [Kept1(id) EXCEPT !.connected = TRUE, !.configs = 1, !.currentConfig = 0]
        ELSE Kept1(id)]
  BY DEF commitDisplays, CommittedData
<1>2. \A id \in Ids : DOMAIN mDisplayData[id] = DataFields
  BY DEF DisplaysInv, DisplaysTypeInv
<1>3. ASSUME NEW id \in Ids
      PROVE  /\ DOMAIN Kept1(id) = DataFields
             /\ IF id \in DisconnectedIds THEN Kept1(id).outbuf = None
                ELSE Kept1(id) = mDisplayData[id]
  <2>1. CASE id \in DisconnectedIds
    <3> DEFINE data == disconnectDisplay(mDisplayData[id])
    <3>1. DOMAIN data = DataFields /\ data.outbuf = None
      BY <1>2 DEF disconnectDisplay, DataFields
    <3>2. Kept1(id) = [data EXCEPT !.connected = data.connected /\ id \notin VirtualIds]
      BY <2>1, <3>1 DEF DataFields
    <3> HIDE DEF data
    <3> QED BY <2>1, <3>1, <3>2 DEF DataFields
  <2>2. CASE id \notin DisconnectedIds
    BY <1>2, <2>2
  <2> QED BY <2>1, <2>2
<1>4. VirtualIds \subseteq Ids
  BY DEF VirtualIds, Ids
<1> HIDE DEF new, Kept1
<1> QED BY <1>1, <1>2, <1>3, <1>4 DEF DataFields

(* A display transaction brings devices, ids and display data in line with *)
(* the new state.                                                          *)
LEMMA CommitKeepsDisplays ==
  ASSUME DisplaysInv, main = "idle", commitDisplays
  PROVE  DisplaysInv'
<1>1. /\ UNCHANGED <<currentDisplays, mBuiltinExternal, main, mHwWorkListDirty,
                     hotplugEvent, plugged>>
      /\ main = "idle" /\ drawingDisplays' = currentDisplays
      /\ mVisibleRegionsDirty' =
           (mVisibleRegionsDirty \/ currentDisplays # drawingDisplays)
      /\ mAllocatedDisplayIDs' = IdsAfterDisconnect \union
           ({mDisplays'[d].hwcId : d \in DOMAIN mDisplays'} \cap VirtualIds)
  BY DEF commitDisplays, tokenVars, plugVars
<1>2. /\ DOMAIN mDisplays' =
           {d \in DOMAIN currentDisplays : IsVirtual(d) => currentDisplays[d].surface # None}
      /\ \A d \in DOMAIN mDisplays' :
           /\ DOMAIN mDisplays'[d] = DeviceFields
           /\ mDisplays'[d].surface = SurfaceOf(d, currentDisplays[d])
           /\ mDisplays'[d].view = currentDisplays[d].view
           /\ d \in Added => mDisplays'[d].hwcId = AllocatedId(d)
           /\ d \notin Added => /\ d \in DOMAIN mDisplays \ Removed
                                /\ mDisplays'[d].hwcId = mDisplays[d].hwcId
                                /\ mDisplays'[d].surface = mDisplays[d].surface
      /\ \A d \in DOMAIN mDisplays \ Removed :
           d \in DOMAIN mDisplays' /\ d \notin Added
  BY CommittedFacts
<1>3. /\ DOMAIN mDisplayData' = Ids
      /\ \A id \in Ids : DOMAIN mDisplayData'[id] = DataFields
      /\ \A id \in VirtualIds :
           IF id \in DisconnectedIds THEN mDisplayData'[id].outbuf = None
           ELSE /\ mDisplayData'[id].outbuf = mDisplayData[id].outbuf
                /\ mDisplayData'[id].list = mDisplayData[id].list
  BY CommittedDataFacts
<1>4. NoId \notin VirtualIds \union {PrimaryId, ExternalId} /\ PrimaryId # ExternalId
      /\ PrimaryId \notin VirtualIds /\ ExternalId \notin VirtualIds
  BY DisplaysAssumption DEF NoId, VirtualIds, PrimaryId, ExternalId
<1>5. DisplaysTypeInv' /\ OneExternal'
  BY <1>1, <1>2, <1>3 DEF DisplaysInv, DisplaysTypeInv, OneExternal
<1>6. IdsFit'
  BY <1>2, AllocatedIdFacts DEF DisplaysInv, IdsFit, FreeIds
<1>7. DevicesMatchDrawingState'
  BY <1>1, <1>2 DEF DevicesMatchDrawingState, IsVirtual
<1>8. ASSUME NEW d \in DOMAIN mDisplays \ Removed, mDisplays[d].hwcId \in VirtualIds
      PROVE  mDisplays[d].hwcId \in IdsAfterDisconnect
  BY <1>8, KeptIdsStay DEF DisplaysInv, IdsAreInUse, IdsAfterDisconnect
<1>9. ASSUME NEW d \in DOMAIN mDisplays', NEW e \in DOMAIN mDisplays', d # e,
             mDisplays'[d].hwcId = mDisplays'[e].hwcId, mDisplays'[d].hwcId # NoId
      PROVE  FALSE
  <2>1. d \in Tokens /\ e \in Tokens /\ d \in DOMAIN currentDisplays
          /\ e \in DOMAIN currentDisplays
    BY <1>2 DEF DisplaysInv, DisplaysTypeInv
  <2>2. \A c \in {d, e} :
          /\ c = Primary => mDisplays'[c].hwcId = PrimaryId
          /\ c \in Externals => mDisplays'[c].hwcId = ExternalId
          /\ c \in Virtuals => mDisplays'[c].hwcId \in VirtualIds
    BY <1>6, <1>9 DEF IdsFit
  <2>3. ~(d \in Externals /\ e \in Externals)
    BY <1>9, <2>1 DEF DisplaysInv, OneExternal
  <2>4. d \in Virtuals /\ e \in Virtuals
    BY <1>4, <1>9, <2>1, <2>2, <2>3 DEF Tokens
  <2>5. CASE d \in Added /\ e \in Added
    BY <1>2, <1>9, <2>4, <2>5, AllocatedIdFacts
  <2>6. CASE d \notin Added /\ e \notin Added
    BY <1>2, <1>9, <2>6 DEF DisplaysInv, IdsAreInUse
  <2>7. ASSUME NEW a \in {d, e}, NEW b \in {d, e}, a \in Added, b \notin Added
        PROVE  FALSE
    <3>1. mDisplays'[a].hwcId \in FreeIds
      BY <1>2, <1>9, <2>4, <2>7, AllocatedIdFacts
    <3>2. mDisplays'[b].hwcId \in IdsAfterDisconnect
      BY <1>2, <1>8, <2>2, <2>4, <2>7
    <3> QED BY <1>9, <3>1, <3>2 DEF FreeIds
  <2> QED BY <2>5, <2>6, <2>7
<1>10. IdsAreInUse'
  <2>1. ASSUME NEW id \in IdsAfterDisconnect
        PROVE  id \in {mDisplays'[d].hwcId : d \in DOMAIN mDisplays'} \cap VirtualIds
    <3>1. PICK d \in DOMAIN mDisplays : mDisplays[d].hwcId = id /\ id \in VirtualIds
      BY DEF IdsAfterDisconnect, DisplaysInv, IdsAreInUse
    <3>2. d \notin Removed
      BY <1>4, <3>1 DEF IdsAfterDisconnect, DisconnectedIds
    <3> QED BY <1>2, <3>1, <3>2
  <2> QED BY <1>1, <1>9, <2>1 DEF IdsAreInUse
<1>11. OutputsAreBacked'
  <2> SUFFICES ASSUME NEW id \in VirtualIds, mDisplayData'[id].outbuf # None
               PROVE  /\ mDisplayData'[id].list
                      /\ \E d \in DOMAIN mDisplays' :
                           /\ mDisplays'[d].hwcId = id
                           /\ mDisplays'[d].surface = mDisplayData'[id].outbuf
    BY DEF OutputsAreBacked, DevicesWith
  <2>1. /\ id \notin DisconnectedIds /\ mDisplayData'[id].outbuf = mDisplayData[id].outbuf
        /\ mDisplayData'[id].list = mDisplayData[id].list
    BY <1>3
  <2>2. mDisplayData[id].list
    BY <2>1 DEF DisplaysInv, OutputsAreBacked
  <2>3. PICK d \in DOMAIN mDisplays : /\ mDisplays[d].hwcId = id
                                     /\ mDisplays[d].surface = mDisplayData[id].outbuf
    BY <2>1 DEF DisplaysInv, OutputsAreBacked, DevicesWith
  <2>4. d \notin Removed
    BY <1>4, <2>1, <2>3 DEF DisconnectedIds
  <2> QED BY <1>2, <2>1, <2>2, <2>3, <2>4
<1>12. ListsAreComing'
  <2>1. ASSUME NEW d \in Added PROVE currentDisplays # drawingDisplays
    BY DEF Added, Replaced, Kept
  <2>2. ASSUME NEW d \in DOMAIN mDisplays', d \notin Added,
               mDisplays'[d].hwcId \in VirtualIds
        PROVE  \/ mDisplayData'[mDisplays'[d].hwcId].list
               \/ mHwWorkListDirty \/ mVisibleRegionsDirty
    <3>1. /\ d \in DOMAIN mDisplays \ Removed
          /\ mDisplays'[d].hwcId = mDisplays[d].hwcId
      BY <1>2, <2>2
    <3>2. mDisplays[d].hwcId \notin DisconnectedIds
      BY <2>2, <3>1, KeptIdsStay
    <3> QED BY <1>3, <2>2, <3>1, <3>2 DEF DisplaysInv, ListsAreComing
  <2> QED BY <1>1, <2>1, <2>2 DEF ListsAreComing
<1> QED BY <1>5, <1>6, <1>7, <1>10, <1>11, <1>12 DEF DisplaysInv

(* A process that ends changes nothing.                                    *)
LEMMA AbortKeepsDisplays ==
  ASSUME DisplaysInv, abort
  PROVE  DisplaysInv'
<1>1. /\ UNCHANGED <<currentDisplays, mBuiltinExternal, drawingDisplays, mDisplays,
                     mAllocatedDisplayIDs, mDisplayData, mVisibleRegionsDirty,
                     mHwWorkListDirty, hotplugEvent, plugged>>
      /\ main' # "rebuilt"
  BY DEF abort, tokenVars, hardwareVars, flagVars, plugVars
<1>2. SameDevices /\ SameData  BY <1>1, Unchanged
<1>3. DisplaysTypeInv' /\ OneExternal'
  BY <1>1 DEF DisplaysInv, DisplaysTypeInv, OneExternal
<1>4. IdsFit' /\ DevicesMatchDrawingState' /\ IdsAreInUse'
  BY <1>1, <1>2, DevicesKept
<1>5. OutputsAreBacked' /\ ListsAreComing'
  BY <1>1, <1>2, DataKept
<1> QED BY <1>3, <1>4, <1>5 DEF DisplaysInv

-----------------------------------------------------------------------------
(* The rebuild of visible regions keeps the devices.                       *)
LEMMA RebuildKeepsDevices ==
  ASSUME DisplaysInv, rebuildLayerStacks
  PROVE  SameDevices
<1>1. \A d \in DOMAIN mDisplays : DOMAIN mDisplays[d] = DeviceFields
  BY DEF DisplaysInv, DisplaysTypeInv
<1>2. \A d \in DOMAIN mDisplays : /\ DOMAIN Rebuilt(d) = DeviceFields
                                 /\ Rebuilt(d).hwcId = mDisplays[d].hwcId
                                 /\ Rebuilt(d).surface = mDisplays[d].surface
                                 /\ Rebuilt(d).view = mDisplays[d].view
  BY <1>1 DEF Rebuilt, DeviceFields
<1>3. UNCHANGED mDisplays \/ mDisplays' = [d \in DOMAIN mDisplays |-> Rebuilt(d)]
  BY DEF rebuildLayerStacks
<1> QED BY <1>1, <1>2, <1>3 DEF SameDevices

(* A refresh.                                                              *)
LEMMA RebuildKeepsDisplays ==
  ASSUME DisplaysInv, rebuildLayerStacks
  PROVE  DisplaysInv'
<1>1. /\ UNCHANGED <<currentDisplays, mBuiltinExternal, drawingDisplays,
                     mAllocatedDisplayIDs, mDisplayData, hotplugEvent, plugged>>
      /\ main = "idle" /\ main' = "rebuilt" /\ mVisibleRegionsDirty' = FALSE
      /\ mHwWorkListDirty' = (mHwWorkListDirty \/ mVisibleRegionsDirty)
  BY DEF rebuildLayerStacks, tokenVars, hardwareVars, plugVars
<1>2. SameDevices  BY RebuildKeepsDevices
<1>3. DisplaysTypeInv' /\ OneExternal'
  BY <1>1, <1>2 DEF DisplaysInv, DisplaysTypeInv, OneExternal, SameDevices
<1>4. IdsFit' /\ DevicesMatchDrawingState' /\ IdsAreInUse'
  BY <1>1, <1>2, DevicesKept
<1>5. OutputsAreBacked'
  BY <1>1, <1>2 DEF DisplaysInv, OutputsAreBacked, SameDevices, DevicesWith
<1>6. ListsAreComing'
  BY <1>1, <1>2 DEF DisplaysInv, ListsAreComing, SameDevices
<1> QED BY <1>3, <1>4, <1>5, <1>6 DEF DisplaysInv

(* So does the set up of the hardware composer.                            *)
LEMMA SetUpKeepsDevices ==
  ASSUME DisplaysInv, setUpHWComposer
  PROVE  SameDevices
<1>1. \A d \in DOMAIN mDisplays : DOMAIN mDisplays[d] = DeviceFields
  BY DEF DisplaysInv, DisplaysTypeInv
<1> QED BY <1>1 DEF setUpHWComposer, SameDevices, DeviceFields

(* Every virtual display of the hardware has its list before its output.   *)
LEMMA SetUpKeepsDisplays ==
  ASSUME DisplaysInv, setUpHWComposer
  PROVE  DisplaysInv'
<1>1. /\ UNCHANGED <<currentDisplays, mBuiltinExternal, drawingDisplays,
                     mAllocatedDisplayIDs, hotplugEvent, plugged>>
      /\ main = "rebuilt" /\ main' = "prepared" /\ mHwWorkListDirty' = FALSE
  BY DEF setUpHWComposer, tokenVars, plugVars
<1>2. SameDevices  BY SetUpKeepsDevices
<1>3. \A id : DevicesWith({id})' = DevicesWith({id})
  BY <1>2 DEF DevicesWith, SameDevices
<1>4. /\ DOMAIN mDisplayData' = Ids
      /\ \A id \in Ids :
           /\ DOMAIN mDisplayData'[id] = DataFields
           /\ mDisplayData'[id].list =
                (mDisplayData[id].list \/ (mHwWorkListDirty /\ DevicesWith({id}) # {}))
           /\ mDisplayData'[id].outbuf =
                IF id \in VirtualIds /\ DevicesWith({id}) # {}
                THEN mDisplays[CHOOSE d \in DevicesWith({id}) : TRUE].surface
                ELSE mDisplayData[id].outbuf
  <2>1. \A id \in Ids : DOMAIN mDisplayData[id] = DataFields
    BY DEF DisplaysInv, DisplaysTypeInv
  <2> QED BY <2>1 DEF setUpHWComposer, DataFields
<1>5. ASSUME NEW id \in VirtualIds, DevicesWith({id}) # {}
      PROVE  mDisplayData'[id].list
  <2>1. id \in Ids  BY DEF VirtualIds, Ids
  <2>2. PICK d \in DOMAIN mDisplays : mDisplays[d].hwcId = id
    BY <1>5 DEF DevicesWith
  <2>3. mDisplayData[id].list \/ mHwWorkListDirty
    BY <1>1, <2>2 DEF DisplaysInv, ListsAreComing
  <2> QED BY <1>4, <1>5, <2>1, <2>3
<1>6. DisplaysTypeInv' /\ OneExternal'
  BY <1>1, <1>2, <1>4 DEF DisplaysInv, DisplaysTypeInv, OneExternal, SameDevices
<1>7. IdsFit' /\ DevicesMatchDrawingState' /\ IdsAreInUse'
  BY <1>1, <1>2, DevicesKept
<1>8. OutputsAreBacked'
  <2> SUFFICES ASSUME NEW id \in VirtualIds, mDisplayData'[id].outbuf # None
               PROVE  /\ mDisplayData'[id].list
                      /\ \E d \in DevicesWith({id}) :
                           mDisplays[d].surface = mDisplayData'[id].outbuf
    BY <1>2, <1>3 DEF OutputsAreBacked, SameDevices, DevicesWith
  <2>1. id \in Ids  BY DEF VirtualIds, Ids
  <2>2. CASE DevicesWith({id}) # {}
    BY <1>4, <1>5, <2>1, <2>2
  <2>3. CASE DevicesWith({id}) = {}
    BY <1>4, <2>1, <2>3 DEF DisplaysInv, OutputsAreBacked
  <2> QED BY <2>2, <2>3
<1>9. ListsAreComing'
  BY <1>1, <1>2, <1>5 DEF ListsAreComing, SameDevices, DevicesWith
<1> QED BY <1>6, <1>7, <1>8, <1>9 DEF DisplaysInv

(* And so does the composition.                                            *)
LEMMA CompositionKeepsDevices ==
  ASSUME DisplaysInv, doComposition
  PROVE  SameDevices
<1>1. \A d \in DOMAIN mDisplays : DOMAIN mDisplays[d] = DeviceFields
  BY DEF DisplaysInv, DisplaysTypeInv
<1> QED BY <1>1 DEF doComposition, SameDevices, DeviceFields

(* The end of a refresh.                                                   *)
LEMMA CompositionKeepsDisplays ==
  ASSUME DisplaysInv, doComposition
  PROVE  DisplaysInv'
<1>1. /\ UNCHANGED <<currentDisplays, mBuiltinExternal, drawingDisplays,
                     mAllocatedDisplayIDs, mDisplayData, hotplugEvent, plugged,
                     mHwWorkListDirty, mVisibleRegionsDirty>>
      /\ main = "prepared" /\ main' = "idle"
  BY DEF doComposition, tokenVars, hardwareVars, plugVars
<1>2. SameDevices  BY CompositionKeepsDevices
<1>3. DisplaysTypeInv' /\ OneExternal'
  BY <1>1, <1>2 DEF DisplaysInv, DisplaysTypeInv, OneExternal, SameDevices
<1>4. IdsFit' /\ DevicesMatchDrawingState' /\ IdsAreInUse'
  BY <1>1, <1>2, DevicesKept
<1>5. OutputsAreBacked'
  BY <1>1, <1>2 DEF DisplaysInv, OutputsAreBacked, SameDevices, DevicesWith
<1>6. ListsAreComing'
  BY <1>1, <1>2 DEF DisplaysInv, ListsAreComing, SameDevices
<1> QED BY <1>3, <1>4, <1>5, <1>6 DEF DisplaysInv

-----------------------------------------------------------------------------
(* Devices, the drawing state, ids and the data of HWComposer agree in     *)
(* every state (SurfaceFlinger.cpp:1408-1510, HWComposer.cpp:423-460).     *)
THEOREM DisplaysInvHolds == DisplaysSpec => []DisplaysInv
<1>1. DisplaysInit => DisplaysInv
  <2> SUFFICES ASSUME DisplaysInit PROVE DisplaysInv
    OBVIOUS
  <2>1. /\ DOMAIN currentDisplays = {Primary} /\ drawingDisplays = currentDisplays
        /\ currentDisplays[Primary].surface = None
        /\ currentDisplays[Primary].view = FirstView
        /\ mBuiltinExternal = None /\ mAllocatedDisplayIDs = {}
        /\ hotplugEvent = "none" /\ plugged = FALSE /\ main = "idle"
        /\ mVisibleRegionsDirty = TRUE
    BY DEF DisplaysInit
  <2>2. /\ DOMAIN mDisplays = {Primary} /\ DOMAIN mDisplays[Primary] = DeviceFields
        /\ mDisplays[Primary].hwcId = PrimaryId /\ mDisplays[Primary].surface = None
        /\ mDisplays[Primary].view = FirstView
    BY DEF DisplaysInit, NewDevice, SurfaceOf, DeviceFields
  <2>3. /\ DOMAIN mDisplayData = Ids
        /\ \A id \in Ids : /\ DOMAIN mDisplayData[id] = DataFields
                           /\ mDisplayData[id].outbuf = None
    BY DEF DisplaysInit, NoDisplayData, DataFields
  <2>4. PrimaryId \notin VirtualIds /\ VirtualIds \subseteq Ids
    BY DEF PrimaryId, VirtualIds, Ids
  <2>5. Primary \in Tokens /\ Primary \notin Externals /\ Primary \notin Virtuals
    BY DisplaysAssumption DEF Tokens
  <2>6. DisplaysTypeInv /\ OneExternal
    BY <2>1, <2>2, <2>3, <2>5 DEF DisplaysTypeInv, OneExternal
  <2>7. IdsFit /\ DevicesMatchDrawingState
    BY <2>1, <2>2, <2>5 DEF IdsFit, DevicesMatchDrawingState, IsVirtual, SurfaceOf
  <2>8. IdsAreInUse
    BY <2>1, <2>2, <2>4 DEF IdsAreInUse
  <2>9. OutputsAreBacked /\ ListsAreComing
    BY <2>1, <2>3, <2>4 DEF OutputsAreBacked, ListsAreComing
  <2> QED BY <2>6, <2>7, <2>8, <2>9 DEF DisplaysInv
<1>2. DisplaysInv /\ [DisplaysNext]_displayVars => DisplaysInv'
  <2> SUFFICES ASSUME DisplaysInv, [DisplaysNext]_displayVars PROVE DisplaysInv'
    OBVIOUS
  <2>1. CASE UNCHANGED displayVars
    <3>1. UNCHANGED <<currentDisplays, mBuiltinExternal, drawingDisplays, mDisplays,
                      mAllocatedDisplayIDs, mDisplayData, main, mVisibleRegionsDirty,
                      mHwWorkListDirty, hotplugEvent, plugged>>
      BY <2>1 DEF displayVars, tokenVars, hardwareVars, flagVars, plugVars
    <3>2. SameDevices /\ SameData  BY <3>1, Unchanged
    <3>3. IdsFit' /\ DevicesMatchDrawingState' /\ IdsAreInUse'
      BY <3>1, <3>2, DevicesKept
    <3>4. OutputsAreBacked' /\ ListsAreComing'
      BY <3>1, <3>2, DataKept
    <3> QED BY <3>1, <3>3, <3>4 DEF DisplaysInv, DisplaysTypeInv, OneExternal
  <2> QED BY <2>1, ClientsKeepDisplays, QueryKeepsDisplays, HotplugKeepsDisplays,
             CommitKeepsDisplays, AbortKeepsDisplays, MessagesKeepDisplays,
             ConfigKeepsDisplays, RebuildKeepsDisplays, SetUpKeepsDisplays,
             CompositionKeepsDisplays
          DEF DisplaysNext, OutsideNext, MainNext, handleDisplayTransaction
<1> QED BY <1>1, <1>2, PTL DEF DisplaysSpec

(* Displays, hardware ids and output buffers belong together at every step *)
(* of a transaction and a frame (SurfaceFlinger.cpp:1357-1510,             *)
(* HWComposer.cpp:423-446, 700-756).                                       *)
THEOREM DevicesStayBacked == DisplaysSpec => []DevicesAreBacked
<1>1. DisplaysInv => DevicesAreBacked
  BY DEF DisplaysInv, DevicesAreBacked, OutputsAreBacked, OutputsHaveLists
<1> QED BY <1>1, DisplaysInvHolds, PTL

-----------------------------------------------------------------------------
(* The second half: what the screens show.                                 *)

(* A device after a message that may have outdated or dirtied it.          *)
Touched(d) ==
  /\ mDisplays'[d].hwcId = mDisplays[d].hwcId /\ mDisplays'[d].view = mDisplays[d].view
  /\ mDisplays'[d].visible = mDisplays[d].visible
  /\ mDisplays'[d].lastCompositionHadVisibleLayers
       = mDisplays[d].lastCompositionHadVisibleLayers
  /\ mDisplays'[d].missed = mDisplays[d].missed
  /\ mDisplays'[d].shown \in {"blank", "current", "old"}
  /\ mDisplays[d].shown = "blank" => mDisplays'[d].shown = "blank"

(* Marking a device touches only what it shows and that it is dirty.       *)
LEMMA OutdatedTouches ==
  ASSUME NEW device, DOMAIN device = DeviceFields, NEW after,
         after \in {Outdated(device), Dirtied(device)}
  PROVE  /\ after.on = device.on /\ after.visible = device.visible
         /\ after.lastCompositionHadVisibleLayers = device.lastCompositionHadVisibleLayers
         /\ after.missed = device.missed
         /\ after.shown \in {"blank", "old"}
         /\ device.shown = "blank" => after.shown = "blank"
         /\ after = Dirtied(device) => after.dirty = TRUE
  BY DEF Outdated, Dirtied, DeviceFields

(* Hints depend on the stacks the devices show.                            *)
LEMMA HintsKept ==
  ASSUME SameDevices
  PROVE  Hints(mDisplays') = Hints(mDisplays)
<1>1. ASSUME NEW s \in Stacks
      PROVE  {d \in DOMAIN mDisplays' : mDisplays'[d].view.stack = s}
               = {d \in DOMAIN mDisplays : mDisplays[d].view.stack = s}
  BY DEF SameDevices
<1>2. ASSUME NEW s \in Stacks
      PROVE  HintFor(mDisplays', s) = HintFor(mDisplays, s)
  <2> DEFINE Of(shown) ==
        IF Cardinality(shown) = 1 THEN CHOOSE d \in shown : TRUE ELSE Primary
  <2>1. PICK before : before = {d \in DOMAIN mDisplays : mDisplays[d].view.stack = s}
    OBVIOUS
  <2>2. PICK after : after = {d \in DOMAIN mDisplays' : mDisplays'[d].view.stack = s}
    OBVIOUS
  <2>3. HintFor(mDisplays, s) = Of(before)  BY <2>1 DEF HintFor
  <2>4. HintFor(mDisplays', s) = Of(after)  BY <2>2 DEF HintFor
  <2>5. after = before  BY <1>1, <2>1, <2>2
  <2> HIDE DEF Of
  <2> QED BY <2>3, <2>4, <2>5
<1> QED BY <1>2 DEF Hints

(* The steps of clients and of the hardware touch no screen.               *)
LEMMA OthersKeepScreens ==
  ASSUME ScreensInv, DisplaysInv',
         UNCHANGED <<mDisplays, content, main, mVisibleRegionsDirty, refreshNeeded,
                     transformHint>>,
         \A d \in DOMAIN currentDisplays' :
           \/ d \in DOMAIN currentDisplays /\ currentDisplays'[d] = currentDisplays[d]
           \/ currentDisplays'[d].view \in OfferedViews \union {DefaultView}
  PROVE  ScreensInv'
<1>1. ScreensTypeInv'
  BY DisplaysAssumption DEF ScreensInv, ScreensTypeInv, On
<1>2. VisibleIsKnown'
  BY DEF ScreensInv, VisibleIsKnown, On, HasLayers
<1>3. StaleIsDirty'
  BY DEF ScreensInv, StaleIsDirty, ShowsItsView, HasLayers, ContentIsDirty
<1>4. RecomposedWhenDirty'
  BY DEF ScreensInv, RecomposedWhenDirty, Recomposed
<1>5. ScreensSettle'
  BY DEF ScreensInv, ScreensSettle, ShowsItsView, HasLayers, On
<1>6. transformHint' = Hints(mDisplays')
  BY DEF ScreensInv
<1> QED BY <1>1, <1>2, <1>3, <1>4, <1>5, <1>6 DEF ScreensInv

(* Requests and hotplug change the current state alone.                    *)
LEMMA ClientsKeepScreens ==
  ASSUME ScreensInv, DisplaysInv',
         \/ \E d \in Virtuals : createDisplay(d) \/ destroyDisplay(d)
         \/ \E d \in DOMAIN currentDisplays, surface \in Surfaces \union {None},
              view \in OfferedViews :
                setDisplayStateLocked(d, [surface |-> surface, view |-> view])
         \/ queryDisplayProperties \/ onHotplugReceived
         \/ \E d \in DOMAIN mDisplays, mode \in 0 .. MaxConfigs - 1 : setActiveConfig(d, mode)
  PROVE  ScreensInv'
<1>1. UNCHANGED <<mDisplays, content, main, mVisibleRegionsDirty, refreshNeeded,
                  transformHint>>
  BY DEF createDisplay, destroyDisplay, setDisplayStateLocked, queryDisplayProperties,
         onHotplugReceived, setActiveConfig, flagVars
<1>2. \A d \in DOMAIN currentDisplays' :
        \/ d \in DOMAIN currentDisplays /\ currentDisplays'[d] = currentDisplays[d]
        \/ currentDisplays'[d].view \in OfferedViews \union {DefaultView}
  <2> DEFINE OnlyOffered == \A d \in DOMAIN currentDisplays' :
        \/ d \in DOMAIN currentDisplays /\ currentDisplays'[d] = currentDisplays[d]
        \/ currentDisplays'[d].view \in OfferedViews \union {DefaultView}
  <2>1. ASSUME NEW d \in Virtuals, createDisplay(d) PROVE OnlyOffered
    BY <2>1 DEF createDisplay
  <2>2. ASSUME NEW d \in Virtuals, destroyDisplay(d) PROVE OnlyOffered
    BY <2>2 DEF destroyDisplay
  <2>3. ASSUME NEW d \in DOMAIN currentDisplays, NEW surface \in Surfaces \union {None},
               NEW view \in OfferedViews,
               setDisplayStateLocked(d, [surface |-> surface, view |-> view])
        PROVE  OnlyOffered
    BY <2>3 DEF setDisplayStateLocked
  <2>4. CASE queryDisplayProperties
    BY <2>4 DEF queryDisplayProperties, tokenVars
  <2>5. CASE onHotplugReceived
    <3>1. ASSUME NEW e \in Externals, createBuiltinDisplayLocked(e) PROVE OnlyOffered
      BY <3>1 DEF createBuiltinDisplayLocked
    <3>2. CASE removeBuiltinDisplay  BY <3>2 DEF removeBuiltinDisplay
    <3> QED BY <2>5, <3>1, <3>2 DEF onHotplugReceived
  <2>6. ASSUME NEW d \in DOMAIN mDisplays, NEW mode \in 0 .. MaxConfigs - 1,
               setActiveConfig(d, mode)
        PROVE  OnlyOffered
    BY <2>6 DEF setActiveConfig, tokenVars
  <2> QED BY <2>1, <2>2, <2>3, <2>4, <2>5, <2>6
<1> QED BY <1>1, <1>2, OthersKeepScreens

(* A change of layers is the device's or makes the regions dirty.          *)
LEMMA LayersKeepScreens ==
  ASSUME ScreensInv, DisplaysInv', SameDevices, NEW s \in Stacks,
         \/ \E empty \in BOOLEAN : handleLayerTransaction(s, empty)
         \/ handlePageFlip(s)
         \/ removeLayers(s)
  PROVE  ScreensInv'
<1>1. /\ UNCHANGED <<main, currentDisplays>> /\ main = "idle" /\ refreshNeeded' = TRUE
      /\ mVisibleRegionsDirty => mVisibleRegionsDirty'
      /\ transformHint' \in {transformHint, Hints(mDisplays)}
  BY DEF handleLayerTransaction, handlePageFlip, removeLayers, tokenVars
<1>2. \A d \in DOMAIN mDisplays : DOMAIN mDisplays[d] = DeviceFields
  BY DEF ScreensInv, DisplaysInv, DisplaysTypeInv
<1>3. /\ DOMAIN mDisplays' = DOMAIN mDisplays
      /\ \A d \in DOMAIN mDisplays :
           IF mDisplays[d].view.stack = s
           THEN mDisplays'[d] \in {Outdated(mDisplays[d]), Dirtied(mDisplays[d])}
           ELSE mDisplays'[d] = mDisplays[d]
  BY DEF handleLayerTransaction, handlePageFlip, removeLayers, invalidateLayerStack,
         ShowsStack
<1>4. \A d \in DOMAIN mDisplays : Touched(d) /\ mDisplays'[d].on = mDisplays[d].on
  <2> SUFFICES ASSUME NEW d \in DOMAIN mDisplays
               PROVE  Touched(d) /\ mDisplays'[d].on = mDisplays[d].on
    OBVIOUS
  <2>1. /\ mDisplays'[d].hwcId = mDisplays[d].hwcId
        /\ mDisplays'[d].view = mDisplays[d].view
    BY DEF SameDevices
  <2>2. CASE mDisplays[d].view.stack = s
    <3>1. PICK after \in {Outdated(mDisplays[d]), Dirtied(mDisplays[d])} :
            mDisplays'[d] = after
      BY <1>3, <2>2
    <3>2. DOMAIN mDisplays[d] = DeviceFields  BY <1>2
    <3>3. /\ after.on = mDisplays[d].on /\ after.visible = mDisplays[d].visible
          /\ after.lastCompositionHadVisibleLayers
               = mDisplays[d].lastCompositionHadVisibleLayers
          /\ after.missed = mDisplays[d].missed
          /\ after.shown \in {"blank", "old"}
          /\ mDisplays[d].shown = "blank" => after.shown = "blank"
      <4>1. CASE after = Outdated(mDisplays[d])
        BY <3>2, <4>1 DEF Outdated, DeviceFields
      <4>2. CASE after = Dirtied(mDisplays[d])
        BY <3>2, <4>2 DEF Outdated, Dirtied, DeviceFields
      <4> QED BY <4>1, <4>2
    <3> QED BY <2>1, <3>1, <3>3 DEF Touched
  <2>3. CASE mDisplays[d].view.stack # s
    <3>1. mDisplays'[d] = mDisplays[d]  BY <1>3, <2>3
    <3>2. mDisplays[d].shown \in {"blank", "current", "old"}
      BY DEF ScreensInv, ScreensTypeInv
    <3> QED BY <3>1, <3>2 DEF Touched
  <2> QED BY <2>2, <2>3
<1>5. /\ DOMAIN content = Stacks
      /\ \A r \in Stacks : /\ DOMAIN content[r] = {"empty", "contentDirty"}
                           /\ content[r].empty \in BOOLEAN
                           /\ content[r].contentDirty \in BOOLEAN
  BY DEF ScreensInv, ScreensTypeInv
<1>6. /\ DOMAIN content' = Stacks /\ \A r \in Stacks \ {s} : content'[r] = content[r]
      /\ DOMAIN content'[s] = {"empty", "contentDirty"}
      /\ content'[s].empty \in BOOLEAN /\ content'[s].contentDirty \in BOOLEAN
  <2> DEFINE ContentFits ==
        /\ DOMAIN content' = Stacks /\ \A r \in Stacks \ {s} : content'[r] = content[r]
        /\ DOMAIN content'[s] = {"empty", "contentDirty"}
        /\ content'[s].empty \in BOOLEAN /\ content'[s].contentDirty \in BOOLEAN
  <2>1. ASSUME NEW empty \in BOOLEAN, handleLayerTransaction(s, empty) PROVE ContentFits
    <3>1. content' = [content EXCEPT ![s] = [empty |-> empty, contentDirty |-> TRUE]]
      BY <2>1 DEF handleLayerTransaction
    <3> QED BY <1>5, <3>1
  <2>2. ASSUME NEW empty \in BOOLEAN, content' = [content EXCEPT ![s].empty = empty]
        PROVE  ContentFits
    BY <1>5, <2>2
  <2>3. CASE handlePageFlip(s)  BY <2>2, <2>3 DEF handlePageFlip
  <2>4. CASE removeLayers(s)  BY <2>2, <2>4 DEF removeLayers
  <2> QED BY <2>1, <2>3, <2>4
<1>7. \/ /\ mVisibleRegionsDirty' = TRUE /\ content'[s].contentDirty = TRUE
      \/ \A d \in DOMAIN mDisplays :
           mDisplays[d].view.stack = s => mDisplays'[d] = Dirtied(mDisplays[d])
  BY <1>5 DEF handleLayerTransaction, handlePageFlip, removeLayers, invalidateLayerStack,
              ShowsStack
<1>8. mVisibleRegionsDirty' \/ (content'[s].empty = content[s].empty)
  <2>1. CASE handlePageFlip(s)
    <3>1. /\ mVisibleRegionsDirty' = (mVisibleRegionsDirty \/ content[s].empty)
          /\ content'[s].empty = FALSE
      BY <1>5, <2>1 DEF handlePageFlip
    <3> QED BY <1>5, <3>1
  <2> QED BY <2>1 DEF handleLayerTransaction, removeLayers
<1>9. ScreensTypeInv'
  BY <1>1, <1>3, <1>4, <1>5, <1>6 DEF ScreensInv, ScreensTypeInv, Touched, On
<1>10. VisibleIsKnown'
  BY <1>1, <1>3, <1>4, <1>6, <1>8 DEF ScreensInv, VisibleIsKnown, ScreensTypeInv, Touched, On,
                                      HasLayers
<1>11. StaleIsDirty'
  <2> SUFFICES ASSUME NEW d \in DOMAIN mDisplays, IsVirtual(d), ~ShowsItsView(d)',
                      ~mDisplays'[d].missed
               PROVE  mDisplays'[d].dirty \/ (mVisibleRegionsDirty' /\ ContentIsDirty(d)')
    BY <1>3 DEF StaleIsDirty
  <2>1. CASE mDisplays[d].view.stack = s
    <3>1. CASE mDisplays'[d] = Dirtied(mDisplays[d])
      BY <1>2, <3>1, OutdatedTouches
    <3>2. CASE mVisibleRegionsDirty' = TRUE /\ content'[s].contentDirty = TRUE
      BY <1>4, <2>1, <3>2, DisplaysAssumption DEF ContentIsDirty, Touched
    <3> QED BY <1>7, <2>1, <3>1, <3>2
  <2>2. CASE mDisplays[d].view.stack # s
    <3>1. mDisplays'[d] = mDisplays[d]  BY <1>3, <2>2
    <3>2. ~ShowsItsView(d)
      BY <1>6, <2>2, <3>1 DEF ShowsItsView, HasLayers, ScreensInv, ScreensTypeInv
    <3>3. ContentIsDirty(d) => ContentIsDirty(d)'
      BY <1>6, <2>2, <3>1 DEF ContentIsDirty, ScreensInv, ScreensTypeInv
    <3> QED BY <1>1, <3>1, <3>2, <3>3 DEF ScreensInv, StaleIsDirty
  <2> QED BY <2>1, <2>2
<1>12. RecomposedWhenDirty'
  BY <1>1, <1>3, <1>4 DEF ScreensInv, RecomposedWhenDirty, Recomposed, Touched
<1>13. ScreensSettle'
  BY <1>1 DEF ScreensSettle
<1>14. transformHint' = Hints(mDisplays')
  BY <1>1, HintsKept DEF ScreensInv
<1> QED BY <1>9, <1>10, <1>11, <1>12, <1>13, <1>14 DEF ScreensInv

(* A layer that goes to another stack: what is left behind of it is missed *)
(* or comes with the layers it has covered.                                *)
LEMMA MoveKeepsScreens ==
  ASSUME ScreensInv, DisplaysInv', NEW from \in Stacks, NEW to \in Stacks,
         setLayerStack(from, to)
  PROVE  ScreensInv'
<1>1. /\ UNCHANGED <<main, currentDisplays>> /\ main = "idle" /\ from # to
      /\ refreshNeeded' = TRUE /\ mVisibleRegionsDirty' = TRUE
      /\ transformHint' = Hints(mDisplays)
  BY DEF setLayerStack, tokenVars
<1>2. SameDevices  BY MessagesKeepDevices DEF ScreensInv
<1>3. PICK last \in BOOLEAN, exposes \in BOOLEAN :
        /\ content' = [content EXCEPT
             ![from] = [empty |-> last, contentDirty |-> @.contentDirty \/ exposes],
             ![to] = [empty |-> FALSE, contentDirty |-> TRUE]]
        /\ mDisplays' = [d \in DOMAIN mDisplays |->
             CASE ShowsStack(mDisplays[d], from) -> LeftBehind(mDisplays[d], exposes)
               [] ShowsStack(mDisplays[d], to) -> Outdated(mDisplays[d])
               [] OTHER -> mDisplays[d]]
  BY DEF setLayerStack
<1>4. /\ DOMAIN content = Stacks
      /\ \A s \in Stacks : /\ DOMAIN content[s] = {"empty", "contentDirty"}
                           /\ content[s].empty \in BOOLEAN
                           /\ content[s].contentDirty \in BOOLEAN
  BY DEF ScreensInv, ScreensTypeInv
<1>5. /\ DOMAIN content' = Stacks
      /\ \A s \in Stacks : /\ DOMAIN content'[s] = {"empty", "contentDirty"}
                           /\ content'[s].empty \in BOOLEAN
                           /\ content'[s].contentDirty \in BOOLEAN
      /\ \A s \in Stacks \ {from, to} : content'[s] = content[s]
      /\ exposes => content'[from].contentDirty = TRUE
      /\ content'[to].contentDirty = TRUE
  <2>1. PICK dirty \in BOOLEAN : dirty = (content[from].contentDirty \/ exposes)
    BY <1>4
  <2>2. content' = [content EXCEPT ![from] = [empty |-> last, contentDirty |-> dirty],
                                   ![to] = [empty |-> FALSE, contentDirty |-> TRUE]]
    BY <1>3, <1>4, <2>1
  <2> QED BY <1>1, <1>4, <2>1, <2>2
<1>6. ASSUME NEW d \in DOMAIN mDisplays
      PROVE  /\ mDisplays'[d].on = mDisplays[d].on
             /\ mDisplays'[d].shown \in {"blank", "current", "old"}
             /\ mDisplays[d].shown = "blank" => mDisplays'[d].shown = "blank"
             /\ mDisplays'[d].lastCompositionHadVisibleLayers
                  = mDisplays[d].lastCompositionHadVisibleLayers
             /\ mDisplays[d].view.stack = from /\ ~mDisplays'[d].missed => exposes
             /\ mDisplays[d].view.stack \notin {from, to} => mDisplays'[d] = mDisplays[d]
  <2>1. DOMAIN mDisplays[d] = DeviceFields
    BY DEF ScreensInv, DisplaysInv, DisplaysTypeInv
  <2>2. PICK outdated : outdated = Outdated(mDisplays[d])
    OBVIOUS
  <2>3. /\ DOMAIN outdated = DeviceFields /\ outdated.on = mDisplays[d].on
        /\ outdated.shown \in {"blank", "old"}
        /\ mDisplays[d].shown = "blank" => outdated.shown = "blank"
        /\ outdated.lastCompositionHadVisibleLayers
             = mDisplays[d].lastCompositionHadVisibleLayers
        /\ outdated.missed = mDisplays[d].missed
    BY <2>1, <2>2 DEF Outdated, DeviceFields
  <2>4. CASE mDisplays[d].view.stack = from
    <3>1. PICK missed : missed = (mDisplays[d].missed \/ ~exposes)
      OBVIOUS
    <3>2. LeftBehind(mDisplays[d], exposes) = [outdated EXCEPT !.missed = missed]
      BY <2>2, <2>3, <3>1 DEF LeftBehind, DeviceFields
    <3>3. mDisplays'[d] = LeftBehind(mDisplays[d], exposes)
      BY <1>1, <1>3, <2>4 DEF ShowsStack
    <3> QED BY <2>3, <2>4, <3>1, <3>2, <3>3 DEF DeviceFields
  <2>5. CASE mDisplays[d].view.stack = to
    <3>1. mDisplays'[d] = outdated
      BY <1>1, <1>3, <2>2, <2>5 DEF ShowsStack
    <3> QED BY <1>1, <2>3, <2>5, <3>1
  <2>6. CASE mDisplays[d].view.stack \notin {from, to}
    <3>1. mDisplays'[d] = mDisplays[d]
      BY <1>3, <2>6 DEF ShowsStack
    <3> QED BY <2>6, <3>1 DEF ScreensInv, ScreensTypeInv
  <2> QED BY <2>4, <2>5, <2>6
<1>7. ScreensTypeInv'
  BY <1>1, <1>2, <1>5, <1>6 DEF ScreensInv, ScreensTypeInv, SameDevices, On
<1>8. VisibleIsKnown'
  BY <1>1 DEF VisibleIsKnown
<1>9. StaleIsDirty'
  <2> SUFFICES ASSUME NEW d \in DOMAIN mDisplays, IsVirtual(d), ~ShowsItsView(d)',
                      ~mDisplays'[d].missed
               PROVE  mDisplays'[d].dirty \/ ContentIsDirty(d)'
    BY <1>1, <1>2 DEF StaleIsDirty, SameDevices
  <2>1. mDisplays'[d].view = mDisplays[d].view
    BY <1>2 DEF SameDevices
  <2>2. CASE mDisplays[d].view.stack \in {from, to}
    <3>1. content'[mDisplays[d].view.stack].contentDirty
      BY <1>5, <1>6, <2>2
    <3> QED BY <2>1, <2>2, <3>1, DisplaysAssumption DEF ContentIsDirty
  <2>3. CASE mDisplays[d].view.stack \notin {from, to}
    <3>1. mDisplays'[d] = mDisplays[d]
      BY <1>6, <2>3
    <3>2. /\ ShowsItsView(d)' = ShowsItsView(d)
          /\ ContentIsDirty(d)' = ContentIsDirty(d)
      BY <1>5, <2>3, <3>1
      DEF ShowsItsView, HasLayers, ContentIsDirty, ScreensInv, ScreensTypeInv
    <3> QED BY <3>1, <3>2 DEF ScreensInv, StaleIsDirty
  <2> QED BY <2>2, <2>3
<1>10. RecomposedWhenDirty'
  BY <1>1, <1>2, <1>6 DEF ScreensInv, RecomposedWhenDirty, Recomposed, SameDevices
<1>11. ScreensSettle'
  BY <1>1 DEF ScreensSettle
<1>12. transformHint' = Hints(mDisplays')
  BY <1>1, <1>2, HintsKept
<1> QED BY <1>7, <1>8, <1>9, <1>10, <1>11, <1>12 DEF ScreensInv

(* A display that is switched on is composed, as all are then.             *)
LEMMA PowerKeepsScreens ==
  ASSUME ScreensInv, DisplaysInv', NEW e \in DOMAIN mDisplays, NEW on \in BOOLEAN,
         setPowerMode(e, on)
  PROVE  ScreensInv'
<1>1. /\ UNCHANGED <<main, currentDisplays, content, transformHint>>
      /\ main = "idle" /\ e \notin Virtuals
      /\ mVisibleRegionsDirty' = TRUE /\ refreshNeeded' = (refreshNeeded \/ on)
  BY DEF setPowerMode, tokenVars
<1>2. SameDevices  BY MessagesKeepDevices DEF ScreensInv
<1>3. /\ \A d \in DOMAIN mDisplays \ {e} : mDisplays'[d] = mDisplays[d]
      /\ mDisplays'[e].on = on /\ mDisplays'[e].shown \in {"blank", "old"}
  <2>1. DOMAIN mDisplays[e] = DeviceFields
    BY DEF ScreensInv, DisplaysInv, DisplaysTypeInv
  <2>2. PICK device : device = Outdated(mDisplays[e])
    OBVIOUS
  <2>3. DOMAIN device = DeviceFields /\ device.shown \in {"blank", "old"}
    BY <2>1, <2>2 DEF Outdated, DeviceFields
  <2>4. mDisplays' = [mDisplays EXCEPT ![e] = [device EXCEPT !.on = on]]
    BY <2>2 DEF setPowerMode
  <2> QED BY <2>3, <2>4 DEF DeviceFields
<1>4. ScreensTypeInv'
  BY <1>1, <1>2, <1>3 DEF ScreensInv, ScreensTypeInv, SameDevices, On, IsVirtual
<1>5. VisibleIsKnown'
  BY <1>1 DEF VisibleIsKnown
<1>6. StaleIsDirty'
  BY <1>1, <1>2, <1>3 DEF ScreensInv, StaleIsDirty, SameDevices, IsVirtual, ShowsItsView,
                          HasLayers, ContentIsDirty
<1>7. RecomposedWhenDirty'
  BY <1>1, <1>2, <1>3 DEF ScreensInv, RecomposedWhenDirty, SameDevices, IsVirtual, Recomposed
<1>8. ScreensSettle'
  BY <1>1, <1>2, <1>3 DEF ScreensInv, ScreensSettle, SameDevices, ShowsItsView, HasLayers, On
<1>9. transformHint' = Hints(mDisplays')
  BY <1>1, <1>2, HintsKept DEF ScreensInv
<1> QED BY <1>4, <1>5, <1>6, <1>7, <1>8, <1>9 DEF ScreensInv

(* What a commit makes of a device: it is new and blank, or has a new view *)
(* and is dirty if that can be seen, or stays as it was.                   *)
LEMMA CommittedScreens ==
  ASSUME DisplaysInv, commitDisplays, NEW d \in DOMAIN mDisplays'
  PROVE  \/ d \in DOMAIN mDisplays /\ mDisplays'[d] = mDisplays[d]
         \/ /\ currentDisplays # drawingDisplays
            /\ mDisplays'[d].on = IsVirtual(d)
            /\ mDisplays'[d].dirty \/ mDisplays'[d].missed
            /\ mDisplays'[d].shown = "blank"
         \/ /\ currentDisplays # drawingDisplays
            /\ d \in DOMAIN mDisplays /\ mDisplays'[d].on = mDisplays[d].on
            /\ mDisplays'[d].hwcId = mDisplays[d].hwcId
            /\ mDisplays'[d].lastCompositionHadVisibleLayers
                 = mDisplays[d].lastCompositionHadVisibleLayers
            /\ mDisplays'[d].dirty \/ mDisplays'[d].missed
            /\ mDisplays'[d].shown \in {"blank", "old"}
            /\ mDisplays[d].shown = "blank" => mDisplays'[d].shown = "blank"
<1> DEFINE added == {e \in Added : ~IsDormant(e)}
<1>1. mDisplays' = [e \in (DOMAIN mDisplays \ Removed) \union added |->
                      IF e \in added THEN NewDevice(e, currentDisplays[e], AllocatedId(e))
                      ELSE Updated(mDisplays[e], currentDisplays[e])]
  BY DEF commitDisplays, CommittedDevices
<1>2. CASE d \in added
  <2>1. mDisplays'[d] = NewDevice(d, currentDisplays[d], AllocatedId(d))
    BY <1>1, <1>2
  <2>2. currentDisplays # drawingDisplays
    BY <1>2 DEF Added, Replaced, Kept
  <2>3. LET device == NewDevice(d, currentDisplays[d], AllocatedId(d)) IN
        /\ device.on = IsVirtual(d) /\ device.shown = "blank"
        /\ device.dirty \/ device.missed
    BY DEF NewDevice, IsVirtual
  <2> QED BY <2>1, <2>2, <2>3
<1>3. CASE d \notin added
  <2>1. d \in DOMAIN mDisplays \ Removed
    BY <1>1, <1>3
  <2>2. mDisplays'[d] = Updated(mDisplays[d], currentDisplays[d])
    BY <1>1, <1>3, <2>1
  <2>3. CASE mDisplays[d].view = currentDisplays[d].view
    BY <2>1, <2>2, <2>3 DEF Updated
  <2>4. CASE mDisplays[d].view # currentDisplays[d].view
    <3>1. DOMAIN mDisplays[d] = DeviceFields /\ mDisplays[d].view = drawingDisplays[d].view
      BY <2>1 DEF DisplaysInv, DisplaysTypeInv, DevicesMatchDrawingState
    <3>2. PICK device : device = Outdated(mDisplays[d])
      OBVIOUS
    <3>3. /\ DOMAIN device = DeviceFields /\ device.on = mDisplays[d].on
          /\ device.hwcId = mDisplays[d].hwcId
          /\ device.lastCompositionHadVisibleLayers
               = mDisplays[d].lastCompositionHadVisibleLayers
          /\ device.shown \in {"blank", "old"}
          /\ mDisplays[d].shown = "blank" => device.shown = "blank"
      BY <3>1, <3>2 DEF Outdated, DeviceFields
    <3>4. PICK away \in BOOLEAN : away <=> IsAway(currentDisplays[d].view)
      OBVIOUS
    <3>5. mDisplays'[d] =
            [device EXCEPT !.view = currentDisplays[d].view, !.dirty = ~away,
                           !.missed = away]
      BY <2>2, <2>4, <3>2, <3>4 DEF Updated, IsAway
    <3> QED BY <2>1, <2>4, <3>1, <3>3, <3>5 DEF DeviceFields
  <2> QED BY <2>3, <2>4
<1> QED BY <1>2, <1>3

(* A display transaction makes visible regions dirty whenever it changes a *)
(* screen.                                                                 *)
LEMMA CommitKeepsScreens ==
  ASSUME ScreensInv, DisplaysInv', main = "idle", commitDisplays
  PROVE  ScreensInv'
<1>1. /\ UNCHANGED <<main, currentDisplays, content>>
      /\ main = "idle" /\ refreshNeeded' = TRUE
      /\ mVisibleRegionsDirty' = (mVisibleRegionsDirty \/ currentDisplays # drawingDisplays)
      /\ transformHint' = Hints(mDisplays')
  BY DEF commitDisplays, tokenVars
<1>2. /\ DOMAIN mDisplays' \subseteq DOMAIN currentDisplays
      /\ \A d \in DOMAIN mDisplays' : mDisplays'[d].view = currentDisplays[d].view
  BY CommittedFacts DEF ScreensInv
<1>3. ScreensTypeInv'
  BY <1>1, <1>2, CommittedScreens DEF ScreensInv, ScreensTypeInv, On, IsVirtual
<1>4. VisibleIsKnown'
  BY <1>1, CommittedScreens DEF ScreensInv, VisibleIsKnown, On, HasLayers
<1>5. StaleIsDirty'
  BY <1>1, CommittedScreens DEF ScreensInv, StaleIsDirty, ShowsItsView, HasLayers,
                                ContentIsDirty
<1>6. RecomposedWhenDirty'
  BY <1>1, CommittedScreens DEF ScreensInv, RecomposedWhenDirty, Recomposed
<1>7. ScreensSettle'
  BY <1>1 DEF ScreensSettle
<1> QED BY <1>1, <1>3, <1>4, <1>5, <1>6, <1>7 DEF ScreensInv

(* A process that ends shows what it has shown.                            *)
LEMMA AbortKeepsScreens ==
  ASSUME ScreensInv, DisplaysInv', main = "idle", abort
  PROVE  ScreensInv'
<1>1. /\ UNCHANGED <<currentDisplays, mDisplays, content, mVisibleRegionsDirty,
                     transformHint>>
      /\ main = "idle" /\ main' = "aborted"
  BY DEF abort, tokenVars, flagVars
<1>2. ScreensTypeInv'
  BY <1>1 DEF ScreensInv, ScreensTypeInv, On
<1>3. VisibleIsKnown'
  BY <1>1 DEF ScreensInv, VisibleIsKnown, On, HasLayers
<1>4. StaleIsDirty'
  BY <1>1 DEF ScreensInv, StaleIsDirty, ShowsItsView, HasLayers, ContentIsDirty
<1>5. RecomposedWhenDirty'
  BY <1>1 DEF ScreensInv, RecomposedWhenDirty, Recomposed
<1>6. ScreensSettle'
  BY <1>1 DEF ScreensSettle
<1> QED BY <1>1, <1>2, <1>3, <1>4, <1>5, <1>6 DEF ScreensInv

(* The visible regions are computed, of all displays or of none, and the   *)
(* dirty region of the layers is accounted to displays.                    *)
LEMMA RebuildKeepsScreens ==
  ASSUME ScreensInv, DisplaysInv', rebuildLayerStacks
  PROVE  ScreensInv'
<1>1. /\ UNCHANGED <<currentDisplays, transformHint>>
      /\ main = "idle" /\ main' = "rebuilt" /\ mVisibleRegionsDirty' = FALSE
  BY DEF rebuildLayerStacks, tokenVars
<1>2. SameDevices  BY RebuildKeepsDevices DEF ScreensInv
<1>3. \A d \in DOMAIN mDisplays :
        /\ mDisplays'[d].on = mDisplays[d].on /\ mDisplays'[d].shown = mDisplays[d].shown
        /\ mDisplays'[d].lastCompositionHadVisibleLayers
             = mDisplays[d].lastCompositionHadVisibleLayers
  <2>1. \A d \in DOMAIN mDisplays : DOMAIN mDisplays[d] = DeviceFields
    BY DEF ScreensInv, DisplaysInv, DisplaysTypeInv
  <2>2. \A d \in DOMAIN mDisplays :
          /\ Rebuilt(d).on = mDisplays[d].on /\ Rebuilt(d).shown = mDisplays[d].shown
          /\ Rebuilt(d).lastCompositionHadVisibleLayers
               = mDisplays[d].lastCompositionHadVisibleLayers
    BY <2>1 DEF Rebuilt, DeviceFields
  <2>3. UNCHANGED mDisplays \/ mDisplays' = [d \in DOMAIN mDisplays |-> Rebuilt(d)]
    BY DEF rebuildLayerStacks
  <2> QED BY <2>2, <2>3
<1>4. /\ DOMAIN content' = Stacks
      /\ \A s \in Stacks : /\ DOMAIN content'[s] = {"empty", "contentDirty"}
                           /\ content'[s].empty = content[s].empty
                           /\ content'[s].contentDirty \in BOOLEAN
  <2>1. /\ DOMAIN content = Stacks
        /\ \A s \in Stacks : /\ DOMAIN content[s] = {"empty", "contentDirty"}
                             /\ content[s].contentDirty \in BOOLEAN
    BY DEF ScreensInv, ScreensTypeInv
  <2>2. CASE mVisibleRegionsDirty
    <3>1. content' = [s \in Stacks |-> [content[s] EXCEPT !.contentDirty =
            @ /\ ~\E d \in DOMAIN mDisplays : On(d) /\ ShowsStack(mDisplays[d], s)]]
      BY <2>2 DEF rebuildLayerStacks
    <3> QED BY <2>1, <3>1
  <2>3. CASE ~mVisibleRegionsDirty
    BY <2>1, <2>3 DEF rebuildLayerStacks
  <2> QED BY <2>2, <2>3
<1>5. ScreensTypeInv'
  <2>1. \A s \in Stacks : content'[s].empty \in BOOLEAN
    BY <1>4 DEF ScreensInv, ScreensTypeInv
  <2> QED BY <1>1, <1>2, <1>3, <1>4, <2>1 DEF ScreensInv, ScreensTypeInv, SameDevices, On
<1>6. \A d \in DOMAIN mDisplays :
        /\ HasLayers(mDisplays[d].view.stack)' = HasLayers(mDisplays[d].view.stack)
        /\ ShowsItsView(d)' = ShowsItsView(d)
  <2>1. \A d \in DOMAIN mDisplays : mDisplays[d].view.stack \in Stacks \union {NoStack}
    BY DEF ScreensInv, ScreensTypeInv
  <2> QED BY <1>2, <1>3, <1>4, <2>1 DEF SameDevices, HasLayers, ShowsItsView
<1>7. VisibleIsKnown'
  <2> SUFFICES ASSUME NEW d \in DOMAIN mDisplays, On(d)
               PROVE  mDisplays'[d].visible = HasLayers(mDisplays[d].view.stack)'
    BY <1>2, <1>3 DEF VisibleIsKnown, SameDevices, On
  <2>1. CASE mVisibleRegionsDirty
    <3>1. mDisplays'[d] = Rebuilt(d)
      BY <2>1 DEF rebuildLayerStacks
    <3>2. DOMAIN mDisplays[d] = DeviceFields
      BY DEF ScreensInv, DisplaysInv, DisplaysTypeInv
    <3>3. Rebuilt(d).visible = HasLayers(mDisplays[d].view.stack)
      BY <3>2 DEF Rebuilt, DeviceFields
    <3> QED BY <1>6, <3>1, <3>3
  <2>2. CASE ~mVisibleRegionsDirty
    <3>1. mDisplays'[d] = mDisplays[d]
      BY <2>2 DEF rebuildLayerStacks
    <3> QED BY <1>6, <2>2, <3>1 DEF ScreensInv, VisibleIsKnown
  <2> QED BY <2>1, <2>2
<1>8. StaleIsDirty'
  <2> SUFFICES ASSUME NEW d \in DOMAIN mDisplays, IsVirtual(d), ~ShowsItsView(d),
                      ~mDisplays'[d].missed
               PROVE  mDisplays'[d].dirty
    BY <1>2, <1>6 DEF StaleIsDirty, SameDevices
  <2>1. CASE mVisibleRegionsDirty
    <3>1. mDisplays'[d] = Rebuilt(d)
      BY <2>1 DEF rebuildLayerStacks
    <3>2. DOMAIN mDisplays[d] = DeviceFields /\ On(d)
      BY DEF ScreensInv, DisplaysInv, DisplaysTypeInv, ScreensTypeInv
    <3>3. /\ Rebuilt(d).dirty =
               (mDisplays[d].dirty \/ (ContentIsDirty(d) /\ TakesDirtyRegion(d)))
          /\ Rebuilt(d).missed =
               (mDisplays[d].missed \/ (ContentIsDirty(d) /\ ~TakesDirtyRegion(d)))
      BY <3>2 DEF Rebuilt, DeviceFields
    <3>4. ~mDisplays[d].missed => mDisplays[d].dirty \/ ContentIsDirty(d)
      BY DEF ScreensInv, StaleIsDirty
    <3> QED BY <3>1, <3>3, <3>4
  <2>2. CASE ~mVisibleRegionsDirty
    <3>1. mDisplays'[d] = mDisplays[d]
      BY <2>2 DEF rebuildLayerStacks
    <3> QED BY <2>2, <3>1 DEF ScreensInv, StaleIsDirty
  <2> QED BY <2>1, <2>2
<1>9. RecomposedWhenDirty'
  BY <1>1, <1>2, <1>3 DEF ScreensInv, RecomposedWhenDirty, Recomposed, SameDevices
<1>10. ScreensSettle'
  BY <1>1 DEF ScreensSettle
<1>11. transformHint' = Hints(mDisplays')
  BY <1>1, <1>2, HintsKept DEF ScreensInv
<1> QED BY <1>5, <1>7, <1>8, <1>9, <1>10, <1>11 DEF ScreensInv

(* What is recomposed is what is dirty and has or had visible layers.      *)
LEMMA SetUpKeepsScreens ==
  ASSUME ScreensInv, DisplaysInv', setUpHWComposer
  PROVE  ScreensInv'
<1>1. /\ UNCHANGED <<currentDisplays, content, transformHint, mVisibleRegionsDirty>>
      /\ main = "rebuilt" /\ main' = "prepared" /\ ~mVisibleRegionsDirty
  BY DEF setUpHWComposer, tokenVars, ScreensInv, ScreensTypeInv
<1>2. SameDevices  BY SetUpKeepsDevices DEF ScreensInv
<1>3. ASSUME NEW d \in DOMAIN mDisplays
      PROVE  /\ mDisplays'[d].on = mDisplays[d].on
             /\ mDisplays'[d].shown = mDisplays[d].shown
             /\ mDisplays'[d].dirty = mDisplays[d].dirty
             /\ mDisplays'[d].visible = mDisplays[d].visible
             /\ mDisplays'[d].missed = mDisplays[d].missed
             /\ mDisplays'[d].mustRecompose = MustRecompose(mDisplays[d])
             /\ mDisplays'[d].lastCompositionHadVisibleLayers =
                  IF MustRecompose(mDisplays[d]) THEN mDisplays[d].visible
                  ELSE mDisplays[d].lastCompositionHadVisibleLayers
  <2>1. DOMAIN mDisplays[d] = DeviceFields
    BY DEF ScreensInv, DisplaysInv, DisplaysTypeInv
  <2>2. PICK must : must = MustRecompose(mDisplays[d])
    OBVIOUS
  <2>3. mDisplays'[d] =
          [mDisplays[d] EXCEPT
             !.mustRecompose = must,
             !.lastCompositionHadVisibleLayers =
                IF must THEN mDisplays[d].visible
                ELSE mDisplays[d].lastCompositionHadVisibleLayers]
    BY <2>1, <2>2 DEF setUpHWComposer, DeviceFields
  <2> QED BY <2>1, <2>2, <2>3 DEF DeviceFields
<1>4. ScreensTypeInv'
  BY <1>1, <1>2, <1>3 DEF ScreensInv, ScreensTypeInv, SameDevices, On
<1>5. VisibleIsKnown'
  BY <1>1, <1>2, <1>3 DEF ScreensInv, VisibleIsKnown, SameDevices, On, HasLayers
<1>6. StaleIsDirty'
  BY <1>1, <1>2, <1>3 DEF ScreensInv, StaleIsDirty, SameDevices, ShowsItsView, HasLayers
<1>7. RecomposedWhenDirty'
  <2> SUFFICES ASSUME NEW d \in DOMAIN mDisplays, IsVirtual(d), mDisplays[d].hwcId # NoId
               PROVE  /\ mDisplays'[d].mustRecompose =>
                           mDisplays'[d].lastCompositionHadVisibleLayers
                             = mDisplays'[d].visible
                      /\ ~mDisplays'[d].mustRecompose
                           /\ ~mDisplays'[d].lastCompositionHadVisibleLayers =>
                           mDisplays'[d].shown = "blank"
                      /\ ~mDisplays'[d].mustRecompose /\ mDisplays'[d].dirty =>
                           ~mDisplays'[d].visible
                             /\ ~mDisplays'[d].lastCompositionHadVisibleLayers
    BY <1>1, <1>2 DEF RecomposedWhenDirty, Recomposed, SameDevices
  <2>1. ~mDisplays[d].lastCompositionHadVisibleLayers => mDisplays[d].shown = "blank"
    BY <1>1 DEF ScreensInv, RecomposedWhenDirty, Recomposed
  <2>2. CASE MustRecompose(mDisplays[d])
    BY <1>3, <2>2
  <2>3. CASE ~MustRecompose(mDisplays[d])
    BY <1>3, <2>1, <2>3 DEF MustRecompose
  <2> QED BY <2>2, <2>3
<1>8. ScreensSettle'
  BY <1>1 DEF ScreensSettle
<1>9. transformHint' = Hints(mDisplays')
  BY <1>1, <1>2, HintsKept DEF ScreensInv
<1> QED BY <1>4, <1>5, <1>6, <1>7, <1>8, <1>9 DEF ScreensInv

(* A display that is not shown is not dirty, or is blank and has nothing   *)
(* to show.                                                                *)
LEMMA CompositionKeepsScreens ==
  ASSUME ScreensInv, DisplaysInv', doComposition
  PROVE  ScreensInv'
<1>1. /\ UNCHANGED <<currentDisplays, content, transformHint, mVisibleRegionsDirty>>
      /\ main = "prepared" /\ main' = "idle" /\ ~mVisibleRegionsDirty
  BY DEF doComposition, tokenVars, ScreensInv, ScreensTypeInv
<1>2. SameDevices  BY CompositionKeepsDevices DEF ScreensInv
<1>3. ASSUME NEW d \in DOMAIN mDisplays
      PROVE  /\ mDisplays'[d].on = mDisplays[d].on
             /\ mDisplays'[d].visible = mDisplays[d].visible
             /\ mDisplays'[d].mustRecompose = mDisplays[d].mustRecompose
             /\ mDisplays'[d].lastCompositionHadVisibleLayers
                  = mDisplays[d].lastCompositionHadVisibleLayers
             /\ IsShown(d) => mDisplays'[d].shown =
                  IF mDisplays[d].visible THEN "current" ELSE "blank"
             /\ ~IsShown(d) => /\ mDisplays'[d].shown = mDisplays[d].shown
                               /\ mDisplays'[d].missed = mDisplays[d].missed
  <2>1. DOMAIN mDisplays[d] = DeviceFields
    BY DEF ScreensInv, DisplaysInv, DisplaysTypeInv
  <2>2. PICK dirty : dirty = (mDisplays[d].dirty /\ ~On(d))
    OBVIOUS
  <2>3. PICK device : device = [mDisplays[d] EXCEPT !.dirty = dirty]
    OBVIOUS
  <2>4. /\ DOMAIN device = DeviceFields /\ device.on = mDisplays[d].on
        /\ device.visible = mDisplays[d].visible /\ device.shown = mDisplays[d].shown
        /\ device.missed = mDisplays[d].missed
        /\ device.mustRecompose = mDisplays[d].mustRecompose
        /\ device.lastCompositionHadVisibleLayers
             = mDisplays[d].lastCompositionHadVisibleLayers
    BY <2>1, <2>3 DEF DeviceFields
  <2>5. mDisplays'[d] =
          IF IsShown(d)
          THEN [device EXCEPT !.shown = IF device.visible THEN "current" ELSE "blank",
                              !.missed = FALSE]
          ELSE device
    BY <2>1, <2>2, <2>3 DEF doComposition, DeviceFields
  <2> QED BY <2>4, <2>5 DEF DeviceFields
<1>4. ScreensTypeInv'
  <2>1. \A d \in DOMAIN mDisplays : mDisplays'[d].shown \in {"blank", "current", "old"}
    BY <1>3 DEF ScreensInv, ScreensTypeInv
  <2> QED BY <1>1, <1>2, <1>3, <2>1 DEF ScreensInv, ScreensTypeInv, SameDevices, On
<1>5. VisibleIsKnown'
  BY <1>1, <1>2, <1>3 DEF ScreensInv, VisibleIsKnown, SameDevices, On, HasLayers
<1>6. ASSUME NEW d \in DOMAIN mDisplays, On(d)
      PROVE  ShowsItsView(d)' \/ (IsVirtual(d) /\ mDisplays'[d].missed)
  <2>1. mDisplays[d].visible = HasLayers(mDisplays[d].view.stack)
    BY <1>1, <1>6 DEF ScreensInv, VisibleIsKnown
  <2>2. ShowsItsView(d)' <=>
          mDisplays'[d].shown = IF mDisplays[d].visible THEN "current" ELSE "blank"
    BY <1>1, <1>2, <2>1 DEF ShowsItsView, HasLayers, SameDevices
  <2>3. CASE IsShown(d)
    BY <1>3, <2>2, <2>3
  <2>4. CASE ~IsShown(d)
    <3>1. IsVirtual(d)
      <4>1. d \notin Virtuals => mDisplays[d].hwcId \in {PrimaryId, ExternalId}
        BY DEF ScreensInv, DisplaysInv, IdsFit, DevicesMatchDrawingState, DisplaysTypeInv,
               Tokens
      <4>2. NoId \notin {PrimaryId, ExternalId}
        BY DisplaysAssumption DEF NoId, PrimaryId, ExternalId
      <4> QED BY <1>6, <2>4, <4>1, <4>2 DEF IsShown, IsComposed, IsVirtual
    <3>2. CASE mDisplays[d].dirty
      <4>1. mDisplays[d].hwcId # NoId /\ ~mDisplays[d].mustRecompose
        BY <1>6, <2>4, <3>2 DEF IsShown, IsComposed
      <4>2. ~mDisplays[d].visible /\ mDisplays[d].shown = "blank"
        BY <1>1, <3>1, <3>2, <4>1 DEF ScreensInv, RecomposedWhenDirty, Recomposed
      <4> QED BY <1>3, <2>2, <2>4, <4>2
    <3>3. CASE ~mDisplays[d].dirty
      <4>1. ShowsItsView(d) \/ mDisplays[d].missed
        BY <1>1, <3>1, <3>3 DEF ScreensInv, StaleIsDirty
      <4>2. ShowsItsView(d) => ShowsItsView(d)'
        BY <1>3, <2>1, <2>2, <2>4 DEF ShowsItsView
      <4> QED BY <1>3, <2>4, <3>1, <4>1, <4>2
    <3> QED BY <3>2, <3>3
  <2> QED BY <2>3, <2>4
<1>7. StaleIsDirty'
  BY <1>2, <1>6 DEF StaleIsDirty, SameDevices, ScreensInv, ScreensTypeInv
<1>8. RecomposedWhenDirty'
  <2> SUFFICES ASSUME NEW d \in DOMAIN mDisplays, IsVirtual(d), mDisplays[d].hwcId # NoId,
                      ~mDisplays[d].lastCompositionHadVisibleLayers
               PROVE  mDisplays'[d].shown = "blank"
    BY <1>1, <1>2, <1>3 DEF RecomposedWhenDirty, Recomposed, SameDevices
  <2>1. IsShown(d) <=> mDisplays[d].mustRecompose
    BY DEF ScreensInv, ScreensTypeInv, IsShown, IsComposed
  <2>2. CASE mDisplays[d].mustRecompose
    <3>1. ~mDisplays[d].visible
      BY <1>1, <2>2 DEF ScreensInv, RecomposedWhenDirty, Recomposed
    <3> QED BY <1>3, <2>1, <2>2, <3>1
  <2>3. CASE ~mDisplays[d].mustRecompose
    <3>1. mDisplays[d].shown = "blank"
      BY <1>1, <2>3 DEF ScreensInv, RecomposedWhenDirty, Recomposed
    <3> QED BY <1>3, <2>1, <2>3, <3>1
  <2> QED BY <2>2, <2>3
<1>9. ScreensSettle'
  BY <1>2, <1>3, <1>6 DEF ScreensSettle, SameDevices, On
<1>10. transformHint' = Hints(mDisplays')
  BY <1>1, <1>2, HintsKept DEF ScreensInv
<1> QED BY <1>4, <1>5, <1>7, <1>8, <1>9, <1>10 DEF ScreensInv

-----------------------------------------------------------------------------
(* Screens are brought up to date by the refresh that every change of what *)
(* they show asks for.                                                     *)
THEOREM ScreensInvHolds == DisplaysSpec => []ScreensInv
<1>1. DisplaysInit /\ DisplaysInv => ScreensInv
  <2> SUFFICES ASSUME DisplaysInit, DisplaysInv PROVE ScreensInv
    OBVIOUS
  <2>1. /\ mVisibleRegionsDirty = TRUE /\ refreshNeeded = TRUE /\ main = "idle"
        /\ Primary \notin Virtuals
    BY DisplaysAssumption DEF DisplaysInit
  <2>2. /\ DOMAIN mDisplays = {Primary} /\ DOMAIN currentDisplays = {Primary}
        /\ mDisplays[Primary].shown = "blank" /\ mDisplays[Primary].view = FirstView
        /\ currentDisplays[Primary].view = FirstView
    BY DEF DisplaysInit, NewDevice
  <2>3. /\ content = [s \in Stacks |-> [empty |-> s # FirstView.stack,
                                        contentDirty |-> FALSE]]
        /\ FirstView.stack \in Stacks \union {NoStack}
    BY DisplaysAssumption DEF DisplaysInit
  <2>4. ScreensTypeInv
    BY <2>1, <2>2, <2>3 DEF ScreensTypeInv, IsVirtual
  <2>5. VisibleIsKnown /\ StaleIsDirty /\ RecomposedWhenDirty /\ ScreensSettle
    BY <2>1, <2>2 DEF VisibleIsKnown, StaleIsDirty, RecomposedWhenDirty, ScreensSettle,
                      IsVirtual
  <2>6. \A s \in Stacks : HintFor(mDisplays, s) = Primary
    BY <2>2, FS_EmptySet DEF HintFor
  <2>7. transformHint = Hints(mDisplays)
    BY <2>6 DEF DisplaysInit, Hints
  <2> QED BY <2>4, <2>5, <2>7 DEF ScreensInv
<1>2. ScreensInv /\ DisplaysInv' /\ [DisplaysNext]_displayVars => ScreensInv'
  <2> SUFFICES ASSUME ScreensInv, DisplaysInv', [DisplaysNext]_displayVars
               PROVE  ScreensInv'
    OBVIOUS
  <2>1. CASE UNCHANGED displayVars
    <3>1. UNCHANGED <<currentDisplays, mDisplays, content, main, mVisibleRegionsDirty,
                      refreshNeeded, transformHint>>
      BY <2>1 DEF displayVars, tokenVars, flagVars
    <3> QED BY <3>1, OthersKeepScreens
  <2>2. ASSUME NEW s \in Stacks,
               \/ \E empty \in BOOLEAN : handleLayerTransaction(s, empty)
               \/ handlePageFlip(s)
               \/ removeLayers(s)
        PROVE  ScreensInv'
    <3>1. SameDevices  BY <2>2, MessagesKeepDevices DEF ScreensInv
    <3> QED BY <2>2, <3>1, LayersKeepScreens
  <2>3. ASSUME NEW d \in DOMAIN mDisplays, NEW on \in BOOLEAN, setPowerMode(d, on)
        PROVE  ScreensInv'
    BY <2>3, PowerKeepsScreens
  <2> QED BY <2>1, <2>2, <2>3, ClientsKeepScreens, CommitKeepsScreens, AbortKeepsScreens,
             MoveKeepsScreens, RebuildKeepsScreens, SetUpKeepsScreens,
             CompositionKeepsScreens
          DEF DisplaysNext, OutsideNext, MainNext, handleDisplayTransaction
<1> QED BY <1>1, <1>2, DisplaysInvHolds, PTL DEF DisplaysSpec

(* When nothing is left to do, what displays show and what producers are   *)
(* told is up to date (SurfaceFlinger.cpp:1079-1150, 1512-1569).           *)
THEOREM ScreensAreUpToDate == DisplaysSpec => []ScreensShowTheState
<1>1. ScreensInv => ScreensShowTheState
  BY DEF ScreensInv, ScreensSettle, ScreensShowTheState, ScreensAreCurrent, HintsAreCurrent,
         IsQuiet
<1> QED BY <1>1, ScreensInvHolds, PTL

-----------------------------------------------------------------------------
(***************************************************************************)
(* Theorems about VirtualDisplaySurface, for any two queues, any sequence  *)
(* of composition types and any failure.                                   *)
(*                                                                         *)
(* The surface shows the driver the slots of two queues as one, and keeps  *)
(* a copy of their buffers and of where each came from. The proof follows  *)
(* a frame through mDbgState: from its beginning on the output is          *)
(* dequeued, the hardware has it, and a slot the driver holds is the       *)
(* output's or of the scratch queue as the composition type says.          *)
(***************************************************************************)

(* States of a slot of the sink or of the scratch queue.                   *)
SlotStates == {"free", "dequeued", "queued", "acquired"}

(* Slots, copies and the frame have the shape they are used with.          *)
VdsTypeInv ==
  /\ DOMAIN sink = SinkIds /\ DOMAIN scratch = ScratchIds
  /\ \A s \in SinkIds : DOMAIN sink[s] = {"state", "buffer"}
  /\ \A s \in ScratchIds : DOMAIN scratch[s] = {"state", "buffer"}
  /\ DOMAIN mProducerBuffers = ProducerSlots
  /\ DOMAIN mProducerSlotSource = ProducerSlots
  /\ mOutputProducerSlot \in SinkIds \union {NoSlot}
  /\ mCompositionType \in {"UNKNOWN", "GLES", "HWC", "MIXED"}

(* The slot the driver holds or has queued is the output's on a GLES       *)
(* frame, and one of the scratch queue's on a mixed one.                   *)
SlotOfTheFrame(slot) ==
  \/ mCompositionType = "GLES" /\ slot = mOutputProducerSlot
  \/ mCompositionType = "MIXED" /\ \E s \in ScratchIds : slot = mapScratch(s)

(* The slot the driver holds, or has queued, is the one the composition    *)
(* type gives it.                                                          *)
DriverInOrder ==
  /\ held # NoSlot => mDbgState = "GLES" /\ SlotOfTheFrame(held)
  /\ mFbProducerSlot # NoSlot =>
       mDbgState \in {"GLES_DONE", "HWC"} /\ SlotOfTheFrame(mFbProducerSlot)

(* The copies of the buffers of the queues are what the queues have.       *)
CopiesAreCurrent ==
  /\ ~abandoned => \A s \in SinkIds :
       mProducerSlotSource[s] = "sink" /\ mProducerBuffers[s] = sink[s].buffer
  /\ \A s \in ScratchIds : mProducerBuffers[mapScratch(s)] = scratch[s].buffer

(* From the beginning of a frame on the output is dequeued and the         *)
(* hardware has it, and the driver draws before the hardware goes on.      *)
OutputInOrder ==
  mDbgState # "IDLE" /\ ~failed /\ ~abandoned =>
    /\ mOutputProducerSlot \in SinkIds
    /\ sink[mOutputProducerSlot].state = "dequeued"
    /\ outbuf = sink[mOutputProducerSlot].buffer
    /\ outbuf.format = mOutputFormat
    /\ mDbgState # "BEGUN" => mCompositionType = "GLES" \/ mOutputFormat = "default"
    /\ mDbgState = "GLES" => held # NoSlot
    /\ mDbgState = "GLES_DONE" => mFbProducerSlot # NoSlot

(* The inductive invariant of the surface.                                 *)
VdsInv ==
  /\ VdsTypeInv
  /\ BuffersAreBalanced
  /\ DriverInOrder
  /\ CopiesAreCurrent
  /\ OutputInOrder
  /\ HardwareHasTheOutput

-----------------------------------------------------------------------------
(* Two kinds of producer slot, and no slot.                                *)
LEMMA SlotsAreApart ==
  /\ NoSlot \in Nat
  /\ \A s \in SinkIds : s \in Nat /\ s # NoSlot /\ s \in ProducerSlots
  /\ \A s \in ScratchIds :
       /\ mapScratch(s) \in ProducerSlots \ SinkIds /\ mapScratch(s) # NoSlot
       /\ mapScratch(mapScratch(s)) = s
  /\ \A s, r \in ScratchIds : mapScratch(s) = mapScratch(r) => s = r
  BY VdsAssumption DEF SinkIds, ScratchIds, ProducerSlots, NoSlot, mapScratch

(* One slot of a queue changes its state.                                  *)
LEMMA SlotStateChanges ==
  ASSUME NEW f, NEW D, DOMAIN f = D, \A s \in D : DOMAIN f[s] = {"state", "buffer"},
         NEW s \in D, NEW state, NEW g, g = [f EXCEPT ![s].state = state]
  PROVE  /\ DOMAIN g = D /\ \A r \in D : DOMAIN g[r] = {"state", "buffer"}
         /\ g[s].state = state
         /\ \A r \in D \ {s} : g[r] = f[r]
         /\ \A r \in D : g[r].buffer = f[r].buffer
  OBVIOUS

(* The sink after the output is given back.                                *)
LEMMA CancelledFacts ==
  ASSUME VdsTypeInv, BuffersAreBalanced
  PROVE  /\ DOMAIN Cancelled = SinkIds
         /\ \A s \in SinkIds : /\ DOMAIN Cancelled[s] = {"state", "buffer"}
                               /\ Cancelled[s].state # "dequeued"
                               /\ Cancelled[s].buffer = sink[s].buffer
<1>1. CASE mOutputProducerSlot # NoSlot /\ sink[mOutputProducerSlot].state = "dequeued"
  <2>1. mOutputProducerSlot \in SinkIds  BY <1>1 DEF VdsTypeInv
  <2>2. Cancelled = [sink EXCEPT ![mOutputProducerSlot].state = "free"]
    BY <1>1 DEF Cancelled
  <2> QED BY <2>1, <2>2, SlotStateChanges DEF VdsTypeInv, BuffersAreBalanced
<1>2. CASE ~(mOutputProducerSlot # NoSlot /\ sink[mOutputProducerSlot].state = "dequeued")
  <2>1. Cancelled = sink  BY <1>2 DEF Cancelled
  <2> QED BY <1>2, <2>1, SlotsAreApart DEF VdsTypeInv, BuffersAreBalanced
<1> QED BY <1>1, <1>2

(* The output buffer is replaced: the old one is free again, the hardware  *)
(* has the new one, and its format is what was asked for.                  *)
LEMMA RefreshFacts ==
  ASSUME VdsInv, NEW format, refreshOutputBuffer(format), UNCHANGED <<scratch, abandoned>>
  PROVE  /\ DOMAIN sink' = SinkIds
         /\ \A s \in SinkIds : DOMAIN sink'[s] = {"state", "buffer"}
         /\ DOMAIN mProducerBuffers' = ProducerSlots
         /\ DOMAIN mProducerSlotSource' = ProducerSlots
         /\ mOutputProducerSlot' \in SinkIds \union {NoSlot}
         /\ \A s \in SinkIds : sink'[s].state = "dequeued" => s = mOutputProducerSlot'
         /\ CopiesAreCurrent'
         /\ ~failed' => /\ ~failed
                        /\ mOutputProducerSlot' \in SinkIds
                        /\ sink'[mOutputProducerSlot'].state = "dequeued"
                        /\ outbuf' = sink'[mOutputProducerSlot'].buffer
                        /\ outbuf'.format = format
<1>1. /\ DOMAIN Cancelled = SinkIds
      /\ \A s \in SinkIds : /\ DOMAIN Cancelled[s] = {"state", "buffer"}
                            /\ Cancelled[s].state # "dequeued"
                            /\ Cancelled[s].buffer = sink[s].buffer
  BY CancelledFacts DEF VdsInv
<1>2. /\ DOMAIN sink = SinkIds
      /\ DOMAIN mProducerBuffers = ProducerSlots
      /\ DOMAIN mProducerSlotSource = ProducerSlots
      /\ mOutputProducerSlot \in SinkIds \union {NoSlot}
  BY DEF VdsInv, VdsTypeInv
<1>3. CASE \E s \in FreeSlots(Cancelled) :
             LET slot == Dequeued(s, sink[s], format) IN
             /\ ~abandoned
             /\ sink' = [Cancelled EXCEPT ![s] = slot]
             /\ Requested("sink", s, sink[s], slot)
             /\ mOutputProducerSlot' = s
             /\ outbuf' = mProducerBuffers'[mOutputProducerSlot']
             /\ UNCHANGED failed
  <2>1. PICK s \in FreeSlots(Cancelled) :
          /\ ~abandoned
          /\ sink' = [Cancelled EXCEPT ![s] = Dequeued(s, sink[s], format)]
          /\ Requested("sink", s, sink[s], Dequeued(s, sink[s], format))
          /\ mOutputProducerSlot' = s
          /\ outbuf' = mProducerBuffers'[mOutputProducerSlot']
          /\ UNCHANGED failed
    BY <1>3
  <2>2. PICK slot : slot = Dequeued(s, sink[s], format)
    OBVIOUS
  <2>3. s \in SinkIds /\ s \in ProducerSlots
    BY <1>1, SlotsAreApart DEF FreeSlots
  <2>4. /\ DOMAIN slot = {"state", "buffer"} /\ slot.state = "dequeued"
        /\ slot.buffer.format = format
    BY <2>2 DEF Dequeued, NeedsReallocation, NewBuffer
  <2>5. /\ DOMAIN sink' = SinkIds /\ sink'[s] = slot
        /\ \A r \in SinkIds \ {s} : sink'[r] = Cancelled[r]
    BY <1>1, <2>1, <2>2, <2>3
  <2>6. ~abandoned /\ \A r \in SinkIds :
          mProducerSlotSource[r] = "sink" /\ mProducerBuffers[r] = sink[r].buffer
    BY <2>1 DEF VdsInv, CopiesAreCurrent
  <2>7. /\ DOMAIN mProducerBuffers' = ProducerSlots
        /\ DOMAIN mProducerSlotSource' = ProducerSlots
        /\ mProducerSlotSource'[s] = "sink" /\ mProducerBuffers'[s] = slot.buffer
        /\ \A q \in ProducerSlots \ {s} : /\ mProducerSlotSource'[q] = mProducerSlotSource[q]
                                          /\ mProducerBuffers'[q] = mProducerBuffers[q]
    BY <1>2, <2>1, <2>2, <2>3, <2>6 DEF Requested
  <2>8. CopiesAreCurrent'
    <3>1. \A r \in SinkIds : r \in ProducerSlots  BY SlotsAreApart
    <3>2. \A r \in ScratchIds : mapScratch(r) \in ProducerSlots \ {s}
      BY <2>3, SlotsAreApart
    <3>3. \A r \in SinkIds :
            mProducerSlotSource'[r] = "sink" /\ mProducerBuffers'[r] = sink'[r].buffer
      BY <1>1, <2>5, <2>6, <2>7, <3>1
    <3>4. \A r \in ScratchIds : mProducerBuffers'[mapScratch(r)] = scratch'[r].buffer
      BY <2>7, <3>2 DEF VdsInv, CopiesAreCurrent
    <3> QED BY <3>3, <3>4 DEF CopiesAreCurrent
  <2> QED BY <1>1, <2>1, <2>3, <2>4, <2>5, <2>7, <2>8
<1>4. CASE /\ sink' = Cancelled /\ failed' = TRUE
           /\ UNCHANGED <<mProducerSlotSource, mProducerBuffers, mOutputProducerSlot>>
  BY <1>1, <1>2, <1>4 DEF VdsInv, CopiesAreCurrent
<1> QED BY <1>3, <1>4 DEF refreshOutputBuffer

-----------------------------------------------------------------------------
(* SurfaceFlinger begins the frame: nothing is in the scratch queue, and   *)
(* the driver has nothing.                                                 *)
LEMMA BeginKeepsVds ==
  ASSUME VdsInv, NEW mustRecompose \in BOOLEAN, beginFrame(mustRecompose)
  PROVE  VdsInv'
<1>1. /\ mDbgState = "IDLE" /\ mDbgState' = "BEGUN"
      /\ refreshOutputBuffer(mOutputFormat)
      /\ UNCHANGED <<mCompositionType, mOutputFormat, mFbProducerSlot, scratch, abandoned,
                     held>>
  BY DEF beginFrame, glesVars
<1>2. held = NoSlot /\ mFbProducerSlot = NoSlot
  BY <1>1 DEF VdsInv, DriverInOrder
<1>3. VdsTypeInv' /\ CopiesAreCurrent' /\ BuffersAreBalanced'
  BY <1>1, RefreshFacts DEF VdsInv, VdsTypeInv, BuffersAreBalanced
<1>4. DriverInOrder'
  BY <1>1, <1>2 DEF DriverInOrder
<1>5. OutputInOrder'
  BY <1>1, RefreshFacts DEF OutputInOrder
<1>6. HardwareHasTheOutput'
  BY <1>1 DEF HardwareHasTheOutput
<1> QED BY <1>3, <1>4, <1>5, <1>6 DEF VdsInv

(* prepareFrame chooses the composition type.                              *)
LEMMA PrepareKeepsVds ==
  ASSUME VdsInv, NEW type \in {"GLES", "HWC", "MIXED"}, prepareFrame(type)
  PROVE  VdsInv'
<1>1. /\ mDbgState = "BEGUN" /\ mDbgState' = "PREPARED" /\ mCompositionType' = type
      /\ UNCHANGED <<mFbProducerSlot, scratch, abandoned, held>>
  BY DEF prepareFrame, glesVars
<1>2. held = NoSlot /\ mFbProducerSlot = NoSlot
  BY <1>1 DEF VdsInv, DriverInOrder
<1>3. \A s \in ScratchIds : scratch[s].state = "free"
  BY <1>2, SlotsAreApart DEF VdsInv, BuffersAreBalanced
<1>4. DriverInOrder' /\ HardwareHasTheOutput'
  BY <1>1, <1>2 DEF DriverInOrder, HardwareHasTheOutput
<1>5. CASE IsStale(type)
  <2>1. mOutputFormat' = "default" /\ refreshOutputBuffer("default")
    BY <1>5 DEF prepareFrame
  <2>2. VdsTypeInv' /\ CopiesAreCurrent' /\ BuffersAreBalanced'
    BY <1>1, <1>3, <2>1, RefreshFacts DEF VdsInv, VdsTypeInv, BuffersAreBalanced
  <2>3. OutputInOrder'
    BY <1>1, <2>1, RefreshFacts DEF OutputInOrder
  <2> QED BY <1>4, <2>2, <2>3 DEF VdsInv
<1>6. CASE ~IsStale(type)
  <2>1. UNCHANGED <<mOutputFormat, mProducerSlotSource, mProducerBuffers,
                    mOutputProducerSlot, sink, outbuf, failed>>
    BY <1>6 DEF prepareFrame
  <2>2. VdsTypeInv' /\ CopiesAreCurrent' /\ BuffersAreBalanced'
    BY <1>1, <1>3, <2>1 DEF VdsInv, VdsTypeInv, BuffersAreBalanced, CopiesAreCurrent
  <2>3. OutputInOrder'
    BY <1>1, <1>6, <2>1 DEF VdsInv, OutputInOrder, IsStale
  <2> QED BY <1>4, <2>2, <2>3 DEF VdsInv
<1> QED BY <1>5, <1>6

(* The driver takes the output, another output in its own format, or a     *)
(* scratch buffer.                                                         *)
LEMMA SinkDequeueKeepsVds ==
  ASSUME VdsInv, dequeueBuffer, dequeueFromSink
  PROVE  VdsInv'
<1>1. /\ mDbgState = "PREPARED" /\ mDbgState' = "GLES" /\ mCompositionType = "GLES"
      /\ mOutputProducerSlot # NoSlot
      /\ UNCHANGED <<mCompositionType, mFbProducerSlot, scratch, abandoned>>
  BY DEF dequeueBuffer, dequeueFromSink
<1>2. held = NoSlot /\ mFbProducerSlot = NoSlot
  BY <1>1 DEF VdsInv, DriverInOrder
<1>3. \A s \in ScratchIds : scratch[s].state = "free"
  BY <1>2, SlotsAreApart DEF VdsInv, BuffersAreBalanced
<1>4. held' # NoSlot => held' = mOutputProducerSlot'
  BY <1>2 DEF dequeueFromSink, TakesSlot
<1>5. DriverInOrder'
  BY <1>1, <1>2, <1>4 DEF DriverInOrder, SlotOfTheFrame
<1>6. HardwareHasTheOutput'
  BY <1>1 DEF HardwareHasTheOutput
<1>7. CASE mProducerBuffers[mOutputProducerSlot].format # "gles"
  <2>1. /\ mOutputFormat' = "gles" /\ refreshOutputBuffer("gles")
        /\ ~failed' => held' = mOutputProducerSlot'
    BY <1>7 DEF dequeueFromSink, TakesSlot
  <2>2. VdsTypeInv' /\ CopiesAreCurrent' /\ BuffersAreBalanced'
    BY <1>1, <1>3, <2>1, RefreshFacts DEF VdsInv, VdsTypeInv, BuffersAreBalanced
  <2>3. OutputInOrder'
    BY <1>1, <2>1, RefreshFacts, SlotsAreApart DEF OutputInOrder
  <2> QED BY <1>5, <1>6, <2>2, <2>3 DEF VdsInv
<1>8. CASE ~(mProducerBuffers[mOutputProducerSlot].format # "gles")
  <2>1. /\ UNCHANGED <<mOutputFormat, mProducerSlotSource, mProducerBuffers,
                       mOutputProducerSlot, sink, outbuf, failed>>
        /\ held' = mOutputProducerSlot
    BY <1>8 DEF dequeueFromSink, TakesSlot
  <2>2. VdsTypeInv' /\ CopiesAreCurrent' /\ BuffersAreBalanced'
    BY <1>1, <1>3, <2>1 DEF VdsInv, VdsTypeInv, BuffersAreBalanced, CopiesAreCurrent
  <2>3. OutputInOrder'
    BY <1>1, <2>1 DEF VdsInv, OutputInOrder
  <2> QED BY <1>5, <1>6, <2>2, <2>3 DEF VdsInv
<1> QED BY <1>7, <1>8

(* dequeueBuffer without an output fails the frame.                        *)
LEMMA NoDequeueKeepsVds ==
  ASSUME VdsInv, dequeueBuffer, dequeueWithoutOutput
  PROVE  VdsInv'
<1>1. /\ mDbgState = "PREPARED" /\ mDbgState' = "GLES" /\ failed' = TRUE
      /\ UNCHANGED <<mOutputFormat, mProducerSlotSource, mProducerBuffers,
                 mOutputProducerSlot, sink, scratch, outbuf, held,
                 mCompositionType, mFbProducerSlot, abandoned>>
  BY DEF dequeueBuffer, dequeueWithoutOutput
<1>2. VdsTypeInv' /\ CopiesAreCurrent' /\ BuffersAreBalanced'
  BY <1>1 DEF VdsInv, VdsTypeInv, CopiesAreCurrent, BuffersAreBalanced
<1>3. DriverInOrder' /\ OutputInOrder' /\ HardwareHasTheOutput'
  BY <1>1 DEF VdsInv, DriverInOrder, SlotOfTheFrame, OutputInOrder, HardwareHasTheOutput
<1> QED BY <1>2, <1>3 DEF VdsInv

(* On a mixed frame the driver gets a slot of the scratch queue.           *)
LEMMA ScratchDequeueKeepsVds ==
  ASSUME VdsInv, dequeueBuffer, dequeueFromScratch
  PROVE  VdsInv'
<1>1. /\ mDbgState = "PREPARED" /\ mDbgState' = "GLES" /\ mCompositionType = "MIXED"
      /\ UNCHANGED <<mOutputFormat, mOutputProducerSlot, sink, outbuf, failed,
                     mCompositionType, mFbProducerSlot, abandoned>>
  BY DEF dequeueBuffer, dequeueFromScratch
<1>2. PICK s \in FreeSlots(scratch) :
        /\ scratch' = [scratch EXCEPT ![s] = Dequeued(mapScratch(s), scratch[s], "gles")]
        /\ Requested("scratch", mapScratch(s), scratch[s],
                     Dequeued(mapScratch(s), scratch[s], "gles"))
        /\ TakesSlot(mapScratch(s))
  BY DEF dequeueFromScratch
<1>3. PICK slot : slot = Dequeued(mapScratch(s), scratch[s], "gles")
  OBVIOUS
<1>4. /\ DOMAIN scratch = ScratchIds /\ s \in ScratchIds
      /\ DOMAIN mProducerBuffers = ProducerSlots
      /\ DOMAIN mProducerSlotSource = ProducerSlots
  BY DEF VdsInv, VdsTypeInv, FreeSlots
<1>5. mapScratch(s) \in ProducerSlots \ SinkIds /\ mapScratch(s) # NoSlot
  BY <1>4, SlotsAreApart
<1>6. DOMAIN slot = {"state", "buffer"}
  BY <1>3 DEF Dequeued
<1>7. /\ DOMAIN scratch' = ScratchIds /\ scratch'[s] = slot
      /\ \A r \in ScratchIds \ {s} : scratch'[r] = scratch[r]
  BY <1>2, <1>3, <1>4
<1>8. mProducerBuffers[mapScratch(s)] = scratch[s].buffer
  BY <1>4 DEF VdsInv, CopiesAreCurrent
<1>9. /\ DOMAIN mProducerBuffers' = ProducerSlots
      /\ DOMAIN mProducerSlotSource' = ProducerSlots
      /\ mProducerBuffers'[mapScratch(s)] = slot.buffer
      /\ \A q \in ProducerSlots \ {mapScratch(s)} :
           /\ mProducerSlotSource'[q] = mProducerSlotSource[q]
           /\ mProducerBuffers'[q] = mProducerBuffers[q]
  BY <1>2, <1>3, <1>4, <1>5, <1>8 DEF Requested
<1>10. held = NoSlot /\ mFbProducerSlot = NoSlot /\ held' = mapScratch(s)
  BY <1>1, <1>2 DEF VdsInv, DriverInOrder, TakesSlot
<1>11. \A r \in ScratchIds : scratch[r].state = "free"
  BY <1>10, SlotsAreApart DEF VdsInv, BuffersAreBalanced
<1>12. VdsTypeInv'
  BY <1>1, <1>6, <1>7, <1>9 DEF VdsInv, VdsTypeInv
<1>13. BuffersAreBalanced'
  BY <1>1, <1>7, <1>10, <1>11 DEF VdsInv, BuffersAreBalanced
<1>14. DriverInOrder'
  BY <1>1, <1>4, <1>10 DEF DriverInOrder, SlotOfTheFrame
<1>15. CopiesAreCurrent'
  <2>1. \A r \in SinkIds : r \in ProducerSlots \ {mapScratch(s)}
    BY <1>5, SlotsAreApart
  <2>2. \A r \in ScratchIds \ {s} : mapScratch(r) \in ProducerSlots \ {mapScratch(s)}
    BY <1>4, SlotsAreApart
  <2> QED BY <1>1, <1>7, <1>9, <2>1, <2>2 DEF VdsInv, CopiesAreCurrent
<1>16. OutputInOrder' /\ HardwareHasTheOutput'
  BY <1>1, <1>5, <1>10 DEF VdsInv, OutputInOrder, HardwareHasTheOutput
<1> QED BY <1>12, <1>13, <1>14, <1>15, <1>16 DEF VdsInv

(* The driver has drawn, and its slot is remembered for the hardware.      *)
LEMMA QueueKeepsVds ==
  ASSUME VdsInv, queueBuffer
  PROVE  VdsInv'
<1>1. /\ mDbgState = "GLES" /\ mDbgState' = "GLES_DONE" /\ held # NoSlot
      /\ held' = NoSlot /\ mFbProducerSlot' = held
      /\ UNCHANGED <<mCompositionType, mOutputFormat, sink, mOutputProducerSlot,
                     mProducerSlotSource, mProducerBuffers, abandoned, outbuf, failed>>
  BY DEF queueBuffer, hwcVars
<1>2. mFbProducerSlot = NoSlot /\ SlotOfTheFrame(held)
  BY <1>1 DEF VdsInv, DriverInOrder
<1>3. /\ DOMAIN scratch' = ScratchIds
      /\ \A r \in ScratchIds : /\ DOMAIN scratch'[r] = {"state", "buffer"}
                               /\ scratch'[r].buffer = scratch[r].buffer
                               /\ \/ scratch'[r].state = "free"
                                  \/ mapScratch(r) = held /\ mCompositionType = "MIXED"
  <2>1. CASE mCompositionType = "MIXED"
    <3>1. PICK s \in ScratchIds : held = mapScratch(s)
      BY <1>2, <2>1 DEF SlotOfTheFrame
    <3>2. scratch' = [scratch EXCEPT ![s].state = "acquired"]
      BY <2>1, <3>1, SlotsAreApart DEF queueBuffer
    <3>3. \A r \in ScratchIds \ {s} : scratch[r].state = "free"
      BY <1>2, <3>1, SlotsAreApart DEF VdsInv, BuffersAreBalanced
    <3> QED BY <2>1, <3>1, <3>2, <3>3, SlotStateChanges DEF VdsInv, VdsTypeInv
  <2>2. CASE mCompositionType # "MIXED"
    <3>1. UNCHANGED scratch  BY <2>2 DEF queueBuffer
    <3>2. \A r \in ScratchIds : scratch[r].state = "free"
      BY <2>2 DEF VdsInv, BuffersAreBalanced
    <3> QED BY <3>1, <3>2 DEF VdsInv, VdsTypeInv
  <2> QED BY <2>1, <2>2
<1>4. VdsTypeInv' /\ CopiesAreCurrent'
  BY <1>1, <1>3 DEF VdsInv, VdsTypeInv, CopiesAreCurrent
<1>5. BuffersAreBalanced'
  BY <1>1, <1>3 DEF VdsInv, BuffersAreBalanced
<1>6. DriverInOrder'
  BY <1>1, <1>2 DEF DriverInOrder, SlotOfTheFrame
<1>7. OutputInOrder' /\ HardwareHasTheOutput'
  BY <1>1 DEF VdsInv, OutputInOrder, HardwareHasTheOutput
<1> QED BY <1>4, <1>5, <1>6, <1>7 DEF VdsInv

(* The driver gives its slot back unused.                                  *)
LEMMA CancelKeepsVds ==
  ASSUME VdsInv, cancelBuffer
  PROVE  VdsInv'
<1>1. /\ mDbgState = "GLES" /\ held # NoSlot /\ held' = NoSlot /\ failed' = TRUE
      /\ UNCHANGED <<mDbgState, mCompositionType, mOutputFormat, mOutputProducerSlot,
                     mFbProducerSlot, mProducerSlotSource, mProducerBuffers, abandoned>>
  BY DEF cancelBuffer, frameVars, slotVars
<1>2. mFbProducerSlot = NoSlot /\ SlotOfTheFrame(held)
  BY <1>1 DEF VdsInv, DriverInOrder
<1>3. DriverInOrder' /\ OutputInOrder' /\ HardwareHasTheOutput'
  BY <1>1, <1>2 DEF DriverInOrder, OutputInOrder, HardwareHasTheOutput
<1>4. CASE mCompositionType = "MIXED"
  <2>1. PICK s \in ScratchIds : held = mapScratch(s)
    BY <1>2, <1>4 DEF SlotOfTheFrame
  <2>2. scratch' = [scratch EXCEPT ![s].state = "free"] /\ UNCHANGED sink
    BY <1>4, <2>1, SlotsAreApart DEF cancelBuffer
  <2>3. \A r \in ScratchIds \ {s} : scratch[r].state = "free"
    BY <1>2, <2>1, SlotsAreApart DEF VdsInv, BuffersAreBalanced
  <2>4. /\ DOMAIN scratch' = ScratchIds
        /\ \A r \in ScratchIds : /\ DOMAIN scratch'[r] = {"state", "buffer"}
                                 /\ scratch'[r].buffer = scratch[r].buffer
                                 /\ scratch'[r].state = "free"
    BY <2>2, <2>3, SlotStateChanges DEF VdsInv, VdsTypeInv
  <2>5. VdsTypeInv' /\ CopiesAreCurrent' /\ BuffersAreBalanced'
    BY <1>1, <2>2, <2>4 DEF VdsInv, VdsTypeInv, CopiesAreCurrent, BuffersAreBalanced
  <2> QED BY <1>3, <2>5 DEF VdsInv
<1>5. CASE mCompositionType # "MIXED"
  <2>1. held = mOutputProducerSlot /\ held \in SinkIds
    BY <1>1, <1>2, <1>5 DEF SlotOfTheFrame, VdsInv, VdsTypeInv
  <2>2. UNCHANGED scratch /\ \A s \in ScratchIds : scratch[s].state = "free"
    BY <1>5 DEF cancelBuffer, VdsInv, BuffersAreBalanced
  <2>3. \E state : sink' = [sink EXCEPT ![held].state = state] /\ state # "dequeued"
    <3> DEFINE state == IF sink[held].state = "dequeued" THEN "free" ELSE sink[held].state
    <3>1. sink' = [sink EXCEPT ![held].state = state]
      BY <1>5, <2>1 DEF cancelBuffer, VdsInv, VdsTypeInv
    <3>2. state # "dequeued"  OBVIOUS
    <3> HIDE DEF state
    <3> QED BY <3>1, <3>2
  <2>4. /\ DOMAIN sink' = SinkIds
        /\ \A r \in SinkIds : /\ DOMAIN sink'[r] = {"state", "buffer"}
                              /\ sink'[r].buffer = sink[r].buffer
                              /\ sink'[r].state # "dequeued"
    <3>1. PICK state : sink' = [sink EXCEPT ![held].state = state] /\ state # "dequeued"
      BY <2>3
    <3> QED BY <2>1, <3>1, SlotStateChanges DEF VdsInv, VdsTypeInv, BuffersAreBalanced
  <2>5. VdsTypeInv' /\ CopiesAreCurrent' /\ BuffersAreBalanced'
    BY <1>1, <2>2, <2>4 DEF VdsInv, VdsTypeInv, CopiesAreCurrent, BuffersAreBalanced
  <2> QED BY <1>3, <2>5 DEF VdsInv
<1> QED BY <1>4, <1>5

-----------------------------------------------------------------------------
(* The hardware is given the buffers of the frame, if there are any.       *)
LEMMA AdvanceKeepsVds ==
  ASSUME VdsInv, advanceFrame
  PROVE  VdsInv'
<1>1. /\ \/ mDbgState = "PREPARED" /\ mCompositionType = "HWC"
         \/ mDbgState \in {"GLES", "GLES_DONE"} /\ held = NoSlot
      /\ mDbgState' = "HWC"
      /\ UNCHANGED <<mCompositionType, mOutputFormat, mOutputProducerSlot, mFbProducerSlot,
                     mProducerSlotSource, mProducerBuffers, sink, scratch, abandoned, held>>
  BY DEF advanceFrame, slotVars, glesVars
<1>2. held = NoSlot
  BY <1>1 DEF VdsInv, DriverInOrder
<1>3. VdsTypeInv' /\ BuffersAreBalanced' /\ CopiesAreCurrent'
  BY <1>1 DEF VdsInv, VdsTypeInv, BuffersAreBalanced, CopiesAreCurrent
<1>4. DriverInOrder'
  BY <1>1, <1>2 DEF VdsInv, DriverInOrder, SlotOfTheFrame
<1>5. CASE HasBuffers
  <2>1. /\ outbuf' = mProducerBuffers[mOutputProducerSlot]
        /\ fbTarget' = IF mFbProducerSlot # NoSlot
                       THEN mProducerBuffers[mFbProducerSlot] ELSE fbTarget
        /\ UNCHANGED failed /\ mOutputProducerSlot \in SinkIds
    BY <1>5 DEF advanceFrame, HasBuffers, VdsInv, VdsTypeInv
  <2>2. ~abandoned => outbuf' = sink[mOutputProducerSlot].buffer
    BY <2>1 DEF VdsInv, CopiesAreCurrent
  <2>3. OutputInOrder'
    BY <1>1, <2>1, <2>2 DEF VdsInv, OutputInOrder
  <2>4. mCompositionType \in {"GLES", "MIXED"} /\ ~failed /\ ~abandoned =>
          mFbProducerSlot # NoSlot /\ SlotOfTheFrame(mFbProducerSlot)
    BY <1>1, <1>2, <1>5 DEF HasBuffers, VdsInv, DriverInOrder
  <2>5. HardwareHasTheOutput'
    <3> SUFFICES ASSUME ~failed, ~abandoned PROVE HardwareHasTheOutput'
      BY <1>1, <2>1 DEF HardwareHasTheOutput
    <3>1. /\ sink'[mOutputProducerSlot'].state = "dequeued"
          /\ outbuf' = sink'[mOutputProducerSlot'].buffer
          /\ mCompositionType # "GLES" => outbuf'.format = "default"
      BY <1>1, <2>1, <2>2 DEF VdsInv, OutputInOrder
    <3>2. mCompositionType = "GLES" => fbTarget' = outbuf'
      BY <2>1, <2>4 DEF SlotOfTheFrame
    <3>3. mCompositionType = "MIXED" =>
            fbTarget' = scratch[mapScratch(mFbProducerSlot)].buffer
      BY <2>1, <2>4, SlotsAreApart DEF SlotOfTheFrame, VdsInv, CopiesAreCurrent
    <3> QED BY <1>1, <3>1, <3>2, <3>3 DEF HardwareHasTheOutput
  <2> QED BY <1>3, <1>4, <2>3, <2>5 DEF VdsInv
<1>6. CASE ~HasBuffers
  <2>1. failed' = TRUE  BY <1>6 DEF advanceFrame
  <2> QED BY <1>3, <1>4, <2>1 DEF VdsInv, OutputInOrder, HardwareHasTheOutput
<1> QED BY <1>5, <1>6

(* The driver never gets to dequeue.                                       *)
LEMMA FailureKeepsVds ==
  ASSUME VdsInv, makeCurrentFails
  PROVE  VdsInv'
<1>1. /\ mDbgState = "PREPARED" /\ mDbgState' = "HWC" /\ failed' = TRUE
      /\ UNCHANGED <<mCompositionType, mOutputFormat, mOutputProducerSlot, mFbProducerSlot,
                     mProducerSlotSource, mProducerBuffers, sink, scratch, abandoned, held>>
  BY DEF makeCurrentFails, slotVars, glesVars
<1>2. VdsTypeInv' /\ BuffersAreBalanced' /\ CopiesAreCurrent'
  BY <1>1 DEF VdsInv, VdsTypeInv, BuffersAreBalanced, CopiesAreCurrent
<1>3. DriverInOrder' /\ OutputInOrder' /\ HardwareHasTheOutput'
  BY <1>1 DEF VdsInv, DriverInOrder, SlotOfTheFrame, OutputInOrder, HardwareHasTheOutput
<1> QED BY <1>2, <1>3 DEF VdsInv

(* The frame is over: what was dequeued is queued or cancelled.            *)
LEMMA CommitKeepsVds ==
  ASSUME VdsInv, onFrameCommitted
  PROVE  VdsInv'
<1>1. /\ mDbgState = "HWC" /\ mDbgState' = "IDLE" /\ mCompositionType' = "UNKNOWN"
      /\ mOutputProducerSlot' = NoSlot /\ mFbProducerSlot' = NoSlot
      /\ UNCHANGED <<mProducerSlotSource, mProducerBuffers, abandoned, held>>
  BY DEF onFrameCommitted
<1>2. held = NoSlot
  BY <1>1 DEF VdsInv, DriverInOrder
<1>3. /\ DOMAIN scratch' = ScratchIds
      /\ \A r \in ScratchIds : /\ DOMAIN scratch'[r] = {"state", "buffer"}
                               /\ scratch'[r].buffer = scratch[r].buffer
                               /\ scratch'[r].state = "free"
  <2>1. CASE mCompositionType = "MIXED" /\ mFbProducerSlot # NoSlot
    <3>1. PICK s \in ScratchIds : mFbProducerSlot = mapScratch(s)
      BY <2>1 DEF VdsInv, DriverInOrder, SlotOfTheFrame
    <3>2. scratch' = [scratch EXCEPT ![s].state = "free"]
      BY <2>1, <3>1, SlotsAreApart DEF onFrameCommitted
    <3>3. \A r \in ScratchIds \ {s} : scratch[r].state = "free"
      BY <1>2, <3>1, SlotsAreApart DEF VdsInv, BuffersAreBalanced
    <3> QED BY <3>2, <3>3, SlotStateChanges DEF VdsInv, VdsTypeInv
  <2>2. CASE ~(mCompositionType = "MIXED" /\ mFbProducerSlot # NoSlot)
    <3>1. UNCHANGED scratch  BY <2>2 DEF onFrameCommitted
    <3>2. \A r \in ScratchIds : scratch[r].state = "free"
      BY <1>2, <2>2, SlotsAreApart DEF VdsInv, BuffersAreBalanced
    <3> QED BY <3>1, <3>2 DEF VdsInv, VdsTypeInv
  <2> QED BY <2>1, <2>2
<1>4. /\ DOMAIN sink' = SinkIds
      /\ \A r \in SinkIds : /\ DOMAIN sink'[r] = {"state", "buffer"}
                            /\ sink'[r].buffer = sink[r].buffer
                            /\ sink'[r].state # "dequeued"
  <2>1. /\ DOMAIN sink = SinkIds
        /\ \A r \in SinkIds : /\ DOMAIN sink[r] = {"state", "buffer"}
                              /\ sink[r].state = "dequeued" => r = mOutputProducerSlot
    BY DEF VdsInv, VdsTypeInv, BuffersAreBalanced
  <2>2. CASE mOutputProducerSlot # NoSlot /\ sink[mOutputProducerSlot].state = "dequeued"
    <3>1. mOutputProducerSlot \in SinkIds /\ sink' = OutputReturned
      BY <2>2 DEF onFrameCommitted, VdsInv, VdsTypeInv
    <3>2. CASE mMustRecompose
      <4>1. sink' = Queued(sink, mOutputProducerSlot)
        BY <3>1, <3>2 DEF OutputReturned
      <4> QED BY <2>1, <4>1 DEF Queued
    <3>3. CASE ~mMustRecompose
      <4>1. sink' = [sink EXCEPT ![mOutputProducerSlot].state = "free"]
        BY <3>1, <3>3 DEF OutputReturned
      <4> QED BY <2>1, <3>1, <4>1, SlotStateChanges
    <3> QED BY <3>2, <3>3
  <2>3. CASE ~(mOutputProducerSlot # NoSlot /\ sink[mOutputProducerSlot].state = "dequeued")
    <3>1. UNCHANGED sink  BY <2>3 DEF onFrameCommitted
    <3> QED BY <2>1, <2>3, <3>1, SlotsAreApart
  <2> QED BY <2>2, <2>3
<1>5. VdsTypeInv' /\ BuffersAreBalanced' /\ CopiesAreCurrent'
  BY <1>1, <1>3, <1>4 DEF VdsInv, VdsTypeInv, BuffersAreBalanced, CopiesAreCurrent
<1>6. DriverInOrder' /\ OutputInOrder' /\ HardwareHasTheOutput'
  BY <1>1, <1>2 DEF DriverInOrder, OutputInOrder, HardwareHasTheOutput
<1> QED BY <1>5, <1>6 DEF VdsInv

(* The consumer of the sink takes and returns buffers, or is gone.         *)
LEMMA SinkKeepsVds ==
  ASSUME VdsInv, NEW s \in SinkIds, acquireFromSink(s) \/ releaseToSink(s)
  PROVE  VdsInv'
<1>1. PICK state : /\ sink[s].state # "dequeued" /\ state # "dequeued"
                   /\ sink' = [sink EXCEPT ![s].state = state]
  BY DEF acquireFromSink, releaseToSink, sinkMoves
<1>2. UNCHANGED <<frameVars, slotVars, scratch, abandoned, held, hwcVars, failed>>
  BY DEF acquireFromSink, releaseToSink, sinkMoves, glesVars
<1>3. UNCHANGED <<mDbgState, mCompositionType, mOutputFormat, mOutputProducerSlot,
                  mFbProducerSlot, mProducerSlotSource, mProducerBuffers, outbuf, fbTarget>>
  BY <1>2 DEF frameVars, slotVars, hwcVars
<1>4. /\ DOMAIN sink' = SinkIds
      /\ \A r \in SinkIds :
           /\ DOMAIN sink'[r] = {"state", "buffer"}
           /\ sink'[r].buffer = sink[r].buffer
           /\ sink'[r].state = "dequeued" <=> sink[r].state = "dequeued"
  BY <1>1, SlotStateChanges DEF VdsInv, VdsTypeInv
<1>5. VdsTypeInv' /\ BuffersAreBalanced' /\ CopiesAreCurrent'
  BY <1>2, <1>3, <1>4 DEF VdsInv, VdsTypeInv, BuffersAreBalanced, CopiesAreCurrent
<1>6. DriverInOrder'
  BY <1>2, <1>3 DEF VdsInv, DriverInOrder, SlotOfTheFrame
<1>7. OutputInOrder'
  BY <1>2, <1>3, <1>4 DEF VdsInv, OutputInOrder
<1>8. HardwareHasTheOutput'
  BY <1>2, <1>3, <1>4, <1>7 DEF VdsInv, OutputInOrder, HardwareHasTheOutput
<1> QED BY <1>5, <1>6, <1>7, <1>8 DEF VdsInv

(* The sink is abandoned, and frees its slots.                             *)
LEMMA AbandonKeepsVds ==
  ASSUME VdsInv, abandonSink
  PROVE  VdsInv'
<1>1. /\ abandoned' = TRUE /\ sink' = [s \in SinkIds |-> EmptySlot]
      /\ UNCHANGED <<mDbgState, mCompositionType, mOutputProducerSlot, mFbProducerSlot,
                     mProducerSlotSource, mProducerBuffers, scratch, held>>
  BY DEF abandonSink, frameVars, slotVars, glesVars
<1>2. VdsTypeInv' /\ BuffersAreBalanced' /\ CopiesAreCurrent'
  BY <1>1 DEF VdsInv, VdsTypeInv, BuffersAreBalanced, CopiesAreCurrent, EmptySlot
<1>3. DriverInOrder' /\ OutputInOrder' /\ HardwareHasTheOutput'
  BY <1>1 DEF VdsInv, DriverInOrder, SlotOfTheFrame, OutputInOrder, HardwareHasTheOutput
<1> QED BY <1>2, <1>3 DEF VdsInv

-----------------------------------------------------------------------------
(* A frame is in order from beginFrame to onFrameCommitted, whatever fails *)
(* (VirtualDisplaySurface.cpp:99-249).                                     *)
THEOREM VdsInvHolds == VdsSpec => []VdsInv
<1>1. VdsInit => VdsInv
  BY SlotsAreApart
  DEF VdsInit, VdsInv, VdsTypeInv, BuffersAreBalanced, DriverInOrder, CopiesAreCurrent,
      OutputInOrder, HardwareHasTheOutput, EmptySlot
<1>2. VdsInv /\ [VdsNext]_vdsVars => VdsInv'
  <2> SUFFICES ASSUME VdsInv, [VdsNext]_vdsVars PROVE VdsInv'
    OBVIOUS
  <2>1. CASE dequeueBuffer
    BY <2>1, SinkDequeueKeepsVds, NoDequeueKeepsVds, ScratchDequeueKeepsVds
    DEF dequeueBuffer
  <2>2. CASE UNCHANGED vdsVars
    BY <2>2 DEF vdsVars, frameVars, slotVars, glesVars, hwcVars, VdsInv, VdsTypeInv,
                BuffersAreBalanced, DriverInOrder, SlotOfTheFrame, CopiesAreCurrent,
                OutputInOrder, HardwareHasTheOutput
  <2> QED BY <2>1, <2>2, BeginKeepsVds, PrepareKeepsVds, QueueKeepsVds, CancelKeepsVds,
             AdvanceKeepsVds, FailureKeepsVds, CommitKeepsVds, SinkKeepsVds,
             AbandonKeepsVds DEF VdsNext
<1> QED BY <1>1, <1>2, PTL DEF VdsSpec

(* However a frame ends, no buffer of the sink or of the scratch queue is  *)
(* lost (VirtualDisplaySurface.cpp:99-249).                                *)
THEOREM NoBufferIsLost == VdsSpec => []BuffersAreBalanced
<1>1. VdsInv => BuffersAreBalanced  BY DEF VdsInv
<1> QED BY <1>1, VdsInvHolds, PTL

(* Unless something failed, the hardware composes into the buffer that is  *)
(* dequeued from the sink (DisplayHardware/VirtualDisplaySurface.h:44-70). *)
THEOREM HardwareIsGivenTheOutput == VdsSpec => []HardwareHasTheOutput
<1>1. VdsInv => HardwareHasTheOutput  BY DEF VdsInv
<1> QED BY <1>1, VdsInvHolds, PTL

-----------------------------------------------------------------------------
(***************************************************************************)
(* Theorems about Composer, for any number of client threads and           *)
(* transactions.                                                           *)
(*                                                                         *)
(* What keeps a transaction whole is that a state is collected only while  *)
(* its transaction is open, and that the last of the open ones to close    *)
(* takes all of it.                                                        *)
(***************************************************************************)

(* The threads inside a transaction, and the numbers of their batches.     *)
OpenThreads == {t \in Clients : client[t].at = "open"}
OpenBatches == {client[t].batch : t \in OpenThreads}

(* Shapes of the state.                                                    *)
ComposerTypeInv ==
  /\ DOMAIN client = Clients
  /\ \A t \in Clients : DOMAIN client[t] = {"at", "batch"}
  /\ opens \in Nat
  /\ \A x \in DOMAIN mComposerStates :
       DOMAIN mComposerStates[x] = {"what", "flags", "mask"}
  /\ inFlight \in Seq(ToSet(inFlight))

(* The nest count is that of the threads with an open transaction.         *)
NestIsCounted ==
  /\ IsFiniteSet(OpenThreads)
  /\ mTransactionNestCount = Cardinality(OpenThreads)

(* Transactions are numbered as they are opened, and once one is sent      *)
(* nobody sets more of it.                                                 *)
NumbersAreKnown ==
  /\ batches \union OpenBatches \subseteq 1 .. opens
  /\ \A sent \in ToSet(inFlight) :
       /\ sent.numbers \subseteq 1 .. opens
       /\ sent.numbers \intersect (batches \union OpenBatches) = {}

(* What is collected or sent changes the size of a layer or the projection *)
(* of a display.                                                           *)
Resizes(states) ==
  \E x \in DOMAIN states : {"size", "projection"} \intersect DOMAIN states[x].what # {}

(* A transaction that resizes is synchronous, collected or sent.           *)
ResizesAreSynchronous ==
  /\ Resizes(mComposerStates) => mForceSynchronous
  /\ \A sent \in ToSet(inFlight) : Resizes(sent.states) => sent.eSynchronous

(* The inductive invariant of the clients of the composer.                 *)
ComposerInv ==
  /\ ComposerTypeInv
  /\ NestIsCounted
  /\ NumbersAreKnown
  /\ ResizesAreSynchronous

-----------------------------------------------------------------------------
(* Opening counts the thread and numbers its batch.                        *)
LEMMA OpenKeepsInv ==
  ASSUME ComposerInv, NEW t \in Clients, openGlobalTransaction(t)
  PROVE  ComposerInv'
<1>1. /\ client[t].at = "idle" /\ opens' = opens + 1
      /\ client' = [client EXCEPT ![t] = [at |-> "open", batch |-> opens + 1]]
      /\ mTransactionNestCount' = mTransactionNestCount + 1
      /\ UNCHANGED <<mComposerStates, mForceSynchronous, inFlight, batches>>
  BY DEF openGlobalTransaction
<1>2. ComposerTypeInv'
  BY <1>1 DEF ComposerInv, ComposerTypeInv
<1>3. /\ OpenThreads' = OpenThreads \union {t} /\ t \notin OpenThreads
      /\ OpenBatches' = OpenBatches \union {opens + 1}
  BY <1>1 DEF ComposerInv, ComposerTypeInv, OpenThreads, OpenBatches
<1>4. NestIsCounted'
  BY <1>1, <1>3, FS_AddElement DEF ComposerInv, NestIsCounted
<1>5. NumbersAreKnown'
  BY <1>1, <1>3 DEF ComposerInv, NumbersAreKnown, ComposerTypeInv
<1>6. ResizesAreSynchronous'
  BY <1>1 DEF ComposerInv, ResizesAreSynchronous
<1> QED BY <1>2, <1>4, <1>5, <1>6 DEF ComposerInv

(* Collecting a change adds nobody's number but the open one's.            *)
LEMMA CollectKeepsNumbers ==
  ASSUME ComposerInv, NEW t \in Clients, NEW x, NEW state,
         DOMAIN state = {"what", "flags", "mask"}, Collect(t, x, state)
  PROVE  ComposerTypeInv' /\ NestIsCounted' /\ NumbersAreKnown'
<1>1. /\ client[t].at = "open" /\ mComposerStates' = With(mComposerStates, x, state)
      /\ batches' = batches \union {client[t].batch}
      /\ UNCHANGED <<mTransactionNestCount, client, inFlight, opens>>
  BY DEF Collect
<1>2. ComposerTypeInv'
  BY <1>1 DEF ComposerInv, ComposerTypeInv, With
<1>3. /\ OpenThreads' = OpenThreads /\ OpenBatches' = OpenBatches
      /\ client[t].batch \in OpenBatches
  BY <1>1 DEF OpenThreads, OpenBatches
<1>4. NestIsCounted'
  BY <1>1, <1>3 DEF ComposerInv, NestIsCounted
<1>5. NumbersAreKnown'
  BY <1>1, <1>3 DEF ComposerInv, NumbersAreKnown
<1> QED BY <1>2, <1>4, <1>5

(* What is collected for a layer is a state, and makes the transaction     *)
(* synchronous if it resizes.                                              *)
LEMMA StateOfType ==
  ASSUME ComposerInv, NEW x
  PROVE  /\ DOMAIN StateOf(x) = {"what", "flags", "mask"}
         /\ {"size", "projection"} \intersect DOMAIN StateOf(x).what # {} =>
              mForceSynchronous
  BY DEF ComposerInv, ComposerTypeInv, ResizesAreSynchronous, Resizes, StateOf, Untouched

(* Setters of a layer or a display.                                        *)
LEMMA SetKeepsInv ==
  ASSUME ComposerInv, NEW t \in Clients, NEW x, NEW property, NEW v, set(t, x, property, v)
  PROVE  ComposerInv'
<1>1. PICK what : what = With(StateOf(x).what, property, v)
  OBVIOUS
<1>2. PICK state : state = [StateOf(x) EXCEPT !.what = what]
  OBVIOUS
<1>3. /\ DOMAIN state = {"what", "flags", "mask"} /\ state.what = what
      /\ DOMAIN what = DOMAIN StateOf(x).what \union {property}
  BY <1>1, <1>2, StateOfType DEF With
<1>4. Collect(t, x, state) /\ mForceSynchronous' = Forced(property)
  BY <1>1, <1>2, StateOfType DEF set
<1>5. ComposerTypeInv' /\ NestIsCounted' /\ NumbersAreKnown'
  BY <1>3, <1>4, CollectKeepsNumbers
<1>6. mComposerStates' = With(mComposerStates, x, state) /\ UNCHANGED inFlight
  BY <1>4 DEF Collect
<1>7. Resizes(mComposerStates)' => mForceSynchronous'
  <2> SUFFICES ASSUME NEW y \in DOMAIN mComposerStates',
                      {"size", "projection"} \intersect DOMAIN mComposerStates'[y].what # {}
               PROVE  Forced(property)
    BY <1>4 DEF Resizes
  <2>1. CASE y = x
    BY <1>3, <1>6, <2>1, StateOfType DEF With, Forced
  <2>2. CASE y # x
    <3>1. y \in DOMAIN mComposerStates /\ mComposerStates'[y] = mComposerStates[y]
      BY <1>6, <2>2 DEF With
    <3> QED BY <3>1 DEF ComposerInv, ResizesAreSynchronous, Resizes, Forced
  <2> QED BY <2>1, <2>2
<1>8. ResizesAreSynchronous'
  BY <1>6, <1>7 DEF ComposerInv, ResizesAreSynchronous
<1> QED BY <1>5, <1>8 DEF ComposerInv

(* Setters of flags, which merge under their mask.                         *)
LEMMA FlagsKeepInv ==
  ASSUME ComposerInv, NEW t \in Clients, NEW l, NEW flags, NEW mask,
         setFlags(t, l, flags, mask)
  PROVE  ComposerInv'
<1>1. PICK state : state = MergedFlags(StateOf(l), flags, mask)
  OBVIOUS
<1>2. DOMAIN state = {"what", "flags", "mask"} /\ state.what = StateOf(l).what
  BY <1>1, StateOfType DEF MergedFlags
<1>3. Collect(t, l, state) /\ UNCHANGED mForceSynchronous
  BY <1>1 DEF setFlags
<1>4. ComposerTypeInv' /\ NestIsCounted' /\ NumbersAreKnown'
  BY <1>2, <1>3, CollectKeepsNumbers
<1>5. mComposerStates' = With(mComposerStates, l, state) /\ UNCHANGED inFlight
  BY <1>3 DEF Collect
<1>6. Resizes(mComposerStates)' => mForceSynchronous
  <2> SUFFICES ASSUME NEW y \in DOMAIN mComposerStates',
                      {"size", "projection"} \intersect DOMAIN mComposerStates'[y].what # {}
               PROVE  mForceSynchronous
    BY DEF Resizes
  <2>1. CASE y = l
    BY <1>2, <1>5, <2>1, StateOfType DEF With
  <2>2. CASE y # l
    <3>1. y \in DOMAIN mComposerStates /\ mComposerStates'[y] = mComposerStates[y]
      BY <1>5, <2>2 DEF With
    <3> QED BY <3>1 DEF ComposerInv, ResizesAreSynchronous, Resizes
  <2> QED BY <2>1, <2>2
<1>7. ResizesAreSynchronous'
  BY <1>3, <1>5, <1>6 DEF ComposerInv, ResizesAreSynchronous
<1> QED BY <1>4, <1>7 DEF ComposerInv

(* setAnimationTransaction only sets a flag.                               *)
LEMMA AnimationKeepsInv ==
  ASSUME ComposerInv, NEW t \in Clients, setAnimationTransaction(t)
  PROVE  ComposerInv'
  BY DEF setAnimationTransaction, ComposerInv, ComposerTypeInv, NestIsCounted,
         NumbersAreKnown, ResizesAreSynchronous, OpenThreads, OpenBatches

(* What is taken when nobody else has a transaction open leaves nothing    *)
(* of it to collect.                                                       *)
LEMMA TakeKeepsInv ==
  ASSUME ComposerInv, NEW t \in Clients, NEW synchronous, Take(t, synchronous),
         OpenThreads \subseteq {t}, opens' \in Nat, opens' >= opens,
         mTransactionNestCount' = 0
  PROVE  ComposerInv'
<1> DEFINE taken == [by |-> t, states |-> mComposerStates, numbers |-> batches,
                     eSynchronous |-> mForceSynchronous \/ synchronous,
                     eAnimation |-> mAnimation]
<1>1. /\ inFlight' = Append(inFlight, taken) /\ mComposerStates' = << >>
      /\ batches' = {} /\ client' = [client EXCEPT ![t].at = "sending"]
  BY DEF Take
<1>2. /\ taken.states = mComposerStates /\ taken.numbers = batches
      /\ mForceSynchronous => taken.eSynchronous
  OBVIOUS
<1> HIDE DEF taken
<1>3. /\ ToSet(inFlight)' = ToSet(inFlight) \union {taken}
      /\ inFlight' \in Seq(ToSet(inFlight)')
  BY <1>1, ToSetOfAppended DEF ComposerInv, ComposerTypeInv
<1>4. ComposerTypeInv'
  BY <1>1, <1>3 DEF ComposerInv, ComposerTypeInv
<1>5. OpenThreads' = {} /\ OpenBatches' = {}
  BY <1>1 DEF ComposerInv, ComposerTypeInv, OpenThreads, OpenBatches
<1>6. NestIsCounted'
  BY <1>5, FS_EmptySet DEF NestIsCounted
<1>7. NumbersAreKnown'
  <2>1. 1 .. opens \subseteq 1 .. opens'
    BY DEF ComposerInv, ComposerTypeInv
  <2> QED BY <1>1, <1>2, <1>3, <1>5, <2>1 DEF ComposerInv, NumbersAreKnown
<1>8. ResizesAreSynchronous'
  BY <1>1, <1>2, <1>3 DEF ComposerInv, ResizesAreSynchronous, Resizes
<1> QED BY <1>4, <1>6, <1>7, <1>8 DEF ComposerInv

(* closeGlobalTransaction: the last one to close takes the transaction.    *)
LEMMA CloseKeepsInv ==
  ASSUME ComposerInv, NEW t \in Clients, NEW synchronous,
         closeGlobalTransaction(t, synchronous)
  PROVE  ComposerInv'
<1>1. /\ client[t].at = "open" /\ mTransactionNestCount' = mTransactionNestCount - 1
      /\ UNCHANGED opens /\ opens \in Nat /\ t \in OpenThreads
  BY DEF closeGlobalTransaction, ComposerInv, ComposerTypeInv, OpenThreads
<1>2. /\ IsFiniteSet(OpenThreads \ {t})
      /\ Cardinality(OpenThreads \ {t}) = mTransactionNestCount - 1
      /\ Cardinality(OpenThreads \ {t}) \in Nat
  BY <1>1, FS_RemoveElement, FS_CardinalityType DEF ComposerInv, NestIsCounted
<1>3. mTransactionNestCount \in Nat
  BY FS_CardinalityType DEF ComposerInv, NestIsCounted
<1>4. CASE IsOutermost
  <2>1. mTransactionNestCount' = 0 /\ Cardinality(OpenThreads \ {t}) = 0
    BY <1>1, <1>2, <1>3, <1>4 DEF IsOutermost
  <2>2. OpenThreads \ {t} = {}
    BY <1>2, <2>1, FS_EmptySet
  <2>3. Take(t, synchronous)
    BY <1>4 DEF closeGlobalTransaction
  <2>4. OpenThreads \subseteq {t} /\ opens' \in Nat /\ opens' >= opens
    BY <1>1, <2>2
  <2> QED BY <2>1, <2>3, <2>4, TakeKeepsInv
<1>5. CASE ~IsOutermost
  <2>1. /\ client' = [client EXCEPT ![t].at = "idle"]
        /\ mForceSynchronous' = (mForceSynchronous \/ synchronous)
        /\ UNCHANGED <<mComposerStates, inFlight, batches>>
    BY <1>5 DEF closeGlobalTransaction
  <2>2. ComposerTypeInv'
    BY <1>1, <2>1 DEF ComposerInv, ComposerTypeInv
  <2>3. OpenThreads' = OpenThreads \ {t} /\ OpenBatches' \subseteq OpenBatches
    BY <2>1 DEF ComposerInv, ComposerTypeInv, OpenThreads, OpenBatches
  <2>4. NestIsCounted'
    BY <1>1, <1>2, <2>3 DEF NestIsCounted
  <2>5. NumbersAreKnown'
    BY <1>1, <2>1, <2>3 DEF ComposerInv, NumbersAreKnown
  <2>6. ResizesAreSynchronous'
    BY <2>1 DEF ComposerInv, ResizesAreSynchronous
  <2> QED BY <2>2, <2>4, <2>5, <2>6 DEF ComposerInv
<1> QED BY <1>4, <1>5

(* A close without an open takes what is collected, as the last close      *)
(* does.                                                                   *)
LEMMA UnmatchedKeepsInv ==
  ASSUME ComposerInv, NEW t \in Clients, closeUnmatched(t)
  PROVE  ComposerInv'
<1>1. OpenThreads = {}
  BY FS_EmptySet DEF closeUnmatched, ComposerInv, NestIsCounted
<1>2. mTransactionNestCount' = 0 /\ opens' = opens + 1
  BY DEF closeUnmatched
<1>3. opens' \in Nat /\ opens' >= opens
  BY <1>2 DEF ComposerInv, ComposerTypeInv
<1>4. Take(t, FALSE)
  BY DEF closeUnmatched
<1>5. PICK synchronous : synchronous = FALSE
  OBVIOUS
<1> QED BY <1>1, <1>2, <1>3, <1>4, <1>5, TakeKeepsInv

(* A transaction arrives at SurfaceFlinger.                                *)
LEMMA SendKeepsInv ==
  ASSUME ComposerInv, NEW t \in Clients, send(t)
  PROVE  ComposerInv'
<1>1. PICK i \in 1 .. Len(inFlight) :
        /\ client[t].at = "sending" /\ inFlight' = RemoveAt(inFlight, i)
        /\ client' = [client EXCEPT ![t].at = "idle"]
        /\ UNCHANGED <<mComposerStates, mTransactionNestCount, mForceSynchronous, opens,
                       batches>>
  BY DEF send
<1>2. /\ ToSet(inFlight)' \subseteq ToSet(inFlight)
      /\ inFlight' \in Seq(ToSet(inFlight)')
  BY <1>1, ToSetOfRemoved DEF ComposerInv, ComposerTypeInv
<1>3. ComposerTypeInv'
  BY <1>1, <1>2 DEF ComposerInv, ComposerTypeInv
<1>4. OpenThreads' = OpenThreads /\ OpenBatches' = OpenBatches
  BY <1>1 DEF ComposerInv, ComposerTypeInv, OpenThreads, OpenBatches
<1>5. NestIsCounted'
  BY <1>1, <1>4 DEF ComposerInv, NestIsCounted
<1>6. NumbersAreKnown'
  BY <1>1, <1>2, <1>4 DEF ComposerInv, NumbersAreKnown
<1>7. ResizesAreSynchronous'
  BY <1>1, <1>2 DEF ComposerInv, ResizesAreSynchronous
<1> QED BY <1>3, <1>5, <1>6, <1>7 DEF ComposerInv

(* The nest count is that of the open transactions, numbers are never      *)
(* reused, and what resizes is synchronous                                 *)
(* (SurfaceComposerClient.cpp:201-260).                                    *)
THEOREM ComposerInvHolds == ComposerSpec => []ComposerInv
<1>1. ComposerInit => ComposerInv
  <2> SUFFICES ASSUME ComposerInit PROVE ComposerInv
    OBVIOUS
  <2>1. OpenThreads = {} /\ OpenBatches = {}
    BY DEF ComposerInit, OpenThreads, OpenBatches
  <2>2. ToSet(inFlight) = {} /\ inFlight \in Seq(ToSet(inFlight))
    BY ToSetEmpty DEF ComposerInit
  <2>3. DOMAIN mComposerStates = {}
    BY DEF ComposerInit
  <2> QED BY <2>1, <2>2, <2>3, FS_EmptySet DEF ComposerInit, ComposerInv, ComposerTypeInv,
             NestIsCounted, NumbersAreKnown, ResizesAreSynchronous, Resizes
<1>2. ComposerInv /\ [ComposerNext]_composerVars => ComposerInv'
  <2> SUFFICES ASSUME ComposerInv, [ComposerNext]_composerVars PROVE ComposerInv'
    OBVIOUS
  <2>1. CASE UNCHANGED composerVars
    BY <2>1 DEF composerVars, ComposerInv, ComposerTypeInv, NestIsCounted, NumbersAreKnown,
                ResizesAreSynchronous, OpenThreads, OpenBatches
  <2> QED BY <2>1, OpenKeepsInv, SetKeepsInv, FlagsKeepInv, AnimationKeepsInv,
             CloseKeepsInv, UnmatchedKeepsInv, SendKeepsInv DEF ComposerNext
<1> QED BY <1>1, <1>2, PTL DEF ComposerSpec

(* "All changes are committed at once when the transaction is closed"      *)
(* (SurfaceComposerClient.h:113): what a thread sets between its open and  *)
(* its close travels in one piece, and one that resizes is synchronous,    *)
(* for any number of threads, layers and transactions.                     *)
THEOREM TransactionsTravelWhole == ComposerSpec => []TransactionsAreWhole
<1>1. ComposerInv => TransactionsAreWhole
  <2> SUFFICES ASSUME ComposerInv PROVE TransactionsAreWhole
    OBVIOUS
  <2>1. \A i \in 1 .. Len(inFlight) : inFlight[i] \in ToSet(inFlight)
    BY DEF ToSet, ComposerInv, ComposerTypeInv
  <2> QED BY <2>1 DEF ComposerInv, NumbersAreKnown, ResizesAreSynchronous, Resizes,
             TransactionsAreWhole, OpenBatches, OpenThreads
<1> QED BY <1>1, ComposerInvHolds, PTL

-----------------------------------------------------------------------------
(* What can be said of a target, and when two records say the same of it.  *)
Keys(x) == PropertiesOf(x) \union Bits
Agree(one, other, key) ==
  /\ key \in Bits => (key \in one.flags <=> key \in other.flags)
  /\ key \notin Bits => one.what[key] = other.what[key]

(* Collected or sent states are of layers and displays, and say what can   *)
(* be said of them.                                                        *)
AreStates(states) ==
  /\ DOMAIN states \subseteq Targets
  /\ \A x \in DOMAIN states :
       /\ DOMAIN states[x] = {"what", "flags", "mask"}
       /\ DOMAIN states[x].what \subseteq PropertiesOf(x)
       /\ states[x].mask \subseteq Bits

(* What a screen, real or wanted, has of each target.                      *)
IsScreen(screen) ==
  /\ DOMAIN screen = Targets
  /\ \A x \in Targets :
       /\ DOMAIN screen[x] = {"what", "flags"}
       /\ DOMAIN screen[x].what = PropertiesOf(x)

StatesInv ==
  /\ AreStates(mComposerStates)
  /\ \A i \in 1 .. Len(inFlight) : AreStates(inFlight[i].states)
  /\ IsScreen(server) /\ IsScreen(wanted)
  /\ overtaken \in BOOLEAN

(* Whoever has the last word on a key says what is wanted.                 *)
LastWordsAreWanted ==
  ~overtaken =>
    \A x \in Targets, n \in 0 .. Len(inFlight) + 1 :
      \A key \in Keys(x) :
        HasLastWord(n, x, key) => Agree(wanted[x], States(n)[x], key)

(* The inductive invariant of the order of what is set.                    *)
OrderInv ==
  /\ ComposerInv
  /\ StatesInv
  /\ LastWordsAreWanted

(* The properties of a target are no flags.                                *)
LEMMA KeysAreApart ==
  ASSUME NEW x
  PROVE  PropertiesOf(x) \intersect Bits = {}
  BY DEF PropertiesOf, Bits

(* Nothing of the order changes with the rest.                             *)
LEMMA OthersKeepOrder ==
  ASSUME OrderInv, UNCHANGED <<mComposerStates, inFlight, server, wanted, overtaken>>
  PROVE  StatesInv' /\ LastWordsAreWanted'
  BY DEF OrderInv, StatesInv, LastWordsAreWanted, HasLastWord, Says, States

(* The states on their way, one by one.                                    *)
LEMMA StatesInOrder ==
  ASSUME OrderInv
  PROVE  /\ Len(inFlight) \in Nat
         /\ States(0) = server
         /\ \A n \in 1 .. Len(inFlight) : States(n) = inFlight[n].states
         /\ States(Len(inFlight) + 1) = mComposerStates
  BY DEF OrderInv, ComposerInv, ComposerTypeInv, States

(* A call that says something of some keys of a target has the last word   *)
(* on them; on all others it leaves it to those who had it.                *)
LEMMA CollectKeepsOrder ==
  ASSUME OrderInv, NEW x \in Targets, NEW state, NEW want, NEW said \in SUBSET Keys(x),
         mComposerStates' = With(mComposerStates, x, state),
         wanted' = With(wanted, x, want),
         UNCHANGED <<inFlight, server, overtaken>>,
         DOMAIN state = {"what", "flags", "mask"},
         DOMAIN state.what \subseteq PropertiesOf(x), state.mask \subseteq Bits,
         DOMAIN want = {"what", "flags"}, DOMAIN want.what = PropertiesOf(x),
         \A key \in Keys(x) :
           key \in DOMAIN state.what \union state.mask <=>
             key \in said \/ key \in DOMAIN StateOf(x).what \union StateOf(x).mask,
         \A key \in said : Agree(want, state, key),
         \A key \in Keys(x) \ said :
           /\ Agree(want, wanted[x], key)
           /\ key \in DOMAIN StateOf(x).what \union StateOf(x).mask =>
                Agree(state, StateOf(x), key)
  PROVE  StatesInv' /\ LastWordsAreWanted'
<1> DEFINE last == Len(inFlight) + 1
<1>1. StatesInv'
  <2>1. AreStates(mComposerStates)'
    BY DEF OrderInv, StatesInv, AreStates, With
  <2>2. IsScreen(wanted)'
    BY DEF OrderInv, StatesInv, IsScreen, With
  <2> QED BY <2>1, <2>2 DEF OrderInv, StatesInv
<1>2. /\ Len(inFlight) \in Nat /\ last' = last
      /\ \A n \in 0 .. Len(inFlight) : States(n)' = States(n)
      /\ States(last) = mComposerStates /\ States(last)' = mComposerStates'
  BY StatesInOrder DEF States
<1>3. ASSUME NEW y \in Targets, NEW key \in Keys(y)
      PROVE  /\ \A n \in 0 .. Len(inFlight) : Says(n, y, key)' <=> Says(n, y, key)
             /\ Says(last, y, key)' <=> Says(last, y, key) \/ (y = x /\ key \in said)
  <2>1. \A n \in 0 .. Len(inFlight) : Says(n, y, key)' <=> Says(n, y, key)
    BY <1>2 DEF Says
  <2>2. CASE y = x
    <3>1. /\ x \in DOMAIN mComposerStates' /\ mComposerStates'[x] = state
      BY DEF With
    <3>2. Says(last, x, key)' <=> key \in DOMAIN state.what \union state.mask
      BY <1>2, <3>1 DEF Says
    <3>3. Says(last, x, key) <=> key \in DOMAIN StateOf(x).what \union StateOf(x).mask
      BY <1>2 DEF Says, StateOf, Untouched
    <3> QED BY <2>1, <2>2, <3>2, <3>3
  <2>3. CASE y # x
    <3>1. /\ y \in DOMAIN mComposerStates' <=> y \in DOMAIN mComposerStates
          /\ y \in DOMAIN mComposerStates => mComposerStates'[y] = mComposerStates[y]
      BY <2>3 DEF With
    <3>2. Says(last, y, key)' <=> Says(last, y, key)
      BY <1>2, <3>1 DEF Says
    <3> QED BY <2>1, <2>3, <3>2
  <2> QED BY <2>2, <2>3
<1>4. LastWordsAreWanted'
  <2> SUFFICES ASSUME ~overtaken, NEW y \in Targets, NEW n \in 0 .. last,
                      NEW key \in Keys(y), HasLastWord(n, y, key)'
               PROVE  Agree(wanted'[y], States(n)'[y], key)
    BY <1>2 DEF LastWordsAreWanted
  <2>1. Says(n, y, key)' /\ \A m \in n + 1 .. last : ~Says(m, y, key)'
    BY <1>2 DEF HasLastWord
  <2>2. CASE y = x /\ key \in said
    <3>1. n = last
      BY <1>2, <1>3, <2>1, <2>2
    <3> QED BY <1>2, <2>2, <3>1 DEF With, OrderInv, StatesInv, IsScreen
  <2>3. CASE ~(y = x /\ key \in said)
    <3>1. HasLastWord(n, y, key)
      <4>1. \A m \in 0 .. last : Says(m, y, key)' <=> Says(m, y, key)
        BY <1>2, <1>3, <2>3
      <4> QED BY <1>2, <2>1, <4>1 DEF HasLastWord
    <3>2. Agree(wanted[y], States(n)[y], key)
      BY <1>2, <3>1 DEF OrderInv, LastWordsAreWanted
    <3>3. Agree(wanted'[y], wanted[y], key)
      <4>1. CASE y = x
        BY <2>3, <4>1 DEF With, OrderInv, StatesInv, IsScreen
      <4>2. CASE y # x
        BY <4>2 DEF With, OrderInv, StatesInv, IsScreen, Agree
      <4> QED BY <4>1, <4>2
    <3>4. Agree(States(n)'[y], States(n)[y], key)
      <4>1. CASE n # last
        BY <1>2, <4>1 DEF Agree
      <4>2. CASE n = last /\ y # x
        BY <1>2, <3>1, <4>2 DEF HasLastWord, Says, Agree, With
      <4>3. CASE n = last /\ y = x
        <5>1. /\ x \in DOMAIN mComposerStates /\ StateOf(x) = mComposerStates[x]
              /\ key \in DOMAIN StateOf(x).what \union StateOf(x).mask
          BY <1>2, <3>1, <4>3 DEF HasLastWord, Says, StateOf
        <5> QED BY <1>2, <2>3, <4>3, <5>1 DEF With
      <4> QED BY <4>1, <4>2, <4>3
    <3> QED BY <3>2, <3>3, <3>4 DEF Agree
  <2> QED BY <2>2, <2>3
<1> QED BY <1>1, <1>4

(* Setters of a property, and of flags.                                    *)
LEMMA SetKeepsOrder ==
  ASSUME OrderInv, NEW t \in Clients, NEW x \in Targets, NEW property \in PropertiesOf(x),
         NEW v, set(t, x, property, v)
  PROVE  StatesInv' /\ LastWordsAreWanted'
<1>1. PICK what : what = With(StateOf(x).what, property, v)
  OBVIOUS
<1>2. PICK state : state = [StateOf(x) EXCEPT !.what = what]
  OBVIOUS
<1>3. PICK wish : wish = With(wanted[x].what, property, v)
  OBVIOUS
<1>4. PICK want : want = [wanted[x] EXCEPT !.what = wish]
  OBVIOUS
<1>5. /\ DOMAIN StateOf(x) = {"what", "flags", "mask"}
      /\ DOMAIN StateOf(x).what \subseteq PropertiesOf(x) /\ StateOf(x).mask \subseteq Bits
  BY DEF OrderInv, StatesInv, AreStates, StateOf, Untouched
<1>6. /\ DOMAIN state = {"what", "flags", "mask"} /\ state.what = what
      /\ state.flags = StateOf(x).flags /\ state.mask = StateOf(x).mask
  BY <1>2, <1>5
<1>7. /\ DOMAIN want = {"what", "flags"} /\ want.what = wish
      /\ want.flags = wanted[x].flags /\ DOMAIN wanted[x].what = PropertiesOf(x)
  BY <1>4 DEF OrderInv, StatesInv, IsScreen
<1>8. /\ DOMAIN what = DOMAIN StateOf(x).what \union {property} /\ what[property] = v
      /\ \A key \in DOMAIN StateOf(x).what \ {property} : what[key] = StateOf(x).what[key]
  BY <1>1 DEF With
<1>9. /\ DOMAIN wish = PropertiesOf(x) /\ wish[property] = v
      /\ \A key \in PropertiesOf(x) \ {property} : wish[key] = wanted[x].what[key]
  BY <1>3, <1>7 DEF With
<1>10. property \notin Bits /\ \A key \in PropertiesOf(x) : key \notin Bits
  BY KeysAreApart
<1>11. /\ mComposerStates' = With(mComposerStates, x, state)
       /\ wanted' = With(wanted, x, want)
       /\ UNCHANGED <<inFlight, server, overtaken>>
  BY <1>1, <1>2, <1>3, <1>4, <1>5, <1>7 DEF set, Collect
<1> DEFINE said == {property}
<1>12. \A key \in said : Agree(want, state, key)
  BY <1>6, <1>7, <1>8, <1>9, <1>10 DEF Agree
<1>13. \A key \in Keys(x) \ said :
         /\ Agree(want, wanted[x], key)
         /\ key \in DOMAIN StateOf(x).what \union StateOf(x).mask =>
              Agree(state, StateOf(x), key)
  BY <1>5, <1>6, <1>7, <1>8, <1>9, <1>10 DEF Agree, Keys
<1>14. said \in SUBSET Keys(x)
  BY DEF Keys
<1>15. \A key \in Keys(x) :
         key \in DOMAIN state.what \union state.mask <=>
           key \in said \/ key \in DOMAIN StateOf(x).what \union StateOf(x).mask
  BY <1>6, <1>8
<1>16. /\ DOMAIN state.what \subseteq PropertiesOf(x) /\ state.mask \subseteq Bits
       /\ DOMAIN want.what = PropertiesOf(x)
  BY <1>5, <1>6, <1>7, <1>8, <1>9
<1> HIDE DEF said
<1> QED BY <1>6, <1>7, <1>11, <1>12, <1>13, <1>14, <1>15, <1>16, CollectKeepsOrder

LEMMA FlagsKeepOrder ==
  ASSUME OrderInv, NEW t \in Clients, NEW l \in Layers, NEW mask \in SUBSET Bits, NEW flags,
         setFlags(t, l, flags, mask)
  PROVE  StatesInv' /\ LastWordsAreWanted'
<1>1. PICK state : state = MergedFlags(StateOf(l), flags, mask)
  OBVIOUS
<1>2. PICK want : want = [wanted[l] EXCEPT
                            !.flags = (@ \ mask) \union (flags \intersect mask)]
  OBVIOUS
<1>3. l \in Targets
  BY DEF Targets
<1>4. /\ DOMAIN StateOf(l) = {"what", "flags", "mask"}
      /\ DOMAIN StateOf(l).what \subseteq PropertiesOf(l) /\ StateOf(l).mask \subseteq Bits
  BY DEF OrderInv, StatesInv, AreStates, StateOf, Untouched
<1>5. /\ DOMAIN state = {"what", "flags", "mask"} /\ state.what = StateOf(l).what
      /\ state.flags = (StateOf(l).flags \ mask) \union (flags \intersect mask)
      /\ state.mask = StateOf(l).mask \union mask
  BY <1>1, <1>4 DEF MergedFlags
<1>6. /\ DOMAIN want = {"what", "flags"} /\ want.what = wanted[l].what
      /\ want.flags = (wanted[l].flags \ mask) \union (flags \intersect mask)
      /\ DOMAIN wanted[l].what = PropertiesOf(l)
  BY <1>2, <1>3 DEF OrderInv, StatesInv, IsScreen
<1>7. /\ mComposerStates' = With(mComposerStates, l, state)
      /\ wanted' = With(wanted, l, want)
      /\ UNCHANGED <<inFlight, server, overtaken>>
  BY <1>1, <1>2 DEF setFlags, Collect
<1>8. \A key \in mask : Agree(want, state, key)
  BY <1>5, <1>6 DEF Agree
<1>9. \A key \in Keys(l) \ mask :
         /\ Agree(want, wanted[l], key)
         /\ key \in DOMAIN StateOf(l).what \union StateOf(l).mask =>
              Agree(state, StateOf(l), key)
  BY <1>5, <1>6 DEF Agree
<1>10. mask \in SUBSET Keys(l)
  BY DEF Keys
<1>11. \A key \in Keys(l) :
         key \in DOMAIN state.what \union state.mask <=>
           key \in mask \/ key \in DOMAIN StateOf(l).what \union StateOf(l).mask
  BY <1>5
<1>12. /\ DOMAIN state.what \subseteq PropertiesOf(l) /\ state.mask \subseteq Bits
       /\ DOMAIN want.what = PropertiesOf(l)
  BY <1>4, <1>5, <1>6
<1> QED BY <1>3, <1>5, <1>6, <1>7, <1>8, <1>9, <1>10, <1>11, <1>12, CollectKeepsOrder

(* What is collected is sent as the newest of the transactions in flight.  *)
LEMMA TakeKeepsOrder ==
  ASSUME OrderInv, NEW t \in Clients, NEW synchronous, Take(t, synchronous),
         UNCHANGED <<server, wanted, overtaken>>
  PROVE  StatesInv' /\ LastWordsAreWanted'
<1> DEFINE taken == [by |-> t, states |-> mComposerStates, numbers |-> batches,
                     eSynchronous |-> mForceSynchronous \/ synchronous,
                     eAnimation |-> mAnimation]
           last == Len(inFlight) + 1
<1>1. inFlight' = Append(inFlight, taken) /\ mComposerStates' = << >>
  BY DEF Take
<1>2. taken.states = mComposerStates
  OBVIOUS
<1> HIDE DEF taken
<1>3. /\ Len(inFlight) \in Nat /\ Len(inFlight') = last
      /\ \A n \in 1 .. Len(inFlight) : inFlight'[n] = inFlight[n]
      /\ inFlight'[last] = taken
  BY <1>1 DEF OrderInv, ComposerInv, ComposerTypeInv
<1>4. StatesInv'
  <2>1. AreStates(mComposerStates)'
    BY <1>1 DEF AreStates
  <2>2. \A n \in 1 .. last : AreStates(inFlight'[n].states)
    BY <1>2, <1>3 DEF OrderInv, StatesInv
  <2> QED BY <1>3, <2>1, <2>2 DEF OrderInv, StatesInv, AreStates
<1>5. \A n \in 0 .. last : States(n)' = States(n)
  BY <1>1, <1>2, <1>3 DEF States
<1>6. ASSUME NEW x \in Targets, NEW key \in Keys(x)
      PROVE  /\ \A n \in 0 .. last : Says(n, x, key)' <=> Says(n, x, key)
             /\ \A n \in 0 .. last + 1 : Says(n, x, key)' => n \in 0 .. last
  <2>1. \A n \in 0 .. last : Says(n, x, key)' <=> Says(n, x, key)
    BY <1>5 DEF Says
  <2>2. ASSUME NEW n \in 0 .. last + 1, n \notin 0 .. last
        PROVE  ~Says(n, x, key)'
    <3>1. n = last + 1 /\ n # 0 /\ n \notin 1 .. Len(inFlight')
      BY <1>3, <2>2
    <3>2. States(n)' = << >>
      BY <1>1, <3>1 DEF States
    <3> QED BY <3>1, <3>2 DEF Says
  <2> QED BY <2>1, <2>2
<1>7. LastWordsAreWanted'
  <2> SUFFICES ASSUME ~overtaken, NEW x \in Targets, NEW n \in 0 .. last + 1,
                      NEW key \in Keys(x), HasLastWord(n, x, key)'
               PROVE  Agree(wanted[x], States(n)'[x], key)
    BY <1>3 DEF LastWordsAreWanted
  <2>1. Says(n, x, key)' /\ \A m \in n + 1 .. last + 1 : ~Says(m, x, key)'
    BY <1>3 DEF HasLastWord
  <2>2. n \in 0 .. last
    BY <1>3, <1>6, <2>1
  <2>3. HasLastWord(n, x, key)
    BY <1>3, <1>6, <2>1, <2>2 DEF HasLastWord
  <2> QED BY <1>3, <1>5, <2>2, <2>3 DEF OrderInv, LastWordsAreWanted
<1> QED BY <1>4, <1>7

(* What is applied to a screen is on it, and what nobody mentions stays.   *)
LEMMA AppliedFacts ==
  ASSUME NEW screen, IsScreen(screen), NEW sent, AreStates(sent.states)
  PROVE  /\ IsScreen(Applied(screen, sent))
         /\ \A x \in Targets : \A key \in Keys(x) :
              IF x \in DOMAIN sent.states
                 /\ key \in DOMAIN sent.states[x].what \union sent.states[x].mask
              THEN Agree(sent.states[x], Applied(screen, sent)[x], key)
              ELSE Agree(screen[x], Applied(screen, sent)[x], key)
<1>1. PICK after : after = Applied(screen, sent)
  OBVIOUS
<1>2. DOMAIN after = Targets
  BY <1>1 DEF Applied
<1>3. ASSUME NEW x \in Targets, x \notin DOMAIN sent.states
      PROVE  after[x] = screen[x]
  BY <1>1, <1>3 DEF Applied
<1>4. ASSUME NEW x \in Targets, x \in DOMAIN sent.states
      PROVE  /\ DOMAIN after[x] = {"what", "flags"}
             /\ after[x].what =
                  [p \in PropertiesOf(x) |->
                     IF p \in DOMAIN sent.states[x].what
                     THEN sent.states[x].what[p] ELSE screen[x].what[p]]
             /\ after[x].flags =
                  (screen[x].flags \ sent.states[x].mask)
                    \union (sent.states[x].flags \intersect sent.states[x].mask)
  BY <1>1, <1>4 DEF Applied
<1>5. IsScreen(after)
  BY <1>2, <1>3, <1>4 DEF IsScreen
<1>6. ASSUME NEW x \in Targets, NEW key \in Keys(x), x \in DOMAIN sent.states
      PROVE  IF key \in DOMAIN sent.states[x].what \union sent.states[x].mask
             THEN Agree(sent.states[x], after[x], key)
             ELSE Agree(screen[x], after[x], key)
  <2> DEFINE s == sent.states[x]
  <2>1. DOMAIN s.what \subseteq PropertiesOf(x) /\ s.mask \subseteq Bits
    BY <1>6 DEF AreStates
  <2>2. /\ \A p \in PropertiesOf(x) :
             after[x].what[p] = IF p \in DOMAIN s.what THEN s.what[p] ELSE screen[x].what[p]
        /\ after[x].flags = (screen[x].flags \ s.mask) \union (s.flags \intersect s.mask)
    BY <1>4, <1>6
  <2> HIDE DEF s
  <2>3. IF key \in DOMAIN s.what \union s.mask
        THEN Agree(s, after[x], key) ELSE Agree(screen[x], after[x], key)
    <3>1. CASE key \in Bits
      <4>1. key \notin DOMAIN s.what
        BY <2>1, <3>1, KeysAreApart
      <4> QED BY <2>2, <3>1, <4>1 DEF Agree
    <3>2. CASE key \notin Bits
      <4>1. key \in PropertiesOf(x) /\ key \notin s.mask
        BY <2>1, <3>2 DEF Keys
      <4> QED BY <2>2, <3>2, <4>1 DEF Agree
    <3> QED BY <3>1, <3>2
  <2> QED BY <2>3 DEF s
<1>7. ASSUME NEW x \in Targets, NEW key \in Keys(x), x \notin DOMAIN sent.states
      PROVE  Agree(screen[x], after[x], key)
  BY <1>3, <1>7 DEF Agree
<1> QED BY <1>1, <1>5, <1>6, <1>7

(* What is left when one is taken out of the transactions in flight.       *)
LEMMA RemovedFacts ==
  ASSUME NEW s, s \in Seq(ToSet(s)), NEW i \in 1 .. Len(s)
  PROVE  /\ Len(RemoveAt(s, i)) = Len(s) - 1
         /\ \A n \in 1 .. i - 1 : RemoveAt(s, i)[n] = s[n]
         /\ \A n \in i .. Len(s) - 1 : RemoveAt(s, i)[n] = s[n + 1]
<1> DEFINE S == ToSet(s)
<1>1. /\ SubSeq(s, 1, i - 1) \in Seq(S) /\ SubSeq(s, i + 1, Len(s)) \in Seq(S)
      /\ Len(SubSeq(s, 1, i - 1)) = i - 1
      /\ Len(SubSeq(s, i + 1, Len(s))) = Len(s) - i
      /\ \A n \in 1 .. i - 1 : SubSeq(s, 1, i - 1)[n] = s[n]
      /\ \A n \in 1 .. Len(s) - i : SubSeq(s, i + 1, Len(s))[n] = s[i + n]
  BY SubSeqProperties
<1>2. RemoveAt(s, i) = SubSeq(s, 1, i - 1) \o SubSeq(s, i + 1, Len(s))
  BY DEF RemoveAt
<1> DEFINE front == SubSeq(s, 1, i - 1)
           back == SubSeq(s, i + 1, Len(s))
<1> HIDE DEF front, back
<1>3. /\ Len(front \o back) = Len(front) + Len(back)
      /\ \A n \in 1 .. Len(front) + Len(back) :
           (front \o back)[n] = IF n <= Len(front) THEN front[n] ELSE back[n - Len(front)]
  BY <1>1, ConcatProperties DEF front, back
<1>4. /\ RemoveAt(s, i) = front \o back
      /\ Len(s) \in Nat /\ Len(front) = i - 1 /\ Len(back) = Len(s) - i
      /\ \A n \in 1 .. i - 1 : front[n] = s[n]
      /\ \A n \in 1 .. Len(s) - i : back[n] = s[i + n]
  BY <1>1, <1>2 DEF front, back
<1>5. ASSUME NEW n \in i .. Len(s) - 1
      PROVE  (front \o back)[n] = s[n + 1]
  <2>1. /\ n \in 1 .. Len(front) + Len(back) /\ ~(n <= Len(front))
        /\ n - Len(front) \in 1 .. Len(s) - i /\ i + (n - Len(front)) = n + 1
    BY <1>4
  <2> QED BY <1>3, <1>4, <2>1
<1>6. ASSUME NEW n \in 1 .. i - 1
      PROVE  (front \o back)[n] = s[n]
  <2>1. n \in 1 .. Len(front) + Len(back) /\ n <= Len(front)
    BY <1>4
  <2> QED BY <1>3, <1>4, <2>1
<1>7. Len(front \o back) = Len(s) - 1
  BY <1>3, <1>4
<1> QED BY <1>4, <1>5, <1>6, <1>7, Zenon

(* Closing, matched or not, takes what is collected or leaves it.          *)
LEMMA CloseKeepsOrder ==
  ASSUME OrderInv, NEW t \in Clients, NEW synchronous,
         closeGlobalTransaction(t, synchronous)
  PROVE  StatesInv' /\ LastWordsAreWanted'
<1>1. CASE IsOutermost
  BY <1>1, TakeKeepsOrder DEF closeGlobalTransaction
<1>2. CASE ~IsOutermost
  BY <1>2, OthersKeepOrder DEF closeGlobalTransaction
<1> QED BY <1>1, <1>2

LEMMA UnmatchedKeepsOrder ==
  ASSUME OrderInv, NEW t \in Clients, closeUnmatched(t)
  PROVE  StatesInv' /\ LastWordsAreWanted'
<1>1. PICK synchronous : synchronous = FALSE
  OBVIOUS
<1> QED BY <1>1, TakeKeepsOrder DEF closeUnmatched

(* A transaction that arrives takes the screen's place as the one that     *)
(* spoke first, unless an older one spoke of the same.                     *)
LEMMA SendKeepsOrder ==
  ASSUME OrderInv, NEW t \in Clients, send(t)
  PROVE  StatesInv' /\ LastWordsAreWanted'
<1> DEFINE last == Len(inFlight) + 1
<1>1. PICK i \in 1 .. Len(inFlight) :
        /\ server' = Applied(server, inFlight[i])
        /\ inFlight' = RemoveAt(inFlight, i)
        /\ overtaken' = (overtaken \/ \E j \in 1 .. i - 1 : SetsSame(inFlight[j], inFlight[i]))
        /\ UNCHANGED <<mComposerStates, wanted>>
  BY DEF send
<1>2. /\ Len(inFlight) \in Nat /\ Len(inFlight') = Len(inFlight) - 1
      /\ \A n \in 1 .. i - 1 : inFlight'[n] = inFlight[n]
      /\ \A n \in i .. Len(inFlight) - 1 : inFlight'[n] = inFlight[n + 1]
  <2>1. inFlight \in Seq(ToSet(inFlight)) /\ Len(inFlight) \in Nat
    BY DEF OrderInv, ComposerInv, ComposerTypeInv
  <2> QED BY <1>1, <2>1, RemovedFacts
<1>3. AreStates(inFlight[i].states) /\ IsScreen(server)
  BY DEF OrderInv, StatesInv
<1>4. StatesInv'
  <2>1. IsScreen(server)'
    BY <1>1, <1>3, AppliedFacts DEF IsScreen
  <2>2. ASSUME NEW n \in 1 .. Len(inFlight) - 1
        PROVE  AreStates(inFlight'[n].states)
    <3>1. PICK m \in 1 .. Len(inFlight) : inFlight'[n] = inFlight[m]
      <4>1. CASE n \in 1 .. i - 1
        BY <1>2, <4>1
      <4>2. CASE n \in i .. Len(inFlight) - 1
        <5>1. n + 1 \in 1 .. Len(inFlight)
          BY <1>2
        <5> QED BY <1>2, <4>2, <5>1
      <4> QED BY <1>2, <4>1, <4>2
    <3> QED BY <3>1 DEF OrderInv, StatesInv
  <2> QED BY <1>1, <1>2, <2>1, <2>2 DEF OrderInv, StatesInv, AreStates, IsScreen
<1>5. /\ States(0)' = server'
      /\ \A n \in 1 .. i - 1 : States(n)' = States(n)
      /\ \A n \in i .. Len(inFlight) : States(n)' = States(n + 1)
      /\ States(i) = inFlight[i].states /\ States(0) = server
  BY <1>1, <1>2 DEF States
<1>6. ASSUME NEW x \in Targets, NEW key \in Keys(x)
      PROVE  /\ \A n \in 1 .. i - 1 : Says(n, x, key)' <=> Says(n, x, key)
             /\ \A n \in i .. Len(inFlight) : Says(n, x, key)' <=> Says(n + 1, x, key)
  BY <1>2, <1>5 DEF Says
<1>7. LastWordsAreWanted'
  <2> SUFFICES ASSUME ~overtaken', NEW x \in Targets, NEW n \in 0 .. Len(inFlight),
                      NEW key \in Keys(x), HasLastWord(n, x, key)'
               PROVE  Agree(wanted[x], States(n)'[x], key)
    BY <1>1, <1>2 DEF LastWordsAreWanted
  <2>1. Says(n, x, key)' /\ \A m \in n + 1 .. Len(inFlight) : ~Says(m, x, key)'
    BY <1>2 DEF HasLastWord
  <2>2. ~overtaken /\ \A j \in 1 .. i - 1 : ~SetsSame(inFlight[j], inFlight[i])
    BY <1>1 DEF OrderInv, StatesInv
  <2>3. \A m \in 0 .. last : HasLastWord(m, x, key) => Agree(wanted[x], States(m)[x], key)
    BY <1>2, <2>2 DEF OrderInv, LastWordsAreWanted
  <2>4. \A m \in i + 1 .. last : m > n + 1 => ~Says(m, x, key)
    <3> SUFFICES ASSUME NEW m \in i + 1 .. last, m > n + 1
                 PROVE  ~Says(m, x, key)
      OBVIOUS
    <3>1. /\ m - 1 \in i .. Len(inFlight) /\ m - 1 \in n + 1 .. Len(inFlight)
          /\ (m - 1) + 1 = m
      BY <1>2
    <3>2. ~Says(m - 1, x, key)'
      BY <2>1, <3>1, Zenon
    <3>3. Says(m - 1, x, key)' <=> Says((m - 1) + 1, x, key)
      BY <1>6, <3>1, Zenon
    <3> QED BY <3>1, <3>2, <3>3, Zenon
  <2>5. CASE n = 0
    <3>1. \A m \in 1 .. last : m # i => ~Says(m, x, key)
      <4>1. \A m \in 1 .. i - 1 : ~Says(m, x, key)
        BY <1>2, <1>6, <2>1, <2>5
      <4>2. \A m \in i + 1 .. last : ~Says(m, x, key)
        BY <1>2, <2>4, <2>5
      <4> QED BY <1>2, <4>1, <4>2
    <3>2. CASE Says(i, x, key)
      <4>1. HasLastWord(i, x, key)
        BY <1>2, <3>1, <3>2 DEF HasLastWord
      <4>2. Agree(wanted[x], inFlight[i].states[x], key)
        BY <1>2, <1>5, <2>3, <4>1
      <4>3. Agree(inFlight[i].states[x], server'[x], key)
        BY <1>1, <1>2, <1>3, <1>5, <3>2, AppliedFacts DEF Says
      <4> QED BY <1>5, <2>5, <4>2, <4>3 DEF Agree
    <3>3. CASE ~Says(i, x, key)
      <4>1. HasLastWord(0, x, key)
        BY <1>2, <3>1, <3>3 DEF HasLastWord, Says
      <4>2. Agree(wanted[x], server[x], key)
        BY <1>2, <1>5, <2>3, <4>1
      <4>3. Agree(server[x], server'[x], key)
        BY <1>1, <1>2, <1>3, <1>5, <3>3, AppliedFacts DEF Says
      <4> QED BY <1>5, <2>5, <4>2, <4>3 DEF Agree
    <3> QED BY <3>2, <3>3
  <2>6. CASE n \in 1 .. i - 1
    <3>1. Says(n, x, key)
      BY <1>6, <2>1, <2>6
    <3>2. ~Says(i, x, key)
      <4> SUFFICES ASSUME Says(i, x, key) PROVE FALSE
        OBVIOUS
      <4> DEFINE older == inFlight[n].states
                 newer == inFlight[i].states
      <4>1. /\ x \in DOMAIN older /\ key \in DOMAIN older[x].what \union older[x].mask
            /\ x \in DOMAIN newer /\ key \in DOMAIN newer[x].what \union newer[x].mask
        BY <1>2, <2>6, <3>1 DEF Says, States
      <4>2. /\ DOMAIN older[x].what \subseteq PropertiesOf(x) /\ older[x].mask \subseteq Bits
            /\ DOMAIN newer[x].what \subseteq PropertiesOf(x) /\ newer[x].mask \subseteq Bits
        BY <1>2, <2>6, <4>1 DEF OrderInv, StatesInv, AreStates
      <4>3. \/ DOMAIN older[x].what \intersect DOMAIN newer[x].what # {}
            \/ older[x].mask \intersect newer[x].mask # {}
        BY <4>1, <4>2, KeysAreApart
      <4>4. SetsSame(inFlight[n], inFlight[i])
        BY <4>1, <4>3 DEF SetsSame
      <4> QED BY <2>2, <2>6, <4>4
    <3>3. HasLastWord(n, x, key)
      <4>1. \A m \in n + 1 .. i - 1 : ~Says(m, x, key)
        BY <1>2, <1>6, <2>1, <2>6
      <4>2. \A m \in i + 1 .. last : ~Says(m, x, key)
        BY <1>2, <2>4, <2>6
      <4> QED BY <1>2, <2>6, <3>1, <3>2, <4>1, <4>2 DEF HasLastWord
    <3> QED BY <1>2, <1>5, <2>3, <2>6, <3>3
  <2>7. CASE n \in i .. Len(inFlight)
    <3>1. Says(n + 1, x, key)
      BY <1>6, <2>1, <2>7
    <3>2. HasLastWord(n + 1, x, key)
      BY <1>2, <2>4, <2>7, <3>1 DEF HasLastWord
    <3>3. n + 1 \in 0 .. last
      BY <1>2, <2>7
    <3> QED BY <1>5, <2>3, <2>7, <3>2, <3>3
  <2> QED BY <1>2, <2>5, <2>6, <2>7
<1> QED BY <1>4, <1>7

(* The transactions in flight and what is collected say, in order, what    *)
(* the calls have asked for (SurfaceComposerClient.cpp:250-436).           *)
THEOREM OrderInvHolds == ComposerSpec => []OrderInv
<1>1. ComposerInit => StatesInv /\ LastWordsAreWanted
  <2> SUFFICES ASSUME ComposerInit PROVE StatesInv /\ LastWordsAreWanted
    OBVIOUS
  <2>1. StatesInv
    <3>1. AreStates(mComposerStates) /\ Len(inFlight) = 0
      BY DEF ComposerInit, AreStates
    <3>2. IsScreen(server) /\ wanted = server
      BY DEF ComposerInit, IsScreen
    <3>3. overtaken \in BOOLEAN
      BY DEF ComposerInit
    <3> QED BY <3>1, <3>2, <3>3 DEF StatesInv
  <2>2. Len(inFlight) = 0 /\ server = wanted
    BY DEF ComposerInit
  <2>3. DOMAIN mComposerStates = {}
    BY DEF ComposerInit
  <2>4. \A x, key : ~Says(1, x, key)
    BY <2>2, <2>3 DEF Says, States
  <2>5. LastWordsAreWanted
    <3> SUFFICES ASSUME NEW x \in Targets, NEW n \in 0 .. 1, NEW key \in Keys(x),
                        HasLastWord(n, x, key)
                 PROVE  Agree(wanted[x], States(n)[x], key)
      BY <2>2 DEF LastWordsAreWanted
    <3>1. n = 0
      BY <2>4 DEF HasLastWord
    <3> QED BY <2>2, <3>1 DEF States, Agree
  <2> QED BY <2>1, <2>5
<1>2. OrderInv /\ [ComposerNext]_composerVars => StatesInv' /\ LastWordsAreWanted'
  <2> SUFFICES ASSUME OrderInv, [ComposerNext]_composerVars
               PROVE  StatesInv' /\ LastWordsAreWanted'
    OBVIOUS
  <2>1. CASE UNCHANGED composerVars
    BY <2>1, OthersKeepOrder DEF composerVars
  <2>2. ASSUME NEW t \in Clients, openGlobalTransaction(t)
        PROVE  StatesInv' /\ LastWordsAreWanted'
    BY <2>2, OthersKeepOrder DEF openGlobalTransaction
  <2>3. ASSUME NEW t \in Clients, setAnimationTransaction(t)
        PROVE  StatesInv' /\ LastWordsAreWanted'
    BY <2>3, OthersKeepOrder DEF setAnimationTransaction
  <2>4. ASSUME NEW l \in Layers, NEW mask \in SUBSET Bits \ {{}}, NEW t \in Clients,
               NEW flags \in SUBSET mask, setFlags(t, l, flags, mask)
        PROVE  StatesInv' /\ LastWordsAreWanted'
    BY <2>4, FlagsKeepOrder
  <2> QED BY <2>1, <2>2, <2>3, <2>4, SetKeepsOrder, CloseKeepsOrder, UnmatchedKeepsOrder,
             SendKeepsOrder DEF ComposerNext
<1>3. ComposerSpec => [](StatesInv /\ LastWordsAreWanted /\ ComposerInv)
  BY <1>1, <1>2, ComposerInvHolds, PTL DEF ComposerSpec, OrderInv
<1> QED BY <1>3, PTL DEF OrderInv

(* SurfaceFlinger ends up with what was set, in the order it was set, for  *)
(* any number of threads, layers, displays and transactions in flight, as  *)
(* long as none overtakes another that sets the same                       *)
(* (SurfaceComposerClient.cpp:250-436, SurfaceFlinger.cpp:2217-2280).      *)
THEOREM TransactionsAddUp == ComposerSpec => []ComposedInOrder
<1>1. OrderInv => ComposedInOrder
  BY KeysAreApart DEF OrderInv, LastWordsAreWanted, ComposedInOrder, Agree, Keys
<1> QED BY <1>1, OrderInvHolds, PTL

-----------------------------------------------------------------------------
(***************************************************************************)
(* Theorems about DispSync, for any listeners, period, phase and pace of   *)
(* the clock.                                                              *)
(*                                                                         *)
(* The thread computes a time to sleep to without holding anything against *)
(* what the others then do; the proof is that whatever makes an event due  *)
(* earlier also wakes the thread.                                          *)
(***************************************************************************)

(* Only a thread that has not looked or that waits for a period can find   *)
(* none, and while it sleeps nothing is due before what it waits for.      *)
DsInv ==
  /\ time \in Int /\ mPeriod \in Nat /\ mPhase \in Nat
  /\ Registered \subseteq Listeners
  /\ \A l \in Registered : mEventListeners[l] \in Int
  /\ thread.now \in Int
  /\ thread.at = "firing" => DOMAIN thread = {"at", "now", "calls"}
  /\ mPeriod = 0 => thread.at \in {"loop", "noModel"}
  /\ NoOversleep

-----------------------------------------------------------------------------
(* A set of integers that is bounded below has a smallest element.         *)
LEMMA MinIsSmallest ==
  ASSUME NEW S, S \subseteq Int, S # {}, NEW low \in Int, \A x \in S : low <= x
  PROVE  Min(S) \in S /\ \A x \in S : Min(S) <= x
<1> DEFINE T == {n \in Nat : low + n \in S}
<1>1. T # {}
  <2>1. PICK x \in S : TRUE  OBVIOUS
  <2>2. x - low \in Nat /\ low + (x - low) = x  OBVIOUS
  <2> QED BY <2>1, <2>2
<1>2. PICK less : /\ IsWellFoundedOn(less, Nat)
                  /\ less = {pair \in Nat \X Nat : pair[1] < pair[2]}
  BY NatLessThanWellFounded DEF OpToRel
<1>3. PICK n \in T : \A m \in T : n <= m
  <2>1. T \subseteq Nat  OBVIOUS
  <2> HIDE DEF T
  <2>2. PICK n \in T : \A m \in T : ~(<<m, n>> \in less)
    BY <1>1, <1>2, <2>1, WFMin
  <2>3. \A i, j \in Nat : i < j => <<i, j>> \in less
    BY <1>2
  <2>4. n \in Nat /\ \A m \in T : m \in Nat /\ ~(m < n)
    BY <2>1, <2>2, <2>3
  <2>5. \A m \in T : n <= m
    BY <2>4
  <2> QED BY <2>5
<1>4. \A x \in S : x - low \in T /\ n <= x - low
  BY <1>3
<1>5. low + n \in S /\ \A x \in S : low + n <= x
  BY <1>4
<1> QED BY <1>5 DEF Min

(* Integer division rounds down.                                           *)
LEMMA Division ==
  ASSUME NEW a \in Int, NEW n \in Nat \ {0}
  PROVE  a \div n \in Int /\ (a \div n) * n <= a /\ a < (a \div n + 1) * n
  OBVIOUS

(* The next event is after the time asked for and at least half a period   *)
(* after the last one.                                                     *)
LEMMA NextEventIsLater ==
  ASSUME DsInv, mPeriod # 0, NEW l \in Registered, NEW ref \in Int
  PROVE  /\ NextEventTime(l, ref) \in Int /\ NextEventTime(l, ref) > ref
         /\ NextEventTime(l, ref) > mEventListeners[l]
         /\ NextEventTime(l, ref) - mEventListeners[l] >= mPeriod \div 2
<1>1. /\ mPeriod \in Nat \ {0} /\ mPhase + PhaseOf[l] \in Int /\ mEventListeners[l] \in Int
  BY DispSyncAssumption DEF DsInv
<1>2. PICK last \in Int, phase \in Int : /\ last = mEventListeners[l]
                                         /\ phase = mPhase + PhaseOf[l]
  BY <1>1
<1>3. PICK r \in Int : r = Later(ref, last)
  BY DEF Later
<1>4. r >= ref /\ r >= last
  BY <1>3 DEF Later
<1>5. PICK t \in Int : t = ((r - phase) \div mPeriod + 1) * mPeriod + phase
  BY <1>1, Division
<1>6. t > r
  <2>1. r - phase < ((r - phase) \div mPeriod + 1) * mPeriod
    BY <1>1, Division
  <2>2. PICK q \in Int : q = (r - phase) \div mPeriod
    BY <1>1, Division
  <2>3. (q + 1) * mPeriod \in Int
    BY <1>1
  <2>4. PICK u \in Int : u = (q + 1) * mPeriod
    BY <2>3
  <2> QED BY <1>5, <2>1, <2>2, <2>4
<1>7. mPeriod \div 2 \in Int /\ mPeriod \div 2 <= mPeriod
  BY <1>1
<1>8. NextEventTime(l, ref) = IF t - last < mPeriod \div 2 THEN t + mPeriod ELSE t
  BY <1>2, <1>3, <1>5 DEF NextEventTime
<1>9. PICK half \in Int : half = mPeriod \div 2
  BY <1>7
<1> QED BY <1>1, <1>2, <1>4, <1>6, <1>7, <1>8, <1>9

(* A signal wakes the thread if it sleeps, and does nothing else to it.    *)
LEMMA SignalKeepsThread ==
  ASSUME DsInv, Signal
  PROVE  /\ thread'.now = thread.now
         /\ thread'.at \in {"loop", "noModel", "woken", "firing"} \union {thread.at}
         /\ thread'.at # "sleeping"
         /\ thread.at \in {"loop", "noModel"} => thread'.at = "loop"
         /\ thread'.at = "firing" => thread' = thread
  BY DEF Signal, DsAt

(* The thread advances the listeners that are due, and no other.           *)
LEMMA GatherKeepsListeners ==
  ASSUME DsInv, mPeriod # 0, NEW now \in Int, Gather(now)
  PROVE  /\ DOMAIN mEventListeners' = Registered
         /\ \A l \in Registered :
              mEventListeners'[l] =
                IF l \in Due(now) THEN NextEventTime(l, now - mPeriod)
                ELSE mEventListeners[l]
         /\ \/ thread' = [at |-> "loop", now |-> now]
            \/ \E calls : thread' = [at |-> "firing", now |-> now, calls |-> calls]
  BY DEF Gather

(* The thread does not sleep past the next event: whoever makes one due    *)
(* earlier wakes it (DispSync.cpp:77-262).                                 *)
THEOREM DsInvHolds == DsSpec => []DsInv
<1>1. DsInit => DsInv
  BY DispSyncAssumption DEF DsInit, DsInv, Registered, NoOversleep
<1>2. DsInv /\ [DsNext]_dsVars => DsInv'
  <2> SUFFICES ASSUME DsInv, [DsNext]_dsVars PROVE DsInv'
    OBVIOUS
  <2>1. ASSUME UNCHANGED <<mPeriod, mPhase, mEventListeners, thread>>, time' \in Int
        PROVE  DsInv'
    BY <2>1 DEF DsInv, NoOversleep, Registered, NextEventTime
  <2>2. CASE UNCHANGED dsVars
    BY <2>1, <2>2 DEF dsVars, modelVars, DsInv
  <2>3. CASE Tick
    BY <2>1, <2>3 DEF Tick, modelVars, DsInv
  <2>4. CASE updateModel
    <3>1. PICK m \in Models : mPeriod' = m.period /\ mPhase' = m.phase
      BY <2>4 DEF updateModel
    <3>2. Signal /\ UNCHANGED <<time, mEventListeners>>
      BY <2>4 DEF updateModel
    <3>3. mPeriod' \in Nat \ {0} /\ mPhase' \in Nat
      BY <3>1, DispSyncAssumption DEF Model
    <3> QED BY <3>2, <3>3, SignalKeepsThread DEF DsInv, NoOversleep, Registered
  <2>5. ASSUME NEW l \in Listeners, addEventListener(l) PROVE DsInv'
    <3>1. /\ Registered' = Registered \union {l}
          /\ \A k \in Registered' : mEventListeners'[k] \in Int
          /\ Signal /\ UNCHANGED <<time, mPeriod, mPhase>>
      BY <2>5 DEF addEventListener, Registered, modelVars, DsInv
    <3> QED BY <3>1, SignalKeepsThread DEF DsInv, NoOversleep
  <2>6. ASSUME NEW l \in Listeners, removeEventListener(l) PROVE DsInv'
    <3>1. /\ Registered' = Registered \ {l}
          /\ \A k \in Registered' : mEventListeners'[k] \in Int
          /\ Signal /\ UNCHANGED <<time, mPeriod, mPhase>>
      BY <2>6 DEF removeEventListener, Registered, modelVars, DsInv
    <3> QED BY <3>1, SignalKeepsThread DEF DsInv, NoOversleep
  <2>7. CASE Loop
    <3>1. thread.at = "loop" /\ UNCHANGED <<time, mPeriod, mPhase, mEventListeners>>
      BY <2>7 DEF Loop, modelVars
    <3>2. CASE mPeriod = 0
      <4>1. thread' = [at |-> "noModel", now |-> thread.now]
        BY <2>7, <3>2 DEF Loop, DsAt
      <4> QED BY <3>1, <4>1 DEF DsInv, Registered, NoOversleep
    <3>3. CASE mPeriod # 0
      <4> DEFINE times == {NextEventTime(l, thread.now) : l \in Registered} \union {Never}
      <4>1. \A l \in Registered : /\ NextEventTime(l, thread.now) \in Int
                                  /\ NextEventTime(l, thread.now) > thread.now
        BY <3>3, NextEventIsLater DEF DsInv
      <4>2. Never \in Int /\ thread.now \in Int
        BY DispSyncAssumption DEF Never, DsInv
      <4>3. PICK low \in Int : low <= thread.now /\ low <= Never
        BY <4>2
      <4>4. times \subseteq Int /\ times # {} /\ \A x \in times : low <= x
        BY <4>1, <4>2, <4>3
      <4>5. Min(times) \in times /\ \A x \in times : Min(times) <= x
        <5> HIDE DEF times
        <5> QED BY <4>4, MinIsSmallest
      <4>6. PICK target : target = Min(times)
        OBVIOUS
      <4>7. thread' = [at |-> "sleeping", now |-> thread.now, target |-> target,
                       until |-> time + (target - thread.now)]
        BY <2>7, <3>3, <4>6 DEF Loop, computeNextEventTimeLocked
      <4>8. thread'.at = "sleeping" /\ thread'.now = thread.now /\ thread'.target = target
        BY <4>7
      <4>9. \A l \in Registered : target <= NextEventTime(l, thread.now)
        BY <4>5, <4>6
      <4>10. NoOversleep'
        BY <3>1, <4>8, <4>9 DEF NoOversleep, Registered, NextEventTime
      <4> QED BY <3>1, <3>3, <4>8, <4>10 DEF DsInv, Registered
    <3> QED BY <3>2, <3>3
  <2>8. CASE Wake
    <3>1. mPeriod # 0 /\ time \in Int
      BY <2>8 DEF Wake, DsInv
    <3>2. Gather(time) /\ UNCHANGED <<time, mPeriod, mPhase>>
      BY <2>8 DEF Wake, modelVars
    <3>3. Registered' = Registered
      BY <3>1, <3>2, GatherKeepsListeners DEF Registered
    <3>4. \A l \in Registered : mEventListeners'[l] \in Int
      <4>1. time - mPeriod \in Int
        BY DEF DsInv
      <4> QED BY <3>1, <3>2, <4>1, GatherKeepsListeners, NextEventIsLater DEF DsInv
    <3>5. \/ thread' = [at |-> "loop", now |-> time]
          \/ \E calls : thread' = [at |-> "firing", now |-> time, calls |-> calls]
      BY <3>1, <3>2, GatherKeepsListeners
    <3>6. /\ thread'.now = time /\ thread'.at \in {"loop", "firing"}
          /\ thread'.at = "firing" => DOMAIN thread' = {"at", "now", "calls"}
      BY <3>5
    <3> QED BY <3>1, <3>2, <3>3, <3>4, <3>6 DEF DsInv, NoOversleep
  <2>9. CASE fireCallbackInvocations
    <3>1. thread.at = "firing" /\ UNCHANGED <<time, mPeriod, mPhase, mEventListeners>>
      BY <2>9 DEF fireCallbackInvocations, modelVars
    <3>2. \/ thread' = [at |-> "loop", now |-> thread.now]
          \/ thread' = [thread EXCEPT !.calls = Tail(thread.calls)]
      BY <2>9 DEF fireCallbackInvocations, DsAt, DsInv
    <3>3. DOMAIN thread = {"at", "now", "calls"}
      BY <3>1 DEF DsInv
    <3>4. /\ thread'.now = thread.now /\ thread'.at \in {"loop", "firing"}
          /\ thread'.at = "firing" => DOMAIN thread' = {"at", "now", "calls"}
      BY <3>1, <3>2, <3>3
    <3> QED BY <3>1, <3>4 DEF DsInv, NoOversleep, Registered
  <2> QED BY <2>2, <2>3, <2>4, <2>5, <2>6, <2>7, <2>8, <2>9 DEF DsNext, ThreadNext
<1> QED BY <1>1, <1>2, PTL DEF DsSpec

(* Events come once a period and none is slept through, for any listeners, *)
(* phases and models (DispSync.cpp:64-257).                                *)
THEOREM EventsComeOnTime == DsSpec => EventsAreOnTime
<1> DEFINE OncePerPeriod ==
      \A l \in Registered \cap DOMAIN mEventListeners' :
        mEventListeners'[l] # mEventListeners[l] =>
          /\ mEventListeners'[l] - mEventListeners[l] >= mPeriod \div 2
          /\ mEventListeners[l] < mEventListeners'[l]
          /\ mEventListeners'[l] < time
<1>1. DsInv => NoOversleep
  BY DEF DsInv
<1>2. DsInv /\ [DsNext]_dsVars => [OncePerPeriod]_dsVars
  <2> SUFFICES ASSUME DsInv, DsNext PROVE OncePerPeriod
    OBVIOUS
  <2>1. CASE Wake
    <3>1. mPeriod # 0 /\ time \in Int /\ time - mPeriod \in Int /\ Gather(time)
      BY <2>1 DEF Wake, DsInv
    <3> SUFFICES ASSUME NEW l \in Registered, mEventListeners'[l] # mEventListeners[l]
                 PROVE  /\ mEventListeners'[l] - mEventListeners[l] >= mPeriod \div 2
                        /\ mEventListeners[l] < mEventListeners'[l]
                        /\ mEventListeners'[l] < time
      OBVIOUS
    <3>2. /\ l \in Due(time)
          /\ mEventListeners'[l] = NextEventTime(l, time - mPeriod)
      BY <3>1, GatherKeepsListeners
    <3>3. NextEventTime(l, time - mPeriod) < time
      BY <3>2 DEF Due
    <3>4. /\ NextEventTime(l, time - mPeriod) \in Int
          /\ NextEventTime(l, time - mPeriod) > mEventListeners[l]
          /\ NextEventTime(l, time - mPeriod) - mEventListeners[l] >= mPeriod \div 2
      BY <3>1, NextEventIsLater
    <3>5. mEventListeners[l] \in Int
      BY DEF DsInv
    <3> QED BY <3>2, <3>3, <3>4, <3>5
  <2>2. CASE ~Wake
    <3>1. \A l \in Registered \cap DOMAIN mEventListeners' :
            mEventListeners'[l] = mEventListeners[l]
      BY <2>2 DEF DsNext, ThreadNext, Tick, updateModel, addEventListener,
                  removeEventListener, Loop, fireCallbackInvocations
    <3> QED BY <3>1
  <2> QED BY <2>1, <2>2
<1>3. DsSpec => [][OncePerPeriod]_dsVars
  BY <1>2, DsInvHolds, PTL DEF DsSpec
<1> QED BY <1>1, <1>3, DsInvHolds, PTL DEF EventsAreOnTime, CalledOncePerPeriod

-----------------------------------------------------------------------------
(***************************************************************************)
(* Theorems about DataBuffer, for any size of the buffer and of size_t.    *)
(*                                                                         *)
(* The pointers are counts of bytes that wrap around, first at the width   *)
(* of size_t and then at the size of the buffer. That the two agree is     *)
(* arithmetic of remainders, proved here from quotients; the rest is that  *)
(* two bytes less than bufsize apart have cells of their own.              *)
(***************************************************************************)

(* The pointers are the counts of bytes, as far as they tell; of the bytes *)
(* that are written or being written and not yet read, each is in its cell.*)
RingInv ==
  /\ read_ptr = read % SIZE_T /\ write_ptr = written % SIZE_T
  /\ writing \in Nat /\ reading \in Nat /\ written \in Nat /\ read \in Nat
  /\ read + reading <= written
  /\ written + writing - read <= bufsize
  /\ DOMAIN buffer = Cells
  /\ \A n \in read .. written + writing - 1 : buffer[n % bufsize] = n + 1

-----------------------------------------------------------------------------
(* Remainders are what is left of a multiple.                              *)
Multiple(x, n) == \E q \in Int : x = n * q

(* A number is a multiple and its remainder.                               *)
LEMMA Remainder ==
  ASSUME NEW a \in Int, NEW n \in Nat \ {0}
  PROVE  \E r \in 0 .. n - 1 : r = a % n /\ Multiple(a - r, n)
<1>1. a % n \in 0 .. n - 1
  OBVIOUS
<1>2. a \div n \in Int
  OBVIOUS
<1>3. a % n = a - n * (a \div n)
  OBVIOUS
<1>4. PICK q \in Int, r \in 0 .. n - 1 : q = a \div n /\ r = a % n
  BY <1>1, <1>2
<1>5. n * q \in Int /\ r = a - n * q
  BY <1>3, <1>4
<1>6. a - r = n * q
  BY <1>5
<1> QED BY <1>4, <1>6 DEF Multiple

(* Multiples of n are closed under sums and differences.                   *)
LEMMA MultiplesAdd ==
  ASSUME NEW x \in Int, NEW y \in Int, NEW n \in Nat, Multiple(x, n), Multiple(y, n)
  PROVE  Multiple(x + y, n) /\ Multiple(x - y, n)
<1>1. PICK p \in Int, q \in Int : x = n * p /\ y = n * q
  BY DEF Multiple
<1>2. x + y = n * (p + q) /\ x - y = n * (p - q) /\ p + q \in Int /\ p - q \in Int
  BY <1>1
<1> QED BY <1>2 DEF Multiple

(* A multiple of a multiple of n is a multiple of n.                       *)
LEMMA MultiplesOfMultiples ==
  ASSUME NEW x \in Int, NEW m \in Nat, NEW n \in Nat, Multiple(x, m), Multiple(m, n)
  PROVE  Multiple(x, n)
<1>1. PICK p \in Int, q \in Int : x = m * p /\ m = n * q
  BY DEF Multiple
<1>2. x = n * (q * p) /\ q * p \in Int
  BY <1>1
<1> QED BY <1>2 DEF Multiple

(* The only multiple of n less than n away from 0 is 0.                    *)
LEMMA SmallMultiples ==
  ASSUME NEW n \in Nat, NEW x \in Int, Multiple(x, n), -n < x, x < n
  PROVE  x = 0
<1>1. PICK q \in Int : x = n * q
  BY DEF Multiple
<1>2. q >= 1 => n * q >= n
  OBVIOUS
<1>3. q <= -1 => n * q <= -n
  OBVIOUS
<1>4. q = 0
  BY <1>1, <1>2, <1>3
<1> QED BY <1>1, <1>4

(* A number has one remainder.                                             *)
LEMMA RemainderIsUnique ==
  ASSUME NEW n \in Nat \ {0}, NEW a \in Int, NEW r \in 0 .. n - 1, Multiple(a - r, n)
  PROVE  a % n = r
<1>1. PICK s \in 0 .. n - 1 : s = a % n /\ Multiple(a - s, n)
  BY Remainder
<1>2. PICK x \in Int, y \in Int : x = a - s /\ y = a - r
  OBVIOUS
<1>3. Multiple(x - y, n) /\ x - y = r - s
  <2>1. Multiple(x, n) /\ Multiple(y, n)
    BY <1>1, <1>2
  <2> QED BY <1>2, <2>1, MultiplesAdd
<1>4. PICK d \in Int : d = r - s
  OBVIOUS
<1>5. d = 0
  BY <1>3, <1>4, SmallMultiples
<1> QED BY <1>1, <1>4, <1>5

(* A number less than n is its own remainder.                              *)
LEMMA SmallRemainder ==
  ASSUME NEW n \in Nat \ {0}, NEW r \in 0 .. n - 1
  PROVE  r % n = r
  OBVIOUS

(* The remainder of a sum is that of the sum with the remainder.           *)
LEMMA RemainderOfSum ==
  ASSUME NEW a \in Int, NEW b \in Int, NEW n \in Nat \ {0}
  PROVE  ((a % n) + b) % n = (a + b) % n
<1>1. PICK r \in 0 .. n - 1 : r = a % n /\ Multiple(a - r, n)
  BY Remainder
<1>2. PICK c \in Int, e \in Int : c = r + b /\ e = a + b
  OBVIOUS
<1>3. PICK s \in 0 .. n - 1 : s = c % n /\ Multiple(c - s, n)
  BY Remainder
<1>4. PICK x \in Int, y \in Int : x = a - r /\ y = c - s
  OBVIOUS
<1>5. Multiple(x + y, n)
  BY <1>1, <1>3, <1>4, MultiplesAdd
<1>6. x + y = e - s
  BY <1>2, <1>4
<1>7. e % n = s
  BY <1>5, <1>6, RemainderIsUnique
<1> QED BY <1>1, <1>2, <1>3, <1>7

(* Remainders may be taken before or after a difference.                   *)
LEMMA RemainderOfDifference ==
  ASSUME NEW a \in Int, NEW b \in Int, NEW n \in Nat \ {0}
  PROVE  ((a % n) - (b % n)) % n = (a - b) % n
<1>1. PICK r \in 0 .. n - 1 : r = b % n /\ Multiple(b - r, n)
  BY Remainder
<1>2. PICK s \in 0 .. n - 1 : s = a % n
  BY Remainder
<1>3. (s - b) % n = (a - b) % n
  <2>1. PICK c \in Int : c = -b
    OBVIOUS
  <2>2. (s + c) % n = (a + c) % n
    BY <1>2, RemainderOfSum
  <2>3. s + c = s - b /\ a + c = a - b
    BY <2>1
  <2> QED BY <2>2, <2>3
<1>4. PICK c \in Int, e \in Int : c = s - r /\ e = s - b
  OBVIOUS
<1>5. PICK u \in 0 .. n - 1 : u = c % n /\ Multiple(c - u, n)
  BY Remainder
<1>6. PICK x \in Int, y \in Int : x = c - u /\ y = b - r
  OBVIOUS
<1>7. Multiple(x - y, n)
  BY <1>1, <1>5, <1>6, MultiplesAdd
<1>8. x - y = e - u
  BY <1>4, <1>6
<1>9. e % n = u
  BY <1>7, <1>8, RemainderIsUnique
<1> QED BY <1>1, <1>2, <1>3, <1>4, <1>5, <1>9

(* A pointer tells the cell, as the size of the ring divides that of       *)
(* size_t.                                                                 *)
LEMMA RemainderOfRemainder ==
  ASSUME NEW a \in Int, NEW n \in Nat \ {0}, NEW m \in Nat \ {0}, m % n = 0
  PROVE  (a % m) % n = a % n
<1>1. PICK r \in 0 .. m - 1 : r = a % m /\ Multiple(a - r, m)
  BY Remainder
<1> m \in Int /\ r \in Int
  OBVIOUS
<1>2. Multiple(m, n)
  <2>1. PICK s \in 0 .. n - 1 : s = m % n /\ Multiple(m - s, n)
    BY Remainder
  <2>2. s = 0 /\ m - s = m
    BY <2>1
  <2> QED BY <2>1, <2>2
<1>3. PICK s \in 0 .. n - 1 : s = r % n /\ Multiple(r - s, n)
  BY Remainder
<1>4. PICK x \in Int, y \in Int : x = a - r /\ y = r - s
  OBVIOUS
<1>5. Multiple(x, n)
  BY <1>1, <1>2, <1>4, MultiplesOfMultiples
<1>6. Multiple(x + y, n) /\ x + y = a - s
  <2>1. Multiple(y, n)
    BY <1>3, <1>4
  <2> QED BY <1>4, <1>5, <2>1, MultiplesAdd
<1>7. a % n = s
  BY <1>6, RemainderIsUnique
<1> QED BY <1>1, <1>3, <1>7

(* Bytes that are less than the ring apart have cells of their own.        *)
LEMMA CellsDiffer ==
  ASSUME NEW a \in Int, NEW b \in Int, NEW n \in Nat \ {0}, b < a, a < b + n
  PROVE  a % n # b % n
<1> SUFFICES ASSUME a % n = b % n PROVE FALSE
  OBVIOUS
<1>1. PICK r \in 0 .. n - 1 : r = a % n /\ Multiple(a - r, n)
  BY Remainder
<1>2. PICK s \in 0 .. n - 1 : s = b % n /\ Multiple(b - s, n)
  BY Remainder
<1>3. PICK x \in Int, y \in Int : x = a - r /\ y = b - s
  OBVIOUS
<1>4. r = s
  BY <1>1, <1>2
<1>5. PICK d \in Int : d = x - y
  OBVIOUS
<1>6. Multiple(d, n)
  BY <1>1, <1>2, <1>3, <1>5, MultiplesAdd
<1>7. d = a - b
  BY <1>3, <1>4, <1>5
<1>8. 0 < d /\ d < n /\ -n < d
  BY <1>7
<1> QED BY <1>6, <1>8, SmallMultiples

-----------------------------------------------------------------------------
(* The copy goes to the cells of the bytes.                                *)
LEMMA PieceFacts ==
  ASSUME NEW n \in Nat, NEW cnt \in Nat, cnt <= bufsize, NEW k \in 0 .. cnt - 1
  PROVE  Piece(n % SIZE_T, cnt)[k] = (n + k) % bufsize
<1>1. bufsize \in Nat \ {0} /\ SIZE_T \in Nat \ {0} /\ SIZE_T % bufsize = 0
  BY RingAssumption
<1>2. PICK cur \in 0 .. bufsize - 1 : cur = n % bufsize
  BY <1>1
<1>3. (n + k) % bufsize = (cur + k) % bufsize
  <2>1. n \in Int /\ k \in Int
    OBVIOUS
  <2> QED BY <1>1, <1>2, <2>1, RemainderOfSum
<1>4. (n % SIZE_T) % bufsize = cur
  <2>1. n \in Int
    OBVIOUS
  <2> QED BY <1>1, <1>2, <2>1, RemainderOfRemainder
<1>5. CASE cur + k < bufsize
  <2>1. (cur + k) % bufsize = cur + k
    <3>1. cur + k \in 0 .. bufsize - 1
      BY <1>1, <1>5
    <3> QED BY <1>1, <3>1, SmallRemainder
  <2>2. Piece(n % SIZE_T, cnt)[k] = cur + k
    BY <1>1, <1>2, <1>4, <1>5 DEF Piece
  <2> QED BY <1>3, <2>1, <2>2
<1>6. CASE cur + k >= bufsize
  <2>1. (cur + k) % bufsize = cur + k - bufsize
    <3>1. PICK c \in Int, r \in 0 .. bufsize - 1 : c = cur + k /\ r = c - bufsize
      BY <1>1, <1>6
    <3>2. c - r = bufsize * 1
      BY <1>1, <3>1
    <3> QED BY <1>1, <3>1, <3>2, RemainderIsUnique DEF Multiple
  <2>2. Piece(n % SIZE_T, cnt)[k] = k - (bufsize - cur)
    BY <1>1, <1>2, <1>4, <1>6 DEF Piece
  <2> QED BY <1>1, <1>3, <2>1, <2>2
<1> QED BY <1>1, <1>2, <1>5, <1>6

(* getReadSpace and getWriteSpace tell what the counts of bytes tell.      *)
LEMMA SpacesAreTold ==
  ASSUME RingInv
  PROVE  SpacesAgree
<1>1. /\ bufsize \in Nat \ {0} /\ SIZE_T \in Nat \ {0} /\ bufsize < SIZE_T
      /\ written - read \in 0 .. bufsize
  BY RingAssumption DEF RingInv
<1>2. getReadSpace = (written - read) % SIZE_T
  <2>1. PICK w \in Int, r \in Int : w = written /\ r = read
    BY DEF RingInv
  <2>2. write_ptr = w % SIZE_T /\ read_ptr = r % SIZE_T
    BY <2>1 DEF RingInv
  <2>3. ((w % SIZE_T) - (r % SIZE_T)) % SIZE_T = (w - r) % SIZE_T
    BY <1>1, RemainderOfDifference
  <2>4. getReadSpace = ((w % SIZE_T) - (r % SIZE_T)) % SIZE_T
    BY <2>2 DEF getReadSpace
  <2> QED BY <2>1, <2>3, <2>4
<1>3. getReadSpace = written - read
  BY <1>1, <1>2, SmallRemainder
<1>4. PICK space \in 0 .. SIZE_T - 1 : space = bufsize - getReadSpace
  BY <1>1, <1>3
<1>5. getWriteSpace = space
  BY <1>1, <1>4, SmallRemainder DEF getWriteSpace
<1> QED BY <1>3, <1>4, <1>5 DEF SpacesAgree

(* The bytes a write copies are in cells that hold nothing unread.         *)
LEMMA WriteCopyKeepsRing ==
  ASSUME RingInv, WriteCopy
  PROVE  RingInv'
<1>1. /\ bufsize \in Nat \ {0} /\ written \in Nat /\ read \in Nat
      /\ write_ptr = written % SIZE_T
  BY RingAssumption DEF RingInv
<1>2. PICK cnt \in Counts :
        /\ writing = 0 /\ getWriteSpace >= cnt /\ writing' = cnt
        /\ buffer' = [c \in Cells |->
             IF \E k \in 0 .. cnt - 1 : Piece(write_ptr, cnt)[k] = c
             THEN written + 1 + (CHOOSE k \in 0 .. cnt - 1 : Piece(write_ptr, cnt)[k] = c)
             ELSE buffer[c]]
        /\ UNCHANGED <<read_ptr, write_ptr, reading, written, read>>
  BY DEF WriteCopy
<1>3. /\ cnt \in Nat \ {0} /\ cnt <= bufsize - (written - read) /\ cnt <= bufsize
  BY <1>1, <1>2, SpacesAreTold, RingAssumption DEF SpacesAgree, RingInv
<1>4. \A k \in 0 .. cnt - 1 : Piece(write_ptr, cnt)[k] = (written + k) % bufsize
  BY <1>1, <1>3, PieceFacts
<1>5. ASSUME NEW n \in read .. written - 1
      PROVE  buffer'[n % bufsize] = n + 1
  <2>1. n % bufsize \in Cells
    BY <1>1, Remainder DEF Cells
  <2>2. \A k \in 0 .. cnt - 1 : Piece(write_ptr, cnt)[k] # n % bufsize
    <3> TAKE k \in 0 .. cnt - 1
    <3>1. n < written + k /\ written + k < n + bufsize /\ written + k \in Int /\ n \in Int
      BY <1>1, <1>3
    <3>2. (written + k) % bufsize # n % bufsize
      BY <1>1, <3>1, CellsDiffer
    <3> QED BY <1>4, <3>2
  <2>3. buffer'[n % bufsize] = buffer[n % bufsize]
    BY <1>2, <2>1, <2>2
  <2> QED BY <1>2, <2>3 DEF RingInv
<1>6. ASSUME NEW k \in 0 .. cnt - 1
      PROVE  buffer'[(written + k) % bufsize] = written + k + 1
  <2> DEFINE cell == (written + k) % bufsize
  <2>1. cell \in Cells
    <3>1. written + k \in Int
      BY <1>1
    <3> QED BY <1>1, <3>1, Remainder DEF Cells
  <2>2. ASSUME NEW j \in 0 .. cnt - 1, Piece(write_ptr, cnt)[j] = cell
        PROVE  j = k
    <3>1. (written + j) % bufsize = (written + k) % bufsize
      BY <1>4, <2>2
    <3>2. written + j \in Int /\ written + k \in Int
      BY <1>1, <1>3
    <3>3. ~(written + j < written + k)
      <4> SUFFICES ASSUME written + j < written + k PROVE FALSE
        OBVIOUS
      <4>1. written + k < written + j + bufsize
        BY <1>1, <1>3
      <4> QED BY <1>1, <3>1, <3>2, <4>1, CellsDiffer
    <3>4. ~(written + k < written + j)
      <4> SUFFICES ASSUME written + k < written + j PROVE FALSE
        OBVIOUS
      <4>1. written + j < written + k + bufsize
        BY <1>1, <1>3
      <4> QED BY <1>1, <3>1, <3>2, <4>1, CellsDiffer
    <3> QED BY <1>1, <1>3, <3>3, <3>4
  <2>3. Piece(write_ptr, cnt)[k] = cell
    BY <1>4
  <2> HIDE DEF cell
  <2>4. (CHOOSE j \in 0 .. cnt - 1 : Piece(write_ptr, cnt)[j] = cell) = k
    BY <2>2, <2>3
  <2>5. buffer'[cell] = written + 1 + k
    BY <1>2, <2>1, <2>3, <2>4
  <2> QED BY <1>1, <1>3, <2>5 DEF cell
<1>7. ASSUME NEW n \in read .. written + cnt - 1
      PROVE  buffer'[n % bufsize] = n + 1
  <2>1. CASE n < written
    BY <1>1, <1>3, <1>5, <2>1
  <2>2. CASE n >= written
    <3>1. n - written \in 0 .. cnt - 1 /\ written + (n - written) = n
      BY <1>1, <1>3, <2>2
    <3> QED BY <1>6, <3>1
  <2> QED BY <1>1, <1>3, <2>1, <2>2
<1>8. written + cnt - read <= bufsize
  BY <1>1, <1>3
<1> QED BY <1>2, <1>3, <1>7, <1>8 DEF RingInv

(* The pointers follow the counts, and what is unread is in its cells      *)
(* (DataBuffer.cpp:15-67).                                                 *)
THEOREM RingInvHolds == RingSpec => []RingInv
<1>1. RingInit => RingInv
  BY RingAssumption, SmallRemainder DEF RingInit, RingInv
<1>2. RingInv /\ [RingNext]_ringBufferVars => RingInv'
  <2> SUFFICES ASSUME RingInv, [RingNext]_ringBufferVars PROVE RingInv'
    OBVIOUS
  <2>1. SIZE_T \in Nat \ {0}
    BY RingAssumption
  <2>2. CASE WriteAdvance
    <3>1. written \in Int /\ writing \in Int
      BY DEF RingInv
    <3>2. ((written % SIZE_T) + writing) % SIZE_T = (written + writing) % SIZE_T
      BY <2>1, <3>1, RemainderOfSum
    <3> QED BY <2>2, <3>2, RingAssumption DEF WriteAdvance, RingInv
  <2>3. CASE ReadCopy
    <3>1. PICK cnt \in Counts :
            /\ getReadSpace >= cnt /\ reading' = cnt
            /\ UNCHANGED <<buffer, read_ptr, write_ptr, writing, written, read>>
      BY <2>3 DEF ReadCopy
    <3>2. cnt \in Nat /\ cnt <= written - read
      BY <3>1, SpacesAreTold, RingAssumption DEF SpacesAgree
    <3>3. read + cnt <= written
      BY <3>2 DEF RingInv
    <3> QED BY <3>1, <3>2, <3>3 DEF RingInv
  <2>4. CASE ReadAdvance
    <3>1. read \in Int /\ reading \in Int
      BY DEF RingInv
    <3>2. ((read % SIZE_T) + reading) % SIZE_T = (read + reading) % SIZE_T
      BY <2>1, <3>1, RemainderOfSum
    <3> QED BY <2>4, <3>2, RingAssumption DEF ReadAdvance, RingInv
  <2>5. CASE UNCHANGED ringBufferVars
    BY <2>5 DEF ringBufferVars, RingInv
  <2> QED BY <2>2, <2>3, <2>4, <2>5, WriteCopyKeepsRing DEF RingNext
<1> QED BY <1>1, <1>2, PTL DEF RingSpec

(* What is read is what was written, and there is as much of it as the two *)
(* sides are told, for any size of the ring, of size_t and of the pieces   *)
(* (DataBuffer.cpp:12-74).                                                 *)
THEOREM RingStaysAFifo == RingSpec => []RingIsAFifo
<1>1. RingInv => RingIsAFifo
  <2> SUFFICES ASSUME RingInv PROVE ReadsNextBytes
    BY SpacesAreTold DEF RingIsAFifo
  <2> SUFFICES ASSUME NEW k \in 0 .. reading - 1
               PROVE  buffer[Piece(read_ptr, reading)[k]] = read + 1 + k
    BY DEF ReadsNextBytes
  <2>1. /\ reading \in Nat /\ read \in Nat /\ reading <= bufsize
        /\ read + k \in read .. written + writing - 1 /\ read_ptr = read % SIZE_T
    BY RingAssumption DEF RingInv
  <2>2. Piece(read_ptr, reading)[k] = (read + k) % bufsize
    BY <2>1, PieceFacts
  <2>3. buffer[(read + k) % bufsize] = read + k + 1
    BY <2>1 DEF RingInv
  <2> QED BY <2>1, <2>2, <2>3
<1> QED BY <1>1, RingInvHolds, PTL
=============================================================================
