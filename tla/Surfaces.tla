------------------------------ MODULE Surfaces ------------------------------
(***************************************************************************)
(* The life of a surface: SurfaceComposerClient and SurfaceControl in an   *)
(* application (libs/gui), Client, Layer's handle and MonitoredProducer in *)
(* SurfaceFlinger (services/surfaceflinger).                               *)
(*                                                                         *)
(* A layer is removed by destroySurface, by the last reference to its      *)
(* handle and by the last reference to its Client, in any order.  The      *)
(* references are an application's; the binder driver tells SurfaceFlinger *)
(* some time after the application has let go of them, or has died.  A     *)
(* transaction that reaches the layer after its removal lists it again.    *)
(*                                                                         *)
(* The application is given the binder that MonitoredProducer wraps, so    *)
(* MonitoredProducer itself lives and dies with the Layer.                 *)
(***************************************************************************)
EXTENDS Naturals, SequencesExt

CONSTANTS
  Apps,
  SurfaceIds,
  OwnerOf     \* the application that may create a surface

VARIABLES
  app,                 \* SurfaceComposerClient: new, open, disposed, or dead
  surface,             \* SurfaceControl: where a surface is for its owner
  released,            \* references the driver has to tell of
  mLayers,             \* Client: the surfaces attached, by application
  clientAlive,         \* is there a Client?
  mCurrentState, mDrawingState, mLayersPendingRemoval,
  relisted,            \* history: layers that were listed again
  layerAlive,          \* layers that have not been destroyed
  abandoned,           \* consumers abandoned by Layer::onRemoved
  mGraphicBufferProducerList,
  messages             \* MessageCleanUpList messages in the queue

appVars == <<app, surface>>
stateVars == <<mCurrentState, mDrawingState, mLayersPendingRemoval, relisted>>
lifeVars == <<layerAlive, abandoned, mGraphicBufferProducerList, messages>>
surfacesVars == <<appVars, released, mLayers, clientAlive, stateVars, lifeVars>>

SurfacesInit ==
  /\ app = [a \in Apps |-> "new"]
  /\ surface = [s \in SurfaceIds |-> "none"]
  /\ released = {}
  /\ mLayers = [a \in Apps |-> {}]
  /\ clientAlive = {}
  /\ mCurrentState = {} /\ mDrawingState = {} /\ mLayersPendingRemoval = << >>
  /\ relisted = {}
  /\ layerAlive = {} /\ abandoned = {}
  /\ mGraphicBufferProducerList = {} /\ messages = {}

IsRunning(a) == app[a] # "dead"
SurfacesOf(a) == {s \in SurfaceIds : OwnerOf[s] = a}

-----------------------------------------------------------------------------
(* createConnection.                                                       *)
onFirstRef(a) ==
  /\ app[a] = "new"
  /\ app' = [app EXCEPT ![a] = "open"]
  /\ clientAlive' = clientAlive \union {a}
  /\ UNCHANGED <<surface, released, mLayers, stateVars, lifeVars>>

(* createSurface sends the main thread a message and waits for it ...      *)
createSurface(s) ==
  /\ app[OwnerOf[s]] = "open"
  /\ surface[s] = "none"
  /\ surface' = [surface EXCEPT ![s] = "requested"]
  /\ UNCHANGED <<app, released, mLayers, clientAlive, stateVars, lifeVars>>

(* ... which creates the layer, even if nobody waits any more.             *)
createLayer(s) ==
  /\ surface[s] = "requested"
  /\ surface' = [surface EXCEPT ![s] = "created"]
  /\ layerAlive' = layerAlive \union {s}
  /\ mLayers' = [mLayers EXCEPT ![OwnerOf[s]] = @ \union {s}]
  /\ mCurrentState' = mCurrentState \union {s}
  /\ mGraphicBufferProducerList' = mGraphicBufferProducerList \union {s}
  /\ UNCHANGED <<app, released, clientAlive, mDrawingState,
                 mLayersPendingRemoval, relisted, abandoned, messages>>

(* The reply carries the handle and the producer; without a receiver the   *)
(* handle is released at once.                                             *)
replyToCreate(s) ==
  /\ surface[s] = "created"
  /\ IF IsRunning(OwnerOf[s])
     THEN surface' = [surface EXCEPT ![s] = "valid"] /\ UNCHANGED released
     ELSE /\ surface' = [surface EXCEPT ![s] = "lost"]
          /\ released' = released \union {s}
  /\ UNCHANGED <<app, mLayers, clientAlive, stateVars, lifeVars>>

-----------------------------------------------------------------------------
(* Mutants: what is not listed any more is removed again; what is removed  *)
(* is not handed to the main thread.                                       *)
RemovedAgain(layers) ==
  /\ mCurrentState' = mCurrentState \ layers
  /\ mLayersPendingRemoval' = mLayersPendingRemoval \o SetToSeq(layers)

RemovedOnly(layers) ==
  mCurrentState' = mCurrentState \ layers /\ UNCHANGED mLayersPendingRemoval

removeLayers(layers) ==
  /\ mCurrentState' = mCurrentState \ layers
  /\ mLayersPendingRemoval' =
       mLayersPendingRemoval \o SetToSeq(layers \intersect mCurrentState)

(* getLayerUser: the layers of a Client that have not been destroyed.      *)
LayerUsers(a) == mLayers[a] \intersect layerAlive

(* SurfaceControl::destroy: after dispose() only the handle is let go.     *)
destroySurface(s) ==
  LET a == OwnerOf[s] IN
  /\ surface[s] = "valid" /\ IsRunning(a)
  /\ surface' = [surface EXCEPT ![s] = "gone"]
  /\ released' = released \union {s}
  /\ removeLayers(IF app[a] = "open" THEN {s} \intersect LayerUsers(a) ELSE {})
  /\ UNCHANGED <<app, mLayers, clientAlive, mDrawingState, relisted, lifeVars>>

(* setTransactionState with a new z or layer stack.  The Composer that     *)
(* sends it holds the Client and the handle, so it may come after          *)
(* destroySurface; the layer is taken out of the list, if it is there, and *)
(* put in.                                                                 *)
setLayer(s) ==
  /\ surface[s] = "valid" \/ (surface[s] = "gone" /\ s \in released)
  /\ OwnerOf[s] \in clientAlive /\ s \in LayerUsers(OwnerOf[s])
  /\ mCurrentState' = mCurrentState \union {s}
  /\ relisted' = relisted \union ({s} \ mCurrentState)
  /\ UNCHANGED <<appVars, released, mLayers, clientAlive, mDrawingState,
                 mLayersPendingRemoval, lifeVars>>

(* SurfaceComposerClient::dispose.                                         *)
dispose(a) ==
  /\ app[a] = "open"
  /\ app' = [app EXCEPT ![a] = "disposed"]
  /\ released' = released \union {a}
  /\ UNCHANGED <<surface, mLayers, clientAlive, stateVars, lifeVars>>

appDies(a) ==
  /\ app[a] \in {"open", "disposed"}
  /\ app' = [app EXCEPT ![a] = "dead"]
  /\ surface' = [s \in SurfaceIds |->
       IF s \in SurfacesOf(a) /\ surface[s] = "valid" THEN "gone" ELSE surface[s]]
  /\ released' = released \union {a} \union {s \in SurfacesOf(a) : surface[s] = "valid"}
  /\ UNCHANGED <<mLayers, clientAlive, stateVars, lifeVars>>

(* Mutant: the removal is left to destroySurface and to ~Client.           *)
LeftToOthers(s) == removeLayers({})

(* ~LayerCleaner, when the last reference to the handle has gone.          *)
onLayerDestroyed(s) == removeLayers({s} \intersect layerAlive)

handleReleased(s) ==
  /\ s \in released
  /\ released' = released \ {s}
  /\ onLayerDestroyed(s)
  /\ UNCHANGED <<appVars, mLayers, clientAlive, mDrawingState, relisted, lifeVars>>

(* ~Client, which a call that waits for the main thread keeps away.        *)
clientReleased(a) ==
  /\ a \in released \intersect clientAlive
  /\ \A s \in SurfacesOf(a) : surface[s] \notin {"requested", "created"}
  /\ released' = released \ {a}
  /\ clientAlive' = clientAlive \ {a}
  /\ removeLayers(LayerUsers(a))
  /\ UNCHANGED <<appVars, mLayers, mDrawingState, relisted, lifeVars>>

-----------------------------------------------------------------------------
(* The main thread, woken by eTransactionNeeded: what was removed is       *)
(* abandoned, the drawing state becomes the current one.                   *)
commitTransaction ==
  /\ mDrawingState # mCurrentState \/ mLayersPendingRemoval # << >>
  /\ abandoned' = abandoned \union ToSet(mLayersPendingRemoval)
  /\ mLayersPendingRemoval' = << >>
  /\ mDrawingState' = mCurrentState
  /\ UNCHANGED <<appVars, released, mLayers, clientAlive, mCurrentState, relisted,
                 layerAlive, mGraphicBufferProducerList, messages>>

(* ~Layer, when nothing lists the layer any more: the Client forgets it,   *)
(* and ~MonitoredProducer, which nobody else holds, posts its message.     *)
layerDestroyed(s) ==
  /\ s \in layerAlive
  /\ surface[s] # "created"
  /\ s \notin mCurrentState \union mDrawingState \union ToSet(mLayersPendingRemoval)
  /\ layerAlive' = layerAlive \ {s}
  /\ mLayers' = IF OwnerOf[s] \in clientAlive
                THEN [mLayers EXCEPT ![OwnerOf[s]] = @ \ {s}] ELSE mLayers
  /\ messages' = messages \union {s}
  /\ UNCHANGED <<appVars, released, clientAlive, stateVars, abandoned,
                 mGraphicBufferProducerList>>

(* MessageCleanUpList.                                                     *)
cleanUpList(s) ==
  /\ s \in messages
  /\ messages' = messages \ {s}
  /\ mGraphicBufferProducerList' = mGraphicBufferProducerList \ {s}
  /\ UNCHANGED <<appVars, released, mLayers, clientAlive, stateVars, layerAlive,
                 abandoned>>

-----------------------------------------------------------------------------
FlingerNext ==
  \/ \E s \in SurfaceIds :
       \/ createLayer(s) \/ replyToCreate(s) \/ handleReleased(s)
       \/ layerDestroyed(s) \/ cleanUpList(s)
  \/ \E a \in Apps : clientReleased(a)
  \/ commitTransaction

SurfacesNext ==
  \/ \E a \in Apps : onFirstRef(a) \/ dispose(a) \/ appDies(a)
  \/ \E s \in SurfaceIds : createSurface(s) \/ setLayer(s) \/ destroySurface(s)
  \/ FlingerNext

(* SurfaceFlinger's threads run and the driver delivers; applications do   *)
(* as they like.                                                           *)
SurfacesSpec ==
  SurfacesInit /\ [][SurfacesNext]_surfacesVars /\ WF_surfacesVars(FlingerNext)

-----------------------------------------------------------------------------
(* A layer is removed, and its consumer abandoned, once, whichever of the  *)
(* ways to remove it come together (SurfaceFlinger.cpp:2061-2071,          *)
(* 2370-2395, Client.cpp:42-52), and what is removed is listed no more:    *)
(* except for a layer that a late transaction listed again.                *)
RemovedOnce ==
  /\ \A i, j \in DOMAIN mLayersPendingRemoval :
       mLayersPendingRemoval[i] = mLayersPendingRemoval[j] /\ i # j =>
         mLayersPendingRemoval[i] \in relisted
  /\ ToSet(mLayersPendingRemoval) \intersect (abandoned \union mCurrentState)
       \subseteq relisted
  /\ mCurrentState \intersect abandoned \subseteq relisted

(* No layer leaves SurfaceFlinger, listed again or not, without its        *)
(* consumer being abandoned (Layer::onRemoved, SurfaceFlinger.cpp:1636),   *)
(* which is what ends the waits of its producer.                           *)
NoneSlipsAway ==
  \A s \in SurfaceIds : surface[s] \notin {"none", "requested"} =>
    s \in mCurrentState \union ToSet(mLayersPendingRemoval) \union abandoned

(* authenticateSurfaceTexture knows a producer as long as its layer lives, *)
(* and the cleaning message takes no living one off the list               *)
(* (MonitoredProducer.cpp:27-53, SurfaceFlinger.cpp:2047-2059).            *)
ProducersAreKnown ==
  /\ layerAlive \subseteq mGraphicBufferProducerList
  /\ messages \intersect layerAlive = {}

(* Removing a layer and forgetting its producer happen once and in time, in*)
(* whatever order handle, client and late transactions go                  *)
(* (SurfaceFlinger.cpp:2047-2071, 2229-2239, MonitoredProducer.cpp:27-53). *)
GoneIsGone == RemovedOnce /\ NoneSlipsAway /\ ProducersAreKnown

(* What nobody holds goes for good, and its producer is forgotten: whether *)
(* its application closed it, closed the connection or died, at whatever   *)
(* moment, and even if it was listed again (~LayerCleaner, Layer.cpp:1409).*)
OrphansAreRemoved ==
  \A s \in SurfaceIds :
    surface[s] \in {"gone", "lost"} ~>
      [](s \notin mDrawingState \union layerAlive \union mGraphicBufferProducerList)

(* "verify that an IGraphicBufferProducer was created by SurfaceFlinger"   *)
(* (ISurfaceComposer.h:110), asked by a Surface whose SurfaceControl has   *)
(* not been released.                                                      *)
ProducersStayKnown ==
  \A s \in SurfaceIds : surface[s] = "valid" => s \in mGraphicBufferProducerList
=============================================================================
