------------------------------ MODULE Composer ------------------------------
(***************************************************************************)
(* The client side of a transaction (libs/gui/SurfaceComposerClient.cpp):  *)
(* one Composer for all threads of a process collects what they set        *)
(* between the outermost openGlobalTransaction and its close.  The thread  *)
(* that closes last takes it all under mLock and sends it to               *)
(* SurfaceFlinger after it has released mLock.  What SurfaceFlinger does   *)
(* with a transaction is in module SurfaceFlinger; here it is its effect   *)
(* on what the client has set.                                             *)
(***************************************************************************)
EXTENDS Integers, SequencesExt

CONSTANTS
  Clients,      \* threads of the process
  Layers, Displays,
  Values,       \* values of a property
  MaxOpens,     \* bound on the transactions opened, or closed unmatched
  MaxSets       \* bound on the calls of setters

VARIABLES
  mComposerStates,       \* the targets touched -> layer_state_t, DisplayState
  mTransactionNestCount,
  mForceSynchronous, mAnimation,
  client,                \* where each thread is, and its transaction's number
  inFlight,              \* transactions taken and not delivered yet
  server,                \* what SurfaceFlinger has
  opens, sets,           \* transactions and calls so far
  wanted,                \* history: what the calls have asked for
  batches,               \* history: numbers of those in mComposerStates
  overtaken              \* history: one overtook another that set the same

composerVars == <<mComposerStates, mTransactionNestCount, mForceSynchronous,
                  mAnimation, client, inFlight, server, opens, sets, wanted,
                  batches, overtaken>>

Targets == Layers \union Displays
Bits == {"hidden", "opaque"}
PropertiesOf(x) ==
  IF x \in Layers THEN {"layer", "size"} ELSE {"layerStack", "projection"}

Untouched == [what |-> << >>, flags |-> {}, mask |-> {}]

ComposerInit ==
  /\ mComposerStates = << >>
  /\ mTransactionNestCount = 0
  /\ mForceSynchronous = FALSE /\ mAnimation = FALSE
  /\ client = [t \in Clients |-> [at |-> "idle", batch |-> 0]]
  /\ inFlight = << >>
  /\ server = [x \in Targets |->
       [what |-> [p \in PropertiesOf(x) |-> CHOOSE v \in Values : TRUE], flags |-> {}]]
  /\ opens = 0 /\ sets = 0
  /\ wanted = server
  /\ batches = {}
  /\ overtaken = FALSE

-----------------------------------------------------------------------------
openGlobalTransaction(t) ==
  /\ client[t].at = "idle"
  /\ opens < MaxOpens
  /\ opens' = opens + 1
  /\ client' = [client EXCEPT ![t] = [at |-> "open", batch |-> opens']]
  /\ mTransactionNestCount' = mTransactionNestCount + 1
  /\ UNCHANGED <<mComposerStates, mForceSynchronous, mAnimation, inFlight,
                 server, sets, wanted, batches, overtaken>>

With(f, x, v) == [y \in DOMAIN f \union {x} |-> IF y = x THEN v ELSE f[y]]

(* getLayerStateLocked, getDisplayStateLocked.                             *)
StateOf(x) ==
  IF x \in DOMAIN mComposerStates THEN mComposerStates[x] ELSE Untouched

Collect(t, x, state) ==
  /\ client[t].at = "open"
  /\ sets < MaxSets
  /\ sets' = sets + 1
  /\ mComposerStates' = With(mComposerStates, x, state)
  /\ batches' = batches \union {client[t].batch}
  /\ UNCHANGED <<mTransactionNestCount, mAnimation, client, inFlight, server,
                 opens, overtaken>>

Forced(property) == mForceSynchronous \/ property \in {"size", "projection"}

(* The setters: the last value of a property counts; a new size or         *)
(* projection makes the transaction synchronous.                           *)
set(t, x, property, v) ==
  /\ Collect(t, x, [StateOf(x) EXCEPT !.what = With(@, property, v)])
  /\ mForceSynchronous' = Forced(property)
  /\ wanted' = With(wanted, x, [wanted[x] EXCEPT !.what = With(@, property, v)])

(* Mutant: bits are added and never taken away.                            *)
FlagsAdded(state, flags, mask) ==
  [state EXCEPT !.flags = @ \union (flags \intersect mask),
                !.mask = @ \union mask]

MergedFlags(state, flags, mask) ==
  [state EXCEPT !.flags = (@ \ mask) \union (flags \intersect mask),
                !.mask = @ \union mask]

setFlags(t, l, flags, mask) ==
  /\ Collect(t, l, MergedFlags(StateOf(l), flags, mask))
  /\ wanted' = With(wanted, l, [wanted[l] EXCEPT
       !.flags = (@ \ mask) \union (flags \intersect mask)])
  /\ UNCHANGED mForceSynchronous

setAnimationTransaction(t) ==
  /\ client[t].at = "open"
  /\ ~mAnimation
  /\ mAnimation' = TRUE
  /\ UNCHANGED <<mComposerStates, mTransactionNestCount, mForceSynchronous,
                 client, inFlight, server, opens, sets, wanted, batches, overtaken>>

-----------------------------------------------------------------------------
(* Mutant: every close sends.                                              *)
AnyClose == TRUE

IsOutermost == mTransactionNestCount <= 1

(* The transaction is taken; its flags and numbers go with it.             *)
Take(t, synchronous) ==
  /\ inFlight' = Append(inFlight,
       [by |-> t, states |-> mComposerStates, numbers |-> batches,
        eSynchronous |-> mForceSynchronous \/ synchronous,
        eAnimation |-> mAnimation])
  /\ mComposerStates' = << >>
  /\ mForceSynchronous' = FALSE /\ mAnimation' = FALSE
  /\ batches' = {}
  /\ client' = [client EXCEPT ![t].at = "sending"]

closeGlobalTransaction(t, synchronous) ==
  /\ client[t].at = "open"
  /\ mTransactionNestCount' = mTransactionNestCount - 1
  /\ IF IsOutermost
     THEN Take(t, synchronous)
     ELSE /\ client' = [client EXCEPT ![t].at = "idle"]
          /\ mForceSynchronous' = (mForceSynchronous \/ synchronous)
          /\ UNCHANGED <<mComposerStates, mAnimation, inFlight, batches>>
  /\ UNCHANGED <<server, opens, sets, wanted, overtaken>>

(* "At least one call to closeGlobalTransaction() was not matched": a      *)
(* transaction is sent all the same.                                       *)
closeUnmatched(t) ==
  /\ client[t].at = "idle"
  /\ mTransactionNestCount = 0
  /\ opens < MaxOpens
  /\ opens' = opens + 1
  /\ Take(t, FALSE)
  /\ UNCHANGED <<mTransactionNestCount, server, sets, wanted, overtaken>>

(* setClientStateLocked, setDisplayStateLocked, Layer::setFlags.           *)
Applied(current, transaction) ==
  [x \in Targets |->
     IF x \notin DOMAIN transaction.states THEN current[x]
     ELSE LET s == transaction.states[x]
          IN  [what |-> [p \in PropertiesOf(x) |->
                          IF p \in DOMAIN s.what THEN s.what[p] ELSE current[x].what[p]],
               flags |-> (current[x].flags \ s.mask) \union (s.flags \intersect s.mask)]]

SetsSame(one, other) ==
  \E x \in DOMAIN one.states \intersect DOMAIN other.states :
    \/ DOMAIN one.states[x].what \intersect DOMAIN other.states[x].what # {}
    \/ one.states[x].mask \intersect other.states[x].mask # {}

(* setTransactionState: nothing orders the calls of two threads.           *)
send(t) ==
  \E i \in 1 .. Len(inFlight) :
    /\ client[t].at = "sending" /\ inFlight[i].by = t
    /\ server' = Applied(server, inFlight[i])
    /\ inFlight' = RemoveAt(inFlight, i)
    /\ overtaken' = (overtaken \/ \E j \in 1 .. i - 1 : SetsSame(inFlight[j], inFlight[i]))
    /\ client' = [client EXCEPT ![t].at = "idle"]
    /\ UNCHANGED <<mComposerStates, mTransactionNestCount, mForceSynchronous,
                   mAnimation, opens, sets, wanted, batches>>

ComposerNext ==
  \E t \in Clients :
    \/ openGlobalTransaction(t)
    \/ \E x \in Targets : \E property \in PropertiesOf(x), v \in Values :
         set(t, x, property, v)
    \/ \E l \in Layers, mask \in SUBSET Bits \ {{}} :
         \E flags \in SUBSET mask : setFlags(t, l, flags, mask)
    \/ setAnimationTransaction(t)
    \/ \E synchronous \in BOOLEAN : closeGlobalTransaction(t, synchronous)
    \/ closeUnmatched(t)
    \/ send(t)

ComposerSpec == ComposerInit /\ [][ComposerNext]_composerVars

-----------------------------------------------------------------------------
(* "All changes are committed at once when the transaction is closed"      *)
(* (SurfaceComposerClient.h:113): what a thread sets between its open and  *)
(* its close travels in one piece, whatever the other threads open and     *)
(* close meanwhile, and one that resizes waits for the commit              *)
(* (SurfaceComposerClient.cpp:208-243, 290).                               *)
TransactionsAreWhole ==
  LET Open == {client[t].batch : t \in {u \in Clients : client[u].at = "open"}}
  IN  \A i \in 1 .. Len(inFlight) :
        /\ inFlight[i].numbers \intersect (batches \union Open) = {}
        /\ \A x \in DOMAIN inFlight[i].states :
             {"size", "projection"} \intersect DOMAIN inFlight[i].states[x].what # {}
               => inFlight[i].eSynchronous

(* The states on their way to the screen, oldest first: SurfaceFlinger's,  *)
(* those in flight, and last what is collected.                            *)
States(n) ==
  IF n = 0 THEN server
  ELSE IF n \in 1 .. Len(inFlight) THEN inFlight[n].states ELSE mComposerStates

Says(n, x, key) ==
  n = 0 \/ (x \in DOMAIN States(n)
              /\ key \in DOMAIN States(n)[x].what \union States(n)[x].mask)

HasLastWord(n, x, key) ==
  /\ Says(n, x, key)
  /\ \A m \in n + 1 .. Len(inFlight) + 1 : ~Says(m, x, key)

(* SurfaceFlinger ends up with what was set, in the order it was set: the  *)
(* last state that says anything of a property or a flag says what the     *)
(* last call asked for (layer_state_t: what, flags and mask), as long as   *)
(* no transaction overtakes another, which nothing prevents once mLock is  *)
(* released (SurfaceComposerClient.cpp:250-436, SurfaceFlinger.cpp:2217-   *)
(* 2280).                                                                  *)
ComposedInOrder ==
  ~overtaken =>
    \A x \in Targets, n \in 0 .. Len(inFlight) + 1 :
      /\ \A p \in PropertiesOf(x) :
           HasLastWord(n, x, p) => wanted[x].what[p] = States(n)[x].what[p]
      /\ \A b \in Bits :
           HasLastWord(n, x, b) => (b \in wanted[x].flags <=> b \in States(n)[x].flags)
=============================================================================
