--------------------------- MODULE ProgramDevice ---------------------------
(***************************************************************************)
(* A program on one AI 100 device: the class QProgramDevice                *)
(* (lib/core/src/QProgramDevice.cpp).  It is a hierarchical state machine  *)
(* with a signal queue.  A thread that calls load(), unload(), activate()  *)
(* or deactivate(), and the workqueue thread that delivers device events,  *)
(* locks programMutex_, posts one signal, and runs the machine until the   *)
(* queue is empty; the entry actions of the states talk to the device and  *)
(* post the signals that tell how that went.                               *)
(*                                                                         *)
(* One step of this module is one dispatched signal, so that the queue,    *)
(* the transitional states and the order of the signals are visible.       *)
(*                                                                         *)
(* What is abstracted: the device is what its replies are (an operation on *)
(* it succeeds or fails), a network is an identity, an image is held or    *)
(* not (deviceImage_ and nnImage_ are set and cleared together: a loaded   *)
(* device image always has a network image).  The signals VC_UP and        *)
(* VC_DOWN are posted but no state handles them.                           *)
(***************************************************************************)
EXTENDS Naturals, Sequences

CONSTANTS
  Threads,            \* application threads
  Events,             \* the workqueue thread that runs notifyDeviceStateInfo
  Nobody,             \* "no thread holds programMutex_"
  ExecObjs,           \* execution objects that may register
  Networks,           \* networks the device can have active at once
  NoNet,              \* the null qnn_
  DeactivateMayFail   \* may the device refuse to deactivate a network?

ASSUME ThreadsAssumption ==
  Events \notin Threads /\ Nobody \notin Threads /\ Nobody # Events
ASSUME NetworksAssumption == NoNet \notin Networks
ASSUME DeactivateAssumption == DeactivateMayFail \in BOOLEAN

VARIABLES
  state,             \* the leaf state of the machine
  signals,           \* signals_, the queue of the machine
  devInfoValidated,  \* devInfoValidated_
  image,             \* deviceImage_ and nnImage_ are not null
  qnn,               \* qnn_
  live,              \* networks activated and not yet deactivated
  execObjs,          \* execObjs_
  holder,            \* who holds programMutex_
  op,                \* the call the holder is in
  cleared,           \* threads past the execObjs_ check of DEACTIVATE_FULL
  object,            \* life of the C++ object: alive, deactivating, closing, gone
  last,              \* the call that returned last, and whether QS_SUCCESS
  published          \* history: the machine as the last unlock left it

hsm  == <<state, signals, devInfoValidated, image, qnn, live>>
api  == <<execObjs, holder, op, cleared, object, last, published>>
vars == <<hsm, api>>

-----------------------------------------------------------------------------
(* The state hierarchy: the leaves under each superstate.                  *)

ActiveSuper  == {"ac_ready", "ac_deactivating"}
LoadedSuper  == ActiveSuper \cup {"loaded", "activating", "activate_failed"}
CreatedSuper == LoadedSuper \cup {"created", "loading", "unloading"}
ErrorSuper   == {"device_error", "load_failed"}
HsmStates    == CreatedSuper \cup ErrorSuper

\* The states the machine rests in; the others wait for a queued signal.
RestStates ==
  {"created", "loaded", "activate_failed", "ac_ready", "device_error", "load_failed"}

Signals ==
  {"INIT_ERROR", "LOAD", "UNLOAD", "ACTIVATE", "DEACTIVATE",
   "LOAD_COMPLETE", "LOAD_FAILED", "UNLOAD_COMPLETE", "ACTIVATE_COMPLETE",
   "ACTIVATE_FAILED", "DEACTIVATE_COMPLETE",
   "DEVICE_UP", "DEVICE_DOWN", "VC_UP", "VC_DOWN"}

Ops == {"load", "unload_deactivate", "unload", "activate", "deactivate", "destroy", "notify"}

\* getProgramState(): what the application is told of a state.
ProgramState(s) ==
  CASE s = "ac_ready"                                 -> "READY"
    [] s \in LoadedSuper \ {"ac_ready"}               -> "LOADED"
    [] s \in CreatedSuper \ LoadedSuper               -> "CREATED"
    [] s \in ErrorSuper /\ s = "activate_failed"      -> "ACTIVATE_ERROR"
    [] s \in ErrorSuper /\ s = "load_failed"          -> "LOAD_ERROR"
    [] s \in ErrorSuper /\ s = "device_error"         -> "DEVICE_ERROR"

-----------------------------------------------------------------------------
(* The entry actions.  `ok` is the device's reply.                         *)

\* Validate once; queryStatus may find the device down or incompatible.
validate_action(ok) ==
  /\ devInfoValidated => ok
  /\ devInfoValidated' = ok

\* An image that is already held is reused and the device is not asked.
load_action(ok) ==
  /\ image => ok
  /\ image' = ok

unload_action == image' = FALSE

\* rt_->activateNetwork: qnn_ is overwritten, with null when it fails.
activate_action(n) ==
  /\ n \in {NoNet} \cup (Networks \ live)
  /\ qnn' = n
  /\ live' = live \cup ({n} \ {NoNet})

\* Nothing to do without a network; a network that fails to go is kept.
deactivate_action(ok) ==
  /\ ok \/ (qnn # NoNet /\ DeactivateMayFail)
  /\ qnn'  = IF ok THEN NoNet ELSE qnn
  /\ live' = IF ok THEN live \ {qnn} ELSE live

-----------------------------------------------------------------------------
(* The state handlers.  Each consumes the signal at the head of the queue; *)
(* what the entry actions post goes to the back.                           *)

Sig == Head(signals)
Post(posted) == signals' = Tail(signals) \o posted
Tran(target) == state' = target

\* Fault: the reply of the device is not looked at.
EnterLoading_AlwaysComplete(posted) == \E ok \in BOOLEAN :
  /\ Tran("loading")
  /\ load_action(ok)
  /\ Post(posted \o <<"LOAD_COMPLETE">>)
  /\ UNCHANGED <<qnn, live>>

EnterLoading(posted) == \E ok \in BOOLEAN :
  /\ Tran("loading")
  /\ load_action(ok)
  /\ Post(posted \o <<IF ok THEN "LOAD_COMPLETE" ELSE "LOAD_FAILED">>)
  /\ UNCHANGED <<qnn, live>>

EnterActivating == \E n \in Networks \cup {NoNet} :
  /\ Tran("activating")
  /\ activate_action(n)
  /\ Post(<<IF n # NoNet THEN "ACTIVATE_COMPLETE" ELSE "ACTIVATE_FAILED">>)
  /\ UNCHANGED <<devInfoValidated, image>>

EnterDeviceError == \E ok \in BOOLEAN :
  /\ Tran("device_error")
  /\ deactivate_action(ok)
  /\ devInfoValidated' = FALSE
  /\ Post(<<>>)
  /\ UNCHANGED image

\* A transition between resting points that runs no entry action.
Move(target) ==
  /\ Tran(target)
  /\ Post(<<>>)
  /\ UNCHANGED <<devInfoValidated, image, qnn, live>>

\* Internal transition: no state change, signals posted.
Repost(posted) ==
  /\ Post(posted)
  /\ UNCHANGED <<state, devInfoValidated, image, qnn, live>>

\* Fault: INIT_ERROR does not fail the program.
created_super_ForgivesInitError ==
  /\ state \in CreatedSuper
  /\ \/ Sig = "INIT_ERROR" /\ Repost(<<>>)
     \/ /\ Sig = "ACTIVATE"
        /\ state \notin {"loaded", "activate_failed"}
        /\ Repost(<<"LOAD", "ACTIVATE">>)
     \/ Sig = "DEVICE_DOWN" /\ EnterDeviceError

created_super ==
  /\ state \in CreatedSuper
  /\ \/ Sig = "INIT_ERROR" /\ Repost(<<"DEVICE_DOWN">>)
     \/ /\ Sig = "ACTIVATE"
        /\ state \notin {"loaded", "activate_failed"}   \* they handle it
        /\ Repost(<<"LOAD", "ACTIVATE">>)
     \/ Sig = "DEVICE_DOWN" /\ EnterDeviceError

created ==
  /\ state = "created" /\ Sig = "LOAD"
  /\ EnterLoading(<<>>)
  /\ UNCHANGED devInfoValidated

\* Fault: a failed load is not noticed.
loading_IgnoresFailure ==
  /\ state = "loading"
  /\ \/ Sig = "LOAD_FAILED" /\ Repost(<<>>)
     \/ Sig = "LOAD_COMPLETE" /\ Move("loaded")

loading ==
  /\ state = "loading"
  /\ \/ Sig = "LOAD_FAILED" /\ Move("load_failed")
     \/ Sig = "LOAD_COMPLETE" /\ Move("loaded")

unloading == state = "unloading" /\ Sig = "UNLOAD_COMPLETE" /\ Move("created")

loaded ==
  /\ state = "loaded"
  /\ \/ Sig = "ACTIVATE" /\ EnterActivating
     \/ /\ Sig = "UNLOAD"
        /\ Tran("unloading")
        /\ unload_action
        /\ Post(<<"UNLOAD_COMPLETE">>)
        /\ UNCHANGED <<devInfoValidated, qnn, live>>

\* Fault: a failed activation is tried again.
activating_Retries ==
  /\ state = "activating"
  /\ \/ /\ Sig = "ACTIVATE_FAILED"
        /\ Tran("activate_failed")
        /\ Post(<<"ACTIVATE">>)
        /\ UNCHANGED <<devInfoValidated, image, qnn, live>>
     \/ Sig = "ACTIVATE_COMPLETE" /\ Move("ac_ready")

activating ==
  /\ state = "activating"
  /\ \/ Sig = "ACTIVATE_FAILED" /\ Move("activate_failed")
     \/ Sig = "ACTIVATE_COMPLETE" /\ Move("ac_ready")

activate_failed == state = "activate_failed" /\ Sig = "ACTIVATE" /\ EnterActivating

active_super ==
  /\ state \in ActiveSuper /\ Sig = "DEACTIVATE"
  /\ \E ok \in BOOLEAN :
       /\ Tran("ac_deactivating")
       /\ deactivate_action(ok)
       /\ Post(<<IF ok THEN "DEACTIVATE_COMPLETE" ELSE "DEVICE_DOWN">>)
       /\ UNCHANGED <<devInfoValidated, image>>

ac_deactivating ==
  state = "ac_deactivating" /\ Sig = "DEACTIVATE_COMPLETE" /\ Move("loaded")

device_error ==
  /\ state = "device_error" /\ Sig = "DEVICE_UP"
  /\ \E ok \in BOOLEAN :
       /\ validate_action(ok)
       /\ Tran(IF ok THEN "created" ELSE "device_error")
  /\ Post(<<>>)
  /\ UNCHANGED <<image, qnn, live>>

\* Leaving error_super enters created_super, whose entry validates again.
load_failed ==
  /\ state = "load_failed" /\ Sig = "LOAD"
  /\ \E ok \in BOOLEAN :
       /\ validate_action(ok)
       /\ EnterLoading(IF ok THEN <<>> ELSE <<"INIT_ERROR">>)

\* The signals a leaf acts on, itself or through a superstate.
LeafHandles ==
  [created         |-> {"LOAD"},
   loading         |-> {"LOAD_COMPLETE", "LOAD_FAILED"},
   unloading       |-> {"UNLOAD_COMPLETE"},
   loaded          |-> {"UNLOAD"},
   activating      |-> {"ACTIVATE_COMPLETE", "ACTIVATE_FAILED"},
   activate_failed |-> {},
   ac_ready        |-> {},
   ac_deactivating |-> {"DEACTIVATE_COMPLETE"},
   device_error    |-> {"DEVICE_UP"},
   load_failed     |-> {"LOAD"}]
Handles(s) ==
  LeafHandles[s]
    \cup (IF s \in ActiveSuper THEN {"DEACTIVATE"} ELSE {})
    \cup (IF s \in CreatedSuper THEN {"INIT_ERROR", "ACTIVATE", "DEVICE_DOWN"} ELSE {})

\* A signal no handler acts on bubbles to the top state and is dropped.
top == Sig \notin Handles(state) /\ Repost(<<>>)

Handler ==
  \/ created_super \/ created \/ loading \/ unloading \/ loaded
  \/ activating \/ activate_failed \/ active_super \/ ac_deactivating
  \/ device_error \/ load_failed \/ top

\* run(): one turn of the loop, under programMutex_.
Dispatch ==
  /\ holder # Nobody
  /\ signals # <<>>
  /\ Handler
  /\ UNCHANGED api

-----------------------------------------------------------------------------
(* The calls.  Each locks programMutex_, posts a signal and runs the       *)
(* machine; some return early.                                             *)

\* Fault: programMutex_ is not taken.
Free_NoMutex == object # "gone"

Free == holder = Nobody /\ object # "gone"
Idle(t) == object = "alive" /\ t # holder /\ t \notin cleared

Lock(t, call, sig) ==
  /\ Free
  /\ holder' = t
  /\ op' = call
  /\ signals' = Append(signals, sig)
  /\ UNCHANGED <<state, devInfoValidated, image, qnn, live, execObjs, last, published>>

\* A call that returns without touching the machine.
Early(call, ok) ==
  /\ last' = [op |-> call, ok |-> ok]
  /\ UNCHANGED <<hsm, execObjs, holder, op, cleared, object, published>>

load(t) ==
  /\ Free /\ Idle(t)
  /\ IF state \in LoadedSuper
     THEN Early("load", TRUE)
     ELSE Lock(t, "load", "LOAD") /\ UNCHANGED <<cleared, object>>

activate(t) ==
  /\ Free /\ Idle(t)
  /\ IF state = "ac_ready"
     THEN Early("activate", TRUE)
     ELSE Lock(t, "activate", "ACTIVATE") /\ UNCHANGED <<cleared, object>>

\* unload() deactivates first, unless an ExecObj is registered.
unload(t) ==
  /\ Free /\ Idle(t)
  /\ CASE state \in ActiveSuper /\ execObjs # {} -> Early("unload", FALSE)
       [] state \in ActiveSuper /\ execObjs = {} ->
            Lock(t, "unload_deactivate", "DEACTIVATE") /\ UNCHANGED <<cleared, object>>
       [] OTHER -> Lock(t, "unload", "UNLOAD") /\ UNCHANGED <<cleared, object>>

\* processActivateCmd(DEACTIVATE_FULL) looks at execObjs_ with no lock held.
processDeactivateCmd(t) ==
  /\ Idle(t)
  /\ IF execObjs # {}
     THEN Early("deactivate", FALSE)
     ELSE /\ cleared' = cleared \cup {t}
          /\ UNCHANGED <<hsm, execObjs, holder, op, object, last, published>>

deactivate(t) ==
  /\ t \in cleared
  /\ Lock(t, "deactivate", "DEACTIVATE")
  /\ cleared' = cleared \ {t}
  /\ UNCHANGED object

\* The signal an event of this device posts; an event of a virtual channel
\* counts only when the channel is the one of qnn_.
DeviceEvents ==
  {[needsVc |-> FALSE, sig |-> "DEVICE_DOWN"],    \* DEVICE_DOWN
   [needsVc |-> FALSE, sig |-> "DEVICE_UP"],      \* DEVICE_UP
   [needsVc |-> TRUE,  sig |-> "VC_DOWN"],        \* VC_DOWN
   [needsVc |-> TRUE,  sig |-> "VC_UP"],          \* VC_UP
   [needsVc |-> TRUE,  sig |-> "DEVICE_DOWN"]}    \* VC_UP_WAIT_TIMER_EXPIRY

notifyDeviceStateInfo ==
  \E e \in DeviceEvents :
    /\ e.needsVc => qnn # NoNet
    /\ Lock(Events, "notify", e.sig)
    /\ UNCHANGED <<cleared, object>>

registerExecObj(e) ==
  /\ object = "alive" /\ e \notin execObjs
  /\ execObjs' = execObjs \cup {e}
  /\ UNCHANGED <<hsm, holder, op, cleared, object, last, published>>

unregisterExecObj(e) ==
  /\ e \in execObjs
  /\ execObjs' = execObjs \ {e}
  /\ UNCHANGED <<hsm, holder, op, cleared, object, last, published>>

\* The destructor runs when the last reference to the program is dropped: no
\* thread is in a call and no ExecObj, which would hold a reference, is left.
\* isActive() releases programMutex_ with its answer; events still come in.
Destroy ==
  /\ Free /\ object = "alive" /\ cleared = {} /\ execObjs = {}
  /\ object' = IF state \in ActiveSuper THEN "deactivating" ELSE "closing"
  /\ UNCHANGED <<hsm, execObjs, holder, op, cleared, last, published>>

DestroyDeactivate(t) ==
  /\ object = "deactivating"
  /\ Lock(t, "destroy", "DEACTIVATE")
  /\ object' = "closing"
  /\ UNCHANGED cleared

unRegisterNotifyDeviceStateInfo ==
  /\ Free /\ object = "closing"
  /\ object' = "gone"
  /\ UNCHANGED <<hsm, execObjs, holder, op, cleared, last, published>>

-----------------------------------------------------------------------------
(* The end of a call: the queue is empty.                                  *)

\* What the code makes of the state it finds when run() returns.
\* Fault: activate() is content with a loaded program.
Succeeded_Lenient ==
  CASE op = "load"                     -> ProgramState(state) = "LOADED"
    [] op = "activate"                 -> state \in LoadedSuper
    [] op \in {"unload", "deactivate"} -> ProgramState(state) \in {"CREATED", "LOADED"}
    [] OTHER                           -> TRUE

Succeeded ==
  CASE op = "load"                     -> ProgramState(state) = "LOADED"
    [] op = "activate"                 -> state = "ac_ready"
    [] op \in {"unload", "deactivate"} -> ProgramState(state) \in {"CREATED", "LOADED"}
    [] OTHER                           -> TRUE

\* unload(), second half: the machine runs again with UNLOAD.
UnloadAfterDeactivate ==
  /\ op = "unload_deactivate" /\ signals = <<>>
  /\ op' = "unload"
  /\ signals' = <<"UNLOAD">>
  /\ UNCHANGED <<state, devInfoValidated, image, qnn, live,
                 execObjs, holder, cleared, object, last, published>>

Snapshot ==
  [state |-> state, qnn |-> qnn, live |-> live, initError |-> FALSE]

\* Fault: the call is not marked as over.
Return_KeepsCall ==
  /\ holder # Nobody /\ signals = <<>> /\ op # "unload_deactivate"
  /\ holder' = Nobody
  /\ last' = [op |-> op, ok |-> Succeeded]
  /\ published' = Snapshot
  /\ UNCHANGED <<hsm, op, execObjs, cleared, object>>

Return ==
  /\ holder # Nobody /\ signals = <<>> /\ op # "unload_deactivate"
  /\ holder' = Nobody
  /\ op' = "none"
  /\ last' = [op |-> op, ok |-> Succeeded]
  /\ published' = Snapshot
  /\ UNCHANGED <<hsm, execObjs, cleared, object>>

-----------------------------------------------------------------------------
\* Created by Factory: created_super's entry validates the device, and an
\* INIT_ERROR posted there stays queued until the first call runs the machine.
Init ==
  /\ state = "created"
  /\ devInfoValidated \in BOOLEAN
  /\ signals = IF devInfoValidated THEN <<>> ELSE <<"INIT_ERROR">>
  /\ image = FALSE
  /\ qnn = NoNet /\ live = {}
  /\ execObjs = {} /\ cleared = {}
  /\ holder = Nobody /\ op = "none"
  /\ object = "alive"
  /\ last = [op |-> "none", ok |-> TRUE]
  /\ published = [state |-> "created", qnn |-> NoNet, live |-> {},
                  initError |-> ~devInfoValidated]

\* The object is gone and nothing refers to it.
Gone == object = "gone" /\ UNCHANGED vars

Next ==
  \/ \E t \in Threads :
       \/ load(t) \/ activate(t) \/ unload(t)
       \/ processDeactivateCmd(t) \/ deactivate(t) \/ DestroyDeactivate(t)
  \/ \E e \in ExecObjs : registerExecObj(e) \/ unregisterExecObj(e)
  \/ notifyDeviceStateInfo \/ Destroy
  \/ Dispatch \/ UnloadAfterDeactivate \/ Return
  \/ unRegisterNotifyDeviceStateInfo
  \/ Gone

Spec == Init /\ [][Next]_vars

\* The thread inside a call is scheduled until it returns.
RunFairness == WF_vars(Dispatch) /\ WF_vars(UnloadAfterDeactivate) /\ WF_vars(Return)

\* A device that keeps being asked to load the image will at last do so.
LoadRecovers == SF_vars(Dispatch /\ (created \/ load_failed) /\ image')

FairSpec       == Spec /\ RunFairness
RecoveringSpec == FairSpec /\ LoadRecovers

-----------------------------------------------------------------------------
(* Properties.                                                             *)

\* Every variable has its type.
TypeOK ==
  /\ state \in HsmStates
  /\ signals \in Seq(Signals)
  /\ devInfoValidated \in BOOLEAN /\ image \in BOOLEAN
  /\ qnn \in Networks \cup {NoNet}
  /\ live \subseteq Networks
  /\ execObjs \subseteq ExecObjs
  /\ holder \in Threads \cup {Events, Nobody}
  /\ op \in Ops \cup {"none"}
  /\ (holder = Nobody) <=> (op = "none")
  /\ cleared \subseteq Threads
  /\ object \in {"alive", "deactivating", "closing", "gone"}
  /\ last \in [op : Ops \cup {"none"}, ok : BOOLEAN]
  /\ published \in [state : HsmStates, qnn : Networks \cup {NoNet},
                    live : SUBSET Networks, initError : BOOLEAN]

\* Between calls the machine rests: whoever locks programMutex_ next finds no
\* transitional state and no signal of an earlier call, other than the error
\* of a failed creation (run() loops until signals_ is empty).
RestsWhenUnlocked ==
  holder = Nobody =>
    /\ state \in RestStates
    /\ signals = <<>> \/ (signals = <<"INIT_ERROR">> /\ state = "created")

\* A completion signal that overtook its state change, or a stale one, would
\* reach a state whose pointers are null: a loaded program holds its image and
\* a ready one runs a network that has not been deleted (nnImage_ and qnn_ are
\* dereferenced in those states without a check).
HoldsWhatItUses ==
  /\ state \in LoadedSuper => image
  /\ state = "ac_ready" => qnn \in live

\* A program never becomes loaded on a device that failed validate_action,
\* although the resulting INIT_ERROR waits in the queue while calls come in.
NeverLoadedUnvalidated == state \in LoadedSuper => devInfoValidated

\* The queue holds at most three signals however calls, failures and device
\* events follow one another, although ACTIVATE re-posts itself.
QueueBounded == Len(signals) <= 3

Lifecycle == INSTANCE ProgramLifecycle WITH
  phase     <- published.state,
  qnn       <- published.qnn,
  live      <- published.live,
  initError <- published.initError,
  object    <- IF op = "destroy" \/ object = "deactivating" THEN "alive" ELSE object

\* Every call and every event acts as the one atomic step ProgramLifecycle
\* allows for it, and returns the status that goes with it.
ImplementsLifecycle == Lifecycle!Spec

\* A thread that locked programMutex_ gets out again: no sequence of signals
\* keeps run() busy for ever.
CallReturns == (holder # Nobody) ~> (holder = Nobody)

=============================================================================
