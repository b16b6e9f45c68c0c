------------------------- MODULE ProgramActivation -------------------------
(***************************************************************************)
(* A program and its execution objects: QProgram, which counts activation  *)
(* handles (lib/core/src/QProgram.cpp), and QExecObj, which takes one      *)
(* handle when it is created and gives it back when it is destroyed        *)
(* (lib/core/src/QExecObj.cpp).  The device side is ProgramLifecycle: every *)
(* call of QProgramDevice is one of its steps, which ProgramDevice is      *)
(* shown to implement.                                                     *)
(*                                                                         *)
(* An execution object is created, run and destroyed by a thread of its    *)
(* own; other threads load, activate, deactivate and unload the program;   *)
(* the workqueue thread delivers device events.  A step is what happens    *)
(* between two lock operations: a call that holds programMutex_ over two   *)
(* calls of the device takes two steps, and events come in between.        *)
(***************************************************************************)
EXTENDS Naturals, FiniteSets

CONSTANTS
  Threads,            \* application threads that use the program
  Nobody,             \* "no thread holds programMutex_"
  ExecObjs,           \* execution objects
  AutoObjs,           \* those with QAIC_EXECOBJ_PROPERTIES_AUTO_LOAD_ACTIVATE
  Networks, NoNet,
  DeactivateMayFail,  \* may the device refuse to deactivate a network?
  DeviceFaults        \* may device operations fail and devices go down?

ASSUME OwnersAssumption ==
  Nobody \notin Threads \cup ExecObjs /\ Threads \cap ExecObjs = {}
ASSUME ObjectsAssumption == IsFiniteSet(ExecObjs)
ASSUME AutoAssumption == AutoObjs \subseteq ExecObjs
ASSUME NetworksAssumption == NoNet \notin Networks
ASSUME FaultsAssumption == DeviceFaults \in BOOLEAN /\ DeactivateMayFail \in BOOLEAN

VARIABLES
  phase, qnn, live, initError, execObjs, object, last,  \* QProgramDevice
  manual,      \* isManuallyActivated_
  refs,        \* programDeviceRefCount_
  mutex,       \* who holds QProgram::programMutex_
  pc,          \* where each execution object is in its life
  call,        \* what each application thread is in the middle of
  net,         \* qnn_ of each execution object
  using,       \* the pointer an inference got from nn()
  lost         \* history: networks that a device error hit

Device == INSTANCE ProgramLifecycle
device == <<phase, qnn, live, initError, execObjs, object, last>>
program == <<manual, refs, mutex>>
vars == <<device, program, pc, call, net, using, lost>>

Stages ==
  {"absent", "registered", "load", "get", "activate", "activating", "check", "bind",
   "ready", "prepare", "submit", "enqueue", "finish", "wait",
   "failed", "dtor", "put", "putting"}
Calls == {"idle", "activate", "deactivating", "unloading"}

\* The stages in which an execution object has its network.
Bound == {"ready", "prepare", "submit", "enqueue", "finish", "wait"}

-----------------------------------------------------------------------------
Go(e, stage) == pc' = [pc EXCEPT ![e] = stage]
MutexFree == mutex = Nobody
Succeeds == last'.ok

\* Without device faults every reply is a success, and no handle is refused.
Reply == DeviceFaults \/ Succeeds

\* A network that a device error hit, whether it was torn down or the device
\* refused and it was abandoned, does not come back: a new one is a new object.
Fresh == (qnn' # qnn => qnn' \notin lost) /\ UNCHANGED lost

Lose ==
  lost' = IF phase' = "device_error" THEN lost \cup ({qnn} \ {NoNet}) ELSE lost

DeviceCall(step) == step /\ Reply /\ Fresh /\ UNCHANGED <<execObjs, object>>

\* A deactivation the device refuses puts the program in device_error.
Teardown(step) == step /\ Lose /\ UNCHANGED <<execObjs, object>>

-----------------------------------------------------------------------------
(* createExecObj and init.                                                 *)

createExecObj(e) ==
  /\ object = "alive" /\ pc[e] = "absent"
  /\ Device!Register(e)
  /\ Go(e, "registered")
  /\ UNCHANGED <<program, call, net, using, lost>>

\* The program is activated for it, unless someone activated it by hand.
initMode(e) ==
  /\ pc[e] = "registered"
  /\ Go(e, IF e \in AutoObjs /\ ~manual THEN "load" ELSE "check")
  /\ UNCHANGED <<device, program, call, net, using, lost>>

load(e) ==
  /\ pc[e] = "load" /\ MutexFree
  /\ DeviceCall(Device!Load)
  /\ Go(e, IF Succeeds THEN "get" ELSE "failed")
  /\ UNCHANGED <<program, call, net, using>>

\* getActivationHandle: count first, under programDeviceInitMutex_.
getActivationHandle(e) ==
  /\ pc[e] = "get"
  /\ refs' = refs + 1
  /\ Go(e, "activate")
  /\ UNCHANGED <<device, manual, mutex, call, net, using, lost>>

\* A ready program is shared; otherwise it is loaded, and the result ignored.
shareOrLoad(e) ==
  /\ pc[e] = "activate" /\ MutexFree
  /\ \/ /\ phase = "ac_ready"
        /\ Go(e, "check")
        /\ UNCHANGED <<device, mutex, lost>>
     \/ /\ phase # "ac_ready"
        /\ DeviceCall(Device!Load)
        /\ mutex' = e
        /\ Go(e, "activating")
  /\ UNCHANGED <<manual, refs, call, net, using>>

activate(e) ==
  /\ pc[e] = "activating" /\ mutex = e
  /\ DeviceCall(Device!Activate)
  /\ mutex' = Nobody
  /\ Go(e, IF Succeeds THEN "check" ELSE "failed")
  /\ UNCHANGED <<manual, refs, call, net, using>>

checkActive(e) ==
  /\ pc[e] = "check"
  /\ Go(e, IF phase = "ac_ready" THEN "bind" ELSE "failed")
  /\ UNCHANGED <<device, program, call, net, using, lost>>

\* nn(), then the inference handle of that network, which may be refused.
bind(e) ==
  /\ pc[e] = "bind" /\ MutexFree
  /\ net' = [net EXCEPT ![e] = qnn]
  /\ \/ qnn # NoNet /\ Go(e, "ready")
     \/ (qnn = NoNet \/ DeviceFaults) /\ Go(e, "failed")
  /\ UNCHANGED <<device, program, call, using, lost>>

-----------------------------------------------------------------------------
(* releaseExecObj or a failed creation, then the destructor.               *)

unregisterExecObj(e) ==
  /\ pc[e] \in {"ready", "failed"}
  /\ Device!Unregister(e)
  /\ net' = [net EXCEPT ![e] = NoNet]
  /\ Go(e, "dtor")
  /\ UNCHANGED <<program, call, using, lost>>

\* Fault: only an execution object that was the last but one deactivates.
putActivationHandle_Forgets(e) ==
  /\ pc[e] = "dtor"
  /\ \/ /\ e \in AutoObjs /\ ~manual
        /\ refs' = IF refs > 0 THEN refs - 1 ELSE 0
        /\ Go(e, IF refs' = 1 THEN "put" ELSE "absent")
     \/ /\ e \notin AutoObjs \/ manual
        /\ Go(e, "absent")
        /\ UNCHANGED refs
  /\ UNCHANGED <<device, manual, mutex, call, net, using, lost>>

\* The destructor gives back a handle whether or not it got one, and looks at
\* isManuallyActivated_ as it is by now.
putActivationHandle(e) ==
  /\ pc[e] = "dtor"
  /\ \/ /\ e \in AutoObjs /\ ~manual
        /\ refs' = IF refs > 0 THEN refs - 1 ELSE 0
        /\ Go(e, IF refs' = 0 THEN "put" ELSE "absent")
     \/ /\ e \notin AutoObjs \/ manual
        /\ Go(e, "absent")
        /\ UNCHANGED refs
  /\ UNCHANGED <<device, manual, mutex, call, net, using, lost>>

\* Fault: execObjs_ is not looked at.
putCheck_Blind(e) ==
  /\ pc[e] = "put" /\ MutexFree
  /\ mutex' = e /\ Go(e, "putting")
  /\ UNCHANGED <<device, manual, refs, call, net, using, lost>>

\* DEACTIVATE_FULL looks at execObjs_ before it locks the device.
putCheck(e) ==
  /\ pc[e] = "put" /\ MutexFree
  /\ IF execObjs # {}
     THEN Go(e, "absent") /\ UNCHANGED mutex
     ELSE Go(e, "putting") /\ mutex' = e
  /\ UNCHANGED <<device, manual, refs, call, net, using, lost>>

putDeactivate(e) ==
  /\ pc[e] = "putting" /\ mutex = e
  /\ Teardown(Device!Deactivate)
  /\ mutex' = Nobody
  /\ Go(e, "absent")
  /\ UNCHANGED <<manual, refs, call, net, using>>

-----------------------------------------------------------------------------
(* run(): one inference.                                                   *)

runCheck(e) ==
  /\ pc[e] = "ready" /\ phase = "ac_ready"
  /\ Go(e, "prepare")
  /\ UNCHANGED <<device, program, call, net, using, lost>>

\* preTransform prepares the data with the network of the creation.
preTransform(e) ==
  /\ pc[e] = "prepare"
  /\ Go(e, "submit") \/ (DeviceFaults /\ Go(e, "ready"))
  /\ UNCHANGED <<device, program, call, net, using, lost>>

\* submit() and finish() each look at the device and ask for the network.
nn(e, from, to) ==
  /\ pc[e] = from /\ MutexFree
  /\ IF phase # "device_error" /\ qnn # NoNet
     THEN using' = [using EXCEPT ![e] = qnn] /\ Go(e, to)
     ELSE UNCHANGED using /\ Go(e, "ready")
  /\ UNCHANGED <<device, program, call, net, lost>>

submit(e) == nn(e, "submit", "enqueue")
finish(e) == nn(e, "finish", "wait")

enqueueData(e) ==
  /\ pc[e] = "enqueue"
  /\ \/ Go(e, "finish") /\ UNCHANGED using
     \/ DeviceFaults /\ Go(e, "ready") /\ using' = [using EXCEPT ![e] = NoNet]
  /\ UNCHANGED <<device, program, call, net, lost>>

wait(e) ==
  /\ pc[e] = "wait"
  /\ Go(e, "ready")
  /\ using' = [using EXCEPT ![e] = NoNet]
  /\ UNCHANGED <<device, program, call, net, lost>>

-----------------------------------------------------------------------------
(* The program API.                                                        *)

apiLoad(t) ==
  /\ object = "alive" /\ call[t] = "idle" /\ MutexFree
  /\ DeviceCall(Device!Load)
  /\ UNCHANGED <<program, pc, call, net, using>>

\* Fault: unload() does not look at execObjs_.
apiUnload_Blind(t) ==
  /\ object = "alive" /\ call[t] = "idle" /\ MutexFree
  /\ Teardown(Device!Unload)
  /\ UNCHANGED <<manual, refs, mutex, pc, call, net, using>>

\* unload() looks at execObjs_ with both mutexes held; registration needs
\* neither, so an execution object may appear before the network is torn down.
apiUnload(t) ==
  /\ object = "alive" /\ call[t] = "idle" /\ MutexFree
  /\ \/ /\ phase = "ac_ready" /\ execObjs = {}
        /\ mutex' = t /\ call' = [call EXCEPT ![t] = "unloading"]
        /\ UNCHANGED <<device, lost>>
     \/ /\ phase = "ac_ready" /\ execObjs # {}
        /\ Device!Stay("unload", FALSE)
        /\ UNCHANGED <<execObjs, object, mutex, call, lost>>
     \/ /\ phase # "ac_ready"
        /\ Teardown(Device!Unload)
        /\ UNCHANGED <<mutex, call>>
  /\ UNCHANGED <<manual, refs, pc, net, using>>

apiUnloadTeardown(t) ==
  /\ call[t] = "unloading" /\ mutex = t
  /\ Teardown(Device!Teardown("unload", "created"))
  /\ mutex' = Nobody
  /\ call' = [call EXCEPT ![t] = "idle"]
  /\ UNCHANGED <<manual, refs, pc, net, using>>

\* The flag is set before the mutex is taken, and never reset.
apiActivateFlag(t) ==
  /\ object = "alive" /\ call[t] = "idle"
  /\ manual' = TRUE
  /\ call' = [call EXCEPT ![t] = "activate"]
  /\ UNCHANGED <<device, refs, mutex, pc, net, using, lost>>

apiActivate(t) ==
  /\ call[t] = "activate" /\ MutexFree
  /\ DeviceCall(Device!Activate)
  /\ call' = [call EXCEPT ![t] = "idle"]
  /\ UNCHANGED <<program, pc, net, using>>

apiDeactivateCheck(t) ==
  /\ object = "alive" /\ call[t] = "idle" /\ MutexFree
  /\ execObjs = {}                  \* else QS_INVAL
  /\ mutex' = t
  /\ call' = [call EXCEPT ![t] = "deactivating"]
  /\ UNCHANGED <<device, manual, refs, pc, net, using, lost>>

apiDeactivate(t) ==
  /\ call[t] = "deactivating" /\ mutex = t
  /\ Teardown(Device!Deactivate)
  /\ mutex' = Nobody
  /\ call' = [call EXCEPT ![t] = "idle"]
  /\ UNCHANGED <<manual, refs, pc, net, using>>

-----------------------------------------------------------------------------
\* An event of the device, on the workqueue thread, under no lock of QProgram.
deviceEvent ==
  /\ DeviceFaults
  /\ \A t \in Threads : call[t] # "unloading"   \* the device is locked
  /\ Device!DeviceEvent
  /\ Lose
  /\ UNCHANGED <<program, pc, call, net, using>>

\* The last reference to the program is dropped.
destroyProgram ==
  /\ object = "alive"
  /\ \A e \in ExecObjs : pc[e] = "absent"
  /\ \A t \in Threads : call[t] = "idle"
  /\ Device!Destroy
  /\ UNCHANGED <<program, pc, call, net, using, lost>>

programGone ==
  /\ Device!Vanish
  /\ UNCHANGED <<program, pc, call, net, using, lost>>

Gone == object = "gone" /\ UNCHANGED vars

Init ==
  /\ Device!Init
  /\ DeviceFaults \/ ~initError
  /\ manual = FALSE /\ refs = 0 /\ mutex = Nobody
  /\ pc = [e \in ExecObjs |-> "absent"]
  /\ call = [t \in Threads |-> "idle"]
  /\ net = [e \in ExecObjs |-> NoNet]
  /\ using = [e \in ExecObjs |-> NoNet]
  /\ lost = {}

ExecObjStep(e) ==
  \/ createExecObj(e) \/ initMode(e) \/ load(e) \/ getActivationHandle(e)
  \/ shareOrLoad(e) \/ activate(e) \/ checkActive(e) \/ bind(e)
  \/ unregisterExecObj(e) \/ putActivationHandle(e) \/ putCheck(e) \/ putDeactivate(e)
  \/ runCheck(e) \/ preTransform(e) \/ submit(e) \/ enqueueData(e) \/ finish(e) \/ wait(e)

ApiStep(t) ==
  \/ apiLoad(t) \/ apiUnload(t) \/ apiUnloadTeardown(t) \/ apiActivateFlag(t) \/ apiActivate(t)
  \/ apiDeactivateCheck(t) \/ apiDeactivate(t)

Next ==
  \/ \E e \in ExecObjs : ExecObjStep(e)
  \/ \E t \in Threads : ApiStep(t)
  \/ deviceEvent \/ destroyProgram \/ programGone \/ Gone

Spec == Init /\ [][Next]_vars

-----------------------------------------------------------------------------
(* Properties.                                                             *)

\* Every variable has its type; a handle that is counted was asked for.
TypeOK ==
  /\ manual \in BOOLEAN
  /\ refs \in 0..Cardinality(ExecObjs)
  /\ mutex \in ExecObjs \cup Threads \cup {Nobody}
  /\ pc \in [ExecObjs -> Stages]
  /\ call \in [Threads -> Calls]
  /\ net \in [ExecObjs -> Networks \cup {NoNet}]
  /\ using \in [ExecObjs -> Networks \cup {NoNet}]
  /\ lost \subseteq Networks

\* No call of any thread takes the network away from an execution object that
\* was created on it: only a device error does.  deactivate() and the handles
\* that are given back rely on a list looked at before the device is locked.
ExecObjsKeepNetwork ==
  \A e \in ExecObjs :
    /\ pc[e] \in Bound => net[e] \in live \cup lost
    /\ pc[e] \in {"enqueue", "wait"} => using[e] \in live \cup lost

\* An inference prepared on one network is submitted to the same one, unless a
\* device error replaced it in between.
PreparedWhereSubmitted ==
  \A e \in ExecObjs :
    pc[e] \in {"enqueue", "finish", "wait"} /\ using[e] # net[e] => net[e] \in lost

\* When every execution object asks for activation and nobody activates by
\* hand, the program is not left active after the last of them is gone.
DeactivatedWithLast ==
  /\ ~manual
  /\ AutoObjs = ExecObjs
  /\ \A e \in ExecObjs : pc[e] = "absent"
  => phase # "ac_ready"

=============================================================================
