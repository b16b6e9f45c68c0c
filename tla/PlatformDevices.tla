-------------------------- MODULE PlatformDevices --------------------------
(***************************************************************************)
(* The handles of the devices: each factory keeps a handle of its own for  *)
(* every device; the monitor thread closes and opens them when a device    *)
(* goes and comes (QRuntimePlatformKmdDeviceFactory.cpp), and a status     *)
(* query that finds its file dead opens it again                           *)
(* (QRuntimePlatformKmdDevice.cpp over                                     *)
(* dev/aic100/QRuntimePlatformDeviceAic100.cpp).  No lock protects a       *)
(* handle.  A step is one system call with what follows it.                *)
(*                                                                         *)
(* The kernel is external: it gives a device that comes up the node of any *)
(* free name, and a file of a device that went away answers ENODEV though  *)
(* the device is back.  udev tells the monitor of base devices, in order.  *)
(***************************************************************************)
EXTENDS DeviceFactory

CONSTANTS
  Users,        \* threads that query devices
  Queried,      \* bound: which devices of which factory they query
  Monitor,      \* the thread of DEVICE_STATE_WORKQUEUE
  MaxFiles,     \* bound: files open at once
  MaxOutages,   \* bound: times a device goes away
  Returning,    \* bound: devices that come back
  MaxRuntimes,  \* bound: attempts to get the runtime
  MaxRefused    \* bound: nodes of derived devices a factory finds and cannot open

ASSUME MonitorAssumption == Monitor \notin Users
ASSUME QueriedAssumption == Queried \subseteq [f : {"platform", "runtime"}, q : Nat]
ASSUME BoundsAssumption == MaxFiles \in Nat /\ MaxOutages \in Nat /\ MaxRuntimes \in Nat /\ MaxRefused \in Nat

Factories == {"platform", "runtime"}
Actors == Users \cup {Monitor}

VARIABLES
  node,        \* /dev/accel
  life,        \* how often each device came up
  outages,
  files,       \* file table of the process: the device and its life then
  events,      \* DEVICE_UP and DEVICE_DOWN not yet handled
  devMap,      \* rtPlatformKmdDevMap_ and devMap_: the devices of each factory
  udevMap,     \* udevMap_ of each factory
  observers,   \* deviceObservers_: the factories, the last one registered first
  runtimes,    \* attempts to get the runtime
  call,        \* what each thread is doing
  disturbed    \* history: a handle was used while another thread reopened it;
               \* nothing is said of a process once that happened, and the model stops

kernel == <<node, life, outages>>
built  == <<udevMap, observers, runtimes>>
vars   == <<kernel, files, events, devMap, built, call, disturbed>>

Closed == [dev |-> NoDevice, life |-> 0]
Idle   == [at |-> "idle"]

Present(d) == NodeOf(node, d) # {}
FreeFiles == {n \in DOMAIN files : files[n] = Closed}

\* The handle a call is about; one step of a call on it.
Handle(a) == devMap[call[a].f][call[a].q]
HasPciInfo(a) == Handle(a).dev \in Base
At(a, where) == call[a].at = where
Set(a, handle) == devMap' = [devMap EXCEPT ![call[a].f][call[a].q] = handle]
Go(a, where) == call' = [call EXCEPT ![a].at = where]

\* A handle is being reopened from close() until open() returns.  No thread
\* minds another that is at it.
Uses(a) ==
  disturbed' = (disturbed \/ \E b \in Actors \ {a} :
    /\ call[b].at \in {"clear", "resolve", "open"}
    /\ call[b].f = call[a].f /\ call[b].q = call[a].q)

\* DEVICE_UP may come for a handle that is open: the factory was made after the
\* device came up and before the monitor told of it.  The handle is opened
\* again, by the name it has, and the file of before stays open.
TellsOld(a) == a = Monitor /\ Handle(a).fd # NoHandle

-----------------------------------------------------------------------------
(* The kernel and udev.                                                    *)

Notice(kind, d) ==
  events' = IF observers = <<>> THEN events ELSE Append(events, [kind |-> kind, dev |-> d])

\* A base device goes away, and what was made of it with it.  Between finding
\* the node and opening it that makes open() fail, or open another device.
DeviceGoes(d) ==
  /\ ~disturbed
  /\ d \in Base /\ Present(d) /\ outages < MaxOutages
  /\ node' = [n \in Names |-> IF node[n] = d \/ (node[n] \in Derived /\ Parent[node[n]] = d)
                              THEN NoDevice ELSE node[n]]
  /\ outages' = outages + 1
  /\ Notice("DEVICE_DOWN", d)
  /\ disturbed' = (disturbed \/ \E a \in Actors : At(a, "open") /\ Handle(a).dev = d)
  /\ UNCHANGED <<life, files, devMap, built, call>>

\* The notification of a derived device is skipped (isDerivedDevice).
DeviceComes(d, n) ==
  /\ ~disturbed
  /\ d \in Returning /\ ~Present(d) /\ node[n] = NoDevice
  /\ d \in Derived => Present(Parent[d])
  /\ node' = [node EXCEPT ![n] = d]
  /\ life' = [life EXCEPT ![d] = @ + 1]
  /\ IF d \in Base THEN Notice("DEVICE_UP", d) ELSE UNCHANGED events
  /\ UNCHANGED <<outages, files, devMap, built, call, disturbed>>

-----------------------------------------------------------------------------
(* QRuntimePlatformDeviceAic100: the steps of closeDevice and openDevice.  *)
(* What follows depends on the call: an event is over for this factory, a  *)
(* query goes on.                                                          *)

\* Fault: only the observer that registered last is told.
notifyNext_First(a) == call' = [call EXCEPT ![a] = Idle]

\* notifyDeviceEvent ignores what came of it; the next factory is told.
notifyNext(a) ==
  call' = [call EXCEPT ![a] =
    IF call[a].rest = <<>> THEN Idle
    ELSE [call[a] EXCEPT !.f = Head(call[a].rest), !.rest = Tail(call[a].rest),
                         !.at = IF call[a].op = "DEVICE_DOWN" THEN "close" ELSE "resolve"]]

\* statusQuery returns: getStatus remembers how the query ended, getBoardInfo
\* does not.
getStatus(a, status, handle) ==
  /\ \/ Set(a, [handle EXCEPT !.status = IF status = "QS_SUCCESS" THEN "QDS_READY" ELSE "QDS_ERROR"])
     \/ Set(a, handle)
  /\ call' = [call EXCEPT ![a] = Idle]

\* Fault: the type of the response is not looked at.
respond_Unseen(a, response, handle) ==
  getStatus(a, IF response = "failed" THEN "QS_DEV_ERROR" ELSE "QS_SUCCESS", handle)

\* What is in the buffer: still the request, or an answer.  After the last try
\* found its file dead and reopened it, only this tells that nothing answered.
respond(a, response, handle) ==
  getStatus(a, IF response = "answered" THEN "QS_SUCCESS"
               ELSE IF response = "failed" THEN "QS_DEV_ERROR" ELSE "QS_INVAL", handle)

\* reloadDevHandle returned: try again, if a try is left.
retry(a, handle) ==
  IF call[a].tries > 0 THEN Set(a, handle) /\ Go(a, "ioctl") ELSE respond(a, "request", handle)

\* close() or open() failed; errno is neither EINTR nor ENODEV then.
fail(a, handle) ==
  IF a = Monitor THEN Set(a, handle) /\ notifyNext(a) ELSE getStatus(a, "QS_INVAL", handle)

\* close() of a number that is not open fails, and the name is kept.
closeDevice(a) ==
  LET fd == Handle(a).fd IN
  /\ ~disturbed /\ At(a, "close") /\ Uses(a)
  /\ IF fd # NoHandle /\ files[fd] # Closed
     THEN /\ files' = [files EXCEPT ![fd] = Closed]
          /\ Go(a, "clear") /\ UNCHANGED devMap
     ELSE fail(a, Handle(a)) /\ UNCHANGED files
  /\ UNCHANGED <<kernel, events, built>>

\* A derived device keeps its name, which it could not find again, and the
\* number of the file it closed.
cleared(a) ==
  IF HasPciInfo(a) THEN [Handle(a) EXCEPT !.name = Unnamed, !.fd = NoHandle] ELSE Handle(a)

closeDeviceClears(a) ==
  /\ ~disturbed /\ At(a, "clear") /\ Uses(a)
  /\ Set(a, cleared(a))
  /\ IF a = Monitor THEN notifyNext(a) ELSE Go(a, "resolve")
  /\ UNCHANGED <<kernel, files, events, built>>

\* openDevice looks for the node of a PCI device whose name is not known.
openDevice(a) ==
  LET name == getDevicePath(Handle(a).name, Handle(a).dev, node) IN
  /\ ~disturbed /\ At(a, "resolve")
  /\ IF TellsOld(a) THEN disturbed' = TRUE ELSE Uses(a)
  /\ IF isDeviceValid(name)
     THEN Set(a, [Handle(a) EXCEPT !.name = name]) /\ Go(a, "open")
     ELSE fail(a, [Handle(a) EXCEPT !.name = name])
  /\ UNCHANGED <<kernel, files, events, built>>

\* open(): the file of before is not closed.
openDeviceOpens(a) ==
  LET name == Handle(a).name
      d == IF name \in Names THEN node[name] ELSE NoDevice
      fd == CHOOSE n \in FreeFiles : \A m \in FreeFiles : n <= m
  IN
  /\ ~disturbed /\ At(a, "open") /\ Uses(a)
  /\ IF d # NoDevice /\ FreeFiles # {}
     THEN LET opened == [Handle(a) EXCEPT !.fd = fd] IN
          /\ files' = [files EXCEPT ![fd] = [dev |-> d, life |-> life[d]]]
          /\ IF a = Monitor THEN Set(a, opened) /\ notifyNext(a) ELSE retry(a, opened)
     ELSE fail(a, [Handle(a) EXCEPT !.fd = NoHandle, !.failed = TRUE]) /\ UNCHANGED files
  /\ UNCHANGED <<kernel, events, built>>

-----------------------------------------------------------------------------
(* Events: the monitor tells the factories one after another.              *)

notifyDeviceEvent ==
  /\ ~disturbed /\ call[Monitor] = Idle /\ events # <<>>
  /\ call' = [call EXCEPT ![Monitor] =
       [at |-> IF Head(events).kind = "DEVICE_DOWN" THEN "close" ELSE "resolve",
        op |-> Head(events).kind, q |-> QidOf(Head(events).dev),
        f |-> Head(observers), rest |-> Tail(observers)]]
  /\ events' = Tail(events)
  /\ UNCHANGED <<kernel, files, devMap, built, disturbed>>

-----------------------------------------------------------------------------
(* Users: queryStatus and getBoardInfo of QRuntimePlatform.                *)

statusQuery(a, f, q) ==
  /\ ~disturbed /\ call[a] = Idle /\ getRtPlatformDevice(devMap[f], q) # {}
  /\ call' = [call EXCEPT ![a] = [at |-> "ioctl", f |-> f, q |-> q, tries |-> 2]]
  /\ UNCHANGED <<kernel, files, events, devMap, built, disturbed>>

Alive(file) == file # Closed /\ Present(file.dev) /\ life[file.dev] = file.life

\* errno after the command.  A handle that is not open is refused without a
\* system call, and errno is what some call before left.
Errno(a) ==
  LET fd == Handle(a).fd IN
  IF fd = NoHandle THEN {"ENODEV", "EINTR", "other"}
  ELSE IF files[fd] = Closed THEN {"other"}
  ELSE IF Alive(files[fd]) THEN {"none", "EINTR"} ELSE {"ENODEV"}

\* statusQuery's loop, around runDevCmd.
runDevCmd(a, errno, response) ==
  /\ ~disturbed /\ At(a, "ioctl") /\ errno \in Errno(a) /\ Uses(a)
  /\ errno # "none" => response = "answered"
  /\ \/ errno = "none" /\ respond(a, response, Handle(a))
     \/ errno = "ENODEV" /\ UNCHANGED devMap
        /\ call' = [call EXCEPT ![a].at = "close", ![a].tries = @ - 1]
     \/ errno = "EINTR" /\ getStatus(a, "QS_AGAIN", Handle(a))
     \/ errno = "other" /\ getStatus(a, "QS_INVAL", Handle(a))
  /\ UNCHANGED <<kernel, files, events, built>>

-----------------------------------------------------------------------------
(* The managers: a factory registers as an observer when it is made.       *)

Refusals == {r \in SUBSET {n \in Names : node[n] \in Derived} : Cardinality(r) <= MaxRefused}
Openable(refused) == {n \in Names \ refused : node[n] # NoDevice}
OpenedBy(devs) ==
  files' = [n \in DOMAIN files |->
    IF \E q \in DOMAIN devs : devs[q].fd = n
    THEN LET d == (CHOOSE e \in Range(devs) : e.fd = n).dev IN [dev |-> d, life |-> life[d]]
    ELSE files[n]]
Register(f, devs) ==
  /\ devMap' = [devMap EXCEPT ![f] = devs]
  /\ udevMap' = [udevMap EXCEPT ![f] = createUdevMap(node)]
  /\ observers' = <<f>> \o observers

\* The platform is made once; refused: nodes that open() refuses for now.
getRuntimePlatform(refused) ==
  LET devs == initDevices(node, Openable(refused), files) IN
  /\ ~disturbed /\ "platform" \notin ToSet(observers)
  /\ Cardinality(DOMAIN devs) <= Cardinality(FreeFiles)
  /\ OpenedBy(devs) /\ Register("platform", devs)
  /\ UNCHANGED <<kernel, events, runtimes, call, disturbed>>

\* The runtime is made and its devices are queried.  When it is refused the
\* factory goes, and the files of its devices stay open.
getRuntime(refused, answer) ==
  LET devs == initDevices(node, Openable(refused), files)
      queried == [q \in DOMAIN devs |->
        IF q \notin DOMAIN enumAicDevices THEN devs[q]
        ELSE [devs[q] EXCEPT !.status = IF answer[q] = "failed" THEN "QDS_ERROR" ELSE "QDS_READY"]]
  IN
  /\ ~disturbed /\ "runtime" \notin ToSet(observers) /\ runtimes < MaxRuntimes
  /\ Cardinality(DOMAIN devs) <= Cardinality(FreeFiles)
  /\ \A q \in DOMAIN enumAicDevices : devs[q].fd = NoHandle => answer[q] = "failed"
  /\ OpenedBy(devs)
  /\ runtimes' = runtimes + 1
  /\ IF checkFWVersions(devs, answer) THEN Register("runtime", queried)
     ELSE UNCHANGED <<devMap, udevMap, observers>>
  /\ UNCHANGED <<kernel, events, call, disturbed>>

-----------------------------------------------------------------------------
\* The nodes when the process starts.
InitNode == LET parts == CHOOSE p \in [1..Cardinality(Derived) -> Derived] : IsInjective(p)
                order == PciOrder \o parts
            IN [n \in Names |-> LET i == CHOOSE i \in DOMAIN NameOrder : NameOrder[i] = n
                                 IN IF i \in DOMAIN order THEN order[i] ELSE NoDevice]

Init ==
  /\ node = InitNode
  /\ life = [d \in Devices |-> 1]
  /\ outages = 0
  /\ files = [n \in 0..(MaxFiles - 1) |-> Closed]
  /\ events = <<>>
  /\ devMap = [f \in Factories |-> <<>>]
  /\ udevMap = [f \in Factories |-> {}]
  /\ observers = <<>>
  /\ runtimes = 0
  /\ call = [a \in Actors |-> Idle]
  /\ disturbed = FALSE

DeviceStep(a) ==
  \/ closeDevice(a) \/ closeDeviceClears(a) \/ openDevice(a) \/ openDeviceOpens(a)
  \/ \E errno \in {"none", "ENODEV", "EINTR", "other"}, response \in {"answered", "failed"} :
       runDevCmd(a, errno, response)

Next ==
  \/ \E d \in Devices : DeviceGoes(d)
  \/ \E d \in Devices, n \in Names : DeviceComes(d, n)
  \/ notifyDeviceEvent
  \/ \E a \in Actors : DeviceStep(a)
  \/ \E a \in Users, h \in Queried : statusQuery(a, h.f, h.q)
  \/ \E refused \in Refusals : getRuntimePlatform(refused)
  \/ \E refused \in Refusals, answer \in [DOMAIN enumAicDevices -> {"match", "failed", "mismatch", "older"}] :
       getRuntime(refused, answer)

Spec == Init /\ [][Next]_vars

\* The monitor's thread runs, and a call that is under way goes on.
FairSpec == Spec /\ WF_vars(notifyDeviceEvent) /\ \A a \in Actors : WF_vars(DeviceStep(a))

-----------------------------------------------------------------------------
FileOf(handle) == IF handle.fd = NoHandle THEN Closed ELSE files[handle.fd]

TypeOK ==
  /\ node \in [Names -> Devices \cup {NoDevice}]
  /\ life \in [Devices -> Nat]
  /\ outages \in 0..MaxOutages
  /\ files \in [0..(MaxFiles - 1) -> [dev : Devices \cup {NoDevice}, life : Nat]]
  /\ \A f \in Factories : \A q \in DOMAIN devMap[f] : devMap[f][q] \in
       [dev : Devices, name : Names \cup {Unnamed, Invalid}, fd : {NoHandle} \cup DOMAIN files,
        status : {"QDS_INITIALIZING", "QDS_READY", "QDS_ERROR"}, failed : BOOLEAN]

\* A status query makes a base device ready only when that device answered, in
\* its present life, however node names and file numbers move between devices:
\* a query that only reopened the file, or went to another device, does not.
\* This holds as long as every open of the handle went well (after one that did
\* not the handle keeps a name that may become another device's), no two threads
\* met on a handle that is being reopened, no open handle was opened again and
\* no device went away between the search for its node and the open.
ReadyIsTrue ==
  [][~disturbed' => \A f \in Factories : \A q \in DOMAIN devMap[f] :
       LET handle == devMap[f][q] IN
       /\ handle.dev \in Base /\ ~devMap'[f][q].failed
       /\ handle.status # "QDS_READY" /\ devMap'[f][q].status = "QDS_READY"
       => Alive(FileOf(handle)) /\ FileOf(handle).dev = handle.dev]_vars

\* The two factories call a derived device by the same QID when they saw the
\* same nodes, whichever of the nodes each could not open.
SameDevice ==
  udevMap["platform"] = udevMap["runtime"] =>
    \A q \in (DOMAIN devMap["platform"] \cap DOMAIN devMap["runtime"]) \ DOMAIN enumAicDevices :
      devMap["platform"][q].name = devMap["runtime"][q].name

\* A base device that comes back and stays is open again in both factories, if
\* no open failed in between, under the conditions of ReadyIsTrue.
Reopened ==
  \A f \in Factories, q \in DOMAIN enumAicDevices :
    LET d == enumAicDevices[q] IN
    <>[](Present(d) /\ ~disturbed /\ q \in DOMAIN devMap[f] /\ ~devMap[f][q].failed)
    => <>[](q \in DOMAIN devMap[f] /\ FileOf(devMap[f][q]) = [dev |-> d, life |-> life[d]])
=============================================================================
