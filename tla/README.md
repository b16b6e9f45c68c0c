# A formal model of the Cloud AI 100 software kit

This directory is a TLA+ development of the user-space runtime in this
repository: the library an application links to load a compiled network onto a
Cloud AI 100 card, activate it, and run inferences on it. The modules are
translations of the code under `lib/`; TLC checks them on small instances and
TLAPS proves theorems about most of them, for instances of every size.

How to read it: section 1 is the inventory of the system, section 2 says which
module stands for what, section 3 goes through the runs, section 4 through the
proofs, section 5 lists what the models and the reading brought to light,
section 6 what is not modelled, and section 7 the plan.

    tlc -workers 2 -config ProgramDevice.cfg ProgramDevice.tla
    tlapm ProgramDeviceProofs.tla

## 1. The system

### Components, state, operations

| component | state | operations |
|---|---|---|
| `QContext` (core) | clients by priority, queue of device events | register and unregister a client, take an event, `run()` on its workqueue |
| `QProgram` (core) | `programMutex_`, count of activation handles, `isManuallyActivated_` | load, unload, activate, deactivate, get and put a handle |
| `QProgramDevice` (core) | a hierarchical state machine with its signal queue, `deviceImage_`, `nnImage_`, `qnn_`, `execObjs_` | the same calls, device events, registration of execution objects |
| `QExecObj` (core) | its network and inference handle | create, run (prepare, submit, finish), destroy |
| `QProgramContainer` (core) | images and constants of a compiled network | give a program its device image, share the constants |
| `QRuntime`, `QKmdDevice`, `QNeuralnetwork` (network-driver) | channel map, reference counts of images, constants and channels | load, activate with retries, deactivate, execute, wait |
| `QDeviceStateMonitor` (runtime-platform) | event queue, observers, status of every virtual channel, timer threads | raise an event, time a subsystem restart, deliver to observers |
| `QWorkqueueProcessor`, `QWorkqueueElement` (runtime-platform) | queue of requests, `ready_`, `terminate_` | ask for a run, withdraw, run, stop |
| `QRuntimePlatformKmdDevice`, the two device factories, the managers | for each factory: QID to handle (name, file, status), the map of derived devices; the observers | enumerate, open, close, command, status query, events, getting the platform and the runtime |
| `QAicQpc`, `QProgramContainer` (parsing), `QProgram::init` | a container in a buffer or file, the copy of the library, its pointers | build, convert, copy, move, free, open, look up, load constants and image |
| `QBindingsParser` | four descriptions of the buffers of a program | derive them from the network description |
| `QImageParser`, `QMetaData`, buffers of `QNeuralnetwork` | request elements, buffer objects, mappings | turn DMA requests into slices; make, size, free buffer objects |
| `InferenceVector`, `QExecObj::setData`, `QPrePostProc`, `PrePostProc` | the data of one inference, its DMA buffers | fill, check, pack, submit, wait, copy back |
| metadata (`metadata-common`, `metadata-flatbuffer`) | a writer under construction, the bytes it makes | write, read, encode, decode, verify, translate |
| logging, named mutex, other C++ wrappers, tools | - | - |

### How they interact

A `QProgram` owns one `QProgramDevice` and hands it to its execution objects.
The calls of an application lock `QProgram::programMutex_` and then the
`programMutex_` of the device, post a signal to the state machine, and run it
until its queue is empty. Entry actions of the machine call the container, the
runtime and the device, and post the signal that says how that went.

An event of a device goes the other way, through two queues and two worker
threads: the monitor thread (or a timer thread) pushes it into
`stateEventsQueue_` and asks the first workqueue for a run; that run tells the
device factory, which opens or closes the file handle, and then every context,
which queues the event again and asks the second workqueue; that run calls the
`QProgramDevice`s by priority, which lock `programMutex_` and post a signal.

Data take a third way. A compiler writes the metadata and the network
description and builds a container of them; an application hands the container
to the library, which copies it, derives the buffers of the program from the
description and the requests of its DMA engine from the metadata; an inference
then goes from the vectors of the application into DMA buffers sized by the one
and sliced by the other.

### What is hard in it

- The state machine is driven by application threads and by a worker thread,
  and its queue mixes what callers post, what entry actions post, and what an
  error posts; the order in the queue decides what a call does.
- Checks are made under one lock, or none, and acted on under another
  (`execObjs_` in `QProgramDevice` and `QProgram`, the channel map in
  `QKmdDevice`, `qnn_` between the preparation of an inference and its
  submission).
- The device may refuse or fail anything, teardown included, and half the
  error paths keep part of what they were releasing.
- Events pass two queues whose mutexes are released during delivery, while
  clients come and go.
- Timers watch a channel, overlap, and race the events they wait for.
- Three retry loops are nested in the submission of an inference, on a queue
  that is shared and may stay full, over a handle that may become invalid.
- Two factories keep handles for the same device nodes, opened and closed by
  name, without a lock, by events and by queries at the same time.
- The same buffer is described four times, by different code; partial inputs
  share one DMA buffer at places that depend on the sizes of the run.
- Containers and metadata hold offsets and pointers into themselves, and are
  written piece by piece, copied, moved and read by other versions.

`PROJECT.json` lists every such place with its line under `hazards`, and says
which property would catch it going wrong.

### What makes each part correct

- a program: between calls it rests; a state holds the image and the network it
  uses; a call is atomic and its status says where it got to; a call returns;
- execution objects: nobody but the device takes the network away from one;
  data go to the network they were prepared for; the last one deactivates;
- workqueue: order, one at a time, nothing forgotten, and it stops when told;
- delivery: every subscribed client hears every event, once and in order, after
  the factory, by priority, and never after it unsubscribed;
- restart watch: an outage that lasts is reported, once, and no other;
- device resources: counters say what is held; the device runs nothing the
  library has lost; what runs keeps its image, constants and channel;
- inference: data are queued once or not at all; success is that of this run;
  a run returns whatever the device does;
- containers: what the library opens is what was compiled, however it came
  there; constants reach the device once; every description of a buffer says
  the same;
- inference data: the outputs are computed from the bytes that were given, all
  of them and no others; every buffer object is given back;
- metadata: a runtime that accepts metadata knows what the compiler said, and
  refuses what it cannot know;
- platform: QIDs name the same device everywhere; a device is called ready when
  it answered; one that comes back can be used again.

## 2. The modules

| module | stands for | abstract counterpart |
|---|---|---|
| `ProgramDevice` | `QProgramDevice.cpp`: one step is one dispatched signal | `ProgramLifecycle` |
| `ProgramDeviceProofs` | theorems about `ProgramDevice` | |
| `ProgramActivation` | `QProgram.cpp` and `QExecObj.cpp` over `ProgramLifecycle` | |
| `ProgramActivationProofs` | theorems about `ProgramActivation` | |
| `Workqueue` | `QWorkqueueProcessor.cpp`, `QWorkqueueElement.cpp` | `WorkqueueService` |
| `EventDelivery` | the queue of `QDeviceStateMonitor.cpp`, the factory as observer, `QContext.cpp`; over two `WorkqueueService`s | `EventBroadcast` |
| `SubSystemRestart` | the timers of `QDeviceStateMonitor.cpp` | |
| `RuntimePlatformProofs` | theorems about `Workqueue`, `EventDelivery`, `SubSystemRestart` | |
| `DeviceResources` | `QProgramContainer.cpp` (images), `QRuntime.cpp`, `QKmdDevice.cpp`, the life of a `QNeuralnetwork` | `NetworkHandles` |
| `DeviceResourcesProofs` | theorems about `DeviceResources` | |
| `InferenceQueue` | `QExecObj::run`, `submit`, `finish`, `QNeuralnetwork::runExecute`, `wait` | `InferenceService` |
| `Qpc` | the container format and its fix-ups (`QAicQpc.cpp`) | |
| `Bindings` | `QBindingsParser.cpp` | |
| `ProgramContainer` | a container from the compiler to the device, over `Qpc` and `Bindings` (`QProgramContainer.cpp`, `QProgram::init`, `QImageParser`) | |
| `ContainerProofs` | theorems about `ProgramContainer` and `Metadata` | |
| `PrePostProc` | `QPrePostProc.cpp`, the copies of `PrePostProc.cpp` | |
| `DmaStencil` | `QImageParser.cpp`, `QMetaData.cpp`, slices of `QNeuralNetwork.cpp` | |
| `InferenceVector` | `InferenceVector` of the C++ interface | |
| `InferenceIO` | one inference from files to outputs, over `InferenceVector`, `PrePostProc`, `DmaStencil` | |
| `InferenceProofs` | theorems about `InferenceQueue` and `InferenceIO` | |
| `MetadataWriter` | the struct form: `AICMetadataWriter.cpp`, `AICMetadataReader.cpp` | |
| `MetadataFlatbuffer` | the flatbuffer form: writer, `metadataflatbufEncode.hpp`, `metadataflatbufDecode.hpp` | |
| `Metadata` | metadata between a compiler and a runtime of different versions, over both | |
| `DeviceFactory` | enumeration, device nodes, both factories, the firmware check | |
| `PlatformDevices` | the handles of both factories, events, status queries, over `DeviceFactory` | |
| `PlatformDevicesProofs` | theorems about `PlatformDevices` | |
| `Numbering` | the loops that number the members of a set or filter a list | |
| `NumberingProofs` | what these return, used by three of the proof modules | |
| `MC...` | constants, inputs and symmetry sets for TLC | |

The abstract modules join the detailed ones. `ProgramDevice` is shown to
implement `ProgramLifecycle`, and `ProgramActivation` uses `ProgramLifecycle`
as its device, so what is checked of execution objects rests on the real state
machine without its queue. `Workqueue` implements `WorkqueueService`, and
`EventDelivery` runs on two instances of that. `ProgramDevice` assumes that a
network it gets is one nobody else has, and `DeviceResources` implements
`NetworkHandles`, which says so. The algorithms on data (`Qpc`, `Bindings`,
`PrePostProc`, `DmaStencil`, `MetadataWriter`, `MetadataFlatbuffer`,
`DeviceFactory`, `Numbering`) are modules of operators without state; the modules that
EXTEND them have the state and compare the results with what was put in at the
other end: the compiler's segments, the application's bytes.

### From the code to the modules

*ProgramDevice.* Each `QHsm` state is a string in `state`; superstates are
sets. A handler of the machine is an operator of the same name that consumes
the head of `signals` and may post behind it; a leaf that does not handle a
signal leaves it to its superstate and in the end to `top`, which drops it, as
the library does. `run()` is `Dispatch`, repeated. The lock is `holder`; `op`
is the call that holds it and `Return` computes the status from the state it
finds, as each call does. Entry actions are operators that take the reply of
the device as a parameter: `validate_action`, `load_action`, `unload_action`,
`activate_action`, `deactivate_action`. `live` is a view of the device: a
network that is active, named by `qnn_` or not. `published` is a history
variable, the machine as the last unlock left it; the refinement needs it
because a call is one step of the abstract module, taken at its return.

*ProgramActivation.* A call that holds the mutex of `QProgram` across two calls
of the device takes two steps; checks made without a lock are steps of their
own (`putCheck`, `apiDeactivateCheck`, `apiActivateFlag`). `pc` says where each
execution object is in the call it is in. `lost` is history: networks that a
device error hit; properties excuse those.

*Workqueue.* A step is what a thread does between taking and releasing
`mutex_`. The worker polls with a timed wait, so a missed signal costs time
only and `wake` needs none.

*EventDelivery.* Steps follow the locks: `deviceObserversMtx_` is held from
`processEvents` to `popEvent`, the mutex of the client list from `callClients`
to `contextPop`; the mutex of each client is `busy`. Events are numbered. The list
sorts by priority, and the instance has two, although all clients in the
repository ask for the same.

*SubSystemRestart.* The clock is a counter in seconds. A timer thread sleeps
until `wake` and then takes one step under `vcStatusMapMutex_`. `vcDown` and
`enterThread` are two steps because a thread is started before it is entered in
`threadMap_`.

*DeviceResources.* A step is one command to the device or what is done under
one lock. The device hands out identifiers that are free, may answer "again",
and may refuse, without effect. Counters wrap at `RefMod` as they do at 2^32:
the code can take one below zero.

*InferenceQueue.* A step is a command with what is done under
`submitWaitMutex_` around it. `errno` is a variable because the code reads it
after calls that may not have made a system call. The kernel driver is
external: it queues an execution whole or not at all, answers `EAGAIN` when
there is no room, refuses a handle that is queued, and executes in order.

*Qpc, ProgramContainer.* Pointers are numbers and a heap maps the address of
each allocation that is alive to its contents; a pointer that leads nowhere
reads `Wild`. A data segment is a slice of what a compiler emitted, so a
copy that is too short or starts too late shows. Every function of the QPC
interface is an action (build in a buffer, build in a file, convert, copy, move,
close, free); `source` remembers which container was compiled. `CreateProgram`
is `QProgram::init`, `LoadConstants`, `LoadImage` and `UnloadImage` are what
activation does with the container. The application follows the rules of the
header: one build for a handle, and a container that was not copied is kept.

*Bindings.* One operator for each `init` function of `QBindingsParser`; the
state `parse` leaves is a record of the descriptions.

*PrePostProc, DmaStencil, InferenceVector, InferenceIO.* Memory is a function
from offsets to cells, and a cell names the byte that is in it. The code copies
without looking at values, so this loses nothing and tells every misplaced byte.
A step of `InferenceIO` is a call of the application (`loadFromFile`,
`setBuffers`, `setData`), or a part of `run()` up to the next command to the
kernel. The kernel and the network are external: an execution reads its inputs
where the slices say, at any time between submission and completion.

*MetadataWriter, MetadataFlatbuffer, Metadata.* Buffers map byte offsets to the
element that starts there. What an entry contains is a value; counts, offsets
and core masks, which the code computes with, are numbers. `Encode` may belong
to a tool of another version than the runtime that decodes; a field is a path of
names, as in the code. The JSON text between `FlatEncode` and its schema is
modelled by the paths that can be found in it.

*DeviceFactory, PlatformDevices.* A step is one system call on a handle with
what follows it; between two steps of a call every other thread may run. The
file table of the process is explicit: a file belongs to one life of a device,
and answers `ENODEV` once that is over. Creating a factory
(`getRuntimePlatform`, `getRuntime`) is one step, and so is the search of
`udev`. `disturbed` is history: two threads met on a handle that is being
reopened, an open handle was opened again, or a device went away between the
search for its node and `open()`. What the code does then is described in
section 5; the model stops there, and the properties speak of what comes before.
`failed` marks a handle whose `open()` failed once, for the same reason.

## 3. The runs

All numbers are distinct states. Every run takes less than four minutes with two
workers.

| run | what it asks | instance |
|---|---|---|
| `program_device` (38 876) | does the state machine rest, hold, refuse and return as it should, and implement `ProgramLifecycle` | 2 threads, the event thread, 1 execution object, 2 networks, refusing device |
| `activate_livelock` | does `activate()` return, as its documentation implies (it does not) | 1 thread, 1 network |
| `program_activation` (1 062 399) | do execution objects keep what they bound, and release it | 1 thread, 2 objects that activate automatically, 2 networks |
| `workqueue` (321) | is nothing forgotten, is `WorkqueueService` implemented, does it stop | 2 elements, 3 pending requests |
| `event_delivery` (157 698) | is delivery in order, complete, by priority, after the factory | 1 context, 2 clients, 2 producers, 2 events |
| `restart_watch` (117 284) | is an outage reported once, in time, and no other | 2 channels, 3 timers, duration 2, 4 ticks |
| `device_resources` (78 763) | are channels, images, constants and counters right when teardown is refused and retried | 2 programs, 3 networks, 3 images, 2 channels |
| `inference_queue` (68 865) | are data queued once, is success this run's, does a run return | 2 objects of 1 and 2 elements, a queue of 2 |
| `program_container` (91 535) | is what the library opened what was compiled, are constants written once, do all descriptions agree | 2 handles, 5 containers, a file, a buffer |
| `inference_io` (188 446) | does a run that succeeds compute with what was given, are buffer objects returned but for those left behind on a failure | 2 networks with partial and full inputs, files of 0 to 2 bytes |
| `metadata` (860 372) | does a runtime know what the compiler said, refuse what it cannot know, and take what is its own | networks of 3 parts, 2 major versions, 3 schemas |
| `platform` (181 085) | do QIDs agree, is ready true, is a device open again after it came back | 1 card, 2 derived devices, 3 nodes, 1 querying thread, 1 outage |

### Why the bounds are enough

*program_device.* Two threads and the event thread give every pair of calls
around a lock that admits one at a time; `cleared`, the set of threads between
the check of `execObjs_` and the lock, is the only state a thread has outside
it, and `object = "deactivating"` that of the destructor between `isActive()`,
which releases the lock, and `deactivate()`, which takes it again. Two networks allow one that was abandoned when its teardown was refused and
one that replaced it, and a third behaves like the second. One execution object
is enough for a list that is only asked whether it is empty. The queue has no
bound: `QueueBounded` shows it stays at three, however long a run goes on.

*program_activation.* Two objects are needed for one to hold a handle while the
other gives one back; the API thread is the third actor in the races on
`execObjs_`. Symmetry is used on objects, which are all automatic, and
networks: the model compares them for equality only, and the run checks
invariants only.

*workqueue.* Three requests allow an element to be queued twice around another
one, which is what `cleanup` and the order need. The bound is a guard of
`notifyReady`.

*event_delivery.* Two events are the least with an order; two producers
allow one to have pushed and not yet asked for a run while the other goes
ahead; two clients allow a priority order and one that unsubscribes during a
delivery. More contexts share nothing but the observer list and the second
workqueue, whose order `workqueue` covers; a second context multiplies the
states beyond what a run can afford.

*restart_watch.* The duration of two ticks lets an event fall before, in and
after a wait; four ticks allow two outages of a channel, the second within the
watch of the first. `MaxTime` bounds the clock and, in the guard of `vcDown`,
keeps an outage from starting when its wait would not fit. `Prompt` makes timers
run the moment they wake, which is what "reported in time" presupposes. `Apart`
puts a tick between two `VC_DOWN`s of one channel (section 5 says what happens
without it).

*device_resources.* Three networks on two channels: one abandoned, one active,
one being set up on the channel that was just given up. `RetryCount` 2 is the
least at which a command is tried again; `RefMod` 5 is larger than any count
and small enough that the wrap happens. Symmetry is sound: programs, networks,
images and channels are only compared. The refinement is a safety property
whose formula mentions no single one of them.

*inference_queue.* The sizes 1 and 2 with a queue of 2 make it full for one
object and not for the other. Each retry counter has a limit of two (one for
waits), so that both "try again" and "give up" happen, and `MaxRuns` 2 lets the
answer of a run that gave up arrive in the next. The code's constants (50
submissions, 3 or 5 inference retries) differ in number only.

*program_container.* Two handles let one container be copied, converted or moved
while another one lives where it was. The five containers have constants with a
static part, without one, with nothing else and none at all, CRC segments or
not, a `network.elf` that was converted before, partial and unnamed inputs, and
a network without a description. A pointer into freed memory stays wrong
whatever is freed next, so the bound `Freed` ends a container's way when nothing
but the buffer of the application and that of the library is left.

*inference_io.* The first network has two partial inputs in one DMA buffer
between them and one of full size, the second two slices of one buffer object
and a request of size zero. Sizes from zero to two are less than, equal to and
more than what the inputs take; two runs let a wait that gave up be followed by
another run, and two handles let buffer objects be made again after a failure.
`Reload` FALSE has the application load a vector once; section 5 says why.

*metadata.* Three parts are two of a kind, so that tables have something behind
them, and one of another. One semaphore count and one L2TCM size are zero. The
schemas are that of the reader, one with a new field of the table and one with
a new field of an array of tables, and the majors are the reader's and the next.

*platform.* One card with two devices made of it is the least at which one that
fails to open shifts the numbers of the others; three nodes let each of the
devices come back under any of the names. A base device of the runtime and a
derived one of the platform are queried: they close and open files of the same
process, and the derived one keeps the number of a file it closed. `MaxFiles` 7
is what two factories and one reopened file need; a factory is made only while
enough numbers are free for all its devices. With two outages and one handle the safety properties were
found to hold as well (3.8 million states), beyond what a run can afford.

### Deadlock

TLC checks for deadlock everywhere but in the five runs that end by nature or by
a bound: `restart_watch` (the clock), `program_container` (everything freed),
`inference_io` (`MaxRuns`), `metadata` (a section is only read once it is
written and parts are bounded) and `platform` (outages, and `disturbed`). The
others have a step that stands for the proper end (`Gone`, `Exited`, `Closed`,
`Finished`).

### Fairness

- `ProgramDevice`, `RunFairness`: weak fairness of the three steps of the
  thread inside a call (`Dispatch`, `UnloadAfterDeactivate`, `Return`): it is
  scheduled, and the device answers. `LoadRecovers`, strong fairness of a
  successful load, is an assumption on the device, not the code: one that is
  asked again and again at last loads. `CallReturns` needs it, and
  `activate_livelock` is the same property without it.
- `Workqueue`: weak fairness of the worker's loop.
- `EventDelivery`: weak fairness of the run of the monitor and of the second
  half of raising an event; weak fairness of the end of a call, which
  `program_device` justifies; strong fairness of the run of the contexts, which
  waits for the mutex of a client that application threads take again and
  again.
- `SubSystemRestart`: enabled threads run, time passes; strong fairness for the
  timers because they compete for `vcStatusMapMutex_`.
- `InferenceQueue`: weak fairness of what each thread does inside `run()`. Its
  waits are timed, so a step that ends them is always enabled; nothing is
  assumed of the device.
- `PlatformDevices`: weak fairness of the monitor's taking an event, and of the
  next step of a call under way. None of them waits for a lock, and every
  system call returns. Users need not query, devices need not come back.

### What each property is for

`PROJECT.json` pairs every property with a mutant, an operator next to the
original marked "Fault:", which makes TLC find the property violated: a failed
load that is not noticed, a list of execution objects nobody looks at, a
handle that is not counted down, a channel object that is not put back, a
timeout that is taken for an answer, a flag reset too soon.

*program_device.* `RestsWhenUnlocked`: the next caller finds no transitional
state and no left-over signal but the error of a failed creation.
`HoldsWhatItUses`: `nnImage_` and `qnn_` are dereferenced without a check in the
states that this invariant covers. `NeverLoadedUnvalidated`: an `INIT_ERROR`
that waits in the queue is not overtaken into `loaded`. `QueueBounded`: handlers
post up to two signals for one, and still at most three are ever queued.
`ImplementsLifecycle`: every call, with its intermediate states and failures,
amounts to one atomic step and returns the status that belongs to it.
`CallReturns`: no call keeps the lock for ever.

*program_activation.* `ExecObjsKeepNetwork`, `PreparedWhereSubmitted`,
`DeactivatedWithLast`: as their comments say; the first two excuse networks a
device error hit, the third is about programs nobody activated by hand.

*workqueue, event_delivery.* `NothingForgotten`, `ImplementsService`,
`Terminates`; `EventsArrive` (nothing is lost),
`ImplementsBroadcast` (nothing is doubled, reordered or sent to a client that
left), `FactoryFirst` and `PriorityFirst`.

*restart_watch.* `ExpiryJustified` and `OutageReported` hold under `Apart` and
`Prompt`.

*device_resources.* `ChannelsHeld`, `NothingRunsUnnamed`,
`ImagesOutliveNetworks`, `CountsExact`, `ImplementsHandles`.

*inference_queue.* `ImplementsService`, `RunReturns`.

*program_container.* `SegmentsIntact`: after any legal way through buffers, files
and conversions, each pointer of the opened container leads to the whole segment
it names, inside the buffer of the library. `ConstantsOnce`: both halves of
`constants.bin`, or the one there is, land at their places and none twice.
`DescriptorsAgree`: the descriptions that size buffers, direct them, bound DMA
and drive the device were derived by different code from one description.

*inference_io.* `RunComputes` is the contract of an inference from end to end;
`SlicesApart` is the assertion of `CopyXfm::run` for every pair of inputs;
`BuffersReturned` goes through every failure of the requests: each buffer object
that exists is the handle's, once, or one that the code leaves behind because its
slices (`ATTACH_SLICE_BO`) or its mapping were refused.

*metadata.* `SameNetwork`: both writers, the reader, the encoder, the decoder and
the translation lose and invent nothing. `Understood`: what is in the way of
reading is found, at any depth. `OwnAccepted`: but the
reader of the runtime finds nothing wrong with a section of its own, whether the
header is in front or not; the translation, which has a reader of its own, ends the
process for a header in front, and for nothing else.
`TranslationSafe`: the translation meets no absent vector in what `FlatEncode`
makes.

*platform.* `SameDevice`, `ReadyIsTrue`, `Reopened`.

### Stated and not run

Every detailed module but `Metadata` has a type invariant (`TypeOK`;
`WorkqueueTypeOK`, `RestartTypeOK` and `ContainerTypeOK` in the modules that are proved about
together with others), which TLC finds true on the instance of its run; only
that of `ProgramDevice` is among the properties of a run. Section 4 says which are proved.
A few formulas and constants are kept for readers who want to see section 5 for
themselves: `ExpiryOnlyWhenDown` and `DestructorEnds` of `SubSystemRestart`
(violated, the first with `Apart` FALSE), `RunsLiveElements` of `Workqueue`
(violated), `QueuesAttended` of `EventDelivery` (holds, and is proved), and `Reload` of `InferenceIO` (TRUE violates `RunComputes`).

## 4. The proofs

Eight modules hold theorems. They hold for every value of the constants that
meets the named `ASSUME`s of the module they are about.

| theorem | says that always, or of every behaviour |
|---|---|
| `ProgramDeviceProofs` | |
| `Invariance` | `IInv`, the invariant below |
| `TypeCorrect`, `MachineRests`, `UsesAreHeld`, `ValidatedFirst` | `TypeOK`, `RestsWhenUnlocked`, `HoldsWhatItUses`, `NeverLoadedUnvalidated` |
| `QueueIsShort` | `QueueBounded` |
| `LifecycleRefined` | `ImplementsLifecycle` |
| `ProgramActivationProofs` | |
| `TypeCorrect`, `NetworksAreKept`, `SubmittedWherePrepared`, `LastDeactivates` | `TypeOK`, `ExecObjsKeepNetwork`, `PreparedWhereSubmitted`, `DeactivatedWithLast` |
| `RuntimePlatformProofs`, workqueues | |
| `WorkqueueTypes`, `RequestsAreNoticed` | `WorkqueueTypeOK`, `NothingForgotten` |
| `ServiceRefined` | `Service!Safety`, which is `ImplementsService` without the fairness |
| `RuntimePlatformProofs`, delivery | |
| `FactoryHearsFirst`, `HigherPriorityHearsFirst`, `RequestsToRunAreKept` | `FactoryFirst`, `PriorityFirst`, `QueuesAttended` |
| `BroadcastRefined` | `ImplementsBroadcast` |
| `RuntimePlatformProofs`, restart watch | |
| `RestartTypeCorrect`, `OutagesAreReported` | `RestartTypeOK`, `OutageReported` |
| `ExpiriesAreJustified` | `ExpiryJustified`, if `Prompt` and `Apart` |
| `DeviceResourcesProofs` | |
| `TypeCorrect`, `EveryNetworkHasItsChannel`, `EveryNetworkIsNamed`, `ImagesOutlive`, `CountersAreExact` | `TypeOK`, `ChannelsHeld`, `NothingRunsUnnamed`, `ImagesOutliveNetworks`, `CountsExact` |
| `HandlesRefined` | `ImplementsHandles` |
| `InferenceProofs` | |
| `LoopsAreBounded` | `Inv`: the counters stay in their limits |
| `InferencesRefined` | `ImplementsService` of `InferenceQueue` |
| `BuffersAccountedFor` | `BuffersReturned` |
| `PlatformDevicesProofs` | |
| `TypeCorrect`, `QidsAgree` | `TypeOK`, `SameDevice` |
| `ReadyWhenAnswered` | `ReadyIsTrue` |
| `ContainerProofs` | |
| `SegmentsSurvive` | `SegmentsIntact` |
| `EveryConstantOnce` | `ConstantsOnce` |
| `EveryDescriptorAgrees` | `DescriptorsAgree` |
| `EveryNetworkUnderstood`, `OwnRefusedForHeaderOnly` | `Understood`, `OwnAccepted` |

### Assumptions

- Identifiers of different kinds are different, and what stands for "none",
  "nobody" or "nothing" is none of them. Of `EventDelivery` that includes lists:
  `notifying` and `calling` are a list or `Nothing`.
- Schemas are lists of fields, and a field is a path of two names at least
  (`SchemasAssumption` of `Metadata`); what the first schema of a version had is
  known to its readers. The requests of a network (`InferenceIO`) are a list.
- The allocator gives every buffer a place of its own (`RoomAssumption` of
  `ProgramContainer`). A pointer tells the allocation it leads to by its number,
  so allocations lie `Room` apart, any number, and what does not fit into `Room`
  is not built.
- What a compiler emits is a container (`CompilerAssumption`): segments of
  different names it holds the data of, an offset only for the constants
  (`QAicQpc.cpp:579`), where their descriptor says that the static part ends, a
  `network.elf` that is not empty, in which a flatbuffer is behind the metadata
  it was made of, and copies that lie in their DMA buffers. Nothing is assumed of
  the number, the order or the sizes of segments, buffers and transforms, of the
  conversion, or of the number of handles.
- The sets that are counted are finite: networks (`DeviceResources`), execution
  objects (`ProgramActivation`), timers (`SubSystemRestart`), devices and device
  nodes (`PlatformDevices`, where a table gives QIDs and file numbers in order).
  Threads, programs, images, channels, contexts, clients and elements of a queue
  may be of any number.
- `RefMod` is greater than the number of networks by two at least. In the code it
  is 2^32.
- Limits of retries and sizes are what the code has them be: a submission is
  tried once at least, an execution has at least one element.
- `Prompt` and `Apart` are hypotheses of one theorem, and a disjunct of
  `OutageReported`, not assumptions of the module: what they exclude happens,
  and section 5 says what then.

### The arguments

*The state machine.* None of the safety properties of `ProgramDevice` is
inductive. Whether `loading` may become
`loaded` on `LOAD_COMPLETE` depends on which load posted that signal, so the
invariant has to say what can be queued together, for a queue of any length:

- `OutsideAlone`: a signal a caller posted, or `DEVICE_UP`, has nothing but
  errors for company. A call starts with an empty queue, or with the
  `INIT_ERROR` of the creation (`IdleQueue`), and only `ACTIVATE` is answered
  with further signals of that kind.
- `OneCompletion`: at most one completion is queued, and the machine waits for
  it, or is in `device_error`, where it is dropped.
- `WaitEnds`: a transitional state has queued what it waits for. With
  `OneCompletion` and an empty queue it gives `RestsWhenUnlocked`.
- `SuccessStands`: a completion that reports success reports one that still
  stands; with it `HoldsWhatItUses` is preserved when the completion is
  dispatched.
- `DoomedUnvalidated`: a program that did not validate is in `device_error`, or
  in `created` or `loading` with an error queued before anything that would
  complete a load.

The proof has lemmas about the queue first (`PostedQueue`, `QueueStep`,
`OutsideStep`, `CompletionStep`: what a tail followed by at most two posted
signals contains), then one lemma for each handler of the machine, one for the
calls, and `InvNext`, which puts them together by the disjuncts of `Next`.

That a call is one atomic step needs more: what the machine, its queue and the
network may be in the middle of each call, relative to what the last unlock
left. `Midway` is that list (`Loads`, `LoadsFirst`, `Activates`, `Deactivates`,
`Unloads`, `Notified`, `NothingToDo`), with the calls on a program whose creation
failed apart (`FirstCallFails`). Its longest queue has three signals, hence
`QueueBounded`; where the list ends for a call, the status it returns and the
network it leaves are those of the step of `ProgramLifecycle`.

*Execution objects.* `ExecObjsKeepNetwork` does not rest on a lock: `execObjs_` is
looked at before the device is locked. `TeardownAlone` says what makes up for it:
while somebody who found no execution object tears the network down, objects may
register but none is bound to a network, because binding takes the mutex that
the teardown holds. `NetworksInUse` ties each bound object to the network of the
ready program. `Counted` bounds the handles by those who will give one back: the
errors of the count, a handle given back that was never taken, all go down, and
who is last finds it empty.

*Workqueues.* `NothingForgotten` and the types are inductive together. The
queue after `cleanup` is described by the positions that are left, in order,
since of `SelectSeq` the provers know nothing.

*Delivery.* Events are consecutive numbers, so a position in the stream is a
number too. `Current` is the one the monitor is at, `Coming(c)` the one a
context is given next, `AtHand(c)` the one it calls its clients about, `Due(p)`
the one a client hears next; `Raised` and `Queued` say that both queues hold the
numbers in between. `Heard` says that a client has heard everything from its
registration up to `Due`, and nothing after; `Calling` that those still to be
called are the last of the list; `FactoryKnows` that the factory is not behind
any context. A step either leaves all positions alone (`Aside`) or moves one of
them. That a list stays sorted (`InsertKeeps`, `EraseKeeps`) needs a least
element of a set of numbers (`MinIsLeast`), which follows from
`NatLessThanWellFounded` without induction over an operator.

*Restart watch.* `OneByOne`: of the timers that sleep for a channel one at most
watches the last outage, told apart by the time it wakes, and the entry they
share is there as long as one of them sleeps. `Watched`: an outage has a timer
that wakes a duration after it began, or was reported.

*Device resources.* The invariant follows a network from the reply of the device
to the end of its deactivation (`OwnNames`, `Underway`), its channel (`Channels`,
`ChannelObjects`), its image and constants (`Loaded`). That a new channel object
is never refused as a duplicate is the conjunct of `ChannelObjects` about the
program that is about to make it. `CountsExact` relates each counter to the
cardinality of a set of networks; the theorems of the library about finite sets
do the rest.

*Inference.* `Inv` says which counters are positive where, so that the last
try of a loop does not go round again, and that the queue holds an execution
once, since a handle that is queued is refused. The mapping to
`InferenceService` is by the place of each thread; a run that gives up after its
data were queued stays "queued" there until the device executes them.

*Buffer objects.* What the kernel has are the objects of the handle and those a
process could not map (`BosInv`). The requests for an object are the ends of the
runs of equal numbers in the list of DMA requests, so a handle asks for finitely
many (`RequestsAreASequence`); the kernel gives numbers nobody has; and each place
where a request may fail gives back the objects of the places before it.

*Containers.* `HeapHeld` says of every block of the heap what its table leads to.
A slowpath handle is `Slow`: its rows lead to names and bytes inside its own
buffer. A fastpath handle is `Fast`: each row leads into a block of somebody else.
Either way each row has a form of its segment (`Form`: as compiled, or
`network.elf` with the section converted), so that whoever builds from a table
sees what was compiled (`Sees`), and the buffer of the library, which is `Slow`,
has it. The steps to that: `WrittenApart`, that the parts `writeElement` places do
not overlap (from a least counterexample); `LaidOut`, the same for names and
data of a QPC; `CellsHold` and `SlowBuilt`, that what is written there is read
there; `Shifted`, that rows moved with their buffer lead where they led; and
`ConvertInserts`, that moving sections one by one to make
room leaves them in their order. Blocks are freed only when nobody points to them
(`DropContents`). While a container is open nothing the library finds changes
(`SameOwn`, `OwnKept`), so what `init` found stays true: `ConstantsHeld` says that
`LoadConstants` wrote the parts of the constants, `ProgramHeld` that a program has
the metadata and descriptions of the open container. `DescriptorsAgree` then is
about `Bindings` alone: the lists are those of the inputs, then the outputs
(`DefaultBindings`, `Mappings`, `UserDirections`, `DmaDirections`), and a copy a
search finds is one the compiler described (`TransformFound`, `AllInside`).

*Metadata.* `NamesInv` says of a section what its table names: with a check asked
for, exactly the fields outside the base version that are in the message
(`EncodedNames`), and those of them a reader does not know are exactly the new
fields the network uses, at whatever depth they are (`UsedAreInMessage`).
`compatibilityCheck` then refuses exactly the networks that use one, and a reader
has accepted only after it.

*Devices of the platform.* `Basics` holds whatever threads do to each other:
what a call may be in the middle of, that the base devices have their QIDs in
every factory that is registered, and that a derived device has the name its QID
stands for in the list of nodes its factory saw. The last gives `SameDevice`: two
factories that saw the same nodes have the same list. `Tidy` holds until
`disturbed`. `OpenFiles`, `OwnFiles` and `OwnDevice` say that an open file belongs
to one handle, and to the device of that handle, unless an open of the handle
failed; `Stale` marks the handles that keep the number of a file that was closed,
which only the call that closed it may look at, and a derived device; `Forgotten`,
`Resolving` and `Opening` say when a handle has no name, the name of its device, or
no file. A step of a call changes one handle and one file at most, so all steps
are reduced to six kinds first (`CallSteps`), and each conjunct is shown for each
kind. That the handles of a new factory get files of their own rests on `Nth`:
the k-th number of a finite set is there (`NthIsThere`), and members of different
rank are different (`RankTellsApart`), which again needs a least element and no
induction.

Each invariant was checked with TLC, on the instance of the run of its module at
least, before it was proved.

### What stays with TLC

- Liveness: `CallReturns`, `Terminates`, `EventsArrive`, `RunReturns`,
  `Reopened`, and the fairness in the `ImplementsService` of `Workqueue`.
  Fairness is stated with ENABLED, which the prover does not handle.
- `TypeOK` of `EventDelivery`, of which the typing part is a conjunct of `Inv`,
  and that of `InferenceQueue` for its bound on the elements in the queue of
  the kernel: their number is a fold over the queue, so what it computes would
  need induction over sequences.
- `ContainerTypeOK`, of which `HeapHeld` has all but the offsets a handle
  remembered and the number of writes.
- Of the properties that compare data at both ends of a chain of copies and
  conversions, `RunComputes` and `SlicesApart` of `InferenceIO`, `SameNetwork` and
  `TranslationSafe` of `Metadata`. They rest on what folds and
  recursive functions over sequences and offsets compute, and the induction
  theorems of the library take an operator as a parameter, which the provers
  cannot instantiate. Where a least counterexample will do instead (`Nth`, `Kept`,
  the order of a list), it is used.

## 5. Findings

One run finds a property violated that a text of the repository states.

**`activate()` may never return** (`activate_livelock`;
`QProgramDevice.cpp:658`). In a program that is not loaded, `ACTIVATE` is
answered by posting `LOAD` and `ACTIVATE`. If the load fails, `LOAD_FAILED` is
behind that `ACTIVATE` in the queue, which is answered the same way, and so on:
the machine tries to load again and again in `run()`, with the mutex of the
program held, for as long as the device refuses. The documentation names an
error as the result.

Three more places were reproduced with TLC and are not among the runs:

- A destroyed element is run (`QWorkqueueElement.cpp:22`, `RunsLiveElements`).
  `QWorkqueueProcessor.h:47` expects the destructor to withdraw what the
  element asked for; the call is commented out.
- A channel that is up is reported as expired (`QDeviceStateMonitor.cpp:325`,
  `ExpiryOnlyWhenDown`). A timer reads the map with `operator[]`, which makes an
  entry where an earlier timer erased one; its time is the epoch, so the outage
  seems long enough, and it is not marked as up. It takes two `VC_DOWN`s within
  a second.
- The destructor of the monitor may wait for ever (`QDeviceStateMonitor.cpp:404`,
  `DestructorEnds`). It waits for every timer thread to be marked as finished;
  one that finds a later outage returns without the mark, and one that marks
  itself before the monitor thread enters it is overwritten.

Other observations, made while reading, which no run states.

*Programs, contexts, device resources.*

- After a failed activation the program reports `LOADED`: `activate_failed` is
  under `loaded_super`, and `getProgramState()` asks for that before it asks for
  the error. `unload()` in that state returns success and unloads nothing, as
  does `unload()` after a device error that came back up: the image is kept.
- `load_failed` does not handle `DEVICE_DOWN`, nor `UNLOAD`, which the comment at
  `QProgramDevice.cpp:955` says it does.
- The image survives `device_error`, so after a reset of the device the load is
  answered without asking the device.
- A network whose teardown was refused is overwritten by the next activation
  and stays active with nothing to name it. The reference of its channel has
  been given back by then; a second attempt takes the counter below zero, and
  the channel is not torn down any more.
- `isManuallyActivated_` is set before an activation is tried and never reset;
  from then on execution objects neither activate nor deactivate.
- The destructor of an execution object gives back a handle it may never have
  got.
- `QContext` advances its iterator past an element it just erased, and past the
  end if that was the last.
- Observers and programs register for events in their constructors, before they
  can handle one.
- The check of the queue's size before a submission compares a number of
  executions with a number of elements and never refuses. `QAicRuntimeTypes.h`
  describes `SubmitNumRetries` and `SubmitRetryTimeoutMs` as those of the
  submission; the code uses them for the wait, and a fixed 50 for submissions.
- `runExecute` says `QS_AGAIN` or `QS_ERROR` where it returns `QS_BUSY`.
- After a command that fails because the handle is closed, `errno` is read
  although no system call was made.
- `QNeuralNetworkInterface.h` says that deactivation blocks until the data in
  flight are drained; nothing in the code does.
- A channel object left over from before a reset of the device makes the next
  activation on that channel fail ("Duplicate vcid").

*Buffers and DMA.*

- A buffer object is not closed if its slices are refused after it was made
  (`QRuntimePlatformDeviceAic100.cpp:83-107`, `QNeuralNetwork.cpp:713`) or if its
  `mmap` fails (`QNeuralNetwork.cpp:728`): only the requests before it are freed.
  The model keeps these in `stranded`. A second `freeInfBuffers` on one handle
  reads freed memory; the model has the first. Closing is taken to succeed. `dirs` is reserved and then written by index.
- `setData` compares sizes only if some input is partial, and changes the sizes
  also when it fails; the number of buffers is not compared.
- The copy of a partial input of size zero returns before it writes the slice
  (`PrePostProc.cpp:461`), so the slice of the run before is still there.
- After a file that was shorter than its input, `loadFileSet` cuts or zeroes a
  longer one, and says success; after `setBuffers`, loading a file fills the
  internal buffer, which is not the one that is used.
- More than four semaphore operations are dropped, of several doorbells none is
  rung, semaphore numbers from 64 and values from 4096 lose bits.

*Containers.*

- `QpcInfo` counts the constants twice when they have no static part
  (`QProgramContainer.cpp:538`). The names of the two CRC segments are swapped.
- A second build with one `QAicQpcHandle` uses the offsets of the first. The
  conversion of a fastpath container leaves a pointer to a freed buffer.
- An input without a name gets the bytes of a pointer as its name. The type in
  the output's description is that before its transforms, its size that after.
- `QProgram` and `QImageParser` choose the metadata section by code of their own
  each; `DescriptorsAgree` shows that they agree. The program's own copy of the
  buffer is only parsed; `hasPartialTensor_` is never reset. Constants leave the
  map of the container when it closes, not when its last program goes.

*Metadata.*

- `aicMetadataRawTranslateFlatbuff` returns the bytes of the structure, not a
  flatbuffer, so `qaic-device-partition` refuses every image that has the struct
  form only.
- `MDR_readMetadata` fixes offsets in place; reading twice asserts.
- The translating reader does not strip the header and ends the process for a
  section that has one (`metadataflatbufDecode.hpp:92-101`, `117-123`). The
  translation drops `l2CachedDDRSize`, which the encoder copies
  (`metadataflatbufEncode.hpp:461`); no writer in the repository sets it, and
  `ScalarsAssumption` keeps it out.
- `MetadataFlatbufferWriter` packs an empty vector as none, over which the
  translation would fall. The translation keeps what the structure of this
  version has, and drops other fields even if the reader knows their names.
- `getMajorSchemaFields` cuts the last character of a line, as if all files had
  carriage returns. `numSemaphoreOps` has 8 bits; more than 16 NSPs overflow a
  table; `constMappingCores` is cleared by one of the two `finalize`s only.

*Devices of the platform.*

- Two threads on a handle that is being reopened close each other's files. A
  `DEVICE_UP` for a device whose handle is open opens it again by its old name
  and loses the first file. A device that goes away between the search for its
  node and `open()` leaves a name that may become another device's.
- A device whose node was not found gets the name "accelinvalid", which
  `isDeviceValid` (it looks for "_invalid") accepts: it is never searched again.
- A derived device keeps its name and its closed file's number, gets no
  notification (`QDeviceStateMonitor.cpp:171`, where a reference of `udev` leaks
  as well), and stays closed after a reload that failed.
- When the last try of a status query ends by reopening the file, only the check
  of the response's type tells that nothing was asked. After a command on a
  closed handle `errno` is that of some earlier call.
- No destructor closes files: each runtime that is refused leaves one open for
  every device. `checkFWVersions` counts a failed query as a version although the
  comment says it is skipped, returns the status `true` for an error, and is
  made once. `getDeviceIds` returns success without any device.

*No caller in the repository:* `QDmaBridgeQueue`, `updateDmaReqElements`,
`parseBuffer`, `loadData`, `unprepareBuf`, `getInfInputBuffers` and
`getInfOutputBuffers`, `getProgramBuffer`, `updateProgramData`,
`QRuntime::loadConstants`, `checkQueryStatusFormat`, `readyProgram`; the
elementwise transforms cannot be reached through `run()`; the metadata writers
and encoders, except `aicMetadataRawTranslateFlatbuff`, are for compilers.

## 6. What is not modelled

- *Elementwise transforms of `PrePostProc`* (quantize, convert, transpose):
  `QExecObj::run()` refuses a network that has them (`validateTransformKind`); what
  they compute is arithmetic on values that no property here tells apart.
- *`QDmaBridgeQueue`*: nothing calls it.
- *Properties, telemetry and performance queries* of a device, and the
  definitions of the protocol they speak (`QNncProtocol.h`,
  `QAicRuntimeTypes.h`): data that is carried and printed.
- *Reset of a device under `DeviceResources`*: the hazard that needs it says so.
  `PlatformDevices` has the loss of the file, not that of the networks.
- *Life of C++ objects*: whether a deleted network is still referenced by an
  inference is shown only up to the point that just a device error can delete
  it; use after that is undefined and has no model.
- *`QWorkthread`, the named mutex*: nothing derives from the first, and nothing
  locks the second.
- *Logging, sysfs attributes and formatting in the operating system layer, the
  C++ wrappers other than `InferenceVector`, the tools*: I/O and formatting
  without decisions the models depend on.
- *`readyProgram()` and the ready states of the machine behind it*: never
  called.

## 7. Plan

Done: the program and its state machine (1), execution objects (2), workqueues
(3), delivery (4), restart watch (5), device resources (6), inference (7), and the
abstract modules that join them; the proofs about (1); containers (8), the
data of an inference (9), metadata (10) and the devices of the platform (11).

Proved: the properties of (1) to (7) and (11), with the refinements of their
abstract modules, except for liveness; those of containers (8); of the data of an
inference, that every buffer object is returned; and that metadata are accepted
where they are understood.

Next, in this order:

1. `DeviceResources` with a device that is reset, together with the order of
   events in `PlatformDevices`. Abstract module: `NetworkHandles` with a `Reset`
   that ends every network at once.
2. `ProgramActivation` with the retry of `submit()` while the device restarts,
   so that the loops of `InferenceQueue` meet the replacement of the network.
3. Proofs about the slices of an inference (`SlicesApart`): `Pack` places them
   with a fold, as `writeElement` places segments, so the lemmas about places
   should carry over to a recursive function in its stead.

The number of runs is meant to stay: steps 1 and 2 change `device_resources` and
`program_activation`.
