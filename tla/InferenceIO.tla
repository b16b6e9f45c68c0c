----------------------------- MODULE InferenceIO -----------------------------
(***************************************************************************)
(* One inference from the files or buffers of an application to its output *)
(* buffers: openrt::InferenceVector, QExecObj (setData, run), QPrePostProc *)
(* and the buffer objects of QNeuralnetwork, for one vector and one        *)
(* execution object of a network that is activated.                        *)
(*                                                                         *)
(* The network is what its compiler says: it reads every input where the   *)
(* DMA buffers put it on the device, a partial input where its slice says, *)
(* and its outputs are a function of what it read.                         *)
(***************************************************************************)
EXTENDS InferenceVector, DmaStencil

CONSTANTS
  Networks,      \* the networks: [desc, reqs], reqs the DMA requests of the metadata
  FileSizes,     \* sizes of files and of buffers of the application
  OutSizes,      \* sizes of output buffers of the application
  MaxLoads,      \* bound: loads of files and buffers
  MaxInferences, \* bound: runs of the execution object
  MaxHandles,    \* bound: attempts to make the execution object
  Reload         \* whether a vector is loaded from files more than once

ASSUME InferenceIOAssumption ==
  /\ {MaxLoads, MaxInferences, MaxHandles} \subseteq Nat
  /\ Reload \in BOOLEAN
  /\ \A n \in Networks : validateTransformKind(n.desc) /\ n.reqs \in Seq(Range(n.reqs))

VARIABLES
  net,        \* the network, as activated
  vec,        \* the vector, <<>> before it is made
  loads,      \* loads so far, which number the contents
  fromFile,   \* whether the vector was loaded from files
  given,      \* the bytes the application gave last for each input
  bound,      \* userBindings of the ExecObj: [own, size, mem]
  promised,   \* given, when it was bound; <<>> once the vector changed behind it
  handle,     \* infHandle_, NoHandle or what was attached
  bos,        \* buffer objects of the kernel
  stranded,   \* those a failed request left behind, which no handle names
  dma,        \* the DMA buffers of the ExecObj
  stage,      \* where run() is: idle, prepared, submitted, done
  queued,     \* whether the kernel has an execution it has not completed
  read,       \* what the execution read last, by input
  handles, inferences

ioVars == <<net, vec, loads, fromFile, given, bound, promised, handle, bos, stranded, dma, stage,
            queued, read, handles, inferences>>

NoHandle == [requests |-> <<>>, bo |-> <<>>, resize |-> <<>>]

desc     == net.desc
meta     == parseRequests(net.reqs)
mappings == generateIoDesc(desc)
dmaSizes == [n \in DOMAIN desc.dma_buffers |-> desc.dma_buffers[n].size]
inputs   == DOMAIN desc.inputs

checkPartialTensor == \E i \in inputs : desc.inputs[i].partial

-----------------------------------------------------------------------------
(* The vector.                                                             *)

\* The n-th load gives input i a content of its own.
Bytes(i, n, size) == [k \in 1..size |-> [of |-> <<"load", i, n>>, at |-> k - 1]]
Expected(files) == [i \in inputs |-> files[i]]

Behind(status) ==
  /\ promised' = <<>>
  /\ loads' = loads + 1
  /\ UNCHANGED <<net, bound, handle, bos, stranded, dma, stage, queued, read, handles, inferences>>

\* Nothing else runs in the thread of the application.
Idle == stage \in {"idle", "done"}

Files == [inputs -> {Missing}] \cup {[i \in inputs |-> Bytes(i, loads, s[i])] : s \in [inputs -> FileSizes]}

FactoryVector ==
  /\ Idle /\ vec = <<>> /\ loads < MaxLoads
  /\ \/ LET made == init(mappings, "RANDOM", <<>>) IN
        /\ vec' = made.vec
        /\ given' = [i \in inputs |-> Content(made.vec[i])]
        /\ UNCHANGED fromFile
     \/ \E files \in Files :
          LET made == init(mappings, "FILESET", files) IN
          /\ made.status = QS_SUCCESS
          /\ vec' = made.vec
          /\ given' = Expected(files)
          /\ fromFile' = TRUE
  /\ Behind("made")

\* A load that fails has loaded what came before.
LoadFromFileSet ==
  /\ Idle /\ vec # <<>> /\ loads < MaxLoads
  /\ Reload \/ ~fromFile
  /\ \E files \in Files :
       LET loaded == loadFileSet(vec, mappings, files) IN
       /\ vec' = loaded.vec
       /\ given' = IF loaded.status = QS_SUCCESS THEN Expected(files) ELSE <<>>
       /\ fromFile' = TRUE
  /\ Behind("loaded")

SetInputBuffers ==
  /\ Idle /\ vec # <<>> /\ loads < MaxLoads
  /\ \E files \in Files :
       LET buffers == [i \in inputs |-> Memory(Len(files[i]), LAMBDA o : files[i][o + 1])]
           set     == setInputBuffers(vec, mappings, buffers)
       IN /\ vec' = set.vec
          /\ given' = Expected(files)
  /\ UNCHANGED fromFile
  /\ Behind("inputs")

SetOutputBuffers ==
  /\ Idle /\ vec # <<>> /\ loads < MaxLoads
  /\ \E size \in OutSizes :
       LET buffers == [o \in DOMAIN desc.outputs |-> Memory(size, LAMBDA k : Zero)] IN
       vec' = setOutputBuffers(vec, mappings, buffers).vec
  /\ UNCHANGED <<given, fromFile>>
  /\ Behind("outputs")

\* QExecObj::setData: sizes are checked if some input is partial.
FitsMappings(v) == checkPartialTensor => \A i \in DOMAIN v : v[i].size <= mappings[i].size

\* Fault: the sizes stay those of the mappings.
SetData_FullSize ==
  /\ Idle /\ vec # <<>>
  /\ FitsMappings(vec)
  /\ bound' = [i \in DOMAIN vec |-> [own |-> vec[i].own, size |-> mappings[i].size,
                                     mem |-> vec[i].user]]
  /\ promised' = given
  /\ stage' = "idle"
  /\ UNCHANGED <<net, vec, loads, fromFile, given, handle, bos, stranded, dma, queued, read,
                 handles, inferences>>

SetData ==
  /\ Idle /\ vec # <<>>
  /\ FitsMappings(vec)
  /\ bound' = [i \in DOMAIN vec |-> [own |-> vec[i].own, size |-> vec[i].size, mem |-> vec[i].user]]
  /\ promised' = given
  /\ stage' = "idle"
  /\ UNCHANGED <<net, vec, loads, fromFile, given, handle, bos, stranded, dma, queued, read,
                 handles, inferences>>

-----------------------------------------------------------------------------
(* The execution object: QNeuralnetwork::getInfHandle.                     *)

requests == Requests(meta, dmaSizes)

\* The handles the kernel gives to the next n: the smallest that are free.
Made(n)  == [k \in 1..n |-> Nth((1..(Cardinality(bos) + n)) \ bos, k)]
Fresh(n) == Range(Made(n))

\* Fault: the last of the requests that were processed is left.
freeMemReq_ButLast(made, n) == {made[k] : k \in 1..(n - 1)}

\* The buffer objects of the first n requests, which are closed.
freeMemReq(made, n) == {made[k] : k \in 1..n}

Attach ==
  /\ handle' = [requests |-> requests, bo |-> Made(Len(requests)),
                resize |-> [k \in DOMAIN requests |-> 0]]
  /\ bos' = bos \cup Fresh(Len(requests))
  /\ dma' = [n \in DOMAIN dmaSizes |-> Memory(dmaSizes[n], LAMBDA o : Zero)]
  /\ UNCHANGED stranded

\* Only the k - 1 requests before the one that fails count as processed and are
\* freed.  CREATE_BO of request k fails:
NotMade(k) ==
  /\ bos' = (bos \cup Fresh(k - 1)) \ freeMemReq(Made(k - 1), k - 1)
  /\ UNCHANGED stranded

\* ... or what follows it does, and the buffer object stays.
LeftBehind(k) ==
  /\ bos' = (bos \cup Fresh(k)) \ freeMemReq(Made(k), k - 1)
  /\ stranded' = stranded \cup {Made(k)[k]}

\* ATTACH_SLICE_BO is the other half of QAIC_DEV_CMD_MEM, for requests of any
\* size; mmap comes after it.
SlicesRefused(k) == LeftBehind(k)
MappingFails(k)  == requests[k].size # 0 /\ LeftBehind(k)

FailAt(k) ==
  /\ NotMade(k) \/ SlicesRefused(k) \/ MappingFails(k)
  /\ UNCHANGED <<handle, dma>>

\* getQPciInfo fails: the handle is complete, and its destructor runs.
Discard ==
  LET made == Made(Len(requests)) IN
  /\ bos' = (bos \cup Range(made)) \ freeMemReq(made, Len(made))
  /\ UNCHANGED <<handle, dma, stranded>>

CreateInfHandle ==
  /\ handle = NoHandle /\ handles < MaxHandles
  /\ ~InvalidHandle(meta, Len(dmaSizes), checkPartialTensor)
  /\ Attach \/ Discard \/ \E k \in DOMAIN requests : FailAt(k)
  /\ handles' = handles + 1
  /\ UNCHANGED <<net, vec, loads, fromFile, given, bound, promised, stage, queued, read, inferences>>

\* The last reference to the handle goes with the ExecObj.
ReleaseExecObj ==
  /\ Idle /\ handle # NoHandle
  /\ bos' = bos \ freeMemReq(handle.bo, Len(handle.bo))
  /\ handle' = NoHandle
  /\ dma' = <<>> /\ bound' = <<>> /\ promised' = <<>> /\ stage' = "idle" /\ queued' = FALSE
  /\ UNCHANGED <<net, vec, loads, fromFile, given, stranded, read, handles, inferences>>

-----------------------------------------------------------------------------
(* QExecObj::run.                                                          *)

UserMemory(i) ==
  LET b == bound[i] IN
  Memory(b.size, LAMBDA o : Source(IF b.own THEN vec[i].data ELSE b.mem, o))

\* preTransform.
PreTransform ==
  LET pre == processInputBuffers(desc, [i \in DOMAIN bound |-> UserMemory(i)], dma) IN
  /\ Idle /\ handle # NoHandle /\ bound # <<>> /\ inferences < MaxInferences
  /\ validateTransformKind(desc)
  /\ pre.ok
  /\ dma' = pre.dma
  /\ handle' = IF checkPartialTensor
               THEN [handle EXCEPT !.resize = prepareData(meta, handle.requests, @, pre.dmaBufferSizes)]
               ELSE handle
  /\ stage' = "prepared"
  /\ inferences' = inferences + 1
  /\ UNCHANGED <<net, vec, loads, fromFile, given, bound, promised, bos, stranded, queued, read,
                 handles>>

\* submit() fails when the device does not take the execution, and for the
\* kernel a buffer object that is queued cannot be queued again.
Submit ==
  /\ stage = "prepared"
  /\ \/ ~queued /\ queued' = TRUE /\ stage' = "submitted"
     \/ stage' = "idle" /\ UNCHANGED queued
  /\ UNCHANGED <<net, vec, loads, fromFile, given, bound, promised, handle, bos, stranded, dma, read,
                 handles, inferences>>

\* What reaches the device of a DMA buffer: the bytes of the slices of a
\* request to the device, up to the size the request was cut to.
OnDevice(n) ==
  LET Moved(k, o) ==
        /\ handle.requests[k].buf = n - 1 /\ handle.requests[k].dir = QDIR_TO_DEV
        /\ handle.resize[k] = 0 \/ o < handle.resize[k]
        /\ \E s \in Range(handle.requests[k].slices) : s.offset <= o /\ o < s.offset + s.size
  IN [o \in DOMAIN dma[n] |->
        IF \E k \in DOMAIN handle.requests : Moved(k, o) THEN dma[n][o] ELSE Beyond]

\* The device reads a partial input where its slice says.
SliceOf(cell) == IF "slice" \in DOMAIN cell THEN cell.slice ELSE [dynamicOffset |-> 0, size |-> 0]

ReadInput(i) ==
  LET b     == desc.inputs[i]
      t     == CopyOf(b)
      there == OnDevice(t.buffer_num + 1)
      slice == IF b.partial THEN SliceOf(there[t.offset])
               ELSE [dynamicOffset |-> t.offset, size |-> InputBytes(b, 0)]
  IN IF ~Copied(b) THEN <<>>
     ELSE [k \in 1..slice.size |-> Source(there, slice.dynamicOffset + k - 1)]

\* The outputs, as a function of the inputs.
OutputOf(ins, k) == [of |-> <<"out", ins>>, at |-> k]

Execute ==
  LET ins == [i \in inputs |-> ReadInput(i)]
      written == {n \in DOMAIN dma : bufDirs(meta, dmaSizes)[n] = QDIR_FROM_DEV}
  IN
  /\ queued
  /\ queued' = FALSE
  /\ read' = ins
  /\ dma' = [n \in DOMAIN dma |->
               IF n \in written THEN [o \in DOMAIN dma[n] |-> OutputOf(ins, o)] ELSE dma[n]]
  /\ UNCHANGED <<net, vec, loads, fromFile, given, bound, promised, handle, bos, stranded, stage,
                 handles, inferences>>

\* finish(): wait, then postTransform.
Finish ==
  LET user == postProcessOutputs(desc, [i \in DOMAIN bound |-> UserMemory(i)], dma)
      Back(i, memory) == [o \in DOMAIN memory |-> IF o \in DOMAIN user[i] THEN user[i][o] ELSE memory[o]]
  IN
  /\ stage = "submitted" /\ ~queued
  /\ bound' = [i \in DOMAIN bound |-> IF bound[i].own THEN bound[i]
                                      ELSE [bound[i] EXCEPT !.mem = Back(i, @)]]
  /\ vec' = [i \in DOMAIN vec |-> IF bound[i].own THEN [vec[i] EXCEPT !.data = Back(i, @)] ELSE vec[i]]
  /\ stage' = "done"
  /\ UNCHANGED <<net, loads, fromFile, given, promised, handle, bos, stranded, dma, queued, read,
                 handles, inferences>>

\* The wait fails; the execution may still be with the device.
WaitFails ==
  /\ stage = "submitted"
  /\ stage' = "idle"
  /\ UNCHANGED <<net, vec, loads, fromFile, given, bound, promised, handle, bos, stranded, dma,
                 queued, read, handles, inferences>>

-----------------------------------------------------------------------------
IOInit ==
  /\ net \in Networks
  /\ vec = <<>> /\ loads = 0 /\ fromFile = FALSE /\ given = <<>>
  /\ bound = <<>> /\ promised = <<>>
  /\ handle = NoHandle /\ bos = {} /\ stranded = {} /\ dma = <<>>
  /\ stage = "idle" /\ queued = FALSE /\ read = <<>>
  /\ handles = 0 /\ inferences = 0

IONext ==
  \/ FactoryVector \/ LoadFromFileSet \/ SetInputBuffers \/ SetOutputBuffers \/ SetData
  \/ CreateInfHandle \/ ReleaseExecObj
  \/ PreTransform \/ Submit \/ Execute \/ Finish \/ WaitFails

IOSpec == IOInit /\ [][IONext]_ioVars

-----------------------------------------------------------------------------
(* Properties.                                                             *)

\* Every buffer of a vector fits what was allocated for it, every DMA buffer
\* has the size of its description, and run() is at one of its stages.
IOTypeOK ==
  /\ net \in Networks
  /\ vec # <<>> => /\ DOMAIN vec = DOMAIN mappings
                   /\ \A i \in DOMAIN vec : /\ DOMAIN vec[i].data = 0..(mappings[i].size - 1)
                                            /\ vec[i].held <= mappings[i].size
  /\ dma # <<>> => \A n \in DOMAIN dma : DOMAIN dma[n] = 0..(dmaSizes[n] - 1)
  /\ stage \in {"idle", "prepared", "submitted", "done"}
  /\ bos \subseteq Nat /\ IsFiniteSet(bos)
  /\ {queued, fromFile} \subseteq BOOLEAN
  /\ loads \in 0..MaxLoads /\ inferences \in 0..MaxInferences /\ handles \in 0..MaxHandles

Whole(i) == desc.inputs[i].partial \/ Len(promised[i]) >= mappings[i].size

\* An input of size 0 leaves no slice, so that of an earlier run stays.
Sliced(i) ==
  LET t == CopyOf(desc.inputs[i]) IN
  desc.inputs[i].partial => \/ promised[i] # <<>>
                            \/ dma[t.buffer_num + 1][t.offset] = Zero

\* The bytes of input i the network is to compute with.
Meant(i) ==
  IF ~Copied(desc.inputs[i]) THEN <<>>
  ELSE SubSeq(promised[i], 1, MinOf(Len(promised[i]), mappings[i].size))

Computed ==
  \A o \in DOMAIN desc.outputs :
    LET out == UserMemory(Len(desc.inputs) + o) IN
    \A k \in DOMAIN out : k < mappings[Len(desc.inputs) + o].size =>
      out[k] = OutputOf([i \in inputs |-> Meant(i)], k)

\* When run() succeeds every output buffer of the application holds what the
\* network computes from exactly the bytes the application gave: partial inputs
\* are packed without loss, their slices and the sizes the requests are cut to
\* agree, and no execution of an earlier, abandoned run is taken for this one.
\* Inputs that were too short for their network, and inputs of size 0 after a
\* run that had some, are left out.
RunComputes ==
  stage = "done" /\ promised # <<>> /\ (\A i \in inputs : Whole(i) /\ Sliced(i)) => Computed

\* The slices that inputs of a prepared run announce lie behind the header of
\* their DMA buffer and inside of it, and no two of them overlap (the
\* assertion in CopyXfm::run, for every pair).
SlicesApart ==
  stage = "prepared" =>
    LET Partial == {i \in inputs : desc.inputs[i].partial /\ Copied(desc.inputs[i])}
        num(i)  == CopyOf(desc.inputs[i]).buffer_num
        slice(i) == SliceOf(dma[num(i) + 1][CopyOf(desc.inputs[i]).offset])
        fresh   == {i \in Partial : UserMemory(i) # NoMemory}
        end(i)  == slice(i).dynamicOffset + slice(i).size
    IN \A i \in fresh :
         /\ slice(i).dynamicOffset >= numPartialInputs(desc, num(i)) * SizeofDynamicSliceInfo
         /\ end(i) <= dmaSizes[num(i) + 1]
         /\ \A j \in fresh \ {i} :
              num(i) = num(j) => \/ end(i) <= slice(j).dynamicOffset
                                 \/ end(j) <= slice(i).dynamicOffset

\* The buffer objects the kernel has are those of the execution object there is
\* and, of every attempt to make one at which ATTACH_SLICE_BO or mmap failed, the
\* one of the request at fault, which the code leaves behind.  Whichever request
\* fails, and however often, all others are closed and none that is in use is
\* (prepareInfHandleBuf, freeMemReq; GEM_CLOSE is taken to succeed).
BuffersReturned ==
  /\ bos = Range(handle.bo) \cup stranded
  /\ Range(handle.bo) \cap stranded = {}

=============================================================================
