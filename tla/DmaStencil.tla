------------------------------ MODULE DmaStencil ------------------------------
(***************************************************************************)
(* From the metadata of an image to what the kernel is asked to attach for *)
(* one execution object: QImageParser makes one request element of each    *)
(* DMA request, QMetaData moves their device addresses to where the        *)
(* network was activated, QNeuralnetwork cuts the elements into buffer     *)
(* objects with slices.                                                    *)
(*                                                                         *)
(* A DMA request of the metadata is a record [num, hostOffset, size,       *)
(* inOut, devAddrSpace, mcId, devOffset, doorbellOps, semaphoreOps]; a     *)
(* doorbell is [mcId, offset, size, data], a semaphore operation [semOp,   *)
(* inSyncFence, outSyncFence, preOrPost, semNum, semValue].                *)
(***************************************************************************)
EXTENDS Integers, Sequences, SequencesExt, FiniteSets, Numbering

CONSTANT McidAddrMultiFac      \* the distance between two multicast windows (0x800000)

DmaNoTransfer == "DmaNoTransfer"
DmaInbound    == "DmaInbound"
DmaOutbound   == "DmaOutbound"
QDIR_TO_DEV   == "QDIR_TO_DEV"
QDIR_FROM_DEV == "QDIR_FROM_DEV"
QDIR_NONE     == "QDIR_NONE"

NoSem == [enable |-> FALSE, in |-> FALSE, out |-> FALSE, cmd |-> 0, pre |-> FALSE, id |-> 0, value |-> 0]

\* A semaphore command goes through a word of 32 bits: 12 for the value, from
\* bit 16 on 5 for the number, whose seventh bit would be that of the sync,
\* 3 for the operation.
SemWord(s) ==
  [s EXCEPT !.value = @ % 4096, !.id = @ % 32, !.pre = @ \/ (s.id \div 64) % 2 = 1, !.cmd = @ % 8]

SemCmd(op) == [enable |-> TRUE, in |-> op.inSyncFence, out |-> op.outSyncFence, cmd |-> op.semOp,
               pre |-> op.preOrPost # "AICMDSemaphoreSyncPost", id |-> op.semNum, value |-> op.semValue]

DoorbellBytes == [AICMDDoorballOpSize8 |-> 1, AICMDDoorballOpSize16 |-> 2, AICMDDoorballOpSize32 |-> 4]

-----------------------------------------------------------------------------
(* QImageParser::parse.                                                    *)

InVTCM(req)    == req.devAddrSpace # "AICMDDMAAddrSpaceDDR"
DevAddr(req)   == IF InVTCM(req) THEN McidAddrMultiFac * req.mcId + req.devOffset ELSE req.devOffset
Direction(req) == IF req.size = 0 THEN DmaNoTransfer
                  ELSE IF req.inOut = "AICMDDMAIn" THEN DmaInbound ELSE DmaOutbound

\* Of several doorbells none is rung, of the semaphores the first four count.
Doorbell(req) ==
  IF Len(req.doorbellOps) = 1
  THEN LET op == req.doorbellOps[1] IN
       [write |-> TRUE, addr |-> McidAddrMultiFac * op.mcId + op.offset, data |-> op.data,
        bytes |-> DoorbellBytes[op.size]]
  ELSE [write |-> FALSE, addr |-> 0, data |-> 0, bytes |-> 0]

Semaphores(req) ==
  [j \in 1..4 |-> IF j <= Len(req.semaphoreOps) THEN SemWord(SemCmd(req.semaphoreOps[j])) ELSE NoSem]

\* Only the very last request asks for a response, when it is outbound.
RequestElement(reqs, i) ==
  LET req == reqs[i] IN
  [bufIndex |-> req.num, direction |-> Direction(req), dmaVTCM |-> InVTCM(req) \/ req.size = 0,
   addr |-> IF req.size = 0 THEN 0 ELSE DevAddr(req), len |-> req.size,
   needResponse |-> i = Len(reqs) /\ Direction(req) = DmaOutbound,
   doorbell |-> Doorbell(req), semaphores |-> Semaphores(req)]

parseRequests(reqs) ==
  [stencil |-> [i \in DOMAIN reqs |-> RequestElement(reqs, i)],
   elemToBufVec |-> [i \in DOMAIN reqs |->
                       [buf |-> reqs[i].num, size |-> reqs[i].size,
                        offset |-> IF reqs[i].size = 0 THEN 0 ELSE reqs[i].hostOffset]],
   numBuf |-> FoldLeft(LAMBDA n, r : IF r.num + 1 > n THEN r.num + 1 ELSE n, 0, reqs)]

\* updateElement: addresses are offsets until the network is activated.
updateElement(e, ddrBase, mcIDBase) ==
  [e EXCEPT !.addr = IF e.direction = DmaNoTransfer THEN @
                     ELSE @ + (IF e.dmaVTCM THEN mcIDBase ELSE ddrBase),
            !.doorbell.addr = IF e.doorbell.write THEN @ + mcIDBase ELSE @]

getUpdatedMetadata(meta, ddrBase, mcIDBase) ==
  [meta EXCEPT !.stencil = [i \in DOMAIN @ |-> updateElement(@[i], ddrBase, mcIDBase)]]

getDmaDirections(meta) ==
  [i \in DOMAIN meta.stencil |->
     IF meta.stencil[i].direction = DmaOutbound THEN QDIR_FROM_DEV ELSE QDIR_TO_DEV]

\* What an element says of its slice (encodeMem).
Slice(meta, i) ==
  LET e == meta.stencil[i] IN
  [size |-> meta.elemToBufVec[i].size, offset |-> meta.elemToBufVec[i].offset,
   dev_addr |-> e.addr, doorbell |-> e.doorbell, sems |-> e.semaphores]

-----------------------------------------------------------------------------
(* QNeuralnetwork::getInfHandle and createInfHandle.                       *)

\* The element to wait for: the last that comes from the device, or the last.
waitIndex(meta) ==
  LET from == {i \in DOMAIN meta.stencil : getDmaDirections(meta)[i] = QDIR_FROM_DEV} IN
  IF from = {} THEN Len(meta.stencil) ELSE CHOOSE i \in from : \A j \in from : j <= i

\* A request to the kernel ends with an element where the buffer changes, with
\* the last one, and with one of size 0.
Ends(meta) ==
  LET v == meta.elemToBufVec IN
  {i \in DOMAIN v : i = Len(v) \/ v[i].size = 0 \/ v[i].buf # v[i + 1].buf}

\* Partial inputs need a DMA buffer for each element.
SharedBuffer(meta) ==
  \E i \in 1..(Len(meta.elemToBufVec) - 1) :
    meta.elemToBufVec[i].buf = meta.elemToBufVec[i + 1].buf

\* Elements first..last as one buffer object with its slices; sizes are those
\* of the DMA buffers.
BufferObject(meta, sizes, first, last) ==
  LET v == meta.elemToBufVec IN
  [buf |-> v[last].buf, size |-> IF v[last].size = 0 THEN 0 ELSE sizes[v[last].buf + 1],
   dir |-> getDmaDirections(meta)[last], last |-> last,
   slices |-> [k \in 1..(last - first + 1) |-> Slice(meta, first + k - 1)]]

\* The requests in the order in which they are made.
Requests(meta, sizes) ==
  LET end(k) == Nth(Ends(meta), k) IN
  [k \in 1..Cardinality(Ends(meta)) |->
     BufferObject(meta, sizes, IF k = 1 THEN 1 ELSE end(k - 1) + 1, end(k))]

\* What must hold before any request is made.
InvalidHandle(meta, numBuf, hasPartialTensor) ==
  \/ numBuf # meta.numBuf
  \/ hasPartialTensor /\ SharedBuffer(meta)

\* The direction of each DMA buffer, by the request made last for it.
bufDirs(meta, sizes) ==
  LET requests == Requests(meta, sizes)
      Of(b)    == {k \in DOMAIN requests : requests[k].buf = b}
      last(b)  == CHOOSE k \in Of(b) : \A j \in Of(b) : j <= k
  IN [n \in 1..meta.numBuf |->
        IF Of(n - 1) = {} \/ requests[last(n - 1)].size = 0 THEN QDIR_NONE
        ELSE requests[last(n - 1)].dir]

\* prepareData: the sizes of partial inputs, into the requests that go to the
\* device.  What a request was told before stays when there is no size.
prepareData(meta, requests, resize, dmaBufferSizes) ==
  [k \in DOMAIN requests |->
     LET size == dmaBufferSizes[meta.elemToBufVec[k].buf + 1] IN
     IF requests[k].dir = QDIR_TO_DEV /\ size # 0 THEN size ELSE resize[k]]

=============================================================================
