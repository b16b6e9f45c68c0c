---------------------------- MODULE MCInferenceIO ----------------------------
(***************************************************************************)
(* Two networks for InferenceIO: one with two partial inputs that share a  *)
(* DMA buffer and one input of full size, one whose inputs are moved by    *)
(* two slices of one buffer object and whose requests have a size of 0     *)
(* among them.                                                             *)
(***************************************************************************)
EXTENDS InferenceIO

Copy(dims, num, offset) ==
  <<[kind |-> CopyDMABufferTransform, type |-> "Int8Ty", dims |-> dims, buffer_num |-> num,
     offset |-> offset]>>
Tensor(dims) == [type |-> "Int8Ty", dims |-> dims]
IoBinding(name, dims, num, offset, partial) ==
  [name |-> name, io_initial |-> Tensor(dims), io_transformed |-> Tensor(dims),
   transformseq |-> Copy(dims, num, offset), partial |-> partial, align |-> 4]
Dma(size, dir) == [size |-> size, dir |-> dir]
Request(num, offset, size, dir) ==
  [num |-> num, hostOffset |-> offset, size |-> size, inOut |-> dir,
   devAddrSpace |-> "AICMDDMAAddrSpaceDDR", mcId |-> 0, devOffset |-> 64 * num + offset,
   doorbellOps |-> <<>>, semaphoreOps |-> <<>>]

PartialNetwork ==
  [desc |-> [inputs  |-> <<IoBinding("a", <<2>>, 0, 0, TRUE), IoBinding("b", <<2>>, 0, 8, TRUE),
                           IoBinding("c", <<1>>, 1, 0, FALSE)>>,
             outputs |-> <<IoBinding("o", <<2>>, 2, 0, FALSE)>>,
             dma_buffers |-> <<Dma(22, In), Dma(1, In), Dma(2, Out)>>,
             allowed_shapes |-> <<>>],
   reqs |-> <<Request(0, 0, 22, "AICMDDMAIn"), Request(1, 0, 1, "AICMDDMAIn"),
              Request(2, 0, 2, "AICMDDMAOut")>>]

FullNetwork ==
  [desc |-> [inputs  |-> <<IoBinding("a", <<2>>, 0, 0, FALSE), IoBinding("b", <<1>>, 0, 2, FALSE)>>,
             outputs |-> <<IoBinding("o", <<2>>, 1, 0, FALSE)>>,
             dma_buffers |-> <<Dma(3, In), Dma(2, Out)>>,
             allowed_shapes |-> <<>>],
   reqs |-> <<Request(0, 0, 2, "AICMDDMAIn"), Request(0, 2, 1, "AICMDDMAIn"),
              Request(1, 0, 0, "AICMDDMAIn"), Request(1, 0, 2, "AICMDDMAOut")>>]

BothNetworks == {PartialNetwork, FullNetwork}
Sizes        == 0..2
OutputSizes  == {1, 2}

=============================================================================
