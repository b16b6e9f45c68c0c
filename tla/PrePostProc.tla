----------------------------- MODULE PrePostProc -----------------------------
(***************************************************************************)
(* Copying between the buffers of the application and the DMA buffers of   *)
(* an execution object (lib/networkdesc/ppp and QPrePostProc): which bytes *)
(* go where, with partial inputs packed one behind another and each        *)
(* announced to the device by a slice in the header of its DMA buffer.     *)
(*                                                                         *)
(* Memory is a function from offsets to cells.  A cell names the byte that *)
(* is in it: [of, at] is byte at of whatever of stands for, [slice, at] is *)
(* byte at of a DynamicSliceInfo.                                          *)
(***************************************************************************)
EXTENDS Bindings, FiniteSets

SizeofDynamicSliceInfo == 8
Beyond == [of |-> <<"beyond">>, at |-> 0]      \* what a copy finds behind a buffer

\* Only one transform is supported, the copy to or from the DMA buffer; a
\* buffer without any has been optimized away.
validateTransformKind(desc) ==
  \A b \in Range(desc.inputs \o desc.outputs) :
    Len(b.transformseq) <= 1 /\ \A t \in Range(b.transformseq) : t.kind = CopyDMABufferTransform

CopyOf(b) == b.transformseq[Len(b.transformseq)]
Copied(b) == b.transformseq # <<>>

\* Unlike in the bindings a dimension of 0 makes a tensor empty.
getSizeInBytes(type, dims) == FoldSeq(LAMBDA d, acc : d * acc, getTypeSize(type), dims)

\* A partial input has as many elements in its first dimension as the buffer
\* that was set has elements.
InputBytes(b, userSize) ==
  LET t == CopyOf(b) IN
  IF b.partial
  THEN getSizeInBytes(t.type, [t.dims EXCEPT ![1] = userSize \div getTypeSize(b.io_initial.type)])
  ELSE getSizeInBytes(t.type, t.dims)

numPartialInputs(desc, num) ==
  Cardinality({i \in DOMAIN desc.inputs :
                 LET b == desc.inputs[i] IN b.partial /\ Copied(b) /\ CopyOf(b).buffer_num = num})

MaxOf(x, y) == IF x > y THEN x ELSE y
MinOf(x, y) == IF x < y THEN x ELSE y
AlignTo(x, m) == ((x + m - 1) \div m) * m

-----------------------------------------------------------------------------
(* computeDynamicBindings(): the inputs that are not partial first, where  *)
(* the compiler put them, then the partial ones in order, each behind what *)
(* its DMA buffer holds so far and behind the header.                      *)

\* The bytes of each DMA buffer that inputs of full size take.
FullBindings(desc) ==
  [n \in DOMAIN desc.dma_buffers |->
     LET ends == {CopyOf(b).offset + InputBytes(b, 0) :
                    b \in {c \in Range(desc.inputs) :
                             ~c.partial /\ Copied(c) /\ CopyOf(c).buffer_num = n - 1}}
     IN [size |-> FoldSet(MaxOf, 0, ends), isPartial |-> FALSE]]

\* Fault: the end of a partial input is not kept for the next.
Pack_Overlaid(desc, sizes, acc, i) ==
  LET b  == desc.inputs[i]
      n  == CopyOf(b).buffer_num + 1
      at == AlignTo(numPartialInputs(desc, n - 1) * SizeofDynamicSliceInfo, b.align)
  IN IF ~b.partial THEN acc
     ELSE [dma |-> [acc.dma EXCEPT ![n] = [size |-> at + InputBytes(b, sizes[i]), isPartial |-> TRUE]],
           dynamicOffset |-> [acc.dynamicOffset EXCEPT ![i] = at]]

\* One partial input: where it goes, and its DMA buffer afterwards.
Pack(desc, sizes, acc, i) ==
  LET b   == desc.inputs[i]
      n   == CopyOf(b).buffer_num + 1
      at  == AlignTo(MaxOf(acc.dma[n].size,
                           numPartialInputs(desc, n - 1) * SizeofDynamicSliceInfo), b.align)
      end == MaxOf(acc.dma[n].size, at + InputBytes(b, sizes[i]))
  IN IF ~b.partial THEN acc
     ELSE [dma |-> [acc.dma EXCEPT ![n] = [size |-> end, isPartial |-> TRUE]],
           dynamicOffset |-> [acc.dynamicOffset EXCEPT ![i] = at]]

computeDynamicBindings(desc, sizes) ==
  FoldLeftDomain(LAMBDA acc, i : Pack(desc, sizes, acc, i),
           [dma |-> FullBindings(desc), dynamicOffset |-> [i \in DOMAIN desc.inputs |-> 0]],
           desc.inputs)

-----------------------------------------------------------------------------
(* The copies.                                                             *)

Fill(memory, at, len, cell(_)) ==
  [o \in DOMAIN memory |-> IF at <= o /\ o < at + len THEN cell(o - at) ELSE memory[o]]

\* Bytes from an offset of a buffer of the application, or behind its end.
Source(memory, o) == IF o \in DOMAIN memory THEN memory[o] ELSE Beyond

\* One input into its DMA buffer.  Nothing is written for an input of size 0,
\* its slice included.  user[i] is the memory of buffer i.
CopyInput(desc, user, offsets, dma, i) ==
  LET b     == desc.inputs[i]
      t     == CopyOf(b)
      n     == t.buffer_num + 1
      bytes == InputBytes(b, Cardinality(DOMAIN user[i]))
      slice == [dynamicOffset |-> offsets[i], size |-> bytes]
      told  == IF b.partial
               THEN Fill(dma[n], t.offset, SizeofDynamicSliceInfo, LAMBDA k : [slice |-> slice, at |-> k])
               ELSE dma[n]
      place == IF b.partial THEN offsets[i] ELSE t.offset
      len   == MinOf(Cardinality(DOMAIN dma[n]), bytes)
  IN IF ~Copied(b) \/ bytes = 0 THEN dma
     ELSE [dma EXCEPT ![n] = Fill(told, place, len, LAMBDA k : Source(user[i], k))]

preProcessInputs(desc, user, offsets, dma) ==
  FoldLeftDomain(LAMBDA acc, i : CopyInput(desc, user, offsets, acc, i), dma, desc.inputs)

\* One output into the buffer of the application, as much as that holds.
CopyOutput(desc, user, dma, o) ==
  LET b     == desc.outputs[o]
      t     == CopyOf(b)
      u     == Len(desc.inputs) + o
      len   == MinOf(Cardinality(DOMAIN user[u]), getSizeInBytes(t.type, t.dims))
  IN IF ~Copied(b) THEN user
     ELSE [user EXCEPT ![u] = Fill(@, 0, len, LAMBDA k : Source(dma[t.buffer_num + 1], t.offset + k))]

postProcessOutputs(desc, user, dma) ==
  FoldLeftDomain(LAMBDA acc, o : CopyOutput(desc, acc, dma, o), user, desc.outputs)

\* processInputBuffers(): refused without buffers; the sizes handed on are
\* those of the DMA buffers that hold a partial input, 0 for the others.
processInputBuffers(desc, user, dma) ==
  LET sizes    == [i \in DOMAIN desc.inputs |-> Cardinality(DOMAIN user[i])]
      bindings == computeDynamicBindings(desc, sizes)
  IN IF dma = <<>> \/ user = <<>> THEN [ok |-> FALSE, dma |-> dma, dmaBufferSizes |-> <<>>]
     ELSE [ok |-> TRUE,
           dma |-> preProcessInputs(desc, user, bindings.dynamicOffset, dma),
           dmaBufferSizes |-> [n \in DOMAIN bindings.dma |->
                                 IF bindings.dma[n].isPartial THEN bindings.dma[n].size ELSE 0]]

=============================================================================
