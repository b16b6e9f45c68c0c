------------------------------- MODULE Bindings -------------------------------
(***************************************************************************)
(* The buffers of a program (QBindingsParser): what an application has to  *)
(* provide and what crosses to the device, derived from the description    *)
(* of the network in the program container.                                *)
(*                                                                         *)
(* A description is a record: inputs and outputs are sequences of bindings *)
(* [name, io_initial, io_transformed, transformseq, partial, align];       *)
(* io_initial and io_transformed give type and dims; a transform is        *)
(* [kind, type, dims, buffer_num, offset], the last two for the copy to a  *)
(* DMA buffer; dma_buffers is a sequence of [size, dir].  Sequences count  *)
(* from 1 here, numbers of buffers from 0 as in the source.                *)
(***************************************************************************)
EXTENDS Integers, Sequences, SequencesExt, Numbering

In  == "In"
Out == "Out"
CopyDMABufferTransform == "CopyDMABufferTransform"

TypeSize == [FloatTy |-> 4, Float16Ty |-> 2, Int8QTy |-> 1, UInt8QTy |-> 1,
             Int16QTy |-> 2, Int32QTy |-> 4, Int32ITy |-> 4, Int64ITy |-> 8, Int8Ty |-> 1]

getTypeSize(type) == IF type \in DOMAIN TypeSize THEN TypeSize[type] ELSE 0

\* Dimensions of 0 are left out of the product.
BytesOf(type, dims) ==
  FoldSeq(LAMBDA d, acc : IF d = 0 THEN acc ELSE acc * d, getTypeSize(type), dims)

getIoDescBufferSize(ioDesc) == BytesOf(ioDesc.type, ioDesc.dims)

\* The io sets beside the default one: the kind of transform of inputs and
\* of outputs that selects the stage.
IoSetSearchSpace ==
  <<[name |-> "quantize", in |-> "QuantizeTransform", out |-> "DequantizeTransform"],
    [name |-> "transpose", in |-> "TransposeTransform", out |-> "TransposeTransform"],
    [name |-> "d32convert", in |-> "ConvertToD32Transform", out |-> "ConvertFromD32Transform"],
    [name |-> "convert", in |-> "ConvertTransform", out |-> "ConvertTransform"],
    [name |-> "dma", in |-> CopyDMABufferTransform, out |-> CopyDMABufferTransform]>>

createBinding(name, ioDesc, index, dir, partial, valid) ==
  [name |-> name, index |-> index, type |-> ioDesc.type, dir |-> dir, dims |-> ioDesc.dims,
   is_partial_buf_allowed |-> partial, size |-> getIoDescBufferSize(ioDesc),
   dma_buf_info |-> <<>>, is_valid |-> valid]

createBindingFromTransform(name, t, index, dir, partial) ==
  [createBinding(name, t, index, dir, partial, TRUE) EXCEPT !.dma_buf_info =
     IF t.kind = CopyDMABufferTransform
     THEN <<[dma_size |-> BytesOf(t.type, t.dims), dma_offset |-> t.offset,
             dma_buf_index |-> t.buffer_num]>>
     ELSE <<>>]

hasTransform(bindings, kind) ==
  \E i \in DOMAIN bindings : \E j \in DOMAIN bindings[i].transformseq :
    bindings[i].transformseq[j].kind = kind

\* The place of the transform whose result an output is: the one before, but
\* for the copy from the DMA buffer.  (The first transform of an output is
\* that copy in what compilers emit; the code would read before the list.)
bindingFindTransform(b, kind, dir) ==
  LET i == SelectInSeq(b.transformseq, LAMBDA t : t.kind = kind) IN
  IF i > 1 /\ dir = Out /\ kind # CopyDMABufferTransform THEN i - 1 ELSE i

\* What a compiler describes: lists, no output that is partial, and no copy
\* beyond its DMA buffer.
ValidDescription(desc) ==
  /\ desc.inputs \in Seq(ToSet(desc.inputs)) /\ desc.outputs \in Seq(ToSet(desc.outputs))
  /\ desc.dma_buffers \in Seq(ToSet(desc.dma_buffers))
  /\ \A b \in ToSet(desc.outputs) : b.partial = FALSE
  /\ \A b \in ToSet(desc.inputs) \cup ToSet(desc.outputs) :
       /\ b.transformseq \in Seq(ToSet(b.transformseq))
       /\ \A t \in ToSet(b.transformseq) : t.kind = CopyDMABufferTransform =>
            /\ t.buffer_num + 1 \in DOMAIN desc.dma_buffers
            /\ t.offset + BytesOf(t.type, t.dims) <= desc.dma_buffers[t.buffer_num + 1].size

Described(b, dir) == IF dir = In THEN b.io_initial ELSE b.io_transformed

DefaultSet(desc) ==
  LET Side(bs, dir, base) ==
        [i \in DOMAIN bs |-> createBinding(bs[i].name, Described(bs[i], dir), base + i - 1, dir,
                                           bs[i].partial, TRUE)]
  IN [name |-> "default",
      bindings |-> Side(desc.inputs, In, 0) \o Side(desc.outputs, Out, Len(desc.inputs))]

IoSet(desc, s) ==
  LET One(b, dir, kind, index) ==
        LET i == bindingFindTransform(b, kind, dir) IN
        IF i # 0 THEN createBindingFromTransform(b.name, b.transformseq[i], index, dir, b.partial)
        ELSE createBinding(b.name, Described(b, dir), index, dir, b.partial, FALSE)
      n == Len(desc.inputs)
  IN [name |-> s.name,
      bindings |-> [i \in DOMAIN desc.inputs |-> One(desc.inputs[i], In, s.in, i - 1)]
                   \o [i \in DOMAIN desc.outputs |-> One(desc.outputs[i], Out, s.out, n + i - 1)]]

\* The descriptor that is handed to applications as a protocol buffer.
generateIoDescPb(desc) ==
  LET Found(s) == hasTransform(desc.inputs, s.in) \/ hasTransform(desc.outputs, s.out)
      found    == Kept(IoSetSearchSpace, {s \in ToSet(IoSetSearchSpace) : Found(s)})
  IN [io_sets |-> <<DefaultSet(desc)>> \o [i \in DOMAIN found |-> IoSet(desc, found[i])],
      selected_set |-> DefaultSet(desc),
      dma_buf |-> [i \in DOMAIN desc.dma_buffers |->
                     [index |-> i - 1, size |-> desc.dma_buffers[i].size,
                      dir |-> desc.dma_buffers[i].dir]],
      allowed_shapes |-> desc.allowed_shapes]

-----------------------------------------------------------------------------
(* The older descriptor: the mappings that size the buffers of vectors and *)
(* against which an ExecObj checks what it is given.                       *)

noname == "noname"

\* Of a binding without a name the bytes of a pointer are written, not the
\* text it points to.
MappingName(b) == IF b.name = "" THEN "garbage" ELSE b.name

\* Fault: an output has the size it has before its transforms.
generateIoDesc_Before(desc) ==
  LET Side(bs, dir, base) ==
        [i \in DOMAIN bs |->
           [bufferName |-> MappingName(bs[i]), index |-> base + i - 1, ioType |-> dir,
            size |-> getIoDescBufferSize(bs[i].io_initial),
            isPartialBufferAllowed |-> bs[i].partial, dataType |-> bs[i].io_initial.type]]
  IN Side(desc.inputs, In, 0) \o Side(desc.outputs, Out, Len(desc.inputs))

\* The size of an output is that after its transforms, the type that before.
generateIoDesc(desc) ==
  LET Side(bs, dir, base) ==
        [i \in DOMAIN bs |->
           [bufferName |-> MappingName(bs[i]), index |-> base + i - 1, ioType |-> dir,
            size |-> getIoDescBufferSize(Described(bs[i], dir)),
            isPartialBufferAllowed |-> bs[i].partial, dataType |-> bs[i].io_initial.type]]
  IN Side(desc.inputs, In, 0) \o Side(desc.outputs, Out, Len(desc.inputs))

updateIoBufferInfoDma(desc) ==
  [i \in DOMAIN desc.dma_buffers |->
     [bufferName |-> noname, index |-> i - 1, ioType |-> desc.dma_buffers[i].dir,
      size |-> desc.dma_buffers[i].size, isPartialBufferAllowed |-> FALSE,
      dataType |-> "invalid"]]

\* init(): the two descriptors and the mappings of DMA buffers.
parse(desc) ==
  [ioDesc |-> generateIoDescPb(desc), ioBufferInfo |-> generateIoDesc(desc),
   ioBufferInfoDma |-> updateIoBufferInfoDma(desc)]

=============================================================================
