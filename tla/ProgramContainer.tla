--------------------------- MODULE ProgramContainer ---------------------------
(***************************************************************************)
(* A program container from the compiler to the device: built in a buffer  *)
(* or in a file, converted, moved about by the application, opened by the  *)
(* library (QProgramContainer), which keeps a copy of its own, and loaded  *)
(* (QDeviceImageCommon, QDeviceImage, QRuntime).                           *)
(*                                                                         *)
(* Two handles, one file and one buffer of the application are enough for  *)
(* every way a container takes.  An application builds once with a handle, *)
(* gives the library only what its pointers can be followed in, and keeps  *)
(* the segments of a fastpath container, which is not copied, alive.       *)
(***************************************************************************)
EXTENDS Qpc, Bindings, FiniteSets

CONSTANTS
  Handles,      \* handles of the library, QAicQpcHandle
  Home,         \* where the buffer of each handle is
  AppMem,       \* where the segments of the compiler are
  Temp,         \* where convertNetworkElfSection has its new ELF
  Buf,          \* the buffer of the application
  Own,          \* the buffer of the container
  Room,         \* bound: the bytes of an allocation; no two lie closer
  Containers,   \* what compilers emit: [mem, segs, desc], segs with pointers into mem
  Conv          \* what the caller of convertNetworkElfSection converts with

Metadata   == "metadata"
MetadataFb == "metadata_fb"

Places == {AppMem, Temp, Buf, Own} \cup Range(Home)

\* The allocator gives every buffer a place of its own.
ASSUME RoomAssumption ==
  /\ Room \in Nat /\ Home \in [Handles -> Nat]
  /\ \A a \in Places : a \in Nat \ {0}
  /\ \A a, b \in Places : a < b => a + Room <= b
  /\ \A h, i \in Handles : Home[h] = Home[i] => h = i
  /\ \A h \in Handles : Home[h] \notin {AppMem, Temp, Buf, Own}
  /\ AppMem \notin {Temp, Buf, Own} /\ Temp \notin {Buf, Own} /\ Buf # Own

\* What lies in an allocation lies there apart.
Sound(block) ==
  /\ DOMAIN block.names \subseteq 0..(Room - 1)
  /\ \A o \in DOMAIN block.bodies :
       /\ o \in Nat /\ block.bodies[o].len \in Nat /\ o + block.bodies[o].len < Room
       /\ block.bodies[o] = Slice(block.bodies[o].of, 0, block.bodies[o].len)
  /\ \A o, u \in DOMAIN block.bodies : o < u => o + block.bodies[o].len <= u

NameIn(c, s) == c.mem.names[s.name - AppMem]
DataIn(c, s) == c.mem.bodies[s.start - AppMem]

\* An ELF has sections; flatbuffer metadata is right behind the metadata.
ElfFile(content) ==
  /\ "sections" \in DOMAIN content
  /\ content.sections \in Seq([name : {s.name : s \in ToSet(content.sections)},
                               data : {s.data : s \in ToSet(content.sections)}])
  /\ SectionIndex(content.sections, MetadataFb) # 0 =>
       SectionIndex(content.sections, MetadataFb) = SectionIndex(content.sections, Metadata) + 1

\* Compilers emit segments of different names, whose data they hold; only the
\* constants have an offset, that of their static part, which is what their
\* descriptor says.
ASSUME CompilerAssumption ==
  \A c \in Containers :
    /\ c.mem.kind = "data" /\ Sound(c.mem) /\ ValidDescription(c.desc)
    /\ c.segs \in Seq([name : Nat, start : Nat, size : Nat, offset : Nat])
    /\ \A s \in ToSet(c.segs) :
         /\ s.name - AppMem \in DOMAIN c.mem.names /\ NameIn(c, s) \in DOMAIN SegmentName
         /\ s.start - AppMem \in DOMAIN c.mem.bodies /\ DataIn(c, s).len = s.size
         /\ s.offset <= s.size /\ (s.offset > 0 => NameIn(c, s) = "constants")
         /\ NameIn(c, s) = "networkElf" => s.size > 0 /\ ElfFile(DataIn(c, s).of)
    /\ \A i, j \in DOMAIN c.segs : NameIn(c, c.segs[i]) = NameIn(c, c.segs[j]) => i = j
    /\ \A s, d \in ToSet(c.segs) :
         NameIn(c, s) = "constants" /\ NameIn(c, d) = "constantsDesc" =>
           DataIn(c, d).of.static = s.offset

VARIABLES
  source,       \* what was compiled
  heap,         \* the allocations that are alive
  handles,      \* the handles, with the offsets they remember
  file,         \* the container on disk, NoFile if there is none
  container,    \* what QProgramContainer found, or NotOpen
  program,      \* what QProgram made of it, or NoProgram
  writes,       \* what was written to the constants of the device, with its place
  image         \* the section the image was parsed from and its data, or NoImage

containerVars == <<source, heap, handles, file, container, program, writes, image>>

NoHandle == [compressionType |-> 2, nameOffsets |-> <<>>, startOffsets |-> <<>>]
NoFile   == [kind |-> "none"]
NotOpen  == [open |-> FALSE]
NoProgram == [created |-> FALSE]
NoImage  == [section |-> "none", data |-> "none"]
NotLoaded == <<>>

With(a, block) == [b \in DOMAIN heap \cup {a} |-> IF b = a THEN block ELSE heap[b]]
Without(a)     == [b \in DOMAIN heap \ {a} |-> heap[b]]

\* The pointers of the table lead somewhere.
Readable(a) ==
  IsQpc(heap, a) /\ \A s \in Range(Table(heap, a)) :
    /\ NameAt(heap, s.name) # Wild
    /\ s.size > 0 => DataAt(heap, s.start, s.size) # NoData

Built(h, built) ==
  /\ built.block.size < Room
  /\ handles' = [handles EXCEPT ![h] = built.handle]
  /\ heap' = With(Home[h], built.block)

-----------------------------------------------------------------------------
(* Handles.                                                                *)

\* createQpcHandle and buildFromSegments.
BuildFromSegments(h) ==
  /\ handles[h] = NoHandle /\ AppMem \in DOMAIN heap
  /\ \E c \in {SLOWPATH, FASTPATH} :
       Built(h, serializeFromVector(heap, createQpcHandle(c), Home[h], source.segs))
  /\ UNCHANGED <<source, file, container, program, writes, image>>

\* buildFromByteArray: from the table of a QPC.
BuildFromByteArray(h) ==
  /\ handles[h] = NoHandle
  /\ \E a \in DOMAIN heap : \E c \in {SLOWPATH, FASTPATH} :
       /\ Readable(a) /\ a # Own
       /\ Built(h, serializeFromVector(heap, createQpcHandle(c), Home[h], Table(heap, a)))
  /\ UNCHANGED <<source, file, container, program, writes, image>>

\* Of a slowpath QPC; the copy of a fastpath one would point to Temp.
ConvertNetworkElfSection(h) ==
  /\ handles[h] = NoHandle
  /\ \E a \in DOMAIN heap :
       LET segs == Table(heap, a)
           i    == SegmentIndex(heap, segs, "networkElf")
           elf  == DataAt(heap, segs[i].start, segs[i].size)
           new  == convertNetworkElfSection(elf.of.sections, Metadata, MetadataFb, Conv)
           size == segs[i].size + Len(new) - Len(elf.of.sections)
           with == With(Temp, Block(NoCells, [o \in {0} |-> Slice([elf.of EXCEPT !.sections = new], 0, size)]))
           seg  == [segs[i] EXCEPT !.start = Temp, !.size = size, !.offset = 0]
       IN /\ Readable(a) /\ a # Own /\ heap[a].compressionType = SLOWPATH
          /\ i # 0 /\ SectionIndex(elf.of.sections, Metadata) # 0 /\ size < Room
          /\ Built(h, serializeFromVector(with, createQpcHandle(heap[a].compressionType), Home[h],
                                          ReplaceElf(segs, i, seg)))
  /\ UNCHANGED <<source, file, container, program, writes, image>>

\* What a fastpath container points to is kept.
InUse(a) ==
  \E b \in DOMAIN heap \ {a} :
    IsQpc(heap, b) /\ \E s \in Range(heap[b].table) :
      heap[b].compressionType = FASTPATH /\ a <= s.start /\ s.start < a + Room

DestroyQpcHandle(h) ==
  /\ handles[h] # NoHandle /\ ~InUse(Home[h])
  /\ handles' = [handles EXCEPT ![h] = NoHandle]
  /\ heap' = Without(Home[h])
  /\ UNCHANGED <<source, file, container, program, writes, image>>

-----------------------------------------------------------------------------
(* What the application does with a container.                             *)

FreeSegments ==
  /\ AppMem \in DOMAIN heap /\ ~InUse(AppMem)
  /\ heap' = Without(AppMem)
  /\ UNCHANGED <<source, handles, file, container, program, writes, image>>

\* The bytes as they are, pointers included.
CopyBytes ==
  /\ ~InUse(Buf)
  /\ \E h \in Handles : handles[h] # NoHandle /\ heap' = With(Buf, heap[Home[h]])
  /\ UNCHANGED <<source, handles, file, container, program, writes, image>>

\* copyQpcBuffer, from elsewhere or in place.
CopyQpcBuffer ==
  /\ ~InUse(Buf)
  /\ \E a \in DOMAIN heap :
       /\ a # Own
       /\ IsQpc(heap, a) /\ CanCopy(heap, a, heap[a].size)
       /\ heap' = With(Buf, copyQpcBuffer(heap, Buf, a))
  /\ UNCHANGED <<source, handles, file, container, program, writes, image>>

\* buildFromSegments with a path: descriptors of kind file but for the network
\* description; one of them may be missing.  Without constants.bin the file
\* stays as it was when that was to be copied.
Descriptors ==
  [i \in DOMAIN source.segs |->
     LET name == NameAt(heap, source.segs[i].name) IN
     [name |-> name, kind |-> IF name = "networkDesc" THEN "buffer" ELSE "file"]]

BuildFile ==
  /\ AppMem \in DOMAIN heap /\ ValidDescriptors(Descriptors)
  /\ FileBlock(heap, source.segs).size < Room
  /\ \E missing \in {{}} \cup {{d.name} : d \in Range(Descriptors)} :
       LET present == {d.name : d \in Range(Descriptors)} \ missing IN
       /\ binaryFileToBuffer(Descriptors, present)
       /\ file' = IF writeConstants(Descriptors, present)
                  THEN FileBlock(heap, source.segs) ELSE UnfinishedFile(heap, source.segs)
  /\ UNCHANGED <<source, heap, handles, container, program, writes, image>>

\* QpcFile::load.
ReadFile ==
  /\ file # NoFile /\ ~InUse(Buf)
  /\ heap' = With(Buf, file)
  /\ UNCHANGED <<source, handles, file, container, program, writes, image>>

-----------------------------------------------------------------------------
(* QProgramContainer.                                                      *)

Segment(found) == [buf |-> found.buf, size |-> found.size, valid |-> found.found /\ found.size # 0]

\* Fault: constants without a static part count as both.
StaticConstants_Both(stat, dyn) == stat

\* Where there is no static part both calls find the whole segment.
StaticConstants(stat, dyn) ==
  IF stat.valid /\ dyn.valid /\ stat.buf = dyn.buf /\ stat.size = dyn.size
  THEN [stat EXCEPT !.valid = FALSE] ELSE stat

getConstantsBuffer(with) ==
  LET dyn == Segment(getQPCSegment(with, Own, "constants", 1)) IN
  [static  |-> StaticConstants(Segment(getQPCSegment(with, Own, "constants", 0)), dyn),
   dynamic |-> dyn]

Get(with, name) == getQPCSegment(with, Own, name, 0)

\* The mandatory segments are there.
InitSucceeds(with) == \A name \in {"constantsDesc", "networkDesc", "networkElf"} : Get(with, name).found

\* The constants of the older API are counted twice when there is no static part.
qpcInfoConstants(consts) ==
  IF consts.static.valid \/ consts.dynamic.valid THEN consts.static.size + consts.dynamic.size ELSE 0

\* The segment that is called metadata.crc is handed out as that of the
\* constants, and the other way round.
CRC(with) == [metadataCRC |-> Get(with, "constantsCRC"), constantsCRC |-> Get(with, "metadataCRC")]

init(with) ==
  [open |-> TRUE, constants |-> getConstantsBuffer(with),
   constDesc |-> Segment(Get(with, "constantsDesc")),
   networkDesc |-> Segment(Get(with, "networkDesc")), network |-> Segment(Get(with, "networkElf")),
   crc |-> CRC(with), bindings |-> parse(source.desc),
   info |-> qpcInfoConstants(getConstantsBuffer(with))]

\* A size the application passes: that of the buffer, whatever the header says.
BufferSize(a) == IF heap[a].size = 0 THEN 1 ELSE heap[a].size

Open ==
  /\ container = NotOpen
  /\ \E a \in DOMAIN heap :
       /\ a # Own /\ IsQpc(heap, a) /\ CanCopy(heap, a, BufferSize(a))
       /\ LET with == With(Own, copyQpcBuffer(heap, Own, a)) IN
          IF InitSucceeds(with) THEN container' = init(with) /\ heap' = with
          ELSE UNCHANGED <<container, heap>>
  /\ UNCHANGED <<source, handles, file, program, writes, image>>

\* With the last reference go the constants on the device.
Close ==
  /\ container # NotOpen /\ program = NoProgram
  /\ container' = NotOpen /\ writes' = NotLoaded
  /\ heap' = Without(Own)
  /\ UNCHANGED <<source, handles, file, program, image>>

getBufferByName(name) == Get(heap, name)

-----------------------------------------------------------------------------
(* QProgram.                                                               *)

\* QImageParser::parseImage: metadata_fb or else metadata.
parseImage(sections) ==
  LET i == SectionIndex(sections, MetadataFb)
      j == SectionIndex(sections, Metadata)
      k == IF i # 0 THEN i ELSE j
  IN IF k = 0 THEN NoImage ELSE [section |-> sections[k].name, data |-> sections[k].data]

\* The directions that executions give the device, next to the descriptors.
updateInternalData(desc) ==
  [bindings |-> parse(desc),
   dmaBufferQDirections |->
     [i \in DOMAIN desc.dma_buffers |-> IF desc.dma_buffers[i].dir = In THEN "TO_DEV" ELSE "FROM_DEV"],
   userBufferQDirections |-> [i \in DOMAIN desc.inputs |-> "TO_DEV"]
                             \o [i \in DOMAIN desc.outputs |-> "FROM_DEV"],
   hasPartialTensor |-> \E i \in DOMAIN desc.inputs : desc.inputs[i].partial]

\* Bound: the application has freed what it can before it makes a program, which
\* reads nothing but the container.
Freed == DOMAIN heap \subseteq {Own, Buf}

\* QProgram::init: the metadata of network.elf, of a copy that serves for
\* nothing else, and the network description.  What fails leaves nothing.
CreateProgram ==
  LET elf == DataAt(heap, container.network.buf, container.network.size) IN
  /\ container # NotOpen /\ program = NoProgram /\ Freed
  /\ container.network.valid /\ container.networkDesc.valid
  /\ parseImage(elf.of.sections) # NoImage
  /\ program' = [created |-> TRUE, metadata |-> parseImage(elf.of.sections),
                 data |-> updateInternalData(source.desc)]
  /\ UNCHANGED <<source, heap, handles, file, container, writes, image>>

\* QProgram::getDmaBufferSizes, of the description of the network.
getDmaBufferSizes == [i \in DOMAIN source.desc.dma_buffers |-> source.desc.dma_buffers[i].size]

\* The context forgets the program; its image goes with it, the constants stay.
ReleaseProgram ==
  /\ program # NoProgram
  /\ program' = NoProgram /\ image' = NoImage
  /\ UNCHANGED <<source, heap, handles, file, container, writes>>

-----------------------------------------------------------------------------
(* The images of the program.                                              *)

\* The sizes of the parts of the constants, in their descriptor.
AICConstantDescriptor ==
  LET d == DataAt(heap, container.constDesc.buf, container.constDesc.size).of IN
  [staticConstantsSize |-> d.static, dynamicConstantsSize |-> d.dynamic]

contains(segment) == segment.valid /\ segment.size # 0

Write(at, segment) == [at |-> at, data |-> DataAt(heap, segment.buf, segment.size)]

HasConstants == AICConstantDescriptor.staticConstantsSize + AICConstantDescriptor.dynamicConstantsSize # 0

\* QDeviceImageCommon::load: nothing without constants, otherwise a buffer on
\* the device and one write for each part; a write that fails gives it back.
LoadConstants ==
  LET d     == AICConstantDescriptor
      parts == <<Write(0, container.constants.static)>>
      rest  == <<Write(d.staticConstantsSize, container.constants.dynamic)>>
  IN
  /\ program # NoProgram /\ writes = NotLoaded
  /\ contains(container.constDesc)
  /\ HasConstants
  /\ \/ writes' = (IF container.constants.static.valid THEN parts ELSE <<>>)
                  \o (IF container.constants.dynamic.valid THEN rest ELSE <<>>)
     \/ UNCHANGED writes
  /\ UNCHANGED <<source, heap, handles, file, container, program, image>>

\* QRuntime::loadImage takes the container itself or its network.elf.
loadImage(buf, size) ==
  LET elf == getQPCSegment(heap, buf, "networkElf", 0) IN
  parseImage((IF elf.found THEN DataAt(heap, elf.buf, elf.size) ELSE DataAt(heap, buf, size)).of.sections)

\* QDeviceImage::load, when the constants are there.
LoadImage ==
  /\ program # NoProgram /\ image = NoImage
  /\ contains(container.constDesc) /\ (HasConstants => writes # NotLoaded)
  /\ contains(container.network)
  /\ image' = loadImage(container.network.buf, container.network.size)
  /\ UNCHANGED <<source, heap, handles, file, container, program, writes>>

UnloadImage ==
  /\ image # NoImage
  /\ image' = NoImage
  /\ UNCHANGED <<source, heap, handles, file, container, program, writes>>

-----------------------------------------------------------------------------
ContainerInit ==
  /\ source \in Containers
  /\ heap = [a \in {AppMem} |-> source.mem]
  /\ handles = [h \in Handles |-> NoHandle]
  /\ file = NoFile /\ container = NotOpen /\ program = NoProgram
  /\ writes = NotLoaded /\ image = NoImage

ContainerNext ==
  \/ \E h \in Handles : \/ BuildFromSegments(h) \/ BuildFromByteArray(h)
                        \/ ConvertNetworkElfSection(h) \/ DestroyQpcHandle(h)
  \/ FreeSegments \/ CopyBytes \/ CopyQpcBuffer \/ BuildFile \/ ReadFile
  \/ Open \/ Close \/ CreateProgram \/ ReleaseProgram
  \/ LoadConstants \/ LoadImage \/ UnloadImage

ContainerSpec == ContainerInit /\ [][ContainerNext]_containerVars

-----------------------------------------------------------------------------
(* Properties.                                                             *)

Compiled(name) ==
  source.segs[CHOOSE i \in DOMAIN source.segs : NameIn(source, source.segs[i]) = name]
Data(name) == DataIn(source, Compiled(name))
Names      == {NameIn(source, s) : s \in Range(source.segs)}

\* The allocations are those of the handles, of the application and of the
\* container, and each handle that was built has remembered the same offsets in
\* the trial run and in the run that wrote.
ContainerTypeOK ==
  /\ source \in Containers
  /\ DOMAIN heap \subseteq {AppMem, Buf, Own} \cup Range(Home)
  /\ \A h \in Handles :
       /\ handles[h] # NoHandle <=> Home[h] \in DOMAIN heap
       /\ LET o == handles[h].nameOffsets IN
          handles[h].compressionType = SLOWPATH =>
            SubSeq(o, 1, Len(o) \div 2) = SubSeq(o, Len(o) \div 2 + 1, Len(o))
  /\ container # NotOpen <=> Own \in DOMAIN heap
  /\ Len(writes) <= 2

Sections(elf)  == elf.of.sections
Unconverted(s) ==
  IF SectionIndex(s, MetadataFb) = 0 THEN s ELSE RemoveAt(s, SectionIndex(s, MetadataFb))

\* Whatever way a container took, once it is open each of its segments is found
\* in the buffer of the library, whole and as it was compiled, and stays so when
\* everything else is freed; network.elf has its sections in their old order,
\* with the converted one right behind its source if it was converted.
SegmentsIntact ==
  container # NotOpen =>
    /\ Names = {NameAt(heap, s.name) : s \in Range(Table(heap, Own))}
    /\ \A s \in Range(Table(heap, Own)) :
         LET name == NameAt(heap, s.name)
             data == DataAt(heap, s.start, s.size)
         IN /\ Own <= s.name /\ Own <= s.start /\ s.start + s.size <= Own + heap[Own].size
            /\ s.offset = Compiled(name).offset
            /\ name # "networkElf" /\ s.size > 0 => data = Data(name)
            /\ name = "networkElf" =>
                 /\ Unconverted(Sections(data)) = Unconverted(Sections(Data(name)))
                 /\ SectionIndex(Sections(data), MetadataFb) # 0 =>
                      SectionIndex(Sections(data), MetadataFb) = SectionIndex(Sections(data), Metadata) + 1

\* When constants are loaded every byte of constants.bin was written, once, to
\* its own place in the memory of the device, with a static part or without.
ConstantsOnce ==
  writes # NotLoaded =>
    \A o \in 0..(Compiled("constants").size - 1) :
      LET at == {i \in DOMAIN writes : writes[i].at <= o /\ o < writes[i].at + writes[i].data.len} IN
      /\ Cardinality(at) = 1
      /\ \A i \in at : /\ writes[i].data.of = Data("constants").of
                       /\ writes[i].data.from + (o - writes[i].at) = o

\* All descriptions of the buffers agree: the protocol buffer and the mappings
\* that size vectors, on the order, the direction and the size of every buffer;
\* what crosses to the device by itself lies inside its DMA buffer; the program
\* gives the device the directions and the sizes that the mappings give the
\* application; and it reads the metadata that the device is driven with,
\* although QProgram and QImageParser choose the section each by itself.
DescriptorsAgree ==
  /\ container # NotOpen =>
       LET p == container.bindings
           default == p.ioDesc.selected_set.bindings
       IN /\ Len(default) = Len(p.ioBufferInfo)
          /\ \A i \in DOMAIN default :
               /\ default[i].index = i - 1 /\ p.ioBufferInfo[i].index = i - 1
               /\ default[i].dir = p.ioBufferInfo[i].ioType
               /\ default[i].size = p.ioBufferInfo[i].size
          /\ \A set \in Range(p.ioDesc.io_sets) : \A b \in Range(set.bindings) :
               \A d \in Range(b.dma_buf_info) :
                 d.dma_offset + d.dma_size <= p.ioDesc.dma_buf[d.dma_buf_index + 1].size
  /\ program # NoProgram =>
       LET d == program.data
           Agree(directions, mappings) ==
             /\ Len(directions) = Len(mappings)
             /\ \A i \in DOMAIN mappings : directions[i] = "TO_DEV" <=> mappings[i].ioType = In
       IN /\ Agree(d.userBufferQDirections, d.bindings.ioBufferInfo)
          /\ Agree(d.dmaBufferQDirections, d.bindings.ioBufferInfoDma)
          /\ d.hasPartialTensor <=>
               \E i \in DOMAIN d.bindings.ioBufferInfo : d.bindings.ioBufferInfo[i].isPartialBufferAllowed
          /\ getDmaBufferSizes = [i \in DOMAIN d.bindings.ioBufferInfoDma |-> d.bindings.ioBufferInfoDma[i].size]
          /\ image # NoImage => image = program.metadata

=============================================================================
