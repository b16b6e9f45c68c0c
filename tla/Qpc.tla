--------------------------------- MODULE Qpc ---------------------------------
(***************************************************************************)
(* The program container format (lib/networkdesc/qpc): a header, a table   *)
(* of segments, and the names and the data the table points to, written    *)
(* into one buffer or one file, and the fix-ups that make its pointers     *)
(* right again where the buffer ends up.                                   *)
(*                                                                         *)
(* Pointers are numbers.  A heap is a function from the address of every   *)
(* allocation that is alive to its contents: what strings and what data    *)
(* start at which offset, and for a QPC its header and table.  Data are    *)
(* slices of what a compiler emitted; a pointer that leads nowhere in the  *)
(* heap reads Wild.                                                        *)
(***************************************************************************)
EXTENDS Integers, Sequences, SequencesExt

Wild    == "garbage"
NullPtr == 0

\* Bytes of the names a segment may have, with the final 0.
SegmentName ==
  [networkElf |-> 12, networkDesc |-> 16, constantsDesc |-> 18, constants |-> 14,
   metadataCRC |-> 13, constantsCRC |-> 18]

SLOWPATH == 1
FASTPATH == 0
SizeofQAicQpc    == 40
SizeofQpcSegment == 32

Slice(of, from, len) == [of |-> of, from |-> from, len |-> len]
Block(names, bodies) == [kind |-> "data", names |-> names, bodies |-> bodies]
NoCells == [o \in {} |-> Wild]

\* Data are slices of contents [name, sections, static, dynamic]: sections are
\* those of an ELF, the numbers what a constants descriptor says.
NoData == Slice([name |-> Wild, sections |-> <<>>, static |-> 0, dynamic |-> 0], 0, 0)

\* What a char* and what a buffer of n bytes point at.
NameAt(heap, p) ==
  LET hits == {b \in DOMAIN heap : p - b \in DOMAIN heap[b].names} IN
  IF hits = {} THEN Wild ELSE LET b == CHOOSE b \in hits : TRUE IN heap[b].names[p - b]

DataAt(heap, p, n) ==
  LET Holds(b, o) == /\ b + o <= p
                     /\ p + n <= b + o + heap[b].bodies[o].len
      hits == {b \in DOMAIN heap : \E o \in DOMAIN heap[b].bodies : Holds(b, o)}
  IN
  IF hits = {} THEN NoData
  ELSE LET b == CHOOSE b \in hits : TRUE
           o == CHOOSE o \in DOMAIN heap[b].bodies : Holds(b, o)
           s == heap[b].bodies[o]
       IN Slice(s.of, s.from + (p - b - o), n)

-----------------------------------------------------------------------------
(* Writing.                                                                *)

alignTo(x, m) == ((x + m - 1) \div m) * m

\* The offset of each part written one after another, and of the end.
writeElement(start, bytes, align) ==
  LET at[i \in 1..(Len(bytes) + 1)] ==
        IF i = 1 THEN start ELSE alignTo(at[i - 1] + bytes[i - 1], align)
  IN at

\* The three rounds over the segments: table, names, data.
Layout(heap, segs, align) ==
  LET n      == Len(segs)
      names  == writeElement(SizeofQAicQpc + n * SizeofQpcSegment,
                             [i \in 1..n |-> SegmentName[NameAt(heap, segs[i].name)]], align)
      starts == writeElement(names[n + 1], [i \in 1..n |-> segs[i].size], align)
  IN [names |-> [i \in 1..n |-> names[i]], starts |-> [i \in 1..n |-> starts[i]],
      size |-> starts[n + 1]]

\* The strings and the data of the segments at the offsets of a layout.
Cells(heap, segs, L) ==
  LET full == {i \in DOMAIN segs : segs[i].size > 0}
      At(offsets, o, S) == CHOOSE i \in S : offsets[i] = o
  IN Block([o \in {L.names[i] : i \in DOMAIN segs} |->
              NameAt(heap, segs[At(L.names, o, DOMAIN segs)].name)],
           [o \in {L.starts[i] : i \in full} |->
              LET s == segs[At(L.starts, o, full)] IN DataAt(heap, s.start, s.size)])

QpcBlock(cells, size, base, compression, images, table) ==
  [kind |-> "qpc", names |-> cells.names, bodies |-> cells.bodies, size |-> size,
   base |-> base, compressionType |-> compression, images |-> images, table |-> table]

\* The handle remembers the offsets of every run of writeQAicQpcObject, the
\* trial run included, and is never cleared.
writeQAicQpcObject(heap, h, segs) ==
  LET L == Layout(heap, segs, 8) IN
  IF h.compressionType = SLOWPATH
  THEN [h EXCEPT !.nameOffsets = @ \o L.names, !.startOffsets = @ \o L.starts]
  ELSE h

\* A fastpath QPC has the table only and keeps the pointers it was given.
FastSize(segs) == SizeofQAicQpc + Len(segs) * SizeofQpcSegment

fixupQAicQpcObject(h, home, segs) ==
  IF h.compressionType = SLOWPATH
  THEN [i \in DOMAIN segs |-> [segs[i] EXCEPT !.name = home + h.nameOffsets[i],
                                              !.start = home + h.startOffsets[i]]]
  ELSE segs

\* The trial run, the run that writes, the fix-up: the handle afterwards and
\* the contents of its buffer.
serializeFromVector(heap, h, home, segs) ==
  LET g == writeQAicQpcObject(heap, writeQAicQpcObject(heap, h, segs), segs)
      L == Layout(heap, segs, 8)
      slow == h.compressionType = SLOWPATH
  IN [handle |-> g,
      block  |-> QpcBlock(IF slow THEN Cells(heap, segs, L) ELSE Block(NoCells, NoCells),
                          IF slow THEN L.size ELSE FastSize(segs),
                          home, h.compressionType, home + SizeofQAicQpc,
                          fixupQAicQpcObject(g, home, segs))]

createQpcHandle(c) == [compressionType |-> c, nameOffsets |-> <<>>, startOffsets |-> <<>>]

-----------------------------------------------------------------------------
(* Writing to a file.                                                      *)

\* A descriptor names a segment and says whether its data are in memory or in
\* a file of their own (s then has no start).
ValidDescriptors(descs) ==
  /\ descs # <<>>
  /\ \A i, j \in DOMAIN descs : descs[i].name = descs[j].name => i = j
  /\ \E i \in DOMAIN descs : descs[i].name = "networkElf"

\* Files are read before the output is opened, but for that of constants.bin,
\* which is copied through; it can only come from a file.
binaryFileToBuffer(descs, present) ==
  \A i \in DOMAIN descs :
    descs[i].kind = "file" /\ descs[i].name # "constants" => descs[i].name \in present
writeConstants(descs, present) ==
  \A i \in DOMAIN descs :
    descs[i].name = "constants" => descs[i].kind = "file" /\ "constants" \in present

\* In a file pointers are offsets: the base is 0 and nothing is aligned.  The
\* header is written first, without a size, and again when all else is there.
FileBlock(heap, segs) ==
  LET L == Layout(heap, segs, 1) IN
  QpcBlock(Cells(heap, segs, L), L.size, 0, SLOWPATH, SizeofQAicQpc,
           [i \in DOMAIN segs |-> [segs[i] EXCEPT !.name = L.names[i], !.start = L.starts[i]]])

UnfinishedFile(heap, segs) == [FileBlock(heap, segs) EXCEPT !.size = 0, !.images = NullPtr]

-----------------------------------------------------------------------------
(* Reading and moving.                                                     *)

IsQpc(heap, a) == a \in DOMAIN heap /\ heap[a].kind = "qpc"

\* The table is where the header says, or it is whatever is there.
Table(heap, a) == IF heap[a].images = a + SizeofQAicQpc THEN heap[a].table ELSE <<>>

computeAddrByBase(old_base, new_base, p) == new_base + (p - old_base)

\* Fault: the copy keeps pointing to where it came from.
fixupQAicQpcCopyObject_Names(q, base) ==
  LET Move(p) == computeAddrByBase(q.base, base, p) IN
  [q EXCEPT !.base = base, !.images = Move(q.images),
            !.table = [i \in DOMAIN q.table |-> [q.table[i] EXCEPT !.name = Move(q.table[i].name)]]]

fixupQAicQpcCopyObject(q, base) ==
  LET Move(p) == computeAddrByBase(q.base, base, p) IN
  [q EXCEPT !.base = base, !.images = Move(q.images),
            !.table = [i \in DOMAIN q.table |->
                         [q.table[i] EXCEPT !.name = Move(q.table[i].name),
                                            !.start = Move(q.table[i].start)]]]

\* NULL (here: the heap as it was) unless the source is a QPC of that size
\* that carries its data.
CanCopy(heap, source, size) ==
  /\ source # NullPtr /\ size # 0
  /\ IsQpc(heap, source)
  /\ heap[source].size = size
  /\ heap[source].compressionType # FASTPATH

copyQpcBuffer(heap, destination, source) == fixupQAicQpcCopyObject(heap[source], destination)

NotFound == [found |-> FALSE, buf |-> NullPtr, size |-> 0]

\* Where in a table the first segment of a name is; 0 if nowhere.
SegmentIndex(heap, table, name) == SelectInSeq(table, LAMBDA s : NameAt(heap, s.name) = name)

\* The first segment of the name; of constants.bin the static part when the
\* offset asked for is 0 and there is one, the rest otherwise.
getQPCSegment(heap, a, name, offset) ==
  LET table == IF IsQpc(heap, a) THEN Table(heap, a) ELSE <<>>
      i     == SegmentIndex(heap, table, name)
      s     == table[i]
  IN IF i = 0 THEN NotFound
     ELSE IF s.offset > 0 /\ offset = 0
          THEN [found |-> TRUE, buf |-> s.start, size |-> s.offset]
          ELSE [found |-> TRUE, buf |-> s.start + s.offset, size |-> s.size - s.offset]

-----------------------------------------------------------------------------
(* Sections of network.elf.                                                *)

SectionIndex(sections, name) == SelectInSeq(sections, LAMBDA s : s.name = name)

\* The converted section goes into the section of that name, or into a new one
\* right behind its source; what was behind the source moves up by one, first
\* attributes and data, then names.
convertNetworkElfSection(sections, from, to, convFunction) ==
  LET src  == SectionIndex(sections, from)
      dst  == SectionIndex(sections, to)
      data == convFunction[sections[src].data]
      new  == [sections[src] EXCEPT !.name = to, !.data = data]
  IN IF dst # 0 THEN [sections EXCEPT ![dst].data = data]
     ELSE [i \in 1..(Len(sections) + 1) |->
             IF i <= src THEN sections[i] ELSE IF i = src + 1 THEN new ELSE sections[i - 1]]

\* network.elf leaves the table and comes back at its end.
ReplaceElf(segs, i, elf) == Append(RemoveAt(segs, i), elf)

=============================================================================
