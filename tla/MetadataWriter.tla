----------------------------- MODULE MetadataWriter -----------------------------
(***************************************************************************)
(* The struct form of the metadata of a network: AICMetadataWriter lays    *)
(* the parts out in one buffer and writes the base structure, which holds  *)
(* their offsets, twice; MDR_readMetadata finds them again.                *)
(*                                                                         *)
(* A buffer is [size, cell]: cell[a] is the element that starts at byte a, *)
(* with its type.  What a part says (an entry, a descriptor, an operation) *)
(* is a value; only counts, offsets and core masks are told apart.         *)
(***************************************************************************)
EXTENDS Integers, Sequences, SequencesExt, TLC

CONSTANTS NameLen,        \* the length of each network name
          Unnamed,        \* the name of a network that was given none
          Garbage         \* what is read where no element of that type starts

Types == {"base", "char", "word", "byte", "semaphoreOp", "doorbellOp", "dmaRequest", "nspEntry",
          "nspTable", "hostEntry", "hostTable", "thread", "mapping"}

SizeOf(T) == CASE T = "base" -> 160 [] T = "dmaRequest" -> 48 [] T = "nspEntry" -> 24
               [] T \in {"doorbellOp", "nspTable", "hostTable", "thread", "mapping"} -> 16
               [] T \in {"semaphoreOp", "hostEntry"} -> 8 [] T = "word" -> 4 [] OTHER -> 1
AlignOf(T) == CASE T \in {"char", "byte"} -> 1 [] T = "semaphoreOp" -> 2
                [] T \in {"word", "hostEntry"} -> 4 [] OTHER -> 8

NoBuffer == [size |-> 0, cell |-> <<>>]

alignUp(x, m) == ((x + m - 1) \div m) * m
Next8(buf, T) == alignUp(buf.size, AlignOf(T))      \* where elements of type T would go

\* Appends elements at the next aligned offset; of none, the padding remains.
write(buf, T, elts) ==
  LET o     == Next8(buf, T)
      At(i) == o + (i - 1) * SizeOf(T)
  IN  [size |-> o + (IF T = "char" THEN NameLen[elts[1]] + 1 ELSE Len(elts) * SizeOf(T)),
       cell |-> [a \in {At(i) : i \in DOMAIN elts} |->
                   [type |-> T, value |-> elts[(a - o) \div SizeOf(T) + 1]]] @@ buf.cell]

\* Writes over what is there, whatever its type.
writeAt(buf, T, elt, o) ==
  [buf EXCEPT !.cell = (o :> [type |-> T, value |-> elt]) @@
     [a \in {b \in DOMAIN buf.cell : b + SizeOf(buf.cell[b].type) <= o \/ b >= o + SizeOf(T)} |-> buf.cell[a]]]

-----------------------------------------------------------------------------
(* The writer: the base structure md, the parts, the buffer.               *)

ScalarFields == {"staticSharedDDRSize", "dynamicSharedDDRSize", "staticConstantsSize", "dynamicConstantsSize",
                 "staticSharedDDRECCEnabled", "dynamicSharedDDRECCEnabled", "staticConstantsECCEnabled",
                 "dynamicConstantsECCEnabled", "singleVTCMPage", "VTCMSize", "L2TCMSize", "networkHeapSize",
                 "exitDoorbellOffset", "l2CachedDDRSize", "hasHvxFP", "hasHmxFP"}

AICMetadata(major, minor) ==
  [versionMajor |-> major, versionMinor |-> minor, numNSPs |-> 0, numSemaphores |-> 0, L2TCMInitSize |-> 0,
   numDMARequests |-> 0, numThreadDescriptors |-> 0, numConstantMappings |-> 0,
   scalars |-> [f \in ScalarFields |-> 0],
   \* offsets in the buffer, which a reader turns into pointers
   networkName |-> 0, semaphoreInitState |-> 0, L2TCMInitState |-> 0, dmaRequests |-> 0,
   nspMulticastTables |-> 0, hostMulticastTable |-> 0, threadDescriptors |-> 0, constantMappings |-> 0]

AICMetadataWriter(major, minor) ==
  [md |-> AICMetadata(major, minor), name |-> "", semaphores |-> <<>>, l2tcm |-> <<>>, requests |-> <<>>, nsp |-> [c \in 1..16 |-> <<>>],
   host |-> <<>>, threads |-> <<>>, mappings |-> <<>>, mapped |-> {}, buf |-> NoBuffer]

Filled(s, n, v) == [i \in 1..n |-> IF i <= Len(s) THEN s[i] ELSE v]     \* std::vector::resize

setNumNSPs(w, n)       == [w EXCEPT !.md.numNSPs = n]
setNumSemaphores(w, n) == [w EXCEPT !.md.numSemaphores = n, !.semaphores = Filled(@, n, 0)]
initSemaphore(w, i, v) == [w EXCEPT !.semaphores[i] = v]
initL2TCMResize(w, n)  == [w EXCEPT !.l2tcm = Filled(@, n, 0)]
initL2TCMByte(w, i, v) == [w EXCEPT !.l2tcm[i] = v]
setScalar(w, f, v)     == [w EXCEPT !.md.scalars[f] = v]        \* setVTCMSize, setStaticConstantsSize, ...
setNetworkName(w, name) == [w EXCEPT !.name = name]

\* What a request carries; a command that is none of the seven is an assertion.
addSemaphoreOp(ops, op) == Append(ops, op)
addDoorbellOp(ops, op)  == Append(ops, op)
addDMARequest(w, r, semaphoreOps, doorbellOps) ==
  [w EXCEPT !.requests = Append(@, [request |-> r, semaphoreOps |-> semaphoreOps, doorbellOps |-> doorbellOps])]
addNSPMulticastEntry(w, core, e) == [w EXCEPT !.nsp[core] = Append(@, e)]
addHostMulticastEntry(w, e)      == [w EXCEPT !.host = Append(@, e)]
addThreadDescriptor(w, t)        == [w EXCEPT !.threads = Append(@, t)]
addConstantMapping(w, m)         == [w EXCEPT !.mappings = Append(@, m), !.mapped = @ \union m.coreMask]

\* A part that may be empty: its offset in the base structure is then 0.
Put(w, field, T, elts) ==
  IF elts = <<>> THEN [w EXCEPT !.md[field] = 0]
  ELSE [w EXCEPT !.md[field] = Next8(w.buf, T), !.buf = write(@, T, elts)]

finiSemaphoreState(w) == Put(w, "semaphoreInitState", "word", w.semaphores)
finiL2TCMState(w)     == Put([w EXCEPT !.md.L2TCMInitSize = Len(w.l2tcm)], "L2TCMInitState", "byte", w.l2tcm)

\* The operations of all requests come first, each request with its offsets
\* after; the count of operations has eight bits.
finiDMARequests(w) ==
  LET Ops(s, q) ==
        LET b1 == IF q.semaphoreOps = <<>> THEN s.buf ELSE write(s.buf, "semaphoreOp", q.semaphoreOps)
            b2 == IF q.doorbellOps = <<>> THEN b1 ELSE write(b1, "doorbellOp", q.doorbellOps)
        IN  [buf |-> b2,
             elts |-> Append(s.elts,
               [request |-> q.request,
                numSemaphoreOps |-> Len(q.semaphoreOps) % 256, numDoorbellOps |-> Len(q.doorbellOps) % 256,
                semaphoreOps |-> IF q.semaphoreOps = <<>> THEN 0 ELSE Next8(s.buf, "semaphoreOp"),
                doorbellOps |-> IF q.doorbellOps = <<>> THEN 0 ELSE Next8(b1, "doorbellOp")])]
      s == FoldLeft(Ops, [buf |-> w.buf, elts |-> <<>>], w.requests)
  IN  [w EXCEPT !.buf = IF s.elts = <<>> THEN s.buf ELSE write(s.buf, "dmaRequest", s.elts),
                !.md.numDMARequests = Len(s.elts),
                !.md.dmaRequests = IF s.elts = <<>> THEN @ ELSE Next8(s.buf, "dmaRequest")]

\* The entries of every core, the tables of the cores, then those of the host.
finiMulticastTables(w) ==
  LET Entries(s, t) ==
        [buf |-> write(s.buf, "nspEntry", t),
         elts |-> Append(s.elts, [numMulticastEntries |-> Len(t), multicastEntries |-> Next8(s.buf, "nspEntry")])]
      s  == FoldLeft(Entries, [buf |-> w.buf, elts |-> <<>>], SubSeq(w.nsp, 1, w.md.numNSPs))
      b1 == write(s.buf, "nspTable", s.elts)
      b2 == write(b1, "hostEntry", w.host)
      t  == [numMulticastEntries |-> Len(w.host), multicastEntries |-> Next8(b1, "hostEntry")]
  IN  [w EXCEPT !.buf = write(b2, "hostTable", <<t>>),
                !.md.nspMulticastTables = Next8(s.buf, "nspTable"),
                !.md.hostMulticastTable = Next8(b2, "hostTable")]

finiThreadDescriptors(w) ==
  IF w.threads = <<>> THEN [w EXCEPT !.md.numThreadDescriptors = 0]
  ELSE Put([w EXCEPT !.md.numThreadDescriptors = Len(w.threads)], "threadDescriptors", "thread", w.threads)

finiConstantMappings(w) ==
  Put([w EXCEPT !.md.numConstantMappings = Len(w.mappings), !.mapped = {}], "constantMappings", "mapping", w.mappings)

\* Fault: the base structure is not written again when the offsets are known.
finalize_Once(w) ==
  LET w1 == [w EXCEPT !.buf = write(@, "base", <<w.md>>), !.name = IF @ = "" THEN Unnamed ELSE @]
  IN  finiConstantMappings(finiThreadDescriptors(finiMulticastTables(finiDMARequests(finiL2TCMState(
        finiSemaphoreState(Put(w1, "networkName", "char", <<w1.name>>)))))))

finalize(w) ==
  LET w1 == [w EXCEPT !.buf = write(@, "base", <<w.md>>), !.name = IF @ = "" THEN Unnamed ELSE @]
      w2 == finiConstantMappings(finiThreadDescriptors(finiMulticastTables(finiDMARequests(finiL2TCMState(
              finiSemaphoreState(Put(w1, "networkName", "char", <<w1.name>>)))))))
  IN  [w2 EXCEPT !.buf = writeAt(@, "base", w2.md, 0)]

-----------------------------------------------------------------------------
(* MDR_readMetadata refuses the base structure of another version, and     *)
(* turns the offsets of the buffer into pointers in place; what a reader    *)
(* then finds behind them is:                                              *)

Fetch(buf, T, a)     == IF a \in DOMAIN buf.cell /\ buf.cell[a].type = T THEN buf.cell[a].value ELSE Garbage
Elements(buf, T, a, n) == [i \in 1..n |-> Fetch(buf, T, a + (i - 1) * SizeOf(T))]

VersionMatches(buf, major, minor) ==
  Fetch(buf, "base", 0).versionMajor = major /\ Fetch(buf, "base", 0).versionMinor = minor

MDR_readMetadata(buf) ==
  LET b == Fetch(buf, "base", 0)
      Request(i) ==
        LET r == Fetch(buf, "dmaRequest", b.dmaRequests + (i - 1) * SizeOf("dmaRequest")) IN
        IF r = Garbage THEN [request |-> Garbage, semaphoreOps |-> <<>>, doorbellOps |-> <<>>]
        ELSE [request |-> r.request,
              semaphoreOps |-> Elements(buf, "semaphoreOp", r.semaphoreOps, r.numSemaphoreOps),
              doorbellOps |-> Elements(buf, "doorbellOp", r.doorbellOps, r.numDoorbellOps)]
      Table(T, E, a) == LET t == Fetch(buf, T, a) IN
        IF t = Garbage THEN <<Garbage>> ELSE Elements(buf, E, t.multicastEntries, t.numMulticastEntries)
  IN  [b EXCEPT !.networkName = Fetch(buf, "char", @),
         !.semaphoreInitState = Elements(buf, "word", @, b.numSemaphores),
         !.L2TCMInitState = Elements(buf, "byte", @, b.L2TCMInitSize),
         !.dmaRequests = [i \in 1..b.numDMARequests |-> Request(i)],
         !.nspMulticastTables = [c \in 1..b.numNSPs |-> Table("nspTable", "nspEntry", @ + (c - 1) * SizeOf("nspTable"))],
         !.hostMulticastTable = Table("hostTable", "hostEntry", @),
         !.threadDescriptors = Elements(buf, "thread", @, b.numThreadDescriptors),
         !.constantMappings = Elements(buf, "mapping", @, b.numConstantMappings)]
=================================================================================
