-------------------------------- MODULE Metadata --------------------------------
(***************************************************************************)
(* The metadata of a network on its way: a compiler, which may have been   *)
(* built from a later version of this code, writes it with one of the two  *)
(* writers; the struct form is read back and encoded as a flatbuffer with  *)
(* the fields a reader has to know; the section may get the header that    *)
(* tells firmware of the struct form that it cannot read it; a runtime     *)
(* decodes the section, or translates it into a flatbuffer of its own.     *)
(***************************************************************************)
EXTENDS MetadataFlatbuffer

CONSTANTS Majors,          \* the major versions compilers are built with
          Requests,        \* what a DMA request may be: [semaphoreOps, doorbellOps]
          Scalars,         \* the sizes and flags a compiler sets
          NSPs, Semaphores, L2TCM,    \* the counts a compiler may choose
          Schemas,         \* the fields of the schema of a compiler, as sequences
          BaseFields,      \* those of the first schema of the major version
          MaxParts         \* bounds the parts of one network

\* A field is named below the name of the table; what the first schema of a
\* version had, its readers know.
ASSUME SchemasAssumption ==
  /\ \A s \in Schemas : s \in Seq(ToSet(s)) /\ \A f \in ToSet(s) : f \in Seq(ToSet(f)) /\ Len(f) >= 2
  /\ BaseFields \in Seq(KnownFields)
  /\ \A s \in Schemas : Null \notin Seq(ToSet(s))

ASSUME ScalarsAssumption == Scalars \subseteq TranslatedScalars

VARIABLES writer,     \* "struct" or "flatbuffer"
          w,          \* the writer, as long as there is one
          parts,      \* how many parts were added
          bytes,      \* the section
          out         \* what the last reader made of it

vars == <<writer, w, parts, bytes, out>>

None == [form |-> "none"]

Init ==
  /\ writer \in {"struct", "flatbuffer"}
  /\ \E major \in Majors, n \in NSPs, sems \in Semaphores, l2 \in L2TCM :
       \* finalize of the struct form asserts that the exit doorbell lies in what is initialised
       /\ writer = "struct" => l2 > 0
       /\ w = IF writer = "struct"
              THEN initL2TCMResize(setNumSemaphores(setNumNSPs(AICMetadataWriter(major, 0), n), sems), l2)
              ELSE FW_initL2TCMResize(FW_setNumSemaphores(FW_setNumNSPs(
                     MetadataFlatbufferWriter(major, 0), n), sems), l2)
  /\ parts = 0
  /\ bytes = None
  /\ out = Refused("nothing")

Building == bytes = None /\ parts < MaxParts

\* One call on the writer, of the one form or the other.
Part(struct, flatbuffer) ==
  /\ Building
  /\ w' = IF writer = "struct" THEN struct ELSE flatbuffer
  /\ parts' = parts + 1
  /\ UNCHANGED <<writer, bytes, out>>

Cores(n)     == 1..n
NumNSPs      == IF writer = "struct" THEN w.md.numNSPs ELSE w.numNSPs
NumRequests  == Len(IF writer = "struct" THEN w.requests ELSE w.dmaRequests)
MappedCores  == UNION {m.coreMask : m \in ToSet(IF writer = "struct" THEN w.mappings ELSE w.constantMappings)}

AddDMARequest == \E r \in Requests :
  Part(addDMARequest(w, NumRequests, FoldLeft(addSemaphoreOp, <<>>, r.semaphoreOps),
                     FoldLeft(addDoorbellOp, <<>>, r.doorbellOps)),
       FW_addDMARequest(w, NumRequests, FoldLeft(FW_addSemaphoreOp, <<>>, r.semaphoreOps),
                        FoldLeft(FW_addDoorbellOp, <<>>, r.doorbellOps)))
AddNSPMulticastEntry == \E c \in Cores(NumNSPs) :
  Part(addNSPMulticastEntry(w, c, parts), FW_addNSPMulticastEntry(w, c, parts))
AddHostMulticastEntry == Part(addHostMulticastEntry(w, parts), FW_addHostMulticastEntry(w, parts))
AddThreadDescriptor   == Part(addThreadDescriptor(w, parts), FW_addThreadDescriptor(w, parts))
\* Asserted by the writers: a core has one mapping.
AddConstantMapping == \E mask \in SUBSET Cores(NumNSPs) \ {{}} :
  /\ mask \cap MappedCores = {}
  /\ LET m == [coreMask |-> mask, offset |-> parts] IN Part(addConstantMapping(w, m), FW_addConstantMapping(w, m))
InitSemaphore == \E i \in DOMAIN (IF writer = "struct" THEN w.semaphores ELSE w.semaphoreInitState) :
  Part(initSemaphore(w, i, 7), FW_initSemaphore(w, i, 7))
InitL2TCM == \E i \in DOMAIN (IF writer = "struct" THEN w.l2tcm ELSE w.L2TCMInitState) :
  Part(initL2TCMByte(w, i, 9), FW_initL2TCMByte(w, i, 9))
SetNetworkName == \E name \in DOMAIN NameLen \ {Unnamed} :
  /\ parts = 0
  /\ Part(setNetworkName(w, name), FW_setNetworkName(w, name))
SetScalar == \E f \in Scalars : parts = 0 /\ Part(setScalar(w, f, 1), FW_setScalar(w, f, 1))

Finalize ==
  /\ bytes = None
  /\ bytes' = IF writer = "struct" THEN [form |-> "struct", header |-> FALSE, buf |-> finalize(w).buf]
              ELSE [form |-> "flatbuffer", header |-> FALSE, table |-> FW_finalize(w), encoded |-> FALSE, asked |-> FALSE]
  /\ UNCHANGED <<writer, w, parts, out>>

\* The message as JSON: what is in the table itself, and where the arrays are.
VectorsOf(t) ==
  {v \in {"requiredFields", "semaphoreInitState", "L2TCMInitState", "dmaRequests", "nspMulticastTables",
          "threadDescriptors", "constantMappings"} : t[v] # Null}
Message(t) ==
  [paths |-> {<<v>> : v \in VectorsOf(t) \union {"versionMajor", "networkName", "numNSPs"}}
               \union {<<f[2]>> : f \in {g \in t.newFields : Len(g) = 2}},
   arrays |-> {<<v>> : v \in VectorsOf(t)}]

\* A new field of what a vector holds is used where the vector is there.
NewFieldsUsed(schema, t) ==
  {f \in ToSet(schema) \ KnownFields : Len(f) = 2 \/ f[2] \in VectorsOf(t)}

\* The table a tool makes whose schema this is, naming some fields, and the
\* fields of its message the first schema had not.
TableOf(md, size, schema, required) ==
  [aicMetadataTranslateFlatbuff(md, size, required) EXCEPT
     !.newFields = NewFieldsUsed(schema, aicMetadataTranslateFlatbuff(md, size, <<>>))]
RequiredOf(md, size, schema, cr) ==
  filterBaseVersionFields(generateRequiredFields(Message(TableOf(md, size, schema, <<>>)), schema),
                          getMajorSchemaFields([cr |-> cr, fields |-> BaseFields]))

\* The struct form is read and encoded, by a tool of some version, without
\* the fields a reader must know or with those of the message that the
\* first schema had not.
Encode == \E major \in Majors, schema \in Schemas, asked \in BOOLEAN, cr \in BOOLEAN :
  /\ bytes.form = "struct"
  /\ LET md    == MDR_readMetadata(bytes.buf)
         table == TableOf(md, bytes.buf.size, schema, IF asked THEN RequiredOf(md, bytes.buf.size, schema, cr) ELSE <<>>)
     IN  IF ~VersionMatches(bytes.buf, major, 0)
         THEN bytes' = bytes /\ out' = Terminated("version")
         ELSE /\ bytes' = [form |-> "flatbuffer", header |-> FALSE,
                          table |-> table, encoded |-> TRUE, asked |-> asked]
              /\ out' = Refused("nothing")
  /\ UNCHANGED <<writer, w, parts>>

\* External: the tool that packs the image puts the header in front.
AddHeader ==
  /\ bytes.form = "flatbuffer" /\ ~bytes.header
  /\ bytes' = [bytes EXCEPT !.header = TRUE]
  /\ out' = Refused("nothing")
  /\ UNCHANGED <<writer, w, parts>>

\* A runtime reads the section; the header is gone from its copy only.
Decode ==
  /\ bytes # None
  /\ out' = readMetadataFlatNativeCPP(bytes)
  /\ UNCHANGED <<writer, w, parts, bytes>>

Translate ==
  /\ bytes.form = "flatbuffer"
  /\ out' = flatbufValidateTranslateAicMetadata(bytes)
  /\ UNCHANGED <<writer, w, parts, bytes>>

Next == AddDMARequest \/ AddNSPMulticastEntry \/ AddHostMulticastEntry \/ AddThreadDescriptor
        \/ AddConstantMapping \/ InitSemaphore \/ InitL2TCM \/ SetNetworkName \/ SetScalar \/ Finalize \/ Encode
        \/ AddHeader \/ Decode \/ Translate

Spec == Init /\ [][Next]_vars

-----------------------------------------------------------------------------
\* What the compiler said of the network.
Given ==
  IF writer = "struct"
  THEN [scalars |-> w.md.scalars, networkName |-> IF w.name = "" THEN Unnamed ELSE w.name, semaphoreInitState |-> w.semaphores,
        L2TCMInitState |-> w.l2tcm, dmaRequests |-> w.requests, nspMulticastTables |-> SubSeq(w.nsp, 1, NumNSPs),
        hostMulticastTable |-> w.host, threadDescriptors |-> w.threads, constantMappings |-> w.mappings]
  ELSE [scalars |-> w.scalars, networkName |-> IF w.networkName = "" THEN Unnamed ELSE w.networkName,
        semaphoreInitState |-> w.semaphoreInitState, L2TCMInitState |-> w.L2TCMInitState,
        dmaRequests |-> w.dmaRequests, nspMulticastTables |-> w.nspMulticastTables,
        hostMulticastTable |-> w.hostMulticastTable, threadDescriptors |-> w.threadDescriptors,
        constantMappings |-> w.constantMappings]

\* A runtime that accepts a section works with the network the compiler
\* described: nothing is lost, mixed up or left over by the layout in one
\* buffer, the offsets, the encoding, the unpacking or a translation.
SameNetwork ==
  out.res = "ok" =>
    LET md == IF "md" \in DOMAIN out THEN out.md ELSE UnPack(out.table) IN
    /\ \A field \in DOMAIN Given : md[field] = Given[field]
    /\ md.numSemaphores = Len(md.semaphoreInitState) /\ md.L2TCMInitSize = Len(md.L2TCMInitState)
    /\ md.numNSPs = Len(md.nspMulticastTables)

\* A network that uses a field its reader does not know is refused, wherever
\* in the tables the field is, when the encoder was asked to name what has to
\* be known; one of another major version always is.
Understood ==
  out.res = "ok" =>
    /\ bytes.table.versionMajor = KnownMajor
    /\ bytes.asked => bytes.table.newFields \subseteq KnownFields

\* What this version wrote for itself, however little of a network there is, is
\* not refused: by the runtime, which strips the header, with one in front or
\* without; by the translation, without one.  That does not strip the header:
\* with one in front the verification fails, and nothing else does, and the
\* process ends.  (Absent vectors are the matter of TranslationSafe.)
OwnAccepted ==
  bytes.form = "flatbuffer" /\ bytes.table.versionMajor = KnownMajor /\ bytes.table.newFields = {} =>
    /\ out.res \notin {"incompatible", "unverified"}
    /\ out.res = "terminate" => bytes.header /\ out.why = "unverified"

\* A flatbuffer of FlatEncode has every vector the translation goes through.
\* (One that MetadataFlatbufferWriter packed has not.)
TranslationSafe == bytes.form = "flatbuffer" /\ bytes.encoded => out.res # "null dereference"
=================================================================================
