--------------------------- MODULE MetadataFlatbuffer ---------------------------
(***************************************************************************)
(* The flatbuffer form of the metadata.  A table is a record whose vectors *)
(* may be absent (Null); the native form, MetadataT, has vectors only.     *)
(* MetadataFlatbufferWriter builds and packs the native form, FlatEncode   *)
(* makes the table from the struct form, FlatDecode checks a table and     *)
(* unpacks it, or translates it into another writer.                       *)
(*                                                                         *)
(* The bytes of a section are [form, header, table]: a flatbuffer or       *)
(* something else, behind a header of 8 bytes or not.  A field is named by *)
(* the sequence of names that leads to it from the name of the table;      *)
(* newFields are those a table uses that a later version of the schema     *)
(* brought: a reader of this one does not see them.                        *)
(***************************************************************************)
EXTENDS MetadataWriter, FiniteSetsExt, Numbering

CONSTANTS Null,
          KnownFields,    \* the fields this version of the reader has
          KnownMajor      \* AIC_METADATA_MAJOR_VERSION of the reader

-----------------------------------------------------------------------------
(* MetadataFlatbufferWriter: the native form and the cores that have a     *)
(* mapping of constants.                                                   *)

MetadataFlatbufferWriter(major, minor) ==
  [versionMajor |-> major, versionMinor |-> minor, numNSPs |-> 0, numSemaphores |-> 0, L2TCMInitSize |-> 0,
   scalars |-> [f \in ScalarFields |-> 0], networkName |-> "", requiredFields |-> <<>>, semaphoreInitState |-> <<>>, L2TCMInitState |-> <<>>,
   dmaRequests |-> <<>>, nspMulticastTables |-> <<>>, hostMulticastTable |-> <<>>, threadDescriptors |-> <<>>,
   constantMappings |-> <<>>, raw_struct_version_length |-> 0, newFields |-> {}]

FW_setNumNSPs(f, n) ==
  [f EXCEPT !.numNSPs = n, !.nspMulticastTables = IF Len(@) < n THEN Filled(@, n, <<>>) ELSE @]
FW_setNumSemaphores(f, n) == [f EXCEPT !.numSemaphores = n, !.semaphoreInitState = Filled(@, n, 0)]
FW_initSemaphore(f, i, v) == [f EXCEPT !.semaphoreInitState[i] = v]
FW_initL2TCMResize(f, n)  == [f EXCEPT !.L2TCMInitSize = n, !.L2TCMInitState = Filled(@, n, 0)]
FW_initL2TCMByte(f, i, v) == [f EXCEPT !.L2TCMInitState[i] = v]
FW_setScalar(f, field, v)   == [f EXCEPT !.scalars[field] = v]
FW_setNetworkName(f, name)  == [f EXCEPT !.networkName = name]
FW_addRequiredField(f, field) == [f EXCEPT !.requiredFields = Append(@, field)]
FW_addSemaphoreOp(ops, op)  == Append(ops, op)
FW_addDoorbellOp(ops, op)   == Append(ops, op)
FW_addDMARequest(f, r, semaphoreOps, doorbellOps) ==
  [f EXCEPT !.dmaRequests = Append(@, [request |-> r, semaphoreOps |-> semaphoreOps, doorbellOps |-> doorbellOps])]
FW_addNSPMulticastEntry(f, core, e) == [f EXCEPT !.nspMulticastTables[core] = Append(@, e)]
FW_addHostMulticastEntry(f, e)      == [f EXCEPT !.hostMulticastTable = Append(@, e)]
FW_addThreadDescriptor(f, t)        == [f EXCEPT !.threadDescriptors = Append(@, t)]
FW_addConstantMapping(f, m)         == [f EXCEPT !.constantMappings = Append(@, m)]

\* Metadata::Pack and UnPack: an empty vector is not stored, an absent one is
\* read as empty.
OrNull(s)  == IF s = <<>> THEN Null ELSE s
OrEmpty(s) == IF s = Null THEN <<>> ELSE s

Pack(f) ==
  [f EXCEPT !.networkName = IF @ = "" THEN Null ELSE @, !.requiredFields = OrNull(@),
            !.semaphoreInitState = OrNull(@), !.L2TCMInitState = OrNull(@),
            !.dmaRequests = OrNull([i \in DOMAIN @ |->
               [@[i] EXCEPT !.semaphoreOps = OrNull(@), !.doorbellOps = OrNull(@)]]),
            !.nspMulticastTables = OrNull([c \in DOMAIN @ |-> OrNull(@[c])]),
            !.hostMulticastTable = OrNull(@), !.threadDescriptors = OrNull(@), !.constantMappings = OrNull(@)]

UnPack(t) ==
  [t EXCEPT !.newFields = {}, !.networkName = IF @ = Null THEN "" ELSE @, !.requiredFields = OrEmpty(@),
            !.semaphoreInitState = OrEmpty(@), !.L2TCMInitState = OrEmpty(@),
            !.dmaRequests = [i \in DOMAIN OrEmpty(@) |->
               [@[i] EXCEPT !.semaphoreOps = OrEmpty(@), !.doorbellOps = OrEmpty(@)]],
            !.nspMulticastTables = [c \in DOMAIN OrEmpty(@) |-> OrEmpty(@[c])],
            !.hostMulticastTable = OrEmpty(@), !.threadDescriptors = OrEmpty(@), !.constantMappings = OrEmpty(@)]

FW_finalize(f) == Pack([f EXCEPT !.networkName = IF @ = "" THEN Unnamed ELSE @])

-----------------------------------------------------------------------------
(* FlatEncode.  What the fields are called, as a message in JSON shows     *)
(* them: the paths that are there, and those that lead to an array.        *)

\* Fault: what is in an array is taken for absent.
isInMessage_NotInArrays(field, message) ==
  Len(field) >= 2 /\ \A i \in 2..Len(field) : SubSeq(field, 2, i) \in message.paths

\* Below an array every name counts as found.
isInMessage(field, message) ==
  /\ Len(field) >= 2
  /\ \A i \in 2..Len(field) :
        \/ SubSeq(field, 2, i) \in message.paths
        \/ \E j \in 2..(i - 1) : SubSeq(field, 2, j) \in message.arrays

generateRequiredFields(message, schema) == Kept(schema, {field \in ToSet(schema) : isInMessage(field, message)})

filterBaseVersionFields(candidates, base) == Kept(candidates, ToSet(candidates) \ ToSet(base))

\* The file with the fields of the first schema of a major version is read
\* without the last character of each line, which is right when it is a CR.
getMajorSchemaFields(file) == IF file.cr THEN file.fields ELSE <<>>

\* The parts of the struct form as vectors of the table, one by one behind
\* their pointer and count.
Vector(a, n) == [i \in 1..n |-> a[i]]

translateScalars(md)        == [f \in ScalarFields |-> md.scalars[f]]
translateRequiredFields(fields) == Vector(fields, Len(fields))
translateSemaphoreInitState(md) == Vector(md.semaphoreInitState, md.numSemaphores)
translateL2TCMInitState(md)     == Vector(md.L2TCMInitState, md.L2TCMInitSize)
translateThreadDescriptors(md)  == Vector(md.threadDescriptors, md.numThreadDescriptors)
translateConstantMappings(md)   == Vector(md.constantMappings, md.numConstantMappings)
translatehostMulticastEntries(md) == Vector(md.hostMulticastTable, Len(md.hostMulticastTable))
translateNSPMulticastTables(md) ==
  [core \in 1..md.numNSPs |-> Vector(md.nspMulticastTables[core], Len(md.nspMulticastTables[core]))]
translateDMARequests(md) ==
  [i \in 1..md.numDMARequests |->
     [md.dmaRequests[i] EXCEPT !.semaphoreOps = OrNull(@), !.doorbellOps = OrNull(@)]]

\* Fault: every empty vector is left out, as those of the operations are.
aicMetadataTranslateFlatbuff_DropsEmpty(md, rawLength, requiredFields) ==
  [versionMajor |-> md.versionMajor, versionMinor |-> md.versionMinor, numNSPs |-> md.numNSPs,
   numSemaphores |-> md.numSemaphores, L2TCMInitSize |-> md.L2TCMInitSize, scalars |-> translateScalars(md),
   networkName |-> md.networkName, requiredFields |-> OrNull(translateRequiredFields(requiredFields)),
   semaphoreInitState |-> OrNull(translateSemaphoreInitState(md)),
   L2TCMInitState |-> OrNull(translateL2TCMInitState(md)), dmaRequests |-> OrNull(translateDMARequests(md)),
   nspMulticastTables |-> translateNSPMulticastTables(md), hostMulticastTable |-> translatehostMulticastEntries(md),
   threadDescriptors |-> OrNull(translateThreadDescriptors(md)),
   constantMappings |-> OrNull(translateConstantMappings(md)), raw_struct_version_length |-> rawLength, newFields |-> {}]

aicMetadataTranslateFlatbuff(md, rawLength, requiredFields) ==
  [versionMajor |-> md.versionMajor, versionMinor |-> md.versionMinor, numNSPs |-> md.numNSPs,
   numSemaphores |-> md.numSemaphores, L2TCMInitSize |-> md.L2TCMInitSize, scalars |-> translateScalars(md),
   networkName |-> md.networkName, requiredFields |-> translateRequiredFields(requiredFields),
   semaphoreInitState |-> translateSemaphoreInitState(md), L2TCMInitState |-> translateL2TCMInitState(md),
   dmaRequests |-> OrNull(translateDMARequests(md)), nspMulticastTables |-> translateNSPMulticastTables(md),
   hostMulticastTable |-> translatehostMulticastEntries(md),
   threadDescriptors |-> OrNull(translateThreadDescriptors(md)),
   constantMappings |-> OrNull(translateConstantMappings(md)), raw_struct_version_length |-> rawLength, newFields |-> {}]

-----------------------------------------------------------------------------
(* FlatDecode.                                                             *)

flatbufVerifyMetadataBuffer(bytes) == bytes.form = "flatbuffer" /\ ~bytes.header

\* Eight bytes go when they are those of the header, or of a struct form,
\* whose versions are the same.
stripTerminatorMetadata(bytes) ==
  IF flatbufVerifyMetadataBuffer(bytes) THEN bytes
  ELSE IF bytes.header THEN [bytes EXCEPT !.header = FALSE]
  ELSE IF bytes.form = "struct" THEN [bytes EXCEPT !.form = "cut"] ELSE bytes

searchKnownFields(field) == field \in KnownFields

introspectionCheck(t) == t.requiredFields # Null => \A i \in DOMAIN t.requiredFields : searchKnownFields(t.requiredFields[i])

compatibilityCheck(t) == t.versionMajor = KnownMajor /\ introspectionCheck(t)

Refused(why) == [res |-> why]

\* Fault: the header in front of the flatbuffer stays.
readMetadataFlatNativeCPP_Unstripped(bytes) ==
  IF ~flatbufVerifyMetadataBuffer(bytes) THEN Refused("unverified")
  ELSE IF ~compatibilityCheck(bytes.table) THEN Refused("incompatible")
  ELSE [res |-> "ok", md |-> UnPack(bytes.table)]

readMetadataFlatNativeCPP(bytes) ==
  LET b == stripTerminatorMetadata(bytes) IN
  IF ~flatbufVerifyMetadataBuffer(b) THEN Refused("unverified")
  ELSE IF ~compatibilityCheck(b.table) THEN Refused("incompatible")
  ELSE [res |-> "ok", md |-> UnPack(b.table)]

readMetadataFlat(bytes) ==
  IF ~flatbufVerifyMetadataBuffer(bytes) THEN Refused("unverified")
  ELSE IF ~compatibilityCheck(bytes.table) THEN Refused("incompatible")
  ELSE [res |-> "ok", table |-> bytes.table]

\* The translation follows pointers that an absent vector does not have.
AllThere(t) ==
  /\ \A v \in {"networkName", "requiredFields", "semaphoreInitState", "L2TCMInitState", "nspMulticastTables",
               "hostMulticastTable"} : t[v] # Null
  /\ \A c \in DOMAIN t.nspMulticastTables : t.nspMulticastTables[c] # Null

\* No writer has a setter for the size that is left out.
TranslatedScalars == ScalarFields \ {"l2CachedDDRSize"}

translateMetaDataScalars(f, t) ==
  LET sized  == FW_initL2TCMResize(FW_setNumNSPs(FW_setNumSemaphores(FW_setNetworkName(f, t.networkName),
                                                                     t.numSemaphores), t.numNSPs), t.L2TCMInitSize)
      filled == FoldSet(LAMBDA field, g : FW_setScalar(g, field, t.scalars[field]), sized, TranslatedScalars)
  IN  FoldLeft(FW_addRequiredField, [filled EXCEPT !.raw_struct_version_length = t.raw_struct_version_length],
               t.requiredFields)
translateMetadataMultiCastEntries(f, t) ==
  FoldLeft(LAMBDA g, c : FoldLeft(LAMBDA h, e : FW_addNSPMulticastEntry(h, c, e), g, t.nspMulticastTables[c]),
           f, [c \in DOMAIN t.nspMulticastTables |-> c])
translateMetadataHostMultiCastEntries(f, t) == FoldLeft(FW_addHostMulticastEntry, f, t.hostMulticastTable)
translateMetadataL2TCMInitState(f, t) ==
  FoldLeft(LAMBDA g, i : FW_initL2TCMByte(g, i, t.L2TCMInitState[i]), f, [i \in DOMAIN t.L2TCMInitState |-> i])
translateMetadataSemaphoreInitState(f, t) ==
  FoldLeft(LAMBDA g, i : FW_initSemaphore(g, i, t.semaphoreInitState[i]), f, [i \in DOMAIN t.semaphoreInitState |-> i])
translateMetadataThreadDescriptors(f, t) == FoldLeft(FW_addThreadDescriptor, f, OrEmpty(t.threadDescriptors))
translateMetadataConstantMappings(f, t)  == FoldLeft(FW_addConstantMapping, f, OrEmpty(t.constantMappings))
translateMetadataDMARequests(f, t) ==
  FoldLeft(LAMBDA g, r : FW_addDMARequest(g, r.request, FoldLeft(FW_addSemaphoreOp, <<>>, OrEmpty(r.semaphoreOps)),
                                          FoldLeft(FW_addDoorbellOp, <<>>, OrEmpty(r.doorbellOps))),
           f, OrEmpty(t.dmaRequests))

translateToMetadata(t) ==
  LET f1 == translateMetaDataScalars(MetadataFlatbufferWriter(t.versionMajor, t.versionMinor), t)
      f2 == translateMetadataHostMultiCastEntries(translateMetadataMultiCastEntries(f1, t), t)
      f3 == translateMetadataSemaphoreInitState(translateMetadataL2TCMInitState(f2, t), t)
      f4 == translateMetadataConstantMappings(translateMetadataThreadDescriptors(f3, t), t)
  IN  FW_finalize(translateMetadataDMARequests(f4, t))

\* throw; with no exception to throw again: the process ends.
Terminated(why) == [res |-> "terminate", why |-> why]

\* The header is not stripped here.
flatbufValidateTranslateAicMetadata(bytes) ==
  LET r == readMetadataFlat(bytes) IN
  IF r.res # "ok" THEN Terminated(r.res)
  ELSE IF ~AllThere(r.table) THEN Refused("null dereference")
  ELSE [res |-> "ok", table |-> translateToMetadata(r.table)]
=================================================================================
