--------------------------- MODULE DeviceFactory ---------------------------
(***************************************************************************)
(* How the devices of the machine get their QIDs and handles: enumeration  *)
(* and device nodes (lib/runtime-platform/src/os/linux/QOsal.cpp), the two *)
(* factories (QRuntimePlatformKmdDeviceFactory.cpp and                     *)
(* lib/network-driver/src/QKmdDeviceFactory.cpp) and the check of the      *)
(* firmware before a runtime is handed out (QRuntimeManager.cpp).          *)
(*                                                                         *)
(* A base device is a PCI function; a derived device is made of a part of  *)
(* one and has no PCI address of its own.  Both factories do the same      *)
(* here; what they differ in is the class of the objects and the log.      *)
(***************************************************************************)
EXTENDS Integers, FiniteSets, Sequences, SequencesExt, Numbering

CONSTANTS
  PciOrder,   \* the PCI addresses, in the order of the keys they are sorted by
  Derived,    \* devices made of parts
  Parent,     \* [Derived -> PCI addresses]
  NameOrder   \* names a node can have, in the order std::list::sort puts them

Base == Range(PciOrder)
Devices == Base \cup Derived
Names == Range(NameOrder)

NoDevice == "none"
Unnamed == ""
Invalid == "accelinvalid"       \* QAicInvalidDevice
NoHandle == -1                  \* INVALID_FILE_DEV_HANDLE

ASSUME OrderAssumption ==
  /\ PciOrder \in Seq(Base) /\ IsInjective(PciOrder)
  /\ NameOrder \in Seq(Names) /\ IsInjective(NameOrder)
ASSUME DevicesAssumption ==
  /\ IsFiniteSet(Derived) /\ Derived \cap Base = {} /\ NoDevice \notin Devices
  /\ Parent \in [Derived -> Base]
ASSUME NamesAssumption == Names \cap (Base \cup {Unnamed, Invalid, "_invalid"}) = {}

qidDerivedBase == 100
qidPlatformNspDeviceBase == 1000

\* The list is made once in a process and kept (devListLocal): a QID names the
\* same address ever after, whether the device works or not.
enumAicDevices == [q \in 0..(Len(PciOrder) - 1) |-> PciOrder[q + 1]]
QidOf(pci) == CHOOSE q \in DOMAIN enumAicDevices : enumAicDevices[q] = pci

-----------------------------------------------------------------------------
(* node[n] is the device whose node /dev/accel/n is, or NoDevice.          *)

NodeOf(node, d) == {n \in Names : node[n] = d}

\* Each node with the name of its parent: a PCI address for a base device, the
\* node of the base device for one made of it.
createUdevMap(node) ==
  {e \in [parent : Base \cup Names, name : Names] :
     \/ node[e.name] \in Base /\ e.parent = node[e.name]
     \/ node[e.name] \in Derived /\ e.parent \in NodeOf(node, Parent[node[e.name]])}

getDevicePath(name, pci, node) ==
  LET found == {e \in createUdevMap(node) : e.parent = pci}
  IN IF name # Unnamed THEN name
     ELSE IF found = {} THEN Invalid ELSE (CHOOSE e \in found : TRUE).name

\* What it looks for is not in the name getDevicePath gives an absent device.
isDeviceValid(name) == name # "_invalid"

\* Nodes no base device is the parent of, sorted.
derivedDevList(udevMap) ==
  LET listed == {i \in DOMAIN NameOrder :
                   \E e \in udevMap : e.name = NameOrder[i] /\ e.parent \notin Base}
  IN [k \in 1..Cardinality(listed) |-> NameOrder[Nth(listed, k)]]

\* Fault: a device that cannot be opened leaves its QID to the next.
getDerivedDevices_Reuses(udevMap, opens) ==
  LET kept == SelectSeq(derivedDevList(udevMap), LAMBDA n : n \in opens)
  IN [q \in {qidDerivedBase + i - 1 : i \in DOMAIN kept} |-> kept[q - qidDerivedBase + 1]]

\* The n-th name gets the n-th QID; one that cannot be opened is left out and
\* its QID is burnt.
getDerivedDevices(udevMap, opens) ==
  LET listed == derivedDevList(udevMap)
  IN [q \in {qidDerivedBase + i - 1 : i \in {i \in DOMAIN listed : listed[i] \in opens}} |->
        listed[q - qidDerivedBase + 1]]

\* The numbers open() gives out are the lowest that are free: the n-th of the
\* QIDs that open gets the n-th.
Opened(files, devs, opens) ==
  LET free == {n \in DOMAIN files : files[n].dev = NoDevice}
      opening == {q \in DOMAIN devs : devs[q].name \in opens}
      fd(q) == Nth(free, Cardinality({p \in opening : p <= q}))
  IN [q \in DOMAIN devs |->
        IF q \in opening THEN [devs[q] EXCEPT !.fd = fd(q)]
        ELSE [devs[q] EXCEPT !.status = "QDS_ERROR", !.failed = TRUE]]

Device(d, name) ==
  [dev |-> d, name |-> name, fd |-> NoHandle, status |-> "QDS_INITIALIZING", failed |-> FALSE]

\* The base devices, those that do not open too, with an error; then the
\* derived ones that open.
initDevices(node, opens, files) ==
  LET derived == getDerivedDevices(createUdevMap(node), opens)
      found(q) == IF q \in DOMAIN enumAicDevices
                  THEN Device(enumAicDevices[q], getDevicePath(Unnamed, enumAicDevices[q], node))
                  ELSE Device(node[derived[q]], derived[q])
  IN Opened(files, [q \in DOMAIN enumAicDevices \cup DOMAIN derived |-> found(q)], opens)

\* The device of a QID, if there is one.
getRtPlatformDevice(devs, q) == IF q \in DOMAIN devs THEN {devs[q]} ELSE {}

\* QRuntimePlatform::getDeviceIds answers QS_SUCCESS for no devices too.
getDeviceIds(devs) == DOMAIN devs

\* answer[q]: what a status query of the device says of its firmware, or
\* "failed".  Derived devices are not asked, a device whose query fails counts
\* as live, and a firmware that is only older does not.
checkFWVersions(devs, answer) ==
  LET asked == {q \in getDeviceIds(devs) :
                  q < qidDerivedBase \/ q >= qidPlatformNspDeviceBase}
      live == {q \in asked : answer[q] \in {"match", "failed"}}
      incompatible == {q \in asked : answer[q] = "mismatch"}
  IN live # {} /\ incompatible = {}
=============================================================================
