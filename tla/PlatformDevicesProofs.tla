----------------------- MODULE PlatformDevicesProofs -----------------------
(***************************************************************************)
(* Proofs about PlatformDevices for any number of devices, nodes, threads  *)
(* and files: that both factories call a derived device by the same QID,   *)
(* and that a device is called ready only when it answered.                *)
(***************************************************************************)
EXTENDS PlatformDevices, NumberingProofs

-----------------------------------------------------------------------------
(* What a factory makes.                                                   *)

BaseQids == DOMAIN enumAicDevices

\* QIDs of base devices are numbers, one for each.
LEMMA Enumeration ==
  /\ BaseQids \subseteq Nat /\ IsFiniteSet(BaseQids)
  /\ \A q \in BaseQids : enumAicDevices[q] \in Base
  /\ \A d \in Base : QidOf(d) \in BaseQids /\ enumAicDevices[QidOf(d)] = d
<1> DEFINE n == Len(PciOrder)
<1>1. n \in Nat /\ DOMAIN PciOrder = 1..n /\ BaseQids = 0..(n - 1)
  BY OrderAssumption DEF BaseQids, enumAicDevices
<1>. HIDE DEF n
<1>2. IsFiniteSet(0..(n - 1)) /\ 0..(n - 1) \subseteq Nat
  BY <1>1, FS_Interval
<1>3. \A q \in BaseQids : enumAicDevices[q] = PciOrder[q + 1] /\ q + 1 \in 1..n
  <2>1. \A q \in 0..(n - 1) : q + 1 \in 1..n
    BY <1>1
  <2>. QED
    BY <1>1, <2>1 DEF BaseQids, enumAicDevices
<1>4. \A q \in BaseQids : enumAicDevices[q] \in Base
  BY <1>1, <1>3 DEF Base, Range
<1>5. ASSUME NEW d \in Base PROVE \E q \in BaseQids : enumAicDevices[q] = d
  <2>1. PICK i \in 1..n : PciOrder[i] = d
    BY <1>1 DEF Base, Range
  <2>2. i - 1 \in BaseQids /\ (i - 1) + 1 = i
    BY <1>1
  <2>. QED
    BY <1>3, <2>1, <2>2
<1>. QED
  BY <1>1, <1>2, <1>4, <1>5 DEF QidOf, BaseQids

\* A node is not a PCI address, nor what stands for no name.
LEMMA BaseNames ==
  /\ Names \cap Base = {} /\ Unnamed \notin Names /\ Invalid \notin Names
  /\ "_invalid" \notin Names
BY NamesAssumption

\* The node found for a base device is its node.
LEMMA NodeFound ==
  ASSUME NEW N \in [Names -> Devices \cup {NoDevice}], NEW d \in Base
  PROVE  LET name == getDevicePath(Unnamed, d, N) IN
         /\ name \in Names \cup {Invalid}
         /\ name \in Names => N[name] = d
<1> DEFINE found == {e \in createUdevMap(N) : e.parent = d}
<1>1. \A e \in found : e.name \in Names /\ N[e.name] = d
  BY BaseNames DEF createUdevMap, NodeOf
<1>2. getDevicePath(Unnamed, d, N) = IF found = {} THEN Invalid
                                     ELSE (CHOOSE e \in found : TRUE).name
  BY DEF getDevicePath
<1>. HIDE DEF found
<1>3. CASE found = {}
  BY <1>2, <1>3, BaseNames
<1>4. CASE found # {}
  <2>1. (CHOOSE e \in found : TRUE) \in found
    BY <1>4
  <2>. QED
    BY <1>1, <1>2, <1>4, <2>1
<1>. QED
  BY <1>3, <1>4

\* The names listed are those of nodes of derived devices.
LEMMA ListedNames ==
  ASSUME NEW N \in [Names -> Devices \cup {NoDevice}]
  PROVE  LET list == derivedDevList(createUdevMap(N)) IN
         /\ \E c \in Nat : DOMAIN list = 1..c
         /\ \A k \in DOMAIN list : list[k] \in Names /\ N[list[k]] \in Derived
<1> DEFINE n == Len(NameOrder)
           U == createUdevMap(N)
           listed == {i \in DOMAIN NameOrder :
                        \E e \in U : e.name = NameOrder[i] /\ e.parent \notin Base}
<1>1. n \in Nat /\ DOMAIN NameOrder = 1..n
  BY OrderAssumption
<1>2. \A i \in listed : NameOrder[i] \in Names /\ N[NameOrder[i]] \in Derived
  BY DEF createUdevMap, Names, Range
<1>3. derivedDevList(U) = [k \in 1..Cardinality(listed) |-> NameOrder[Nth(listed, k)]]
  BY DEF derivedDevList
<1>. HIDE DEF n, U
<1>4. listed \in SUBSET (0..n)
  BY <1>1
<1>. HIDE DEF listed
<1>5. IsFiniteSet(0..n)
  BY <1>1, FS_Interval
<1>6. Cardinality(listed) \in Nat
  BY <1>4, <1>5, FS_Subset, FS_CardinalityType
<1>7. \A k \in 1..Cardinality(listed) : Nth(listed, k) \in listed
  BY <1>1, <1>4, NthIsThere
<1>. QED
  BY <1>2, <1>3, <1>6, <1>7 DEF U

\* A derived device has the QID of its node's place in the list.
LEMMA DerivedFound ==
  ASSUME NEW N \in [Names -> Devices \cup {NoDevice}], NEW opens \in SUBSET Names
  PROVE  LET U == createUdevMap(N)
             derived == getDerivedDevices(U, opens)
         IN /\ IsFiniteSet(DOMAIN derived) /\ DOMAIN derived \subseteq Nat
            /\ \A q \in DOMAIN derived :
                 /\ derived[q] = derivedDevList(U)[q - qidDerivedBase + 1]
                 /\ derived[q] \in Names /\ N[derived[q]] \in Derived
<1> DEFINE U == createUdevMap(N)
           list == derivedDevList(U)
           derived == getDerivedDevices(U, opens)
<1>1. \A k \in DOMAIN list : list[k] \in Names /\ N[list[k]] \in Derived
  BY ListedNames
<1>2. PICK c \in Nat : DOMAIN list = 1..c
  BY ListedNames
<1>3. derived = [q \in {qidDerivedBase + i - 1 : i \in {i \in DOMAIN list : list[i] \in opens}} |->
                   list[q - qidDerivedBase + 1]]
  BY DEF getDerivedDevices
<1>. HIDE DEF list, derived, U
<1>4. ASSUME NEW q \in DOMAIN derived
      PROVE  /\ q \in 0..(c + 100)
             /\ derived[q] = list[q - qidDerivedBase + 1] /\ q - qidDerivedBase + 1 \in DOMAIN list
  <2>1. PICK i \in DOMAIN list : q = qidDerivedBase + i - 1
    BY <1>3
  <2>2. i \in 1..c /\ q = 100 + i - 1
    BY <1>2, <2>1 DEF qidDerivedBase
  <2>3. q \in 0..(c + 100) /\ q - qidDerivedBase + 1 = i
    BY <2>2 DEF qidDerivedBase
  <2>. QED
    BY <1>3, <2>1, <2>3
<1>5. IsFiniteSet(0..(c + 100)) /\ 0..(c + 100) \subseteq Nat
  BY FS_Interval
<1>6. DOMAIN derived \in SUBSET (0..(c + 100))
  BY <1>4
<1>7. IsFiniteSet(DOMAIN derived)
  BY <1>5, <1>6, FS_Subset
<1>8. \A q \in DOMAIN derived : derived[q] \in Names /\ N[derived[q]] \in Derived
  BY <1>1, <1>4
<1>. QED
  BY <1>4, <1>5, <1>6, <1>7, <1>8 DEF list, derived, U

Fds == 0..(MaxFiles - 1)
DeviceSet == [dev : Devices, name : Names \cup {Unnamed, Invalid}, fd : {NoHandle} \cup Fds,
              status : {"QDS_INITIALIZING", "QDS_READY", "QDS_ERROR"}, failed : BOOLEAN]

\* The device of a QID and, of one that is derived, its name.
IsNamed(handle, q, list) ==
  IF q \in BaseQids THEN handle.dev = enumAicDevices[q]
  ELSE /\ handle.dev \in Derived /\ handle.name \in Names
       /\ handle.name = list[q - qidDerivedBase + 1]

\* What initDevices makes: every device has a free file of its own, or failed.
LEMMA Made ==
  ASSUME NEW N \in [Names -> Devices \cup {NoDevice}], NEW opens \in SUBSET Names,
         NEW F, DOMAIN F = Fds,
         Cardinality(DOMAIN initDevices(N, opens, F))
           <= Cardinality({n \in DOMAIN F : F[n].dev = NoDevice})
  PROVE  LET devs == initDevices(N, opens, F) IN
         /\ BaseQids \subseteq DOMAIN devs
         /\ \A q \in DOMAIN devs :
              /\ devs[q] \in DeviceSet
              /\ IsNamed(devs[q], q, derivedDevList(createUdevMap(N)))
              /\ IF devs[q].fd = NoHandle THEN devs[q].failed ELSE F[devs[q].fd].dev = NoDevice
         /\ \A q \in DOMAIN devs : \A r \in DOMAIN devs :
              devs[q].fd # NoHandle /\ devs[q].fd = devs[r].fd => q = r
<1> DEFINE U == createUdevMap(N)
           derived == getDerivedDevices(U, opens)
           found(q) == IF q \in BaseQids
                       THEN Device(enumAicDevices[q], getDevicePath(Unnamed, enumAicDevices[q], N))
                       ELSE Device(N[derived[q]], derived[q])
           M == [q \in BaseQids \cup DOMAIN derived |-> found(q)]
           devs == initDevices(N, opens, F)
           free == {n \in DOMAIN F : F[n].dev = NoDevice}
           opening == {q \in DOMAIN M : M[q].name \in opens}
           rank(q) == Cardinality({p \in opening : p <= q})
<1>1. devs = Opened(F, M, opens)
  BY DEF initDevices, BaseQids
<1>2. ASSUME NEW q \in DOMAIN M
      PROVE  /\ M[q] \in DeviceSet /\ M[q].fd = NoHandle /\ ~M[q].failed
             /\ IsNamed(M[q], q, derivedDevList(U))
  <2>1. CASE q \in BaseQids
    <3> DEFINE name == getDevicePath(Unnamed, enumAicDevices[q], N)
    <3>1. enumAicDevices[q] \in Base /\ M[q] = Device(enumAicDevices[q], name)
      BY <2>1, Enumeration
    <3>2. name \in Names \cup {Invalid}
      BY <3>1, NodeFound
    <3>. HIDE DEF name, M
    <3>. QED
      BY <2>1, <3>1, <3>2 DEF Device, DeviceSet, Devices, IsNamed
  <2>2. CASE q \notin BaseQids
    <3>1. q \in DOMAIN derived /\ M[q] = Device(N[derived[q]], derived[q])
      BY <2>2
    <3>2. /\ derived[q] = derivedDevList(U)[q - qidDerivedBase + 1]
          /\ derived[q] \in Names /\ N[derived[q]] \in Derived
      BY <3>1, DerivedFound
    <3>. HIDE DEF derived, M, U
    <3>. QED
      BY <2>2, <3>1, <3>2 DEF Device, DeviceSet, Devices, IsNamed
  <2>. QED
    BY <2>1, <2>2
<1>3. IsFiniteSet(DOMAIN M) /\ DOMAIN M \subseteq Nat
  <2>1. DOMAIN M = BaseQids \cup DOMAIN derived
    OBVIOUS
  <2>2. IsFiniteSet(DOMAIN derived) /\ DOMAIN derived \subseteq Nat
    BY DerivedFound
  <2>3. IsFiniteSet(BaseQids) /\ BaseQids \subseteq Nat
    BY Enumeration
  <2>. HIDE DEF M, derived
  <2>. QED
    BY <2>1, <2>2, <2>3, FS_Union
<1>. HIDE DEF M, U, derived
<1>4. /\ DOMAIN devs = DOMAIN M
      /\ \A q \in DOMAIN M :
           devs[q] = IF q \in opening THEN [M[q] EXCEPT !.fd = Nth(free, rank(q))]
                     ELSE [M[q] EXCEPT !.status = "QDS_ERROR", !.failed = TRUE]
  BY <1>1 DEF Opened
<1>5. Cardinality(DOMAIN M) <= Cardinality(free)
  BY <1>4
<1>. HIDE DEF devs
<1>6. IsFiniteSet(opening) /\ opening \in SUBSET Nat /\ Cardinality(opening) <= Cardinality(DOMAIN M)
  BY <1>3, FS_Subset
<1>7. free \in SUBSET (0..MaxFiles)
  BY BoundsAssumption DEF Fds
<1>. HIDE DEF free
<1>8. /\ Cardinality(free) \in Nat /\ Cardinality(opening) \in Nat
      /\ Cardinality(DOMAIN M) \in Nat
  <2>0. MaxFiles \in Int
    BY BoundsAssumption
  <2>1. IsFiniteSet(0..MaxFiles)
    BY <2>0, FS_Interval
  <2>2. IsFiniteSet(free)
    BY <1>7, <2>1, FS_Subset
  <2>. QED
    BY <1>3, <1>6, <2>2, FS_CardinalityType
<1>. HIDE DEF opening
<1>9. ASSUME NEW q \in opening
      PROVE  Nth(free, rank(q)) \in free /\ Cardinality({m \in free : m <= Nth(free, rank(q))}) = rank(q)
  <2>1. rank(q) \in 1..Cardinality(opening)
    BY <1>6, RankInSet
  <2>. HIDE DEF rank
  <2>2. rank(q) \in 1..Cardinality(free)
    BY <1>5, <1>6, <1>8, <2>1
  <2>. QED
    BY <1>7, <2>2, NthIsThere, BoundsAssumption
<1>10. ASSUME NEW q \in opening, NEW r \in opening, Nth(free, rank(q)) = Nth(free, rank(r))
       PROVE  q = r
  <2>1. rank(q) = rank(r)
    BY <1>9, <1>10
  <2>. QED
    BY <1>6, <2>1, RankTellsApart
<1>. HIDE DEF rank
<1>11. \A n \in free : n \in Fds /\ n # NoHandle /\ F[n].dev = NoDevice
  BY BoundsAssumption DEF free, Fds, NoHandle
<1>12. ASSUME NEW q \in DOMAIN M
       PROVE  /\ devs[q] \in DeviceSet
              /\ devs[q].dev = M[q].dev /\ devs[q].name = M[q].name
              /\ IF devs[q].fd = NoHandle THEN devs[q].failed ELSE F[devs[q].fd].dev = NoDevice
              /\ devs[q].fd # NoHandle => q \in opening /\ devs[q].fd = Nth(free, rank(q))
  <2> DEFINE m == M[q]
             fd == Nth(free, rank(q))
  <2>0. m \in DeviceSet /\ m.fd = NoHandle
    BY <1>2
  <2>1. CASE q \in opening
    <3>1. fd \in Fds /\ fd # NoHandle /\ F[fd].dev = NoDevice
      BY <1>9, <1>11, <2>1
    <3>2. devs[q] = [m EXCEPT !.fd = fd]
      BY <1>4, <2>1
    <3>. HIDE DEF m, fd
    <3>3. /\ devs[q] \in DeviceSet /\ devs[q].fd = fd
          /\ devs[q].dev = m.dev /\ devs[q].name = m.name
      BY <2>0, <3>1, <3>2 DEF DeviceSet
    <3>. QED
      BY <2>1, <3>1, <3>3 DEF m, fd
  <2>2. CASE q \notin opening
    <3>1. devs[q] = [m EXCEPT !.status = "QDS_ERROR", !.failed = TRUE]
      BY <1>4, <2>2
    <3>. HIDE DEF m
    <3>3. /\ devs[q] \in DeviceSet /\ devs[q].fd = NoHandle /\ devs[q].failed
          /\ devs[q].dev = m.dev /\ devs[q].name = m.name
      BY <2>0, <3>1 DEF DeviceSet
    <3>. QED
      BY <3>3 DEF m
  <2>. QED
    BY <2>1, <2>2
<1>13. ASSUME NEW q \in DOMAIN M PROVE IsNamed(devs[q], q, derivedDevList(U))
  BY <1>2, <1>12 DEF IsNamed
<1>14. BaseQids \subseteq DOMAIN M
  BY DEF M
<1>15. ASSUME NEW q \in DOMAIN M, NEW r \in DOMAIN M,
              devs[q].fd # NoHandle, devs[q].fd = devs[r].fd
       PROVE  q = r
  BY <1>10, <1>12, <1>15
<1>16. DOMAIN devs = DOMAIN M
  BY <1>4
<1>. HIDE DEF M
<1>. QED
  BY <1>12, <1>13, <1>14, <1>15, <1>16 DEF devs, U

-----------------------------------------------------------------------------
(* What holds whatever threads do to each other's handles.                 *)

FileSet == [dev : Devices \cup {NoDevice}, life : Nat]
Registered == ToSet(observers)

\* What a thread is in the middle of concerns a device that is there.
UserCalls == [at : {"ioctl", "close", "clear", "resolve", "open"},
              f : Factories, q : Nat, tries : Int]
MonitorCalls == [at : {"close", "clear", "resolve", "open"}, op : {"DEVICE_UP", "DEVICE_DOWN"},
                 q : BaseQids, f : Factories, rest : Seq(Factories)]
CallsOK ==
  /\ call \in [Actors -> {Idle} \cup UserCalls \cup MonitorCalls]
  /\ \A a \in Users : call[a] # Idle => call[a] \in UserCalls
  /\ call[Monitor] # Idle =>
       call[Monitor] \in MonitorCalls /\ ToSet(call[Monitor].rest) \subseteq Registered
  /\ \A a \in Actors : call[a] # Idle =>
       call[a].f \in Registered /\ call[a].q \in DOMAIN devMap[call[a].f]

FactoriesOK ==
  /\ DOMAIN devMap = Factories /\ DOMAIN udevMap = Factories
  /\ observers \in Seq(Factories)
  /\ events \in Seq([kind : {"DEVICE_UP", "DEVICE_DOWN"}, dev : Base])
  /\ events # <<>> => observers # <<>>
  /\ \A f \in Factories :
       IF f \in Registered THEN BaseQids \subseteq DOMAIN devMap[f] ELSE DOMAIN devMap[f] = {}

HandlesOK ==
  \A f \in Factories : \A q \in DOMAIN devMap[f] :
    /\ devMap[f][q] \in DeviceSet
    /\ IsNamed(devMap[f][q], q, derivedDevList(udevMap[f]))

FilesOK ==
  /\ files \in [Fds -> FileSet]
  /\ \A n \in Fds : files[n].dev = NoDevice => files[n] = Closed

KernelOK ==
  /\ node \in [Names -> Devices \cup {NoDevice}]
  /\ life \in [Devices -> Nat]
  /\ outages \in 0..MaxOutages

Basics == CallsOK /\ FactoriesOK /\ HandlesOK /\ FilesOK /\ KernelOK

\* What is to be shown of types and QIDs.
LEMMA BasicsGiveTypes == Basics => TypeOK /\ SameDevice
<1> SUFFICES ASSUME Basics PROVE TypeOK /\ SameDevice
  OBVIOUS
<1>1. TypeOK
  BY DEF Basics, HandlesOK, FilesOK, KernelOK, TypeOK, DeviceSet, FileSet, Fds
<1>2. ASSUME udevMap["platform"] = udevMap["runtime"],
             NEW q \in (DOMAIN devMap["platform"] \cap DOMAIN devMap["runtime"]) \ BaseQids
      PROVE  devMap["platform"][q].name = devMap["runtime"][q].name
  BY <1>2 DEF Basics, HandlesOK, IsNamed, Factories
<1>. QED
  BY <1>1, <1>2 DEF SameDevice, BaseQids

-----------------------------------------------------------------------------
(* A step of a call: what becomes of the call and of its handle.           *)

Steps(a, c, h) ==
  /\ call[a] # Idle
  /\ call' = [call EXCEPT ![a] = c]
  /\ Set(a, h) \/ (h = Handle(a) /\ UNCHANGED devMap)
  /\ UNCHANGED <<kernel, events, built>>

\* A user goes on with its device or returns; the monitor goes on, to the same
\* device of the next factory after the last step.
Follows(a, c) ==
  \/ c = Idle
  \/ a \in Users /\ c \in UserCalls /\ c.f = call[a].f /\ c.q = call[a].q
  \/ /\ a = Monitor /\ c \in MonitorCalls /\ c.q = call[a].q
     /\ {c.f} \cup ToSet(c.rest) \subseteq Registered

\* A step of a call changes no handle but its own.
LEMMA StepsHandles ==
  ASSUME Basics, NEW a \in Actors, NEW c, NEW h, Steps(a, c, h)
  PROVE  /\ DOMAIN devMap' = Factories
         /\ \A f \in Factories :
              /\ DOMAIN devMap'[f] = DOMAIN devMap[f]
              /\ \A q \in DOMAIN devMap[f] :
                   devMap'[f][q] = IF f = call[a].f /\ q = call[a].q THEN h ELSE devMap[f][q]
         /\ call[a].f \in Factories /\ call[a].q \in DOMAIN devMap[call[a].f]
<1>1. call[a].f \in Factories /\ call[a].q \in DOMAIN devMap[call[a].f] /\ DOMAIN devMap = Factories
  BY DEF Steps, Basics, CallsOK, FactoriesOK, UserCalls, MonitorCalls, Actors
<1>2. CASE Set(a, h)
  BY <1>1, <1>2 DEF Set
<1>3. CASE h = Handle(a) /\ UNCHANGED devMap
  BY <1>1, <1>3 DEF Handle
<1>. QED
  BY <1>1, <1>2, <1>3 DEF Steps

\* Basics is kept by a step that leaves the call and the handle well-formed.
LEMMA StepsBasics ==
  ASSUME Basics, NEW a \in Actors, NEW c, NEW h, Steps(a, c, h), Follows(a, c),
         h \in DeviceSet, IsNamed(h, call[a].q, derivedDevList(udevMap[call[a].f])),
         FilesOK'
  PROVE  Basics'
<1>1. /\ DOMAIN devMap' = Factories
      /\ \A f \in Factories :
           /\ DOMAIN devMap'[f] = DOMAIN devMap[f]
           /\ \A q \in DOMAIN devMap[f] :
                devMap'[f][q] = IF f = call[a].f /\ q = call[a].q THEN h ELSE devMap[f][q]
      /\ call[a].f \in Factories /\ call[a].q \in DOMAIN devMap[call[a].f]
  BY StepsHandles
<1>2. UNCHANGED <<node, life, outages, events, udevMap, observers>>
  BY DEF Steps, kernel, built
<1>3. Registered' = Registered /\ derivedDevList(udevMap)' = derivedDevList(udevMap)
  BY <1>2 DEF Registered, ToSet
<1>4. FactoriesOK'
  BY <1>1, <1>2, <1>3 DEF Basics, FactoriesOK
<1>5. HandlesOK'
  BY <1>1, <1>2 DEF Basics, HandlesOK
<1>6. KernelOK'
  BY <1>2 DEF Basics, KernelOK
<1>7. /\ c = Idle \/ (a \in Users /\ c \in UserCalls) \/ (a = Monitor /\ c \in MonitorCalls)
      /\ c # Idle => c.f \in Registered /\ c.q \in DOMAIN devMap'[c.f]
      /\ a = Monitor /\ c # Idle => ToSet(c.rest) \subseteq Registered
  <2>1. ASSUME a \in Users PROVE a # Monitor
    BY <2>1, MonitorAssumption
  <2>2. call[a].f \in Registered
    BY DEF Basics, CallsOK, Steps
  <2>3. ASSUME a = Monitor, c \in MonitorCalls, c.f \in Registered PROVE c.q \in DOMAIN devMap'[c.f]
    BY <1>1, <2>3 DEF Basics, FactoriesOK, MonitorCalls
  <2>. QED
    BY <1>1, <2>1, <2>2, <2>3 DEF Follows
<1>8. CallsOK'
  <2>1. \A b \in Actors : call'[b] = IF b = a THEN c ELSE call[b]
    BY DEF Steps, Basics, CallsOK
  <2>2. call' \in [Actors -> {Idle} \cup UserCalls \cup MonitorCalls]
    BY <1>7 DEF Steps, Basics, CallsOK
  <2>3. \A b \in Actors : call[b] # Idle => call[b].f \in Factories
    BY DEF Basics, CallsOK, UserCalls, MonitorCalls, Actors
  <2>4. \A b \in Users : call'[b] # Idle => call'[b] \in UserCalls
    BY <1>7, <2>1, MonitorAssumption DEF Basics, CallsOK, Actors
  <2>5. call'[Monitor] # Idle =>
          call'[Monitor] \in MonitorCalls /\ ToSet(call'[Monitor].rest) \subseteq Registered
    BY <1>7, <2>1, MonitorAssumption DEF Basics, CallsOK, Actors
  <2>6. \A b \in Actors : call'[b] # Idle =>
          call'[b].f \in Registered /\ call'[b].q \in DOMAIN devMap'[call'[b].f]
    BY <1>1, <1>7, <2>1, <2>3 DEF Basics, CallsOK
  <2>. QED
    BY <1>3, <2>2, <2>4, <2>5, <2>6 DEF CallsOK, UserCalls, MonitorCalls, BaseQids, ToSet
<1>. QED
  BY <1>4, <1>5, <1>6, <1>8 DEF Basics

-----------------------------------------------------------------------------
(* What holds until threads met on a handle.                               *)

\* A handle whose number does not count: its file is closed, or about to be.
\* A derived device keeps the number until it is opened again.
StaleAt(q) == IF q \in BaseQids THEN {"clear"} ELSE {"clear", "resolve", "open"}
On(a, f, q) == call[a].f = f /\ call[a].q = q
Stale(f, q) == \E a \in Actors : call[a].at \in StaleAt(q) /\ On(a, f, q)
BeingOpened(f, q) == \E a \in Actors : At(a, "open") /\ On(a, f, q)

\* Every other handle has a file, of its own; that of a base device, if no open
\* failed, is the device's.
OpenFiles ==
  \A f \in Factories : \A q \in DOMAIN devMap[f] :
    ~Stale(f, q) /\ devMap[f][q].fd # NoHandle => files[devMap[f][q].fd] # Closed

OwnFiles ==
  \A f \in Factories : \A g \in Factories :
    \A q \in DOMAIN devMap[f] : \A r \in DOMAIN devMap[g] :
      /\ ~Stale(f, q) /\ ~Stale(g, r)
      /\ devMap[f][q].fd # NoHandle /\ devMap[f][q].fd = devMap[g][r].fd
      => f = g /\ q = r

OwnDevice ==
  \A f \in Factories : \A q \in BaseQids \cap DOMAIN devMap[f] :
    ~devMap[f][q].failed /\ ~Stale(f, q) /\ devMap[f][q].fd # NoHandle
    => files[devMap[f][q].fd].dev = devMap[f][q].dev

\* The name is looked for after it was forgotten, and is that of the device from
\* then until the open.
Forgotten ==
  \A f \in Factories : \A q \in BaseQids \cap DOMAIN devMap[f] :
    ~devMap[f][q].failed /\ devMap[f][q].fd = NoHandle
    => devMap[f][q].name = Unnamed \/ BeingOpened(f, q)

Resolving ==
  \A a \in Users : At(a, "resolve") /\ call[a].q \in BaseQids => Handle(a).fd = NoHandle

Opening ==
  \A a \in Actors :
    At(a, "open") /\ call[a].q \in BaseQids /\ ~Handle(a).failed
    => /\ Handle(a).fd = NoHandle
       /\ Handle(a).name \in Names => node[Handle(a).name] = Handle(a).dev

Tidy == OpenFiles /\ OwnFiles /\ OwnDevice /\ Forgotten /\ Resolving /\ Opening

Inv == Basics /\ (disturbed \/ Tidy)

-----------------------------------------------------------------------------
(* The kinds of steps.                                                     *)

\* Nobody else is reopening the handle.
Alone(a) ==
  \A b \in Actors \ {a} :
    ~(call[b].at \in {"clear", "resolve", "open"} /\ On(b, call[a].f, call[a].q))

\* The call is not about to reopen, but for the monitor that was told of a
\* device that came up.
Leaves(a, c) ==
  c.at \in {"idle", "ioctl", "close"} \/ (a = Monitor /\ c.at = "resolve" /\ c.q \in BaseQids)
Same(a, c) == c.f = call[a].f /\ c.q = call[a].q

Keeps(a, c, h) ==
  /\ call[a].at \in {"close", "ioctl"} /\ Leaves(a, c) /\ UNCHANGED files
  /\ h.dev = Handle(a).dev /\ h.fd = Handle(a).fd
  /\ h.name = Handle(a).name /\ h.failed = Handle(a).failed

Closes(a, c, h) ==
  /\ At(a, "close") /\ c.at = "clear" /\ Same(a, c) /\ h = Handle(a)
  /\ Handle(a).fd # NoHandle /\ files' = [files EXCEPT ![Handle(a).fd] = Closed]

Clears(a, c, h) ==
  /\ At(a, "clear") /\ UNCHANGED files /\ h = cleared(a)
  /\ \/ a = Monitor /\ call[a].q \in BaseQids /\ Leaves(a, c)
     \/ a \in Users /\ c.at = "resolve" /\ Same(a, c)

Resolves(a, c, h) ==
  /\ At(a, "resolve") /\ c.at = "open" /\ Same(a, c) /\ UNCHANGED files
  /\ h = [Handle(a) EXCEPT !.name = getDevicePath(Handle(a).name, Handle(a).dev, node)]
  /\ a = Monitor => Handle(a).fd = NoHandle

Opens(a, c, h) ==
  /\ At(a, "open") /\ Leaves(a, c)
  /\ h.dev = Handle(a).dev /\ h.name = Handle(a).name /\ h.failed = Handle(a).failed
  /\ h.fd \in FreeFiles
  /\ h.name \in Names /\ node[h.name] # NoDevice
  /\ files' = [files EXCEPT ![h.fd] = [dev |-> node[h.name], life |-> life[node[h.name]]]]

Fails(a, c, h) ==
  /\ At(a, "open") /\ Leaves(a, c) /\ UNCHANGED files
  /\ h.dev = Handle(a).dev /\ h.fd = NoHandle /\ h.failed

\* What a step changes of Stale and BeingOpened: only its own handle.
LEMMA Elsewhere ==
  ASSUME Basics, NEW a \in Actors, NEW c, NEW h, Steps(a, c, h), Alone(a),
         Leaves(a, c) \/ Same(a, c)
  PROVE  \A g \in Factories : \A r \in DOMAIN devMap[g] :
           IF g = call[a].f /\ r = call[a].q
           THEN /\ Stale(g, r) <=> call[a].at \in StaleAt(r)
                /\ Stale(g, r)' <=> ~Leaves(a, c) /\ c.at \in StaleAt(r)
                /\ BeingOpened(g, r) <=> At(a, "open")
                /\ BeingOpened(g, r)' <=> c.at = "open"
           ELSE /\ Stale(g, r)' <=> Stale(g, r)
                /\ BeingOpened(g, r)' <=> BeingOpened(g, r)
<1>1. \A b \in Actors : call'[b] = IF b = a THEN c ELSE call[b]
  BY DEF Steps, Basics, CallsOK
<1>2. \A r : StaleAt(r)' = StaleAt(r)
  BY DEF StaleAt
<1>3. ASSUME NEW g \in Factories, NEW r \in DOMAIN devMap[g], g = call[a].f, r = call[a].q
      PROVE  /\ Stale(g, r) <=> call[a].at \in StaleAt(r)
             /\ Stale(g, r)' <=> ~Leaves(a, c) /\ c.at \in StaleAt(r)
             /\ BeingOpened(g, r) <=> At(a, "open")
             /\ BeingOpened(g, r)' <=> c.at = "open"
  <2>1. Stale(g, r) <=> call[a].at \in StaleAt(r)
    BY <1>3 DEF Stale, StaleAt, Alone, On
  <2>2. Stale(g, r)' <=> ~Leaves(a, c) /\ c.at \in StaleAt(r)
    BY <1>1, <1>3 DEF Stale, StaleAt, Alone, On, Leaves, Same
  <2>3. BeingOpened(g, r) <=> At(a, "open")
    BY <1>3 DEF BeingOpened, Alone, On, At
  <2>4. BeingOpened(g, r)' <=> c.at = "open"
    BY <1>1, <1>3 DEF BeingOpened, Alone, On, At, Leaves, Same
  <2>. QED
    BY <2>1, <2>2, <2>3, <2>4
<1>4. ASSUME NEW g \in Factories, NEW r \in DOMAIN devMap[g], ~(g = call[a].f /\ r = call[a].q)
      PROVE  /\ Stale(g, r)' <=> Stale(g, r)
             /\ BeingOpened(g, r)' <=> BeingOpened(g, r)
  <2>1. Stale(g, r)' <=> Stale(g, r)
    BY <1>1, <1>4 DEF Stale, StaleAt, On, Leaves, Same
  <2>2. BeingOpened(g, r)' <=> BeingOpened(g, r)
    BY <1>1, <1>4 DEF BeingOpened, On, At, Leaves, Same
  <2>. QED
    BY <2>1, <2>2
<1>. QED
  BY <1>3, <1>4

\* The handles after a step, and who is at them.
LEMMA StepsPointwise ==
  ASSUME Basics, NEW a \in Actors, NEW c, NEW h, Steps(a, c, h), Alone(a),
         Leaves(a, c) \/ Same(a, c), h.dev = Handle(a).dev
  PROVE  /\ call[a].f \in Factories /\ call[a].q \in DOMAIN devMap[call[a].f]
         /\ Handle(a) = devMap[call[a].f][call[a].q]
         /\ Handle(a) \in DeviceSet
         /\ \A b \in Actors : call'[b] = IF b = a THEN c ELSE call[b]
         /\ node' = node
         /\ \A g \in Factories : DOMAIN devMap'[g] = DOMAIN devMap[g]
         /\ \A g \in Factories : \A r \in DOMAIN devMap[g] :
              /\ devMap[g][r] \in DeviceSet
              /\ r \in BaseQids => devMap[g][r].dev \in Base
              /\ devMap'[g][r].dev = devMap[g][r].dev
              /\ ~(g = call[a].f /\ r = call[a].q) => devMap'[g][r] = devMap[g][r]
              /\ g = call[a].f /\ r = call[a].q => devMap'[g][r] = h
<1>1. /\ \A g \in Factories :
           /\ DOMAIN devMap'[g] = DOMAIN devMap[g]
           /\ \A r \in DOMAIN devMap[g] :
                devMap'[g][r] = IF g = call[a].f /\ r = call[a].q THEN h ELSE devMap[g][r]
      /\ call[a].f \in Factories /\ call[a].q \in DOMAIN devMap[call[a].f]
  BY StepsHandles
<1>2. Handle(a) = devMap[call[a].f][call[a].q]
  BY DEF Handle
<1>3. \A g \in Factories : \A r \in DOMAIN devMap[g] :
        devMap[g][r] \in DeviceSet /\ (r \in BaseQids => devMap[g][r].dev \in Base)
  BY Enumeration DEF Basics, HandlesOK, IsNamed
<1>4. \A b \in Actors : call'[b] = IF b = a THEN c ELSE call[b]
  BY DEF Basics, CallsOK, Steps
<1>5. node' = node
  BY DEF Steps, kernel
<1>. QED
  BY <1>1, <1>2, <1>3, <1>4, <1>5

\* Threads at other handles see what they saw.
LEMMA OthersSee ==
  ASSUME Basics, Tidy, NEW a \in Actors, NEW c, NEW h, Steps(a, c, h), Alone(a),
         Leaves(a, c) \/ Same(a, c), h.dev = Handle(a).dev,
         a \in Users /\ c.at = "resolve" /\ call[a].q \in BaseQids => h.fd = NoHandle,
         c.at = "open" /\ call[a].q \in BaseQids /\ ~h.failed =>
           h.fd = NoHandle /\ (h.name \in Names => node[h.name] = h.dev)
  PROVE  Resolving' /\ Opening'
<1> DEFINE f == call[a].f
           q == call[a].q
<1>1. /\ f \in Factories /\ q \in DOMAIN devMap[f] /\ Handle(a) = devMap[f][q]
      /\ \A b \in Actors : call'[b] = IF b = a THEN c ELSE call[b]
      /\ node' = node
      /\ \A g \in Factories : \A r \in DOMAIN devMap[g] :
           devMap'[g][r] = IF g = f /\ r = q THEN h ELSE devMap[g][r]
  BY StepsPointwise
<1>2. ASSUME NEW b \in Actors, b # a, call[b].at \in {"resolve", "open"}
      PROVE  call'[b] = call[b] /\ Handle(b)' = Handle(b)
  <2>1. call[b] # Idle
    BY <1>2 DEF Idle
  <2>2. call[b].f \in Factories /\ call[b].q \in DOMAIN devMap[call[b].f]
    BY <2>1 DEF Basics, CallsOK, UserCalls, MonitorCalls, Actors
  <2>3. ~On(b, f, q)
    BY <1>2 DEF Alone
  <2>. QED
    BY <1>1, <1>2, <2>2, <2>3 DEF On, Handle
<1>3. c.at \in {"resolve", "open"} /\ Same(a, c) => Handle(a)' = h
  BY <1>1 DEF Handle, Same
<1>4. Resolving'
  <2> SUFFICES ASSUME NEW b \in Users, call'[b].at = "resolve", call'[b].q \in BaseQids
               PROVE  Handle(b)'.fd = NoHandle
    BY DEF Resolving, At, BaseQids
  <2>0. b \in Actors /\ b # Monitor
    BY MonitorAssumption DEF Actors
  <2>1. CASE b # a
    BY <1>1, <1>2, <2>0, <2>1 DEF Tidy, Resolving, At
  <2>2. CASE b = a
    BY <1>1, <1>3, <2>0, <2>2 DEF Leaves, Same
  <2>. QED
    BY <2>1, <2>2
<1>5. Opening'
  <2> SUFFICES ASSUME NEW b \in Actors, call'[b].at = "open", call'[b].q \in BaseQids,
                      ~Handle(b)'.failed
               PROVE  /\ Handle(b)'.fd = NoHandle
                      /\ Handle(b)'.name \in Names => node[Handle(b)'.name] = Handle(b)'.dev
    BY <1>1 DEF Opening, At, BaseQids
  <2>1. CASE b # a
    <3>1. call[b].at = "open" /\ call'[b] = call[b] /\ Handle(b)' = Handle(b)
      BY <1>1, <1>2, <2>1
    <3>. QED
      BY <3>1 DEF Tidy, Opening, At
  <2>2. CASE b = a
    BY <1>1, <1>3, <2>2 DEF Leaves, Same
  <2>. QED
    BY <2>1, <2>2
<1>. QED
  BY <1>4, <1>5

\* A step of each kind leaves things in order.
LEMMA OwnHandle ==
  ASSUME Basics, NEW a \in Actors, call[a] # Idle
  PROVE  /\ Handle(a) \in DeviceSet
         /\ HasPciInfo(a) <=> call[a].q \in BaseQids
         /\ IsNamed(Handle(a), call[a].q, derivedDevList(udevMap[call[a].f]))
         /\ call[a].f \in Factories
<1>1. call[a].f \in Factories /\ call[a].q \in DOMAIN devMap[call[a].f]
  BY DEF Basics, CallsOK, UserCalls, MonitorCalls, Actors
<1>2. /\ Handle(a) \in DeviceSet
      /\ IsNamed(Handle(a), call[a].q, derivedDevList(udevMap[call[a].f]))
  BY <1>1 DEF Basics, HandlesOK, Handle
<1>3. HasPciInfo(a) <=> call[a].q \in BaseQids
  BY <1>2, Enumeration, DevicesAssumption DEF HasPciInfo, IsNamed
<1>. QED
  BY <1>1, <1>2, <1>3

\* Each kind of step keeps Tidy: one that leaves the handle's file and name alone,
LEMMA KeepsTidy ==
  ASSUME Basics, Tidy, NEW a \in Actors, NEW c, NEW h, Steps(a, c, h), Alone(a), Keeps(a, c, h)
  PROVE  Tidy'
<1>f. PICK f : f = call[a].f
  OBVIOUS
<1>q. PICK q : q = call[a].q
  OBVIOUS
<1>o. PICK old : old = Handle(a)
  OBVIOUS
<1> DEFINE base == q \in BaseQids
<1>0. old \in DeviceSet /\ (old.fd # NoHandle => old.fd \in Fds) /\ (HasPciInfo(a) <=> base)
  BY <1>q, <1>o, OwnHandle DEF Steps, DeviceSet
<1>1. /\ call[a].at \in {"close", "ioctl"}
      /\ Leaves(a, c) /\ c.at # "open" /\ (a \in Users => c.at # "resolve")
      /\ UNCHANGED files
      /\ h.dev = old.dev /\ h.fd = old.fd /\ h.name = old.name /\ h.failed = old.failed
  BY <1>f, <1>q, <1>o, <1>0, MonitorAssumption DEF Keeps, Leaves
<1>2. /\ f \in Factories /\ q \in DOMAIN devMap[f] /\ devMap[f][q] = old
      /\ \A g \in Factories : DOMAIN devMap'[g] = DOMAIN devMap[g]
      /\ \A g \in Factories : \A r \in DOMAIN devMap[g] :
           /\ devMap[g][r].fd # NoHandle => devMap[g][r].fd \in Fds
           /\ devMap'[g][r].dev = devMap[g][r].dev
           /\ ~(g = f /\ r = q) => devMap'[g][r] = devMap[g][r]
  <2>1. /\ f \in Factories /\ q \in DOMAIN devMap[f] /\ devMap[f][q] = old
        /\ \A g \in Factories : DOMAIN devMap'[g] = DOMAIN devMap[g]
        /\ \A g \in Factories : \A r \in DOMAIN devMap[g] :
             /\ devMap[g][r] \in DeviceSet
             /\ devMap'[g][r].dev = devMap[g][r].dev
             /\ ~(g = f /\ r = q) => devMap'[g][r] = devMap[g][r]
    BY <1>f, <1>q, <1>o, <1>1, StepsPointwise
  <2>. QED
    BY <2>1 DEF DeviceSet
<1>3. devMap'[f][q] = h
  BY <1>f, <1>q, <1>o, <1>1, <1>2, StepsPointwise
<1>4. /\ Stale(f, q) <=> FALSE
      /\ Stale(f, q)' <=> FALSE
      /\ ~BeingOpened(f, q) /\ ~BeingOpened(f, q)'
  <2>1. /\ Stale(f, q) <=> call[a].at \in StaleAt(q)
        /\ Stale(f, q)' <=> ~Leaves(a, c) /\ c.at \in StaleAt(q)
        /\ BeingOpened(f, q) <=> At(a, "open")
        /\ BeingOpened(f, q)' <=> c.at = "open"
    BY <1>f, <1>q, <1>1, <1>2, Elsewhere
  <2>. QED
    BY <1>1, <2>1 DEF StaleAt, At
<1>5. \A g \in Factories : \A r \in DOMAIN devMap[g] :
        ~(g = f /\ r = q) =>
          /\ Stale(g, r)' <=> Stale(g, r)
          /\ BeingOpened(g, r)' <=> BeingOpened(g, r)
  BY <1>f, <1>q, <1>1, Elsewhere
<1>6. Resolving' /\ Opening'
  BY <1>q, <1>o, <1>1, OthersSee
<1>7. OpenFiles'
  BY <1>1, <1>2, <1>3, <1>4, <1>5 DEF Tidy, OpenFiles, OwnFiles
<1>8. OwnFiles'
  BY <1>1, <1>2, <1>3, <1>4, <1>5 DEF Tidy, OpenFiles, OwnFiles
<1>9. OwnDevice'
  BY <1>1, <1>2, <1>3, <1>4, <1>5 DEF Tidy, OpenFiles, OwnFiles, OwnDevice
<1>10. Forgotten'
  BY <1>1, <1>2, <1>3, <1>4, <1>5 DEF Tidy, Forgotten
<1>. QED
  BY <1>6, <1>7, <1>8, <1>9, <1>10 DEF Tidy

\* one that closes the file,
LEMMA ClosesTidy ==
  ASSUME Basics, Tidy, NEW a \in Actors, NEW c, NEW h, Steps(a, c, h), Alone(a), Closes(a, c, h)
  PROVE  Tidy'
<1>f. PICK f : f = call[a].f
  OBVIOUS
<1>q. PICK q : q = call[a].q
  OBVIOUS
<1>o. PICK old : old = Handle(a)
  OBVIOUS
<1> DEFINE base == q \in BaseQids
<1>0. old \in DeviceSet /\ (old.fd # NoHandle => old.fd \in Fds) /\ (HasPciInfo(a) <=> base)
  BY <1>q, <1>o, OwnHandle DEF Steps, DeviceSet
<1>1. /\ call[a].at = "close"
      /\ ~Leaves(a, c) /\ c.at = "clear" /\ Same(a, c)
      /\ old.fd # NoHandle
      /\ \A n \in Fds : files'[n] = IF n = old.fd THEN Closed ELSE files[n]
      /\ h = old
  BY <1>f, <1>q, <1>o, <1>0, MonitorAssumption DEF Closes, Leaves, At, Basics, FilesOK
<1>2. /\ f \in Factories /\ q \in DOMAIN devMap[f] /\ devMap[f][q] = old
      /\ \A g \in Factories : DOMAIN devMap'[g] = DOMAIN devMap[g]
      /\ \A g \in Factories : \A r \in DOMAIN devMap[g] :
           /\ devMap[g][r].fd # NoHandle => devMap[g][r].fd \in Fds
           /\ devMap'[g][r].dev = devMap[g][r].dev
           /\ ~(g = f /\ r = q) => devMap'[g][r] = devMap[g][r]
  <2>1. /\ f \in Factories /\ q \in DOMAIN devMap[f] /\ devMap[f][q] = old
        /\ \A g \in Factories : DOMAIN devMap'[g] = DOMAIN devMap[g]
        /\ \A g \in Factories : \A r \in DOMAIN devMap[g] :
             /\ devMap[g][r] \in DeviceSet
             /\ devMap'[g][r].dev = devMap[g][r].dev
             /\ ~(g = f /\ r = q) => devMap'[g][r] = devMap[g][r]
    BY <1>f, <1>q, <1>o, <1>1, StepsPointwise
  <2>. QED
    BY <2>1 DEF DeviceSet
<1>3. devMap'[f][q] = h
  BY <1>f, <1>q, <1>o, <1>1, <1>2, StepsPointwise
<1>4. /\ Stale(f, q) <=> FALSE
      /\ Stale(f, q)' <=> TRUE
      /\ ~BeingOpened(f, q) /\ ~BeingOpened(f, q)'
  <2>1. /\ Stale(f, q) <=> call[a].at \in StaleAt(q)
        /\ Stale(f, q)' <=> ~Leaves(a, c) /\ c.at \in StaleAt(q)
        /\ BeingOpened(f, q) <=> At(a, "open")
        /\ BeingOpened(f, q)' <=> c.at = "open"
    BY <1>f, <1>q, <1>1, <1>2, Elsewhere
  <2>. QED
    BY <1>1, <2>1 DEF StaleAt, At
<1>5. \A g \in Factories : \A r \in DOMAIN devMap[g] :
        ~(g = f /\ r = q) =>
          /\ Stale(g, r)' <=> Stale(g, r)
          /\ BeingOpened(g, r)' <=> BeingOpened(g, r)
  BY <1>f, <1>q, <1>1, Elsewhere
<1>6. Resolving' /\ Opening'
  BY <1>q, <1>o, <1>1, OthersSee
<1>7. OpenFiles'
  BY <1>1, <1>2, <1>3, <1>4, <1>5 DEF Tidy, OpenFiles, OwnFiles
<1>8. OwnFiles'
  BY <1>1, <1>2, <1>3, <1>4, <1>5 DEF Tidy, OpenFiles, OwnFiles
<1>9. OwnDevice'
  BY <1>1, <1>2, <1>3, <1>4, <1>5 DEF Tidy, OpenFiles, OwnFiles, OwnDevice
<1>10. Forgotten'
  BY <1>1, <1>2, <1>3, <1>4, <1>5 DEF Tidy, Forgotten
<1>. QED
  BY <1>6, <1>7, <1>8, <1>9, <1>10 DEF Tidy

\* one that forgets name and number,
LEMMA ClearsTidy ==
  ASSUME Basics, Tidy, NEW a \in Actors, NEW c, NEW h, Steps(a, c, h), Alone(a), Clears(a, c, h)
  PROVE  Tidy'
<1>f. PICK f : f = call[a].f
  OBVIOUS
<1>q. PICK q : q = call[a].q
  OBVIOUS
<1>o. PICK old : old = Handle(a)
  OBVIOUS
<1> DEFINE base == q \in BaseQids
<1>0. old \in DeviceSet /\ (old.fd # NoHandle => old.fd \in Fds) /\ (HasPciInfo(a) <=> base)
  BY <1>q, <1>o, OwnHandle DEF Steps, DeviceSet
<1>1. /\ call[a].at = "clear" /\ c.at # "open" /\ UNCHANGED files
      /\ h.dev = old.dev /\ h.failed = old.failed
      /\ IF base THEN h.fd = NoHandle /\ h.name = Unnamed ELSE h.fd = old.fd /\ h.name = old.name
      /\ \/ Leaves(a, c) /\ base /\ (a \in Users => c.at # "resolve")
         \/ ~Leaves(a, c) /\ Same(a, c) /\ c.at = "resolve"
  BY <1>f, <1>q, <1>o, <1>0, MonitorAssumption DEF Clears, cleared, Leaves, At
<1>2. /\ f \in Factories /\ q \in DOMAIN devMap[f] /\ devMap[f][q] = old
      /\ \A g \in Factories : DOMAIN devMap'[g] = DOMAIN devMap[g]
      /\ \A g \in Factories : \A r \in DOMAIN devMap[g] :
           /\ devMap[g][r].fd # NoHandle => devMap[g][r].fd \in Fds
           /\ devMap'[g][r].dev = devMap[g][r].dev
           /\ ~(g = f /\ r = q) => devMap'[g][r] = devMap[g][r]
  <2>1. /\ f \in Factories /\ q \in DOMAIN devMap[f] /\ devMap[f][q] = old
        /\ \A g \in Factories : DOMAIN devMap'[g] = DOMAIN devMap[g]
        /\ \A g \in Factories : \A r \in DOMAIN devMap[g] :
             /\ devMap[g][r] \in DeviceSet
             /\ devMap'[g][r].dev = devMap[g][r].dev
             /\ ~(g = f /\ r = q) => devMap'[g][r] = devMap[g][r]
    BY <1>f, <1>q, <1>o, <1>1, StepsPointwise
  <2>. QED
    BY <2>1 DEF DeviceSet
<1>3. devMap'[f][q] = h
  BY <1>f, <1>q, <1>o, <1>1, <1>2, StepsPointwise
<1>4. /\ Stale(f, q) <=> TRUE
      /\ Stale(f, q)' <=> ~base
      /\ ~BeingOpened(f, q) /\ ~BeingOpened(f, q)'
  <2>1. /\ Stale(f, q) <=> call[a].at \in StaleAt(q)
        /\ Stale(f, q)' <=> ~Leaves(a, c) /\ c.at \in StaleAt(q)
        /\ BeingOpened(f, q) <=> At(a, "open")
        /\ BeingOpened(f, q)' <=> c.at = "open"
    BY <1>f, <1>q, <1>1, <1>2, Elsewhere
  <2>. QED
    BY <1>1, <2>1 DEF StaleAt, At
<1>5. \A g \in Factories : \A r \in DOMAIN devMap[g] :
        ~(g = f /\ r = q) =>
          /\ Stale(g, r)' <=> Stale(g, r)
          /\ BeingOpened(g, r)' <=> BeingOpened(g, r)
  BY <1>f, <1>q, <1>1, Elsewhere
<1>6. Resolving' /\ Opening'
  BY <1>q, <1>o, <1>1, OthersSee
<1>7. OpenFiles'
  BY <1>1, <1>2, <1>3, <1>4, <1>5 DEF Tidy, OpenFiles, OwnFiles
<1>8. OwnFiles'
  BY <1>1, <1>2, <1>3, <1>4, <1>5 DEF Tidy, OpenFiles, OwnFiles
<1>9. OwnDevice'
  BY <1>1, <1>2, <1>3, <1>4, <1>5 DEF Tidy, OpenFiles, OwnFiles, OwnDevice
<1>10. Forgotten'
  BY <1>1, <1>2, <1>3, <1>4, <1>5 DEF Tidy, Forgotten
<1>. QED
  BY <1>6, <1>7, <1>8, <1>9, <1>10 DEF Tidy

\* one that finds the name,
LEMMA ResolvesTidy ==
  ASSUME Basics, Tidy, NEW a \in Actors, NEW c, NEW h, Steps(a, c, h), Alone(a), Resolves(a, c, h)
  PROVE  Tidy'
<1>f. PICK f : f = call[a].f
  OBVIOUS
<1>q. PICK q : q = call[a].q
  OBVIOUS
<1>o. PICK old : old = Handle(a)
  OBVIOUS
<1> DEFINE base == q \in BaseQids
<1>0. old \in DeviceSet /\ (old.fd # NoHandle => old.fd \in Fds) /\ (HasPciInfo(a) <=> base)
  BY <1>q, <1>o, OwnHandle DEF Steps, DeviceSet
<1>a. old.fd = NoHandle /\ ~old.failed /\ base => old.name = Unnamed
  <2>1. ~BeingOpened(f, q)
    BY <1>f, <1>q DEF BeingOpened, Alone, At, Resolves, On
  <2>2. f \in Factories /\ q \in DOMAIN devMap[f] /\ devMap[f][q] = old
    BY <1>f, <1>q, <1>o, StepsHandles DEF Handle
  <2>. QED
    BY <2>1, <2>2 DEF Tidy, Forgotten
<1>b. base => old.fd = NoHandle /\ old.dev \in Base
  BY <1>q, <1>o, <1>0 DEF Resolves, Tidy, Resolving, Actors, HasPciInfo
<1>c. base /\ ~h.failed /\ h.name \in Names => node[h.name] = h.dev
  <2>1. SUFFICES ASSUME base, ~h.failed, h.name \in Names PROVE node[h.name] = h.dev
    OBVIOUS
  <2>2. /\ h.name = getDevicePath(old.name, old.dev, node)
        /\ h.dev = old.dev /\ h.failed = old.failed
    BY <1>o, <1>0 DEF Resolves, DeviceSet
  <2>3. old.name = Unnamed
    BY <1>a, <1>b, <2>1, <2>2
  <2>. QED
    BY <1>b, <2>1, <2>2, <2>3, NodeFound DEF Basics, KernelOK
<1>1. /\ call[a].at = "resolve" /\ UNCHANGED files
      /\ ~Leaves(a, c) /\ c.at = "open" /\ Same(a, c)
      /\ h.dev = old.dev /\ h.fd = old.fd /\ h.failed = old.failed
      /\ base => old.fd = NoHandle
      /\ base /\ ~h.failed /\ h.name \in Names => node[h.name] = h.dev
  BY <1>f, <1>q, <1>o, <1>0, MonitorAssumption, <1>b, <1>c DEF Resolves, Leaves, At
<1>2. /\ f \in Factories /\ q \in DOMAIN devMap[f] /\ devMap[f][q] = old
      /\ \A g \in Factories : DOMAIN devMap'[g] = DOMAIN devMap[g]
      /\ \A g \in Factories : \A r \in DOMAIN devMap[g] :
           /\ devMap[g][r].fd # NoHandle => devMap[g][r].fd \in Fds
           /\ devMap'[g][r].dev = devMap[g][r].dev
           /\ ~(g = f /\ r = q) => devMap'[g][r] = devMap[g][r]
  <2>1. /\ f \in Factories /\ q \in DOMAIN devMap[f] /\ devMap[f][q] = old
        /\ \A g \in Factories : DOMAIN devMap'[g] = DOMAIN devMap[g]
        /\ \A g \in Factories : \A r \in DOMAIN devMap[g] :
             /\ devMap[g][r] \in DeviceSet
             /\ devMap'[g][r].dev = devMap[g][r].dev
             /\ ~(g = f /\ r = q) => devMap'[g][r] = devMap[g][r]
    BY <1>f, <1>q, <1>o, <1>1, StepsPointwise
  <2>. QED
    BY <2>1 DEF DeviceSet
<1>3. devMap'[f][q] = h
  BY <1>f, <1>q, <1>o, <1>1, <1>2, StepsPointwise
<1>4. /\ Stale(f, q) <=> ~base
      /\ Stale(f, q)' <=> ~base
      /\ ~BeingOpened(f, q) /\ BeingOpened(f, q)'
  <2>1. /\ Stale(f, q) <=> call[a].at \in StaleAt(q)
        /\ Stale(f, q)' <=> ~Leaves(a, c) /\ c.at \in StaleAt(q)
        /\ BeingOpened(f, q) <=> At(a, "open")
        /\ BeingOpened(f, q)' <=> c.at = "open"
    BY <1>f, <1>q, <1>1, <1>2, Elsewhere
  <2>. QED
    BY <1>1, <2>1 DEF StaleAt, At
<1>5. \A g \in Factories : \A r \in DOMAIN devMap[g] :
        ~(g = f /\ r = q) =>
          /\ Stale(g, r)' <=> Stale(g, r)
          /\ BeingOpened(g, r)' <=> BeingOpened(g, r)
  BY <1>f, <1>q, <1>1, Elsewhere
<1>6. Resolving' /\ Opening'
  BY <1>q, <1>o, <1>1, OthersSee
<1>7. OpenFiles'
  BY <1>1, <1>2, <1>3, <1>4, <1>5 DEF Tidy, OpenFiles, OwnFiles
<1>8. OwnFiles'
  BY <1>1, <1>2, <1>3, <1>4, <1>5 DEF Tidy, OpenFiles, OwnFiles
<1>9. OwnDevice'
  BY <1>1, <1>2, <1>3, <1>4, <1>5 DEF Tidy, OpenFiles, OwnFiles, OwnDevice
<1>10. Forgotten'
  BY <1>1, <1>2, <1>3, <1>4, <1>5 DEF Tidy, Forgotten
<1>. QED
  BY <1>6, <1>7, <1>8, <1>9, <1>10 DEF Tidy

\* one that opens the file,
LEMMA OpensTidy ==
  ASSUME Basics, Tidy, NEW a \in Actors, NEW c, NEW h, Steps(a, c, h), Alone(a), Opens(a, c, h)
  PROVE  Tidy'
<1>f. PICK f : f = call[a].f
  OBVIOUS
<1>q. PICK q : q = call[a].q
  OBVIOUS
<1>o. PICK old : old = Handle(a)
  OBVIOUS
<1> DEFINE base == q \in BaseQids
<1>0. old \in DeviceSet /\ (old.fd # NoHandle => old.fd \in Fds) /\ (HasPciInfo(a) <=> base)
  BY <1>q, <1>o, OwnHandle DEF Steps, DeviceSet
<1>a. h.fd \in Fds /\ h.fd # NoHandle /\ files[h.fd] = Closed
  <2>1. h.fd \in Fds /\ files[h.fd] = Closed
    BY DEF Opens, FreeFiles, Basics, FilesOK
  <2>. QED
    BY <2>1, BoundsAssumption DEF Fds, NoHandle
<1>b. \A n \in Fds : files'[n] = IF n = h.fd THEN [dev |-> node[h.name], life |-> life[node[h.name]]]
                                ELSE files[n]
  BY DEF Opens, Basics, FilesOK
<1>c. /\ files'[h.fd] # Closed /\ files'[h.fd].dev = node[h.name]
      /\ base /\ ~h.failed => old.fd = NoHandle /\ node[h.name] = h.dev
  <2>1. files'[h.fd] # Closed /\ files'[h.fd].dev = node[h.name]
    BY <1>a, <1>b DEF Opens, Closed
  <2>2. base /\ ~h.failed => old.fd = NoHandle /\ node[h.name] = h.dev
    BY <1>q, <1>o DEF Opens, Tidy, Opening
  <2>. QED
    BY <2>1, <2>2
<1>1. /\ call[a].at = "open"
      /\ Leaves(a, c) /\ c.at # "open" /\ (a \in Users => c.at # "resolve")
      /\ h.dev = old.dev /\ h.failed = old.failed
      /\ h.fd \in Fds /\ h.fd # NoHandle /\ files[h.fd] = Closed
      /\ files'[h.fd] # Closed
      /\ base /\ ~h.failed => old.fd = NoHandle /\ files'[h.fd].dev = h.dev
      /\ \A n \in Fds : n # h.fd => files'[n] = files[n]
  BY <1>f, <1>q, <1>o, <1>0, MonitorAssumption, <1>a, <1>b, <1>c DEF Opens, Leaves, At
<1>2. /\ f \in Factories /\ q \in DOMAIN devMap[f] /\ devMap[f][q] = old
      /\ \A g \in Factories : DOMAIN devMap'[g] = DOMAIN devMap[g]
      /\ \A g \in Factories : \A r \in DOMAIN devMap[g] :
           /\ devMap[g][r].fd # NoHandle => devMap[g][r].fd \in Fds
           /\ devMap'[g][r].dev = devMap[g][r].dev
           /\ ~(g = f /\ r = q) => devMap'[g][r] = devMap[g][r]
  <2>1. /\ f \in Factories /\ q \in DOMAIN devMap[f] /\ devMap[f][q] = old
        /\ \A g \in Factories : DOMAIN devMap'[g] = DOMAIN devMap[g]
        /\ \A g \in Factories : \A r \in DOMAIN devMap[g] :
             /\ devMap[g][r] \in DeviceSet
             /\ devMap'[g][r].dev = devMap[g][r].dev
             /\ ~(g = f /\ r = q) => devMap'[g][r] = devMap[g][r]
    BY <1>f, <1>q, <1>o, <1>1, StepsPointwise
  <2>. QED
    BY <2>1 DEF DeviceSet
<1>3. devMap'[f][q] = h
  BY <1>f, <1>q, <1>o, <1>1, <1>2, StepsPointwise
<1>4. /\ Stale(f, q) <=> ~base
      /\ Stale(f, q)' <=> FALSE
      /\ BeingOpened(f, q) /\ ~BeingOpened(f, q)'
  <2>1. /\ Stale(f, q) <=> call[a].at \in StaleAt(q)
        /\ Stale(f, q)' <=> ~Leaves(a, c) /\ c.at \in StaleAt(q)
        /\ BeingOpened(f, q) <=> At(a, "open")
        /\ BeingOpened(f, q)' <=> c.at = "open"
    BY <1>f, <1>q, <1>1, <1>2, Elsewhere
  <2>. QED
    BY <1>1, <2>1 DEF StaleAt, At
<1>5. \A g \in Factories : \A r \in DOMAIN devMap[g] :
        ~(g = f /\ r = q) =>
          /\ Stale(g, r)' <=> Stale(g, r)
          /\ BeingOpened(g, r)' <=> BeingOpened(g, r)
  BY <1>f, <1>q, <1>1, Elsewhere
<1>6. Resolving' /\ Opening'
  BY <1>q, <1>o, <1>1, OthersSee
<1>7. OpenFiles'
  BY <1>1, <1>2, <1>3, <1>4, <1>5 DEF Tidy, OpenFiles, OwnFiles
<1>8. OwnFiles'
  BY <1>1, <1>2, <1>3, <1>4, <1>5 DEF Tidy, OpenFiles, OwnFiles
<1>9. OwnDevice'
  BY <1>1, <1>2, <1>3, <1>4, <1>5 DEF Tidy, OpenFiles, OwnFiles, OwnDevice
<1>10. Forgotten'
  BY <1>1, <1>2, <1>3, <1>4, <1>5 DEF Tidy, Forgotten
<1>. QED
  BY <1>6, <1>7, <1>8, <1>9, <1>10 DEF Tidy

\* and one whose open fails.
LEMMA FailsTidy ==
  ASSUME Basics, Tidy, NEW a \in Actors, NEW c, NEW h, Steps(a, c, h), Alone(a), Fails(a, c, h)
  PROVE  Tidy'
<1>f. PICK f : f = call[a].f
  OBVIOUS
<1>q. PICK q : q = call[a].q
  OBVIOUS
<1>o. PICK old : old = Handle(a)
  OBVIOUS
<1> DEFINE base == q \in BaseQids
<1>0. old \in DeviceSet /\ (old.fd # NoHandle => old.fd \in Fds) /\ (HasPciInfo(a) <=> base)
  BY <1>q, <1>o, OwnHandle DEF Steps, DeviceSet
<1>1. /\ call[a].at = "open"
      /\ Leaves(a, c) /\ c.at # "open" /\ (a \in Users => c.at # "resolve")
      /\ UNCHANGED files
      /\ h.dev = old.dev /\ h.fd = NoHandle /\ h.failed
  BY <1>f, <1>q, <1>o, <1>0, MonitorAssumption DEF Fails, Leaves, At
<1>2. /\ f \in Factories /\ q \in DOMAIN devMap[f] /\ devMap[f][q] = old
      /\ \A g \in Factories : DOMAIN devMap'[g] = DOMAIN devMap[g]
      /\ \A g \in Factories : \A r \in DOMAIN devMap[g] :
           /\ devMap[g][r].fd # NoHandle => devMap[g][r].fd \in Fds
           /\ devMap'[g][r].dev = devMap[g][r].dev
           /\ ~(g = f /\ r = q) => devMap'[g][r] = devMap[g][r]
  <2>1. /\ f \in Factories /\ q \in DOMAIN devMap[f] /\ devMap[f][q] = old
        /\ \A g \in Factories : DOMAIN devMap'[g] = DOMAIN devMap[g]
        /\ \A g \in Factories : \A r \in DOMAIN devMap[g] :
             /\ devMap[g][r] \in DeviceSet
             /\ devMap'[g][r].dev = devMap[g][r].dev
             /\ ~(g = f /\ r = q) => devMap'[g][r] = devMap[g][r]
    BY <1>f, <1>q, <1>o, <1>1, StepsPointwise
  <2>. QED
    BY <2>1 DEF DeviceSet
<1>3. devMap'[f][q] = h
  BY <1>f, <1>q, <1>o, <1>1, <1>2, StepsPointwise
<1>4. /\ Stale(f, q) <=> ~base
      /\ Stale(f, q)' <=> FALSE
      /\ BeingOpened(f, q) /\ ~BeingOpened(f, q)'
  <2>1. /\ Stale(f, q) <=> call[a].at \in StaleAt(q)
        /\ Stale(f, q)' <=> ~Leaves(a, c) /\ c.at \in StaleAt(q)
        /\ BeingOpened(f, q) <=> At(a, "open")
        /\ BeingOpened(f, q)' <=> c.at = "open"
    BY <1>f, <1>q, <1>1, <1>2, Elsewhere
  <2>. QED
    BY <1>1, <2>1 DEF StaleAt, At
<1>5. \A g \in Factories : \A r \in DOMAIN devMap[g] :
        ~(g = f /\ r = q) =>
          /\ Stale(g, r)' <=> Stale(g, r)
          /\ BeingOpened(g, r)' <=> BeingOpened(g, r)
  BY <1>f, <1>q, <1>1, Elsewhere
<1>6. Resolving' /\ Opening'
  BY <1>q, <1>o, <1>1, OthersSee
<1>7. OpenFiles'
  BY <1>1, <1>2, <1>3, <1>4, <1>5 DEF Tidy, OpenFiles, OwnFiles
<1>8. OwnFiles'
  BY <1>1, <1>2, <1>3, <1>4, <1>5 DEF Tidy, OpenFiles, OwnFiles
<1>9. OwnDevice'
  BY <1>1, <1>2, <1>3, <1>4, <1>5 DEF Tidy, OpenFiles, OwnFiles, OwnDevice
<1>10. Forgotten'
  BY <1>1, <1>2, <1>3, <1>4, <1>5 DEF Tidy, Forgotten
<1>. QED
  BY <1>6, <1>7, <1>8, <1>9, <1>10 DEF Tidy

-----------------------------------------------------------------------------
(* The steps of calls are of these kinds.                                  *)

Turns(a, c) == call' = [call EXCEPT ![a] = c]

\* A call is a user's or the monitor's.
LEMMA WhoseCall ==
  ASSUME Basics, NEW a \in Actors, call[a] # Idle
  PROVE  \/ a \in Users /\ a # Monitor /\ call[a] \in UserCalls
         \/ /\ a = Monitor /\ a \notin Users /\ call[a] \in MonitorCalls
            /\ ToSet(call[a].rest) \subseteq Registered /\ call[a].f \in Registered
BY MonitorAssumption DEF Basics, CallsOK, Actors

\* A call that goes to its next step.
LEMMA GoesOn ==
  ASSUME Basics, NEW a \in Actors, call[a] # Idle,
         NEW where \in {"ioctl", "clear", "resolve", "open"}, where = "ioctl" => a \in Users,
         Go(a, where)
  PROVE  \E c : Turns(a, c) /\ Follows(a, c) /\ Same(a, c) /\ c.at = where
<1> DEFINE c == [call[a] EXCEPT !.at = where]
<1>1. Turns(a, c)
  BY DEF Go, Turns, Basics, CallsOK
<1>2. CASE a \in Users /\ a # Monitor /\ call[a] \in UserCalls
  <2>1. c \in UserCalls /\ Same(a, c) /\ c.at = where
    BY <1>2 DEF UserCalls, Same
  <2>. HIDE DEF c
  <2>. QED
    BY <1>1, <1>2, <2>1 DEF Follows, Same
<1>3. CASE /\ a = Monitor /\ a \notin Users /\ call[a] \in MonitorCalls
           /\ ToSet(call[a].rest) \subseteq Registered /\ call[a].f \in Registered
  <2>1. c \in MonitorCalls /\ Same(a, c) /\ c.at = where /\ c.rest = call[a].rest
    BY <1>3 DEF MonitorCalls, Same
  <2>. HIDE DEF c
  <2>. QED
    BY <1>1, <1>3, <2>1 DEF Follows, Same
<1>. QED
  BY <1>2, <1>3, WhoseCall

\* The monitor goes on to the next factory, or is done.
LEMMA TellsNext ==
  ASSUME Basics, NEW a \in Actors, call[a] # Idle, a = Monitor, notifyNext(a)
  PROVE  \E c : Turns(a, c) /\ Follows(a, c) /\ Leaves(a, c)
<1> DEFINE rest == call[a].rest
           next == [call[a] EXCEPT !.f = Head(rest), !.rest = Tail(rest),
                      !.at = IF call[a].op = "DEVICE_DOWN" THEN "close" ELSE "resolve"]
<1>1. call[a] \in MonitorCalls /\ ToSet(rest) \subseteq Registered /\ call[a].q \in BaseQids
  BY WhoseCall DEF MonitorCalls
<1>2. CASE rest = <<>>
  <2>1. Turns(a, Idle)
    BY <1>2 DEF notifyNext, Turns
  <2>. QED
    BY <2>1 DEF Follows, Leaves, Idle
<1>3. CASE rest # <<>>
  <2>1. Turns(a, next)
    BY <1>3 DEF notifyNext, Turns
  <2>2. rest \in Seq(Factories)
    BY <1>1 DEF MonitorCalls
  <2>3. /\ Head(rest) \in Factories /\ Tail(rest) \in Seq(Factories)
        /\ Head(rest) \in ToSet(rest) /\ ToSet(Tail(rest)) \subseteq ToSet(rest)
    <3>. HIDE DEF rest
    <3>. QED
      BY <1>3, <2>2 DEF ToSet
  <2>4. /\ next \in MonitorCalls /\ next.q = call[a].q /\ next.at \in {"close", "resolve"}
        /\ next.f = Head(rest) /\ next.rest = Tail(rest)
    <3>. HIDE DEF rest
    <3>. QED
      BY <1>1, <2>3 DEF MonitorCalls
  <2>. HIDE DEF next, rest
  <2>5. Follows(a, next)
    BY <1>1, <2>3, <2>4 DEF Follows
  <2>6. Leaves(a, next)
    BY <1>1, <2>4 DEF Leaves
  <2>. QED
    BY <2>1, <2>5, <2>6
<1>. QED
  BY <1>2, <1>3

\* What a query makes of the handle.
LEMMA Answers ==
  ASSUME Basics, NEW a \in Actors, call[a] # Idle, NEW status, NEW handle \in DeviceSet,
         getStatus(a, status, handle)
  PROVE  /\ Turns(a, Idle) /\ Follows(a, Idle) /\ Leaves(a, Idle)
         /\ \E h \in DeviceSet :
              /\ Set(a, h)
              /\ h.dev = handle.dev /\ h.name = handle.name
              /\ h.fd = handle.fd /\ h.failed = handle.failed
              /\ \/ h.status = handle.status \/ h.status = "QDS_ERROR"
                 \/ h.status = "QDS_READY" /\ status = "QS_SUCCESS"
<1>1. Turns(a, Idle) /\ Follows(a, Idle) /\ Leaves(a, Idle)
  BY DEF getStatus, Turns, Follows, Leaves, Idle
<1> DEFINE P(h) == /\ Set(a, h)
                   /\ h.dev = handle.dev /\ h.name = handle.name
                   /\ h.fd = handle.fd /\ h.failed = handle.failed
                   /\ \/ h.status = handle.status \/ h.status = "QDS_ERROR"
                      \/ h.status = "QDS_READY" /\ status = "QS_SUCCESS"
           told == [handle EXCEPT !.status = IF status = "QS_SUCCESS" THEN "QDS_READY" ELSE "QDS_ERROR"]
<1>2. /\ told \in DeviceSet /\ told.dev = handle.dev /\ told.name = handle.name
      /\ told.fd = handle.fd /\ told.failed = handle.failed
      /\ told.status = IF status = "QS_SUCCESS" THEN "QDS_READY" ELSE "QDS_ERROR"
  BY DEF DeviceSet
<1>3. Set(a, told) \/ Set(a, handle)
  BY DEF getStatus
<1>. HIDE DEF told
<1>4. P(told) \/ P(handle)
  BY <1>2, <1>3
<1>5. \E h \in DeviceSet : P(h)
  <2>. HIDE DEF P
  <2>. QED
    BY <1>2, <1>4
<1>. QED
  BY <1>1, <1>5

\* What a step of a call comes to: the kind matters while no threads met.
Effect(a, c, h) ==
  /\ Steps(a, c, h) /\ Follows(a, c)
  /\ h \in DeviceSet /\ h.dev = Handle(a).dev
  /\ HasPciInfo(a) \/ h.name = Handle(a).name
  /\ FilesOK'
  /\ ~disturbed' =>
       /\ Alone(a)
       /\ \/ Keeps(a, c, h) \/ Closes(a, c, h) \/ Clears(a, c, h)
          \/ Resolves(a, c, h) \/ Opens(a, c, h) \/ Fails(a, c, h)
  /\ h.status = "QDS_READY" /\ Handle(a).status # "QDS_READY" =>
       /\ At(a, "ioctl") /\ Handle(a).fd # NoHandle /\ Alive(files[Handle(a).fd])
       /\ h.failed = Handle(a).failed

\* A step of a call keeps the invariant.
LEMMA EffectKeepsInv ==
  ASSUME Inv, ~disturbed, NEW a \in Actors, NEW c, NEW h, Effect(a, c, h)
  PROVE  Inv'
<1>1. Basics /\ Tidy
  BY DEF Inv
<1>2. IsNamed(h, call[a].q, derivedDevList(udevMap[call[a].f]))
  BY <1>1, OwnHandle DEF Effect, Steps, IsNamed
<1>3. Basics'
  BY <1>1, <1>2, StepsBasics DEF Effect
<1>4. ~disturbed' => Tidy'
  <2> SUFFICES ASSUME ~disturbed' PROVE Tidy'
    OBVIOUS
  <2>1. Steps(a, c, h) /\ Alone(a)
    BY DEF Effect
  <2>2. CASE Keeps(a, c, h)
    BY <1>1, <2>1, <2>2, KeepsTidy
  <2>3. CASE Closes(a, c, h)
    BY <1>1, <2>1, <2>3, ClosesTidy
  <2>4. CASE Clears(a, c, h)
    BY <1>1, <2>1, <2>4, ClearsTidy
  <2>5. CASE Resolves(a, c, h)
    BY <1>1, <2>1, <2>5, ResolvesTidy
  <2>6. CASE Opens(a, c, h)
    BY <1>1, <2>1, <2>6, OpensTidy
  <2>7. CASE Fails(a, c, h)
    BY <1>1, <2>1, <2>7, FailsTidy
  <2>. QED
    BY <2>2, <2>3, <2>4, <2>5, <2>6, <2>7 DEF Effect
<1>. QED
  BY <1>3, <1>4 DEF Inv

\* While nothing is disturbed, a step has its handle to itself.
LEMMA UsesAlone ==
  ASSUME NEW a \in Actors, Uses(a), ~disturbed'
  PROVE  Alone(a)
BY DEF Uses, Alone, On

\* A thread that is at a step is in a call; at the command, a user's.
LEMMA ActsNow ==
  ASSUME Basics, NEW a \in Actors, NEW where \in {"ioctl", "close", "clear", "resolve", "open"},
         At(a, where)
  PROVE  call[a] # Idle /\ (where = "ioctl" => a \in Users)
<1>1. call[a] # Idle
  BY DEF At, Idle
<1>2. where = "ioctl" => a \in Users
  BY <1>1, WhoseCall DEF At, MonitorCalls
<1>. QED
  BY <1>1, <1>2

\* The file table stays well-formed when it does not change.
LEMMA FilesKept == FilesOK /\ UNCHANGED files => FilesOK'
BY DEF FilesOK

\* The end of a call that could not go on: of a query with an error.
LEMMA FailEnds ==
  ASSUME Basics, NEW a \in Actors, call[a] # Idle, NEW handle \in DeviceSet, fail(a, handle)
  PROVE  \E c : /\ Turns(a, c) /\ Follows(a, c) /\ Leaves(a, c)
                /\ \E h \in DeviceSet :
                     /\ Set(a, h)
                     /\ h.dev = handle.dev /\ h.name = handle.name
                     /\ h.fd = handle.fd /\ h.failed = handle.failed
                     /\ h.status = handle.status \/ h.status = "QDS_ERROR"
<1>1. CASE a = Monitor
  BY <1>1, TellsNext DEF fail
<1>2. CASE a # Monitor
  <2>1. getStatus(a, "QS_INVAL", handle)
    BY <1>2 DEF fail
  <2>2. /\ Turns(a, Idle) /\ Follows(a, Idle) /\ Leaves(a, Idle)
        /\ \E h \in DeviceSet :
              /\ Set(a, h)
              /\ h.dev = handle.dev /\ h.name = handle.name
              /\ h.fd = handle.fd /\ h.failed = handle.failed
              /\ \/ h.status = handle.status \/ h.status = "QDS_ERROR"
                 \/ h.status = "QDS_READY" /\ "QS_INVAL" = "QS_SUCCESS"
    BY <2>1, Answers
  <2>. QED
    BY <2>2
<1>. QED
  BY <1>1, <1>2

\* Every step of a call has an Effect: close(),
LEMMA CloseEffect ==
  ASSUME Basics, NEW a \in Actors, closeDevice(a)
  PROVE  \E c, h : Effect(a, c, h)
<1> DEFINE old == Handle(a)
<1>1. call[a] # Idle /\ At(a, "close")
  BY ActsNow DEF closeDevice
<1>2. old \in DeviceSet /\ FilesOK
  BY <1>1, OwnHandle DEF Basics
<1>3. ~disturbed' => Alone(a)
  BY UsesAlone DEF closeDevice
<1>4. CASE old.fd # NoHandle /\ files[old.fd] # Closed
  <2>1. files' = [files EXCEPT ![old.fd] = Closed] /\ Go(a, "clear") /\ UNCHANGED devMap
    BY <1>4 DEF closeDevice
  <2>2. PICK c : Turns(a, c) /\ Follows(a, c) /\ Same(a, c) /\ c.at = "clear"
    BY <1>1, <2>1, GoesOn
  <2>3. FilesOK'
    BY <1>2, <2>1 DEF FilesOK, Closed, FileSet
  <2>4. Steps(a, c, old)
    BY <1>1, <2>1, <2>2 DEF Steps, Turns, closeDevice
  <2>5. Closes(a, c, old)
    BY <1>1, <1>4, <2>1, <2>2 DEF Closes
  <2>6. Effect(a, c, old)
    BY <1>2, <1>3, <2>2, <2>3, <2>4, <2>5 DEF Effect
  <2>. QED
    BY <2>6
<1>5. CASE ~(old.fd # NoHandle /\ files[old.fd] # Closed)
  <2>1. fail(a, old) /\ UNCHANGED files
    BY <1>5 DEF closeDevice
  <2>2. PICK c : /\ Turns(a, c) /\ Follows(a, c) /\ Leaves(a, c)
                 /\ \E h \in DeviceSet :
                     /\ Set(a, h)
                     /\ h.dev = old.dev /\ h.name = old.name
                     /\ h.fd = old.fd /\ h.failed = old.failed
                     /\ h.status = old.status \/ h.status = "QDS_ERROR"
    BY <1>1, <1>2, <2>1, FailEnds
  <2>3. PICK h \in DeviceSet :
                     /\ Set(a, h)
                     /\ h.dev = old.dev /\ h.name = old.name
                     /\ h.fd = old.fd /\ h.failed = old.failed
                     /\ h.status = old.status \/ h.status = "QDS_ERROR"
    BY <2>2
  <2>4. Steps(a, c, h)
    BY <1>1, <2>2, <2>3 DEF Steps, Turns, closeDevice
  <2>5. Keeps(a, c, h)
    BY <1>1, <2>1, <2>2, <2>3 DEF Keeps, At
  <2>6. Effect(a, c, h)
    BY <1>2, <1>3, <2>1, <2>2, <2>3, <2>4, <2>5, FilesKept DEF Effect
  <2>. QED
    BY <2>6
<1>. QED
  BY <1>4, <1>5

\* the end of closeDevice,
LEMMA ClearEffect ==
  ASSUME Basics, NEW a \in Actors, closeDeviceClears(a)
  PROVE  \E c, h : Effect(a, c, h)
<1> DEFINE old == Handle(a)
           h == cleared(a)
<1>1. call[a] # Idle /\ At(a, "clear")
  BY ActsNow DEF closeDeviceClears
<1>2. old \in DeviceSet /\ FilesOK /\ (HasPciInfo(a) <=> call[a].q \in BaseQids)
  BY <1>1, OwnHandle DEF Basics
<1>3. ~disturbed' => Alone(a)
  BY UsesAlone DEF closeDeviceClears
<1>4. /\ h \in DeviceSet /\ h.dev = old.dev /\ h.status = old.status
      /\ HasPciInfo(a) \/ h.name = old.name
  BY <1>2 DEF cleared, DeviceSet, HasPciInfo
<1>5. /\ UNCHANGED files
      /\ Set(a, h)
  BY DEF closeDeviceClears
<1>6. PICK c : /\ Turns(a, c) /\ Follows(a, c)
               /\ \/ a = Monitor /\ call[a].q \in BaseQids /\ Leaves(a, c)
                  \/ a \in Users /\ c.at = "resolve" /\ Same(a, c)
  <2>1. CASE a = Monitor
    <3>1. call[a].q \in BaseQids
      BY <1>1, <2>1, WhoseCall DEF MonitorCalls
    <3>. QED
      BY <1>1, <2>1, <3>1, TellsNext DEF closeDeviceClears
  <2>2. CASE a # Monitor
    <3>1. Go(a, "resolve") /\ a \in Users
      BY <2>2 DEF closeDeviceClears, Actors
    <3>. QED
      BY <1>1, <3>1, GoesOn
  <2>. QED
    BY <2>1, <2>2
<1>7. Steps(a, c, h)
  BY <1>1, <1>5, <1>6 DEF Steps, Turns, closeDeviceClears
<1>8. Clears(a, c, h)
  BY <1>1, <1>5, <1>6 DEF Clears
<1>9. Effect(a, c, h)
  <2>. HIDE DEF h
  <2>. QED
    BY <1>2, <1>3, <1>4, <1>5, <1>6, <1>7, <1>8, FilesKept DEF Effect
<1>. QED
  BY <1>9

\* the search for the node,
LEMMA ResolveEffect ==
  ASSUME Basics, NEW a \in Actors, openDevice(a)
  PROVE  \E c, h : Effect(a, c, h)
<1> DEFINE old == Handle(a)
           name == getDevicePath(old.name, old.dev, node)
           h == [old EXCEPT !.name = name]
<1>1. call[a] # Idle /\ At(a, "resolve")
  BY ActsNow DEF openDevice
<1>2. /\ old \in DeviceSet /\ FilesOK
      /\ IsNamed(old, call[a].q, derivedDevList(udevMap[call[a].f]))
      /\ HasPciInfo(a) <=> call[a].q \in BaseQids
  BY <1>1, OwnHandle DEF Basics
<1>3. ~disturbed' => Alone(a) /\ (a = Monitor => old.fd = NoHandle)
  <2>1. IF TellsOld(a) THEN disturbed' = TRUE ELSE Uses(a)
    BY DEF openDevice
  <2>. QED
    BY <2>1, UsesAlone DEF TellsOld
<1>4. name \in Names \cup {Invalid} /\ (old.name # Unnamed => name = old.name)
  <2>1. CASE old.name = Unnamed
    <3>1. old.dev \in Base
      BY <1>2, <2>1, BaseNames, Enumeration DEF IsNamed
    <3>. QED
      BY <2>1, <3>1, NodeFound DEF Basics, KernelOK
  <2>2. CASE old.name # Unnamed
    BY <1>2, <2>2 DEF getDevicePath, DeviceSet
  <2>. QED
    BY <2>1, <2>2
<1>5. name # "_invalid"
  BY <1>4, BaseNames DEF Invalid
<1>6. Set(a, h) /\ Go(a, "open") /\ UNCHANGED files
  BY <1>5 DEF openDevice, isDeviceValid
<1>7. PICK c : Turns(a, c) /\ Follows(a, c) /\ Same(a, c) /\ c.at = "open"
  BY <1>1, <1>6, GoesOn
<1>8. Steps(a, c, h)
  BY <1>1, <1>6, <1>7 DEF Steps, Turns, openDevice
<1>9. ~disturbed' => Resolves(a, c, h)
  BY <1>1, <1>3, <1>6, <1>7 DEF Resolves
<1>10. /\ h \in DeviceSet /\ h.dev = old.dev /\ h.status = old.status
       /\ HasPciInfo(a) \/ h.name = old.name
  <2>1. old.name = Unnamed => HasPciInfo(a)
    BY <1>2, BaseNames DEF IsNamed
  <2>. HIDE DEF name
  <2>. QED
    BY <1>2, <1>4, <2>1 DEF DeviceSet
<1>11. Effect(a, c, h)
  <2>. HIDE DEF h
  <2>. QED
    BY <1>2, <1>3, <1>6, <1>7, <1>8, <1>9, <1>10, FilesKept DEF Effect
<1>. QED
  BY <1>11

\* The number open() gives is that of a free file.
LEMMA FreeFile ==
  ASSUME FilesOK, FreeFiles # {}
  PROVE  LET fd == CHOOSE n \in FreeFiles : \A m \in FreeFiles : n <= m
         IN fd \in FreeFiles /\ fd \in Fds
<1>1. FreeFiles \in SUBSET Nat /\ FreeFiles \subseteq Fds
  BY BoundsAssumption DEF FilesOK, FreeFiles, Fds
<1>2. \E n \in FreeFiles : \A m \in FreeFiles : n <= m
  BY <1>1, LeastNumber
<1>. QED
  BY <1>1, <1>2

\* open(),
LEMMA OpenEffect ==
  ASSUME Basics, NEW a \in Actors, openDeviceOpens(a)
  PROVE  \E c, h : Effect(a, c, h)
<1> DEFINE old == Handle(a)
           d == IF old.name \in Names THEN node[old.name] ELSE NoDevice
           fd == CHOOSE n \in FreeFiles : \A m \in FreeFiles : n <= m
           opened == [old EXCEPT !.fd = fd]
           failed == [old EXCEPT !.fd = NoHandle, !.failed = TRUE]
<1>1. call[a] # Idle /\ At(a, "open")
  BY ActsNow DEF openDeviceOpens
<1>2. old \in DeviceSet /\ FilesOK
  BY <1>1, OwnHandle DEF Basics
<1>3. ~disturbed' => Alone(a)
  BY UsesAlone DEF openDeviceOpens
<1>4. CASE d # NoDevice /\ FreeFiles # {}
  <2>1. old.name \in Names /\ node[old.name] # NoDevice /\ d = node[old.name]
    BY <1>4
  <2>2. fd \in FreeFiles /\ fd \in Fds
    BY <1>2, <1>4, FreeFile
  <2>3. files' = [files EXCEPT ![fd] = [dev |-> d, life |-> life[d]]]
    BY <1>4 DEF openDeviceOpens
  <2>4. d \in Devices /\ life[d] \in Nat
    BY <2>1 DEF Basics, KernelOK
  <2>. HIDE DEF d, fd
  <2>5. FilesOK'
    <3>1. [dev |-> d, life |-> life[d]] \in FileSet /\ d # NoDevice
      BY <2>1, <2>4 DEF FileSet
    <3>. QED
      BY <1>2, <2>2, <2>3, <3>1 DEF FilesOK
  <2>6. /\ opened \in DeviceSet /\ opened.dev = old.dev /\ opened.name = old.name
        /\ opened.failed = old.failed /\ opened.status = old.status /\ opened.fd = fd
    BY <1>2, <2>2 DEF DeviceSet
  <2>7. IF a = Monitor THEN Set(a, opened) /\ notifyNext(a) ELSE retry(a, opened)
    BY <1>4 DEF openDeviceOpens, d, fd
  <2>. HIDE DEF opened
  <2>8. \E c : \E h \in DeviceSet :
          /\ Turns(a, c) /\ Follows(a, c) /\ Leaves(a, c) /\ Set(a, h)
          /\ h.dev = old.dev /\ h.name = old.name /\ h.failed = old.failed /\ h.fd = fd
          /\ h.status = old.status \/ h.status = "QDS_ERROR"
    <3>1. CASE a = Monitor
      <4>1. PICK c : Turns(a, c) /\ Follows(a, c) /\ Leaves(a, c)
        BY <1>1, <2>7, <3>1, TellsNext
      <4>. QED
        BY <2>6, <2>7, <3>1, <4>1
    <3>2. CASE a # Monitor /\ call[a].tries > 0
      <4>1. Set(a, opened) /\ Go(a, "ioctl") /\ a \in Users
        BY <2>7, <3>2 DEF retry, Actors
      <4>2. PICK c : Turns(a, c) /\ Follows(a, c) /\ Same(a, c) /\ c.at = "ioctl"
        BY <1>1, <4>1, GoesOn
      <4>. QED
        BY <2>6, <4>1, <4>2 DEF Leaves
    <3>3. CASE a # Monitor /\ ~(call[a].tries > 0)
      <4>1. getStatus(a, "QS_INVAL", opened)
        BY <2>7, <3>3 DEF retry, respond
      <4>2. /\ Turns(a, Idle) /\ Follows(a, Idle) /\ Leaves(a, Idle)
            /\ \E h \in DeviceSet :
                 /\ Set(a, h)
                 /\ h.dev = opened.dev /\ h.name = opened.name
                 /\ h.fd = opened.fd /\ h.failed = opened.failed
                 /\ \/ h.status = opened.status \/ h.status = "QDS_ERROR"
                    \/ h.status = "QDS_READY" /\ "QS_INVAL" = "QS_SUCCESS"
        BY <1>1, <2>6, <4>1, Answers
      <4>. QED
        BY <2>6, <4>2
    <3>. QED
      BY <3>1, <3>2, <3>3
  <2>c. PICK c : \E h \in DeviceSet :
          /\ Turns(a, c) /\ Follows(a, c) /\ Leaves(a, c) /\ Set(a, h)
          /\ h.dev = old.dev /\ h.name = old.name /\ h.failed = old.failed /\ h.fd = fd
          /\ h.status = old.status \/ h.status = "QDS_ERROR"
    BY <2>8
  <2>9. PICK h \in DeviceSet :
          /\ Turns(a, c) /\ Follows(a, c) /\ Leaves(a, c) /\ Set(a, h)
          /\ h.dev = old.dev /\ h.name = old.name /\ h.failed = old.failed /\ h.fd = fd
          /\ h.status = old.status \/ h.status = "QDS_ERROR"
    BY <2>c
  <2>10. Steps(a, c, h)
    BY <1>1, <2>9 DEF Steps, Turns, openDeviceOpens
  <2>11. Opens(a, c, h)
    BY <1>1, <2>1, <2>2, <2>3, <2>9 DEF Opens
  <2>12. Effect(a, c, h)
    BY <1>3, <2>5, <2>9, <2>10, <2>11 DEF Effect
  <2>. QED
    BY <2>12
<1>5. CASE ~(d # NoDevice /\ FreeFiles # {})
  <2>1. fail(a, failed) /\ UNCHANGED files
    BY <1>5 DEF openDeviceOpens
  <2>2. /\ failed \in DeviceSet /\ failed.dev = old.dev /\ failed.name = old.name
        /\ failed.fd = NoHandle /\ failed.failed /\ failed.status = old.status
    BY <1>2 DEF DeviceSet
  <2>. HIDE DEF failed
  <2>3. PICK c : /\ Turns(a, c) /\ Follows(a, c) /\ Leaves(a, c)
                 /\ \E h \in DeviceSet :
                     /\ Set(a, h)
                     /\ h.dev = failed.dev /\ h.name = failed.name
                     /\ h.fd = failed.fd /\ h.failed = failed.failed
                     /\ h.status = failed.status \/ h.status = "QDS_ERROR"
    BY <1>1, <2>1, <2>2, FailEnds
  <2>4. PICK h \in DeviceSet :
                     /\ Set(a, h)
                     /\ h.dev = failed.dev /\ h.name = failed.name
                     /\ h.fd = failed.fd /\ h.failed = failed.failed
                     /\ h.status = failed.status \/ h.status = "QDS_ERROR"
    BY <2>3
  <2>5. Steps(a, c, h)
    BY <1>1, <2>3, <2>4 DEF Steps, Turns, openDeviceOpens
  <2>6. Fails(a, c, h)
    BY <1>1, <2>1, <2>2, <2>3, <2>4 DEF Fails
  <2>7. Effect(a, c, h)
    BY <1>2, <1>3, <2>1, <2>2, <2>3, <2>4, <2>5, <2>6, FilesKept DEF Effect
  <2>. QED
    BY <2>7
<1>. QED
  BY <1>4, <1>5

\* and the command with its retries.
LEMMA CommandEffect ==
  ASSUME Basics, NEW a \in Actors,
         NEW errno \in {"none", "ENODEV", "EINTR", "other"}, NEW response \in {"answered", "failed"},
         runDevCmd(a, errno, response)
  PROVE  \E c, h : Effect(a, c, h)
<1> DEFINE old == Handle(a)
<1>1. call[a] # Idle /\ At(a, "ioctl") /\ a \in Users /\ call[a] \in UserCalls
  <2>1. call[a] # Idle /\ At(a, "ioctl") /\ a \in Users
    BY ActsNow DEF runDevCmd
  <2>. QED
    BY <2>1 DEF Basics, CallsOK
<1>2. old \in DeviceSet /\ FilesOK
  BY <1>1, OwnHandle DEF Basics
<1>3. ~disturbed' => Alone(a)
  BY UsesAlone DEF runDevCmd
<1>4. UNCHANGED files
  BY DEF runDevCmd
<1>5. CASE errno = "ENODEV"
  <2> DEFINE c == [call[a] EXCEPT !.at = "close", !.tries = @ - 1]
  <2>1. UNCHANGED devMap /\ call' = [call EXCEPT ![a].at = "close", ![a].tries = @ - 1]
    BY <1>5 DEF runDevCmd
  <2>2. Turns(a, c)
    BY <2>1 DEF Turns, Basics, CallsOK
  <2>3. c \in UserCalls /\ Same(a, c) /\ c.at = "close"
    <3>1. call[a].tries \in Int /\ call[a].tries - 1 \in Int
      BY <1>1 DEF UserCalls
    <3>2. c = [call[a] EXCEPT !.at = "close", !.tries = call[a].tries - 1]
      BY <1>1 DEF UserCalls
    <3>. QED
      BY <1>1, <3>1, <3>2 DEF UserCalls, Same
  <2>. HIDE DEF c
  <2>4. Follows(a, c) /\ Leaves(a, c)
    BY <1>1, <2>3 DEF Follows, Leaves, Same
  <2>5. Steps(a, c, old)
    BY <1>1, <2>1, <2>2 DEF Steps, Turns, runDevCmd
  <2>6. Keeps(a, c, old)
    BY <1>1, <1>4, <2>4 DEF Keeps, At
  <2>7. Effect(a, c, old)
    BY <1>2, <1>3, <1>4, <2>4, <2>5, <2>6, FilesKept DEF Effect
  <2>. QED
    BY <2>7
<1>6. CASE errno # "ENODEV"
  <2>1. PICK status : /\ getStatus(a, status, old)
                      /\ status = "QS_SUCCESS" => errno = "none"
    BY <1>6 DEF runDevCmd, respond
  <2>2. /\ Turns(a, Idle) /\ Follows(a, Idle) /\ Leaves(a, Idle)
        /\ \E h \in DeviceSet :
             /\ Set(a, h)
             /\ h.dev = old.dev /\ h.name = old.name
             /\ h.fd = old.fd /\ h.failed = old.failed
             /\ \/ h.status = old.status \/ h.status = "QDS_ERROR"
                \/ h.status = "QDS_READY" /\ status = "QS_SUCCESS"
    BY <1>1, <1>2, <2>1, Answers
  <2>3. PICK h \in DeviceSet :
             /\ Set(a, h)
             /\ h.dev = old.dev /\ h.name = old.name
             /\ h.fd = old.fd /\ h.failed = old.failed
             /\ \/ h.status = old.status \/ h.status = "QDS_ERROR"
                \/ h.status = "QDS_READY" /\ status = "QS_SUCCESS"
    BY <2>2
  <2>4. errno = "none" => old.fd # NoHandle /\ Alive(files[old.fd])
    BY DEF runDevCmd, Errno
  <2>5. Steps(a, Idle, h)
    BY <1>1, <2>2, <2>3 DEF Steps, Turns, runDevCmd
  <2>6. Keeps(a, Idle, h)
    BY <1>1, <1>4, <2>2, <2>3 DEF Keeps, At
  <2>7. Effect(a, Idle, h)
    BY <1>1, <1>2, <1>3, <1>4, <2>1, <2>2, <2>3, <2>4, <2>5, <2>6, FilesKept DEF Effect
  <2>. QED
    BY <2>7
<1>. QED
  BY <1>5, <1>6

\* Every step of a call is one of these.
LEMMA CallSteps ==
  ASSUME Basics, NEW a \in Actors, DeviceStep(a)
  PROVE  \E c, h : Effect(a, c, h)
BY CloseEffect, ClearEffect, ResolveEffect, OpenEffect, CommandEffect DEF DeviceStep

-----------------------------------------------------------------------------
(* The other steps.                                                        *)

LEMMA GoesKeepsInv ==
  ASSUME Inv, NEW d \in Devices, DeviceGoes(d)
  PROVE  Inv'
<1>1. /\ Basics /\ Tidy
      /\ UNCHANGED <<life, files, devMap, udevMap, observers, call>>
      /\ d \in Base
      /\ node' = [n \in Names |-> IF node[n] = d \/ (node[n] \in Derived /\ Parent[node[n]] = d)
                                  THEN NoDevice ELSE node[n]]
  BY DEF Inv, DeviceGoes, built
<1>2. KernelOK'
  <2>1. node' \in [Names -> Devices \cup {NoDevice}]
    BY <1>1 DEF Basics, KernelOK
  <2>2. outages' = outages + 1 /\ outages < MaxOutages /\ outages \in 0..MaxOutages
    BY <1>1 DEF Basics, KernelOK, DeviceGoes
  <2>3. outages' \in 0..MaxOutages
    BY <2>2, BoundsAssumption
  <2>. QED
    BY <1>1, <2>1, <2>3 DEF Basics, KernelOK
<1>3. /\ events' \in Seq([kind : {"DEVICE_UP", "DEVICE_DOWN"}, dev : Base])
      /\ events' # <<>> => observers # <<>>
  <2>1. events \in Seq([kind : {"DEVICE_UP", "DEVICE_DOWN"}, dev : Base])
    BY <1>1 DEF Basics, FactoriesOK
  <2>2. [kind |-> "DEVICE_DOWN", dev |-> d] \in [kind : {"DEVICE_UP", "DEVICE_DOWN"}, dev : Base]
    BY <1>1
  <2>3. events' = IF observers = <<>> THEN events ELSE Append(events, [kind |-> "DEVICE_DOWN", dev |-> d])
    BY DEF DeviceGoes, Notice
  <2>4. events # <<>> => observers # <<>>
    BY <1>1 DEF Basics, FactoriesOK
  <2> DEFINE E == [kind : {"DEVICE_UP", "DEVICE_DOWN"}, dev : Base]
             e == [kind |-> "DEVICE_DOWN", dev |-> d]
  <2>5. d \in Base => e \in E
    BY <2>2
  <2>6. \/ events' = events
        \/ d \in Base /\ observers # <<>> /\ events' = Append(events, e)
    BY <1>1, <2>3
  <2>7. events \in Seq(E)
    BY <2>1
  <2>. HIDE DEF E, e
  <2>8. events' \in Seq(E) /\ (events' # <<>> => observers # <<>>)
    BY <2>4, <2>5, <2>6, <2>7
  <2>. QED
    BY <2>8 DEF E
<1>4. FactoriesOK' /\ CallsOK' /\ HandlesOK' /\ FilesOK'
  BY <1>1, <1>3 DEF Basics, FactoriesOK, CallsOK, HandlesOK, FilesOK, Registered
<1>5. ~disturbed' => Opening'
  <2> SUFFICES ASSUME ~disturbed', NEW a \in Actors, At(a, "open"), call[a].q \in BaseQids,
                      ~Handle(a).failed
               PROVE  /\ Handle(a).fd = NoHandle
                      /\ Handle(a).name \in Names => node'[Handle(a).name] = Handle(a).dev
    BY <1>1 DEF Opening, At, Handle
  <2>1. /\ Handle(a).fd = NoHandle
        /\ Handle(a).name \in Names => node[Handle(a).name] = Handle(a).dev
    BY <1>1 DEF Tidy, Opening
  <2>2. Handle(a).dev # d
    BY DEF DeviceGoes
  <2>3. Handle(a).dev \in Base
    <3>1. call[a] # Idle
      BY ActsNow, <1>1
    <3>. QED
      BY <1>1, <3>1, OwnHandle DEF HasPciInfo
  <2>. QED
    BY <1>1, <2>1, <2>2, <2>3, DevicesAssumption
<1>6. ~disturbed' => Tidy'
  BY <1>1, <1>5 DEF Tidy, OpenFiles, OwnFiles, OwnDevice, Forgotten, Resolving, Stale, BeingOpened,
                    At, On, Handle
<1>. QED
  BY <1>2, <1>4, <1>6 DEF Inv, Basics

\* A device that comes up keeps the invariant.
LEMMA ComesKeepsInv ==
  ASSUME Inv, NEW d \in Devices, NEW n \in Names, DeviceComes(d, n)
  PROVE  Inv'
<1>1. /\ Basics /\ Tidy
      /\ UNCHANGED <<outages, files, devMap, udevMap, observers, call, disturbed>>
      /\ node[n] = NoDevice
      /\ node' = [node EXCEPT ![n] = d] /\ life' = [life EXCEPT ![d] = @ + 1]
  BY DEF Inv, DeviceComes, built
<1>2. KernelOK'
  BY <1>1 DEF Basics, KernelOK
<1>3. /\ events' \in Seq([kind : {"DEVICE_UP", "DEVICE_DOWN"}, dev : Base])
      /\ events' # <<>> => observers # <<>>
  <2>1. events \in Seq([kind : {"DEVICE_UP", "DEVICE_DOWN"}, dev : Base])
    BY <1>1 DEF Basics, FactoriesOK
  <2>2. d \in Base =>
          [kind |-> "DEVICE_UP", dev |-> d] \in [kind : {"DEVICE_UP", "DEVICE_DOWN"}, dev : Base]
    OBVIOUS
  <2>3. events' = IF d \notin Base \/ observers = <<>> THEN events
                  ELSE Append(events, [kind |-> "DEVICE_UP", dev |-> d])
    BY DEF DeviceComes, Notice
  <2>4. events # <<>> => observers # <<>>
    BY <1>1 DEF Basics, FactoriesOK
  <2> DEFINE E == [kind : {"DEVICE_UP", "DEVICE_DOWN"}, dev : Base]
             e == [kind |-> "DEVICE_UP", dev |-> d]
  <2>5. d \in Base => e \in E
    BY <2>2
  <2>6. \/ events' = events
        \/ d \in Base /\ observers # <<>> /\ events' = Append(events, e)
    BY <1>1, <2>3
  <2>7. events \in Seq(E)
    BY <2>1
  <2>. HIDE DEF E, e
  <2>8. events' \in Seq(E) /\ (events' # <<>> => observers # <<>>)
    BY <2>4, <2>5, <2>6, <2>7
  <2>. QED
    BY <2>8 DEF E
<1>4. FactoriesOK' /\ CallsOK' /\ HandlesOK' /\ FilesOK'
  BY <1>1, <1>3 DEF Basics, FactoriesOK, CallsOK, HandlesOK, FilesOK, Registered
<1>5. Opening'
  <2> SUFFICES ASSUME NEW a \in Actors, At(a, "open"), call[a].q \in BaseQids, ~Handle(a).failed
               PROVE  /\ Handle(a).fd = NoHandle
                      /\ Handle(a).name \in Names => node'[Handle(a).name] = Handle(a).dev
    BY <1>1 DEF Opening, At, Handle
  <2>1. /\ Handle(a).fd = NoHandle
        /\ Handle(a).name \in Names => node[Handle(a).name] = Handle(a).dev
    BY <1>1 DEF Tidy, Opening
  <2>2. Handle(a).dev \in Devices
    <3>1. call[a] # Idle
      BY ActsNow, <1>1
    <3>. QED
      BY <1>1, <3>1, OwnHandle DEF DeviceSet
  <2>. QED
    BY <1>1, <2>1, <2>2, DevicesAssumption DEF Basics, KernelOK
<1>6. Tidy'
  BY <1>1, <1>5 DEF Tidy, OpenFiles, OwnFiles, OwnDevice, Forgotten, Resolving, Stale, BeingOpened,
                    At, On, Handle
<1>. QED
  BY <1>2, <1>4, <1>6 DEF Inv, Basics

\* A call that begins.
LEMMA BeginningIsTidy ==
  ASSUME Basics, Tidy, NEW a \in Actors, call[a] = Idle, NEW c, Turns(a, c), Leaves(a, c),
         UNCHANGED <<node, devMap, files>>
  PROVE  Tidy'
<1>1. \A b \in Actors : call'[b] = IF b = a THEN c ELSE call[b]
  BY DEF Turns, Basics, CallsOK
<1>2. ~(call[a].at \in {"clear", "resolve", "open"})
  BY DEF Idle
<1>3. /\ \A f, q : Stale(f, q)' <=> Stale(f, q)
      /\ \A f, q : BeingOpened(f, q)' <=> BeingOpened(f, q)
  <2>1. ASSUME NEW f, NEW q PROVE Stale(f, q)' <=> Stale(f, q)
    BY <1>1, <1>2 DEF Stale, StaleAt, On, Leaves
  <2>2. ASSUME NEW f, NEW q PROVE BeingOpened(f, q)' <=> BeingOpened(f, q)
    BY <1>1, <1>2 DEF BeingOpened, At, On, Leaves
  <2>. QED
    BY <2>1, <2>2
<1>4. OpenFiles' /\ OwnFiles' /\ OwnDevice' /\ Forgotten'
  BY <1>3 DEF Tidy, OpenFiles, OwnFiles, OwnDevice, Forgotten
<1>5. Resolving' /\ Opening'
  BY <1>1, MonitorAssumption DEF Tidy, Resolving, Opening, At, Handle, Leaves, Actors
<1>. QED
  BY <1>4, <1>5 DEF Tidy

\* The monitor that takes up an event keeps the invariant.
LEMMA EventKeepsInv ==
  ASSUME Inv, notifyDeviceEvent
  PROVE  Inv'
<1> DEFINE c == [at |-> IF Head(events).kind = "DEVICE_DOWN" THEN "close" ELSE "resolve",
                 op |-> Head(events).kind, q |-> QidOf(Head(events).dev),
                 f |-> Head(observers), rest |-> Tail(observers)]
<1>1. /\ Basics /\ Tidy /\ call[Monitor] = Idle /\ Turns(Monitor, c)
      /\ events # <<>> /\ events' = Tail(events)
      /\ UNCHANGED <<node, life, outages, files, devMap, udevMap, observers, disturbed>>
  BY DEF Inv, notifyDeviceEvent, Turns, kernel, built
<1>2. /\ Head(events) \in [kind : {"DEVICE_UP", "DEVICE_DOWN"}, dev : Base]
      /\ Tail(events) \in Seq([kind : {"DEVICE_UP", "DEVICE_DOWN"}, dev : Base])
      /\ observers \in Seq(Factories) /\ observers # <<>>
  <2> DEFINE E == [kind : {"DEVICE_UP", "DEVICE_DOWN"}, dev : Base]
  <2>1. events \in Seq(E) /\ observers \in Seq(Factories) /\ observers # <<>>
    BY <1>1 DEF Basics, FactoriesOK
  <2>. HIDE DEF E
  <2>2. Head(events) \in E /\ Tail(events) \in Seq(E)
    BY <1>1, <2>1
  <2>. QED
    BY <2>1, <2>2 DEF E
<1>3. /\ Head(observers) \in Factories /\ Tail(observers) \in Seq(Factories)
      /\ Head(observers) \in Registered /\ ToSet(Tail(observers)) \subseteq Registered
  BY <1>2 DEF Registered, ToSet
<1>4. QidOf(Head(events).dev) \in BaseQids
  BY <1>2, Enumeration
<1>5. /\ c \in MonitorCalls /\ c.q \in BaseQids /\ c.at \in {"close", "resolve"}
      /\ c.f = Head(observers) /\ c.rest = Tail(observers)
  BY <1>2, <1>3, <1>4 DEF MonitorCalls
<1>. HIDE DEF c
<1>6. c.q \in DOMAIN devMap[c.f]
  BY <1>1, <1>3, <1>5 DEF Basics, FactoriesOK
<1>7. Monitor \in Actors
  BY DEF Actors
<1>8. Tidy'
  BY <1>1, <1>5, <1>7, BeginningIsTidy DEF Leaves
<1>9. CallsOK'
  <2>1. \A b \in Actors : call'[b] = IF b = Monitor THEN c ELSE call[b]
    BY <1>1 DEF Turns, Basics, CallsOK
  <2>2. call' \in [Actors -> {Idle} \cup UserCalls \cup MonitorCalls]
    BY <1>1, <1>5 DEF Turns, Basics, CallsOK
  <2>3. Registered' = Registered
    BY <1>1 DEF Registered
  <2>. QED
    BY <1>1, <1>3, <1>5, <1>6, <1>7, <2>1, <2>2, <2>3, MonitorAssumption DEF Basics, CallsOK, Actors
<1>10. FactoriesOK' /\ HandlesOK' /\ FilesOK' /\ KernelOK'
  BY <1>1, <1>2 DEF Basics, FactoriesOK, HandlesOK, FilesOK, KernelOK, Registered
<1>. QED
  BY <1>8, <1>9, <1>10 DEF Inv, Basics

\* A query that begins keeps the invariant.
LEMMA QueryKeepsInv ==
  ASSUME Inv, NEW a \in Users, NEW k \in Queried, statusQuery(a, k.f, k.q)
  PROVE  Inv'
<1> DEFINE c == [at |-> "ioctl", f |-> k.f, q |-> k.q, tries |-> 2]
<1>1. /\ Basics /\ Tidy /\ call[a] = Idle /\ Turns(a, c)
      /\ UNCHANGED <<node, life, outages, files, events, devMap, udevMap, observers, disturbed>>
  BY DEF Inv, statusQuery, Turns, kernel, built
<1>2. k.f \in Factories /\ k.q \in Nat
  BY QueriedAssumption DEF Factories
<1>3. k.q \in DOMAIN devMap[k.f]
  BY DEF statusQuery, getRtPlatformDevice
<1>4. k.f \in Registered
  BY <1>1, <1>2, <1>3 DEF Basics, FactoriesOK
<1>5. c \in UserCalls /\ c.at = "ioctl" /\ c.f = k.f /\ c.q = k.q
  BY <1>2 DEF UserCalls
<1>. HIDE DEF c
<1>6. a \in Actors /\ a # Monitor
  BY MonitorAssumption DEF Actors
<1>7. Tidy'
  BY <1>1, <1>5, <1>6, BeginningIsTidy DEF Leaves
<1>8. CallsOK'
  <2>1. \A b \in Actors : call'[b] = IF b = a THEN c ELSE call[b]
    BY <1>1 DEF Turns, Basics, CallsOK
  <2>2. call' \in [Actors -> {Idle} \cup UserCalls \cup MonitorCalls]
    BY <1>1, <1>5, <1>6 DEF Turns, Basics, CallsOK
  <2>3. Registered' = Registered
    BY <1>1 DEF Registered
  <2>. QED
    BY <1>1, <1>3, <1>4, <1>5, <1>6, <2>1, <2>2, <2>3 DEF Basics, CallsOK, Actors
<1>9. FactoriesOK' /\ HandlesOK' /\ FilesOK' /\ KernelOK'
  BY <1>1 DEF Basics, FactoriesOK, HandlesOK, FilesOK, KernelOK, Registered
<1>. QED
  BY <1>7, <1>8, <1>9 DEF Inv, Basics

-----------------------------------------------------------------------------
(* A factory is made.                                                      *)

\* New handles that a factory may register: every one has a file of its own,
\* which was free, or failed.
Fresh(devs) ==
  /\ BaseQids \subseteq DOMAIN devs
  /\ \A q \in DOMAIN devs :
       /\ devs[q] \in DeviceSet
       /\ IsNamed(devs[q], q, derivedDevList(createUdevMap(node)))
       /\ IF devs[q].fd = NoHandle THEN devs[q].failed ELSE files[devs[q].fd].dev = NoDevice
  /\ \A q \in DOMAIN devs : \A r \in DOMAIN devs :
       devs[q].fd # NoHandle /\ devs[q].fd = devs[r].fd => q = r

\* Their files, opened; others stay.
FilesOf(devs) ==
  /\ \A n \in Fds : files[n].dev # NoDevice => files'[n] = files[n]
  /\ \A q \in DOMAIN devs : devs[q].fd # NoHandle => files'[devs[q].fd].dev = devs[q].dev

\* The handles initDevices makes are fresh.
LEMMA MadeIsFresh ==
  ASSUME Basics, NEW refused \in Refusals,
         Cardinality(DOMAIN initDevices(node, Openable(refused), files)) <= Cardinality(FreeFiles)
  PROVE  Fresh(initDevices(node, Openable(refused), files))
<1>1. node \in [Names -> Devices \cup {NoDevice}] /\ Openable(refused) \in SUBSET Names
  BY DEF Basics, KernelOK, Openable
<1>2. DOMAIN files = Fds
  BY DEF Basics, FilesOK
<1>3. FreeFiles = {n \in DOMAIN files : files[n].dev = NoDevice}
  BY <1>2 DEF Basics, FilesOK, FreeFiles, Closed
<1> DEFINE opens == Openable(refused)
           devs == initDevices(node, opens, files)
<1>4. Cardinality(DOMAIN devs) <= Cardinality({n \in DOMAIN files : files[n].dev = NoDevice})
  BY <1>3
<1>. HIDE DEF opens
<1>5. /\ BaseQids \subseteq DOMAIN devs
      /\ \A q \in DOMAIN devs :
           /\ devs[q] \in DeviceSet
           /\ IsNamed(devs[q], q, derivedDevList(createUdevMap(node)))
           /\ IF devs[q].fd = NoHandle THEN devs[q].failed ELSE files[devs[q].fd].dev = NoDevice
      /\ \A q \in DOMAIN devs : \A r \in DOMAIN devs :
           devs[q].fd # NoHandle /\ devs[q].fd = devs[r].fd => q = r
  <2>1. opens \in SUBSET Names
    BY <1>1 DEF opens
  <2>. QED
    BY <1>1, <1>2, <1>4, <2>1, Made
<1>. QED
  BY <1>5 DEF Fresh, opens

\* Opening fresh handles changes files that were free only.
LEMMA OpenedFiles ==
  ASSUME Basics, NEW devs, Fresh(devs), OpenedBy(devs)
  PROVE  FilesOK' /\ FilesOf(devs)
<1>1. \A q \in DOMAIN devs : devs[q].fd # NoHandle => devs[q].fd \in Fds
  BY DEF Fresh, DeviceSet
<1>2. files \in [Fds -> FileSet] /\ NoHandle \notin Fds
  BY BoundsAssumption DEF Basics, FilesOK, Fds, NoHandle
<1>3. ASSUME NEW q \in DOMAIN devs, devs[q].fd # NoHandle
      PROVE  files'[devs[q].fd] = [dev |-> devs[q].dev, life |-> life[devs[q].dev]]
  <2> DEFINE n == devs[q].fd
             e == CHOOSE e \in Range(devs) : e.fd = n
  <2>1. devs[q] \in Range(devs)
    BY DEF Range
  <2>2. e \in Range(devs) /\ e.fd = n
    BY <2>1
  <2>3. PICK r \in DOMAIN devs : e = devs[r]
    BY <2>2 DEF Range
  <2>4. e = devs[q]
    BY <1>3, <2>2, <2>3 DEF Fresh
  <2>5. n \in DOMAIN files
    BY <1>1, <1>2, <1>3
  <2>6. files'[n] = [dev |-> e.dev, life |-> life[e.dev]]
    BY <2>5 DEF OpenedBy
  <2>. QED
    BY <2>4, <2>6
<1>4. ASSUME NEW n \in Fds, \A q \in DOMAIN devs : devs[q].fd # n
      PROVE  files'[n] = files[n]
  BY <1>2, <1>4 DEF OpenedBy
<1>5. \A q \in DOMAIN devs : devs[q].dev \in Devices /\ devs[q].dev # NoDevice /\ life[devs[q].dev] \in Nat
  BY DevicesAssumption DEF Fresh, DeviceSet, Basics, KernelOK
<1>6. ASSUME NEW n \in Fds
      PROVE  /\ files'[n] \in FileSet
             /\ files'[n].dev = NoDevice => files'[n] = Closed
             /\ files[n].dev # NoDevice => files'[n] = files[n]
  <2>1. CASE \E q \in DOMAIN devs : devs[q].fd = n
    <3>1. PICK q \in DOMAIN devs : devs[q].fd = n
      BY <2>1
    <3>2. files'[n] = [dev |-> devs[q].dev, life |-> life[devs[q].dev]]
      BY <1>2, <1>3, <3>1
    <3>3. files[n].dev = NoDevice
      BY <1>2, <3>1 DEF Fresh
    <3>. QED
      BY <1>5, <3>2, <3>3 DEF FileSet
  <2>2. CASE ~\E q \in DOMAIN devs : devs[q].fd = n
    BY <1>2, <1>4, <2>2 DEF Basics, FilesOK
  <2>. QED
    BY <2>1, <2>2
<1>7. files' = [n \in Fds |-> files'[n]]
  BY <1>2 DEF OpenedBy
<1>8. FilesOK'
  <2>1. files' \in [Fds -> FileSet]
    BY <1>6, <1>7
  <2>. QED
    BY <1>6, <2>1 DEF FilesOK, Fds, FileSet, Closed
<1>9. ASSUME NEW q \in DOMAIN devs, devs[q].fd # NoHandle
      PROVE  files'[devs[q].fd].dev = devs[q].dev
  <2>1. PICK d, l : d = devs[q].dev /\ l = life[devs[q].dev]
    OBVIOUS
  <2>2. files'[devs[q].fd] = [dev |-> d, life |-> l]
    BY <1>3, <1>9, <2>1
  <2>3. [dev |-> d, life |-> l].dev = d
    OBVIOUS
  <2>. QED
    BY <2>1, <2>2, <2>3
<1>10. \A n \in Fds : files[n].dev # NoDevice => files'[n] = files[n]
  BY <1>6
<1>. QED
  BY <1>8, <1>9, <1>10 DEF FilesOf

\* Files that nobody keeps, of a factory that is given up.
LEMMA FilesGrow ==
  ASSUME Inv, ~disturbed, NEW devs, FilesOK', FilesOf(devs),
         UNCHANGED <<kernel, events, devMap, udevMap, observers, call, disturbed>>
  PROVE  Inv'
<1>1. Basics /\ Tidy
  BY DEF Inv
<1>2. Basics'
  BY <1>1 DEF Basics, CallsOK, FactoriesOK, HandlesOK, KernelOK, kernel, Registered
<1>3. \A f \in Factories : \A q \in DOMAIN devMap[f] :
        devMap[f][q].fd # NoHandle /\ files[devMap[f][q].fd] # Closed =>
          files'[devMap[f][q].fd] = files[devMap[f][q].fd]
  <2>1. \A f \in Factories : \A q \in DOMAIN devMap[f] :
          devMap[f][q].fd # NoHandle => devMap[f][q].fd \in Fds
    BY <1>1 DEF Basics, HandlesOK, DeviceSet
  <2>. QED
    BY <1>1, <2>1 DEF FilesOf, Basics, FilesOK
<1>4. OpenFiles' /\ OwnDevice'
  BY <1>1, <1>3 DEF Tidy, OpenFiles, OwnDevice, Stale, On
<1>5. OwnFiles' /\ Forgotten' /\ Resolving' /\ Opening'
  BY <1>1 DEF Tidy, OwnFiles, Forgotten, Resolving, Opening, Stale, BeingOpened, At, On, Handle, kernel
<1>. QED
  BY <1>2, <1>4, <1>5 DEF Inv, Tidy

\* A factory that registers fresh handles keeps the invariant.
LEMMA RegisterKeepsInv ==
  ASSUME Inv, ~disturbed, NEW f \in Factories, f \notin Registered,
         NEW devs, Fresh(devs), Register(f, devs),
         FilesOK', FilesOf(devs),
         UNCHANGED <<kernel, events, call, disturbed>>
  PROVE  Inv'
<1>1. Basics /\ Tidy
  BY DEF Inv
<1>2. /\ \A g \in Factories : devMap'[g] = IF g = f THEN devs ELSE devMap[g]
      /\ \A g \in Factories : udevMap'[g] = IF g = f THEN createUdevMap(node) ELSE udevMap[g]
      /\ DOMAIN devMap' = Factories /\ DOMAIN udevMap' = Factories
      /\ observers' = <<f>> \o observers
      /\ node' = node /\ life' = life /\ outages' = outages /\ events' = events /\ call' = call
  BY <1>1 DEF Register, Basics, FactoriesOK, kernel
<1>3. /\ observers' \in Seq(Factories) /\ observers' # <<>>
      /\ Registered' = Registered \cup {f}
  <2>1. observers \in Seq(Factories) /\ <<f>> \in Seq(Factories)
    BY <1>1 DEF Basics, FactoriesOK
  <2> DEFINE t == <<f>> \o observers
             n == Len(observers)
  <2>2. /\ t \in Seq(Factories) /\ Len(t) = n + 1 /\ n \in Nat
        /\ \A i \in 1..(n + 1) : t[i] = IF i = 1 THEN f ELSE observers[i - 1]
        /\ DOMAIN observers = 1..n /\ DOMAIN t = 1..(n + 1)
    BY <2>1
  <2>. HIDE DEF t, n
  <2>3. ToSet(t) = ToSet(observers) \cup {f}
    <3>1. \A i \in 1..n : i + 1 \in 1..(n + 1) /\ i + 1 # 1 /\ (i + 1) - 1 = i
      BY <2>2
    <3>2. \A i \in 1..n : observers[i] = t[i + 1]
      BY <2>2, <3>1
    <3>3. 1 \in 1..(n + 1) /\ t[1] = f
      BY <2>2
    <3>4. \A i \in 1..(n + 1) : i # 1 => i - 1 \in 1..n
      BY <2>2
    <3>5. ASSUME NEW x \in ToSet(observers) PROVE x \in ToSet(t)
      <4>1. PICK i \in 1..n : x = observers[i]
        BY <2>2 DEF ToSet
      <4>. QED
        BY <2>2, <3>1, <3>2, <4>1 DEF ToSet
    <3>6. f \in ToSet(t)
      BY <2>2, <3>3 DEF ToSet
    <3>7. ASSUME NEW x \in ToSet(t) PROVE x = f \/ x \in ToSet(observers)
      <4>1. PICK i \in 1..(n + 1) : x = t[i]
        BY <2>2 DEF ToSet
      <4>. QED
        BY <2>2, <3>4, <4>1 DEF ToSet
    <3>. QED
      BY <3>5, <3>6, <3>7
  <2>4. t # <<>>
    BY <2>2
  <2>. QED
    BY <1>2, <2>2, <2>3, <2>4 DEF t, Registered
<1>4. /\ \A b \in Actors : call[b] # Idle => call[b].f # f /\ call[b].f \in Factories
      /\ \A b \in Actors : call[b] # Idle => Handle(b)' = Handle(b)
  <2>1. \A b \in Actors : call[b] # Idle => call[b].f # f /\ call[b].f \in Factories
    BY <1>1 DEF Basics, CallsOK, UserCalls, MonitorCalls, Actors
  <2>. QED
    BY <1>2, <2>1 DEF Handle
<1>5. CallsOK'
  BY <1>1, <1>2, <1>3, <1>4 DEF Basics, CallsOK
<1>6. FactoriesOK'
  BY <1>1, <1>2, <1>3 DEF Basics, FactoriesOK, Fresh
<1>7. HandlesOK'
  BY <1>1, <1>2 DEF Basics, HandlesOK, Fresh
<1>8. KernelOK'
  BY <1>1, <1>2 DEF Basics, KernelOK
<1>9. /\ \A g, r : Stale(g, r)' <=> Stale(g, r)
      /\ \A g, r : BeingOpened(g, r)' <=> BeingOpened(g, r)
      /\ \A r : ~Stale(f, r) /\ ~BeingOpened(f, r)
  <2>1. \A g, r : Stale(g, r)' <=> Stale(g, r)
    BY <1>2 DEF Stale, StaleAt, On
  <2>2. \A g, r : BeingOpened(g, r)' <=> BeingOpened(g, r)
    BY <1>2 DEF BeingOpened, At, On
  <2>3. \A r : ~Stale(f, r) /\ ~BeingOpened(f, r)
    BY <1>4 DEF Stale, StaleAt, BeingOpened, At, On, Idle
  <2>. QED
    BY <2>1, <2>2, <2>3
<1>10. /\ \A g \in Factories : \A q \in DOMAIN devMap[g] :
            devMap[g][q].fd # NoHandle => devMap[g][q].fd \in Fds
       /\ \A q \in DOMAIN devs : devs[q].fd # NoHandle =>
            /\ devs[q].fd \in Fds /\ files[devs[q].fd] = Closed
            /\ files'[devs[q].fd].dev = devs[q].dev /\ files'[devs[q].fd] # Closed
  <2>1. \A g \in Factories : \A q \in DOMAIN devMap[g] :
          devMap[g][q].fd # NoHandle => devMap[g][q].fd \in Fds
    BY <1>1 DEF Basics, HandlesOK, DeviceSet
  <2>2. \A q \in DOMAIN devs : devs[q].fd # NoHandle => devs[q].fd \in Fds /\ devs[q].dev # NoDevice
    BY DevicesAssumption DEF Fresh, DeviceSet
  <2>. QED
    BY <1>1, <2>1, <2>2 DEF Fresh, FilesOf, Basics, FilesOK, Closed
<1>11. \A n \in Fds : files[n] # Closed => files'[n] = files[n]
  BY <1>1 DEF FilesOf, Basics, FilesOK
<1>12. OpenFiles'
  BY <1>1, <1>2, <1>9, <1>10, <1>11 DEF Tidy, OpenFiles
<1>13. OwnFiles'
  BY <1>1, <1>2, <1>9, <1>10, <1>11 DEF Tidy, OpenFiles, OwnFiles, Fresh
<1>14. OwnDevice'
  BY <1>1, <1>2, <1>9, <1>10, <1>11 DEF Tidy, OpenFiles, OwnDevice
<1>15. Forgotten'
  BY <1>1, <1>2, <1>9 DEF Tidy, Forgotten, Fresh
<1>16. Resolving' /\ Opening'
  BY <1>1, <1>2, <1>4 DEF Tidy, Resolving, Opening, At, Idle, Actors
<1>. QED
  BY <1>5, <1>6, <1>7, <1>8, <1>12, <1>13, <1>14, <1>15, <1>16 DEF Inv, Basics, Tidy

\* Making the platform keeps the invariant.
LEMMA PlatformKeepsInv ==
  ASSUME Inv, NEW refused \in Refusals, getRuntimePlatform(refused)
  PROVE  Inv'
<1> DEFINE devs == initDevices(node, Openable(refused), files)
<1>1. /\ Basics /\ ~disturbed /\ "platform" \in Factories /\ "platform" \notin Registered
      /\ Cardinality(DOMAIN devs) <= Cardinality(FreeFiles)
      /\ OpenedBy(devs) /\ Register("platform", devs)
      /\ UNCHANGED <<kernel, events, call, disturbed>>
  BY DEF Inv, getRuntimePlatform, Registered, Factories
<1>2. Fresh(devs)
  BY <1>1, MadeIsFresh
<1>. HIDE DEF devs
<1>3. FilesOK' /\ FilesOf(devs)
  BY <1>1, <1>2, OpenedFiles
<1>. QED
  BY <1>1, <1>2, <1>3, RegisterKeepsInv

\* Making the runtime, accepted or refused, keeps the invariant.
LEMMA RuntimeKeepsInv ==
  ASSUME Inv, NEW refused \in Refusals, NEW answer, getRuntime(refused, answer)
  PROVE  Inv'
<1> DEFINE devs == initDevices(node, Openable(refused), files)
           status(q) == IF answer[q] = "failed" THEN "QDS_ERROR" ELSE "QDS_READY"
           queried == [q \in DOMAIN devs |-> IF q \notin BaseQids THEN devs[q]
                                             ELSE [devs[q] EXCEPT !.status = status(q)]]
<1>1. /\ Basics /\ ~disturbed /\ "runtime" \in Factories /\ "runtime" \notin Registered
      /\ Cardinality(DOMAIN devs) <= Cardinality(FreeFiles)
      /\ OpenedBy(devs)
      /\ Register("runtime", queried) \/ UNCHANGED <<devMap, udevMap, observers>>
      /\ UNCHANGED <<kernel, events, call, disturbed>>
  BY DEF Inv, getRuntime, Registered, Factories, BaseQids
<1>2. Fresh(devs)
  BY <1>1, MadeIsFresh
<1>. HIDE DEF devs
<1>3. FilesOK' /\ FilesOf(devs)
  BY <1>1, <1>2, OpenedFiles
<1>4. CASE UNCHANGED <<devMap, udevMap, observers>>
  BY <1>1, <1>3, <1>4, FilesGrow
<1>5. CASE Register("runtime", queried)
  <2>1. DOMAIN queried = DOMAIN devs
    OBVIOUS
  <2>2. ASSUME NEW q \in DOMAIN devs
        PROVE  /\ queried[q] \in DeviceSet
               /\ queried[q].dev = devs[q].dev /\ queried[q].name = devs[q].name
               /\ queried[q].fd = devs[q].fd /\ queried[q].failed = devs[q].failed
    <3> DEFINE d == devs[q]
               s == status(q)
    <3>1. d \in DeviceSet
      BY <1>2 DEF Fresh
    <3>2. s \in {"QDS_ERROR", "QDS_READY"}
      OBVIOUS
    <3>3. queried[q] = IF q \notin BaseQids THEN d ELSE [d EXCEPT !.status = s]
      OBVIOUS
    <3>. HIDE DEF d, s, queried
    <3>4. /\ queried[q] \in DeviceSet
          /\ queried[q].dev = d.dev /\ queried[q].name = d.name
          /\ queried[q].fd = d.fd /\ queried[q].failed = d.failed
      BY <3>1, <3>2, <3>3 DEF DeviceSet
    <3>. QED
      BY <3>4 DEF d
  <2>. HIDE DEF queried
  <2>3. Fresh(queried)
    BY <1>2, <2>1, <2>2 DEF Fresh, IsNamed
  <2>4. FilesOf(queried)
    BY <1>3, <2>1, <2>2 DEF FilesOf
  <2>. QED
    BY <1>1, <1>3, <1>5, <2>3, <2>4, RegisterKeepsInv
<1>. QED
  BY <1>1, <1>4, <1>5

-----------------------------------------------------------------------------
(* The theorems.                                                           *)

LEMMA FirstNodes == InitNode \in [Names -> Devices \cup {NoDevice}]
<1> DEFINE n == Cardinality(Derived)
           parts == CHOOSE p \in [1..n -> Derived] : IsInjective(p)
           order == PciOrder \o parts
<1>1. n \in Nat /\ \E p \in [1..n -> Derived] : IsInjective(p)
  <2>1. n \in Nat /\ ExistsBijection(1..n, Derived)
    BY DevicesAssumption, FS_CardinalityType
  <2>. HIDE DEF n
  <2>2. PICK p \in [1..n -> Derived] : \A i, j \in 1..n : p[i] = p[j] => i = j
    BY <2>1 DEF ExistsBijection, Bijection, Injection, Surjection, IsInjective
  <2>. QED
    BY <2>1, <2>2 DEF IsInjective
<1>2. parts \in [1..n -> Derived]
  <2>. HIDE DEF n
  <2>. QED
    BY <1>1
<1>3. parts \in Seq(Devices) /\ PciOrder \in Seq(Devices)
  <2>1. PciOrder \in Seq(Devices)
    BY OrderAssumption DEF Devices
  <2>. HIDE DEF parts, n
  <2>. QED
    BY <1>1, <1>2, <2>1 DEF Devices
<1>4. \A i \in DOMAIN order : order[i] \in Devices
  <2>. HIDE DEF parts
  <2>1. order \in Seq(Devices)
    BY <1>3
  <2>. HIDE DEF order
  <2>. QED
    BY <2>1
<1>5. InitNode = [m \in Names |-> LET i == CHOOSE i \in DOMAIN NameOrder : NameOrder[i] = m
                                  IN IF i \in DOMAIN order THEN order[i] ELSE NoDevice]
  BY DEF InitNode
<1>. HIDE DEF order
<1>. QED
  BY <1>4, <1>5

\* The invariant holds at first.
LEMMA Begins == Init => Inv
<1> SUFFICES ASSUME Init PROVE Inv
  OBVIOUS
<1>1. /\ call = [a \in Actors |-> Idle] /\ observers = <<>> /\ events = <<>>
      /\ \A f \in Factories : DOMAIN devMap[f] = {}
      /\ DOMAIN devMap = Factories /\ DOMAIN udevMap = Factories
      /\ Registered = {}
  BY DEF Init, Registered, ToSet
<1>2. CallsOK
  BY <1>1 DEF CallsOK, Actors
<1>3. FactoriesOK
  BY <1>1 DEF FactoriesOK
<1>4. HandlesOK
  BY <1>1 DEF HandlesOK
<1>5. FilesOK
  BY DEF Init, FilesOK, FileSet, Closed, Fds
<1>6. KernelOK
  BY FirstNodes, BoundsAssumption DEF Init, KernelOK
<1>7. Tidy
  BY <1>1 DEF Tidy, OpenFiles, OwnFiles, OwnDevice, Forgotten, Resolving, Opening, At, Idle, Actors
<1>. QED
  BY <1>2, <1>3, <1>4, <1>5, <1>6, <1>7 DEF Inv, Basics

\* It does not depend on anything but the variables.
LEMMA StutterKeepsInv == Inv /\ UNCHANGED vars => Inv'
<1> SUFFICES ASSUME Inv, UNCHANGED vars PROVE Inv'
  OBVIOUS
<1>1. /\ node' = node /\ life' = life /\ outages' = outages /\ files' = files /\ events' = events
      /\ devMap' = devMap /\ udevMap' = udevMap /\ observers' = observers /\ call' = call
      /\ disturbed' = disturbed
  BY DEF vars, kernel, built
<1>2. /\ CallsOK' <=> CallsOK
      /\ FactoriesOK' <=> FactoriesOK
      /\ HandlesOK' <=> HandlesOK
      /\ FilesOK' <=> FilesOK
      /\ KernelOK' <=> KernelOK
  <2>1. \A a : Handle(a)' = Handle(a)
    BY <1>1 DEF Handle
  <2>2. CallsOK' <=> CallsOK
    BY <1>1, <2>1 DEF CallsOK, Registered
  <2>. QED
    BY <1>1, <2>2 DEF FactoriesOK, HandlesOK, FilesOK, KernelOK, Registered
<1>3. /\ \A f, q : Stale(f, q)' <=> Stale(f, q)
      /\ \A f, q : BeingOpened(f, q)' <=> BeingOpened(f, q)
  BY <1>1 DEF Stale, StaleAt, BeingOpened, At, On
<1>4. /\ OpenFiles' <=> OpenFiles
      /\ OwnFiles' <=> OwnFiles
      /\ OwnDevice' <=> OwnDevice
      /\ Forgotten' <=> Forgotten
  BY <1>1, <1>3 DEF OpenFiles, OwnFiles, OwnDevice, Forgotten
<1>5. (Resolving' <=> Resolving) /\ (Opening' <=> Opening)
  <2>1. \A a : Handle(a)' = Handle(a)
    BY <1>1 DEF Handle
  <2>. QED
    BY <1>1, <2>1 DEF Resolving, Opening, At
<1>. QED
  BY <1>1, <1>2, <1>4, <1>5 DEF Inv, Basics, Tidy

\* Every step keeps it.
LEMMA StepKeepsInv == Inv /\ [Next]_vars => Inv'
<1> SUFFICES ASSUME Inv, [Next]_vars PROVE Inv'
  OBVIOUS
<1>1. ASSUME NEW d \in Devices, DeviceGoes(d) PROVE Inv'
  BY <1>1, GoesKeepsInv
<1>2. ASSUME NEW d \in Devices, NEW n \in Names, DeviceComes(d, n) PROVE Inv'
  BY <1>2, ComesKeepsInv
<1>3. CASE notifyDeviceEvent
  BY <1>3, EventKeepsInv
<1>4. ASSUME NEW a \in Actors, DeviceStep(a) PROVE Inv'
  <2>1. Basics /\ ~disturbed
    BY <1>4 DEF Inv, DeviceStep, closeDevice, closeDeviceClears, openDevice, openDeviceOpens, runDevCmd
  <2>. QED
    BY <1>4, <2>1, CallSteps, EffectKeepsInv
<1>5. ASSUME NEW a \in Users, NEW k \in Queried, statusQuery(a, k.f, k.q) PROVE Inv'
  BY <1>5, QueryKeepsInv
<1>6. ASSUME NEW refused \in Refusals, getRuntimePlatform(refused) PROVE Inv'
  BY <1>6, PlatformKeepsInv
<1>7. ASSUME NEW refused \in Refusals, NEW answer, getRuntime(refused, answer) PROVE Inv'
  BY <1>7, RuntimeKeepsInv
<1>8. CASE UNCHANGED vars
  BY <1>8, StutterKeepsInv
<1>. QED
  BY <1>1, <1>2, <1>3, <1>4, <1>5, <1>6, <1>7, <1>8 DEF Next

\* The invariant: the calls, factories, handles and files fit together, and until
\* two threads meet on a handle an open file belongs to the device of its handle.
THEOREM Invariance == Spec => []Inv
<1>1. Init => Inv
  BY Begins
<1>2. Inv /\ [Next]_vars => Inv'
  BY StepKeepsInv
<1>. QED
  BY <1>1, <1>2, PTL DEF Spec

\* Every variable keeps its type.
THEOREM TypeCorrect == Spec => []TypeOK
<1>1. Inv => TypeOK
  BY BasicsGiveTypes DEF Inv
<1>. QED
  BY <1>1, Invariance, PTL

\* QIDs: the two factories call a derived device by the same one when they saw
\* the same nodes, whichever of them each could not open.
THEOREM QidsAgree == Spec => []SameDevice
<1>1. Inv => SameDevice
  BY BasicsGiveTypes DEF Inv
<1>. QED
  BY <1>1, Invariance, PTL

\* What ReadyIsTrue says of one step.
ReadyStep ==
  ~disturbed' => \A f \in Factories : \A q \in DOMAIN devMap[f] :
    LET handle == devMap[f][q] IN
    /\ handle.dev \in Base /\ ~devMap'[f][q].failed
    /\ handle.status # "QDS_READY" /\ devMap'[f][q].status = "QDS_READY"
    => Alive(FileOf(handle)) /\ FileOf(handle).dev = handle.dev

\* A step of a call meets ReadyStep.
LEMMA CallsMakeReady ==
  ASSUME Inv, ~disturbed, NEW a \in Actors, NEW c, NEW h, Effect(a, c, h)
  PROVE  ReadyStep
<1> SUFFICES ASSUME ~disturbed', NEW f \in Factories, NEW q \in DOMAIN devMap[f],
                    devMap[f][q].dev \in Base, ~devMap'[f][q].failed,
                    devMap[f][q].status # "QDS_READY", devMap'[f][q].status = "QDS_READY"
             PROVE  Alive(FileOf(devMap[f][q])) /\ FileOf(devMap[f][q]).dev = devMap[f][q].dev
  BY DEF ReadyStep
<1>1. Basics /\ Tidy /\ Steps(a, c, h)
  BY DEF Inv, Effect
<1>2. f = call[a].f /\ q = call[a].q /\ devMap'[f][q] = h
  BY <1>1, StepsHandles
<1>3. Handle(a) = devMap[f][q]
  BY <1>2 DEF Handle
<1>4. /\ At(a, "ioctl") /\ Handle(a).fd # NoHandle /\ Alive(files[Handle(a).fd])
      /\ ~Handle(a).failed /\ Alone(a)
  BY <1>2, <1>3 DEF Effect
<1>5. q \in BaseQids
  BY <1>1, <1>2, <1>3, OwnHandle DEF HasPciInfo, Steps
<1>6. ~Stale(f, q)
  BY <1>2, <1>4 DEF Stale, StaleAt, Alone, On, At
<1>7. files[Handle(a).fd].dev = Handle(a).dev
  BY <1>1, <1>3, <1>4, <1>5, <1>6 DEF Tidy, OwnDevice
<1>. QED
  BY <1>3, <1>4, <1>7 DEF FileOf

\* A step that changes no handle, or makes a factory, meets it too.
LEMMA OnlyCallsMakeReady ==
  ASSUME Basics, UNCHANGED devMap \/ (\E f \in Factories \ Registered : \E devs : Register(f, devs))
  PROVE  ReadyStep
<1> SUFFICES ASSUME NEW g \in Factories, NEW q \in DOMAIN devMap[g] PROVE devMap'[g] = devMap[g]
  BY DEF ReadyStep
<1>1. CASE UNCHANGED devMap
  BY <1>1
<1>2. ASSUME NEW f \in Factories \ Registered, NEW devs, Register(f, devs)
      PROVE  devMap'[g] = devMap[g]
  BY <1>2 DEF Register, Basics, FactoriesOK
<1>. QED
  BY <1>1, <1>2

\* A query makes a base device ready only when that device answered it, in its
\* present life, as long as no open of the handle failed and no two threads met
\* on it: whatever names and file numbers pass from one device to another.
THEOREM ReadyWhenAnswered == Spec => ReadyIsTrue
<1>1. Inv /\ [Next]_vars => [ReadyStep]_vars
  <2> SUFFICES ASSUME Inv, Next PROVE ReadyStep
    OBVIOUS
  <2>1. ASSUME NEW a \in Actors, DeviceStep(a) PROVE ReadyStep
    <3>1. Basics /\ ~disturbed
      BY <2>1 DEF Inv, DeviceStep, closeDevice, closeDeviceClears, openDevice, openDeviceOpens, runDevCmd
    <3>. QED
      BY <2>1, <3>1, CallSteps, CallsMakeReady
  <2>2. CASE ~\E a \in Actors : DeviceStep(a)
    <3>1. UNCHANGED devMap \/ (\E f \in Factories \ Registered : \E devs : Register(f, devs))
      <4>1. ASSUME NEW refused \in Refusals, getRuntimePlatform(refused)
            PROVE  \E f \in Factories \ Registered : \E devs : Register(f, devs)
        BY <4>1 DEF getRuntimePlatform, Factories, Registered
      <4>2. ASSUME NEW refused \in Refusals, NEW answer, getRuntime(refused, answer)
            PROVE  UNCHANGED devMap \/ (\E f \in Factories \ Registered : \E devs : Register(f, devs))
        BY <4>2 DEF getRuntime, Factories, Registered
      <4>3. ASSUME \/ \E d \in Devices : DeviceGoes(d)
                   \/ \E d \in Devices, n \in Names : DeviceComes(d, n)
                   \/ notifyDeviceEvent
                   \/ \E a \in Users, k \in Queried : statusQuery(a, k.f, k.q)
            PROVE  UNCHANGED devMap
        BY <4>3 DEF DeviceGoes, DeviceComes, notifyDeviceEvent, statusQuery
      <4>. QED
        BY <2>2, <4>1, <4>2, <4>3 DEF Next
    <3>. QED
      BY <3>1, OnlyCallsMakeReady DEF Inv
  <2>. QED
    BY <2>1, <2>2
<1>. QED
  BY <1>1, Invariance, PTL DEF Spec, ReadyIsTrue, ReadyStep

=============================================================================
