----------------------- MODULE DeviceResourcesProofs -----------------------
(***************************************************************************)
(* Proofs about DeviceResources for any number of programs, activations,   *)
(* images and channels: what a program holds on a device stays there, and  *)
(* what the device runs stays known, although every command may be refused *)
(* and every program is in the middle of something.                        *)
(*                                                                         *)
(* The invariant follows a network from the reply of the device to the end *)
(* of its deactivation (OwnNames, Underway), its channel (Channels,        *)
(* ChannelObjects, ChannelsHeld) and its image and constants (Loaded).     *)
(***************************************************************************)
EXTENDS DeviceResources, FiniteSetTheorems, TLAPS

Loading     == {"constants", "segments"}
SettingUp   == {"createVC", "attach"}
TearingDown == {"take", "send", "release"}
Places      == {"idle", "image", "activate"} \cup Loading \cup SettingUp \cup TearingDown

\* No two programs name the same network or image.
OwnNames ==
  \A p, q \in Programs : p # q =>
    /\ net[p] = net[q] => net[p] = None
    /\ qnn[p] = qnn[q] => qnn[p] = None
    /\ image[p] = image[q] => image[p] = None

\* What a program in the middle of a call has in hand.
Underway ==
  \A p \in Programs :
    /\ pc[p] \in Places
    /\ net[p] \in Nets \cup {None}
    /\ mapMutex = p <=> pc[p] \in Loading
    /\ pc[p] \in SettingUp => net[p] # None /\ ~Exists(net[p]) /\ devVc[net[p]] # None
    /\ pc[p] \in TearingDown => net[p] # None /\ net[p] = qnn[p]
    /\ pc[p] \notin SettingUp \cup TearingDown => net[p] = None
    /\ hand[p] = IF pc[p] = "send" /\ teardown[p] THEN net[p] ELSE None
    /\ qnn[p] # None => Exists(qnn[p])

\* Images and constants stay as long as somebody uses them.
Loaded ==
  /\ common = "loaded" => devConstants
  /\ \A p \in Programs :
       /\ pc[p] = "segments" => devConstants
       /\ pc[p] = "image" => common = "loaded"
       /\ image[p] # None => common = "loaded" /\ image[p] \in devImages
       /\ pc[p] \in {"activate"} \cup SettingUp => image[p] # None
  /\ \A n \in Nets : Exists(n) =>
       common \in {"loaded", "closed"} /\ devConstants /\ netImage[n] \in devImages

\* A channel belongs to one network on the device; the network object names it
\* until the device has let it go.
Channels ==
  \A n \in Nets :
    /\ devVc[n] # None => devVc[n] \in devChannels
    /\ \A m \in Nets : devVc[n] = devVc[m] /\ devVc[n] # None => n = m
    /\ Exists(n) <=> netVc[n] # None
    /\ Exists(n) => \/ devVc[n] = netVc[n]
                    \/ \E p \in Programs : pc[p] = "release" /\ net[p] = n
    /\ \A p \in Programs : pc[p] = "release" /\ net[p] = n => devVc[n] = None

\* A channel that is not set up on the device has no object, so a new one is
\* never refused as a duplicate.
ChannelObjects ==
  /\ \A v \in VCs : vcMap[v] # None => v \in devChannels
  /\ \A p \in Programs :
       /\ pc[p] = "createVC" => vcMap[devVc[net[p]]] = None
       /\ pc[p] = "attach" => vcMap[devVc[net[p]]] = net[p]
       /\ hand[p] # None => vcMap[netVc[net[p]]] = None

\* TypeOK without the bounds of the counters, which CountsExact brings.
DeviceTypes ==
  /\ devImages \subseteq Images /\ devConstants \in BOOLEAN
  /\ devVc \in [Nets -> VCs \cup {None}] /\ devChannels \subseteq VCs
ImageTypes ==
  /\ common \in {"none", "loading", "loaded", "closed"}
  /\ mapMutex \in Programs \cup {None} /\ (mapMutex # None <=> common = "loading")
  /\ image \in [Programs -> Images \cup {None}]
  /\ imgRefs \in [Images -> Int] /\ constRefs \in Int
NetTypes ==
  /\ qnn \in [Programs -> Nets \cup {None}]
  /\ netImage \in [Nets -> Images \cup {None}] /\ netVc \in [Nets -> VCs \cup {None}]
  /\ vcMap \in [VCs -> Nets \cup {None}] /\ vcRefs \in [Nets -> 0..(RefMod - 1)]
CallTypes ==
  /\ tries \in [Programs -> 0..RetryCount] /\ teardown \in [Programs -> BOOLEAN]
  /\ pc \in [Programs -> Places] /\ net \in [Programs -> Nets \cup {None}]
  /\ hand \in [Programs -> Nets \cup {None}]
Types == DeviceTypes /\ ImageTypes /\ NetTypes /\ CallTypes

Inv ==
  /\ Types
  /\ OwnNames /\ Underway /\ Loaded
  /\ Channels /\ ChannelObjects /\ ChannelsHeld /\ NothingRunsUnnamed

-----------------------------------------------------------------------------
(* Every step keeps the invariant: one lemma for each.                     *)

LEMMA ModRange ==
  ASSUME NEW a \in Nat, NEW b \in Nat \ {0}
  PROVE  a % b \in 0..(b - 1)
OBVIOUS

\* A call that returns leaves nothing behind.
LEMMA ReturnTypes ==
  ASSUME CallTypes, NEW p \in Programs, Return(p)
  PROVE  CallTypes'
BY RetryAssumption DEF CallTypes, Return, Go, Places

\* What somebody uses is counted.
LEMMA InUse ==
  ASSUME Types, CountsExact, NEW n \in Nets, Exists(n)
  PROVE  imgRefs[netImage[n]] # 0 /\ constRefs # 0
<1>1. netImage[n] \in Images
  BY DEF Types, NetTypes, Exists
<1>2. \A S \in SUBSET Nets : n \in S => Cardinality(S) # 0
  BY NetsAssumption, FS_Subset, FS_EmptySet
<1>3. QED
  BY <1>1, <1>2 DEF CountsExact

LEMMA RefModPositive == RefMod \in Nat \ {0} /\ RefMod - 1 \in Nat /\ 1 \in 0..(RefMod - 1)
<1>1. Cardinality(Nets) \in Nat
  BY NetsAssumption, FS_CardinalityType
<1>2. QED
  BY <1>1, RefModAssumption

LEMMA getCommonDeviceImageStep ==
  ASSUME Inv, NEW p \in Programs, getCommonDeviceImage(p)
  PROVE  Inv'
<1> USE NoneAssumption, RetryAssumption DEF Inv, Types, Places, Loading, SettingUp, TearingDown,
        Exists, getCommonDeviceImage, Go, Free, device, nets, chans
<1>1. DeviceTypes'
  BY DEF DeviceTypes
<1>2. ImageTypes'
  BY DEF ImageTypes
<1>3. NetTypes'
  BY DEF NetTypes
<1>4. CallTypes'
  BY DEF CallTypes
<1>5. OwnNames'
  BY DEF CallTypes, OwnNames
<1>6. Underway'
  BY DEF CallTypes, Underway
<1>7. Loaded'
  BY DEF Loaded, CallTypes
<1>8. Channels'
  BY DEF CallTypes, Channels
<1>9. ChannelObjects'
  BY DEF CallTypes, ChannelObjects
<1>10. ChannelsHeld'
  BY DEF CallTypes, ChannelsHeld
<1>11. NothingRunsUnnamed'
  BY DEF CallTypes, NothingRunsUnnamed
<1>12. QED
  BY <1>1, <1>2, <1>3, <1>4, <1>5, <1>6, <1>7, <1>8, <1>9, <1>10, <1>11

LEMMA loadConstantsExStep ==
  ASSUME Inv, NEW p \in Programs, loadConstantsEx(p)
  PROVE  Inv'
<1> USE NoneAssumption, RetryAssumption DEF Inv, Types, Places, Loading, SettingUp, TearingDown,
        Exists, loadConstantsEx, Go, CommonFails, nets, chans
<1>1. DeviceTypes'
  BY DEF DeviceTypes
<1>2. ImageTypes'
  BY DEF ImageTypes
<1>3. NetTypes'
  BY DEF NetTypes
<1>4. CallTypes'
  BY DEF CallTypes
<1>5. OwnNames'
  BY DEF CallTypes, OwnNames
<1>6. Underway'
  BY DEF CallTypes, Underway
<1>7. Loaded'
  BY DEF Loaded, CallTypes, ImageTypes, NetTypes, DeviceTypes, Underway
<1>8. Channels'
  BY DEF CallTypes, Channels
<1>9. ChannelObjects'
  BY DEF CallTypes, ChannelObjects
<1>10. ChannelsHeld'
  BY DEF CallTypes, ChannelsHeld
<1>11. NothingRunsUnnamed'
  BY DEF CallTypes, NothingRunsUnnamed
<1>12. QED
  BY <1>1, <1>2, <1>3, <1>4, <1>5, <1>6, <1>7, <1>8, <1>9, <1>10, <1>11

LEMMA loadConstantsAtOffsetStep ==
  ASSUME Inv, NEW p \in Programs, loadConstantsAtOffset(p)
  PROVE  Inv'
<1> USE NoneAssumption, RetryAssumption DEF Inv, Types, Places, Loading, SettingUp, TearingDown,
        Exists, loadConstantsAtOffset, Go, CommonFails, nets, chans
<1>1. DeviceTypes'
  BY DEF DeviceTypes
<1>2. ImageTypes'
  BY DEF ImageTypes
<1>3. NetTypes'
  BY DEF NetTypes
<1>4. CallTypes'
  BY DEF CallTypes
<1>5. OwnNames'
  BY DEF CallTypes, OwnNames
<1>6. Underway'
  BY DEF CallTypes, Underway
<1>7. Loaded'
  BY DEF Loaded, CallTypes, ImageTypes, NetTypes, DeviceTypes, Underway
<1>8. Channels'
  BY DEF CallTypes, Channels
<1>9. ChannelObjects'
  BY DEF CallTypes, ChannelObjects
<1>10. ChannelsHeld'
  BY DEF CallTypes, ChannelsHeld
<1>11. NothingRunsUnnamed'
  BY DEF CallTypes, NothingRunsUnnamed
<1>12. QED
  BY <1>1, <1>2, <1>3, <1>4, <1>5, <1>6, <1>7, <1>8, <1>9, <1>10, <1>11

LEMMA loadImageStep ==
  ASSUME Inv, NEW p \in Programs, loadImage(p)
  PROVE  Inv'
<1> USE NoneAssumption, RetryAssumption DEF Inv, Types, Places, Loading, SettingUp, TearingDown,
        Exists, loadImage, Go, nets, chans, Free
<1>1. DeviceTypes'
  BY DEF DeviceTypes
<1>2. ImageTypes'
  BY DEF ImageTypes
<1>3. NetTypes'
  BY DEF NetTypes
<1>4. CallTypes'
  BY DEF CallTypes
<1>5. OwnNames'
  BY DEF CallTypes, NetTypes, ImageTypes, DeviceTypes, OwnNames, Underway, Loaded
<1>6. Underway'
  BY DEF CallTypes, Underway
<1>7. Loaded'
  BY DEF Loaded, CallTypes, ImageTypes, NetTypes
<1>8. Channels'
  BY DEF CallTypes, Channels
<1>9. ChannelObjects'
  BY DEF CallTypes, ChannelObjects
<1>10. ChannelsHeld'
  BY DEF CallTypes, ChannelsHeld
<1>11. NothingRunsUnnamed'
  BY DEF CallTypes, NothingRunsUnnamed
<1>12. QED
  BY <1>1, <1>2, <1>3, <1>4, <1>5, <1>6, <1>7, <1>8, <1>9, <1>10, <1>11

LEMMA unloadStep ==
  ASSUME Inv, NEW p \in Programs, unload(p), CountsExact
  PROVE  Inv'
<1> USE NoneAssumption, RetryAssumption DEF Inv, Types, Places, Loading, SettingUp, TearingDown,
        Exists, unload, nets, chans, local
<1>1. DeviceTypes'
  BY DEF DeviceTypes
<1>2. ImageTypes'
  BY DEF ImageTypes
<1>3. NetTypes'
  BY DEF NetTypes
<1>4. CallTypes'
  BY DEF CallTypes
<1>5. OwnNames'
  BY DEF CallTypes, OwnNames
<1>6. Underway'
  BY DEF CallTypes, Underway
<1>7. Loaded'
  <2>1. \A n \in Nets : Exists(n) => netImage[n] \in devImages'
    BY InUse DEF Loaded, NetTypes, ImageTypes
  <2>2. \A q \in Programs : image'[q] # None => image'[q] \in devImages'
    BY DEF Loaded, ImageTypes, OwnNames
  <2>3. QED
    BY <2>1, <2>2 DEF Loaded, ImageTypes
<1>8. Channels'
  BY DEF CallTypes, Channels
<1>9. ChannelObjects'
  BY DEF CallTypes, ChannelObjects
<1>10. ChannelsHeld'
  BY DEF CallTypes, ChannelsHeld
<1>11. NothingRunsUnnamed'
  BY DEF CallTypes, NothingRunsUnnamed
<1>12. QED
  BY <1>1, <1>2, <1>3, <1>4, <1>5, <1>6, <1>7, <1>8, <1>9, <1>10, <1>11

LEMMA activateNetworkStep ==
  ASSUME Inv, NEW p \in Programs, activateNetwork(p)
  PROVE  Inv'
<1> USE NoneAssumption, RetryAssumption DEF Inv, Types, Places, Loading, SettingUp, TearingDown,
        Exists, activateNetwork, Go, device, images, nets, chans
<1>1. DeviceTypes'
  BY DEF DeviceTypes
<1>2. ImageTypes'
  BY DEF ImageTypes
<1>3. NetTypes'
  BY DEF NetTypes
<1>4. CallTypes'
  BY DEF CallTypes
<1>5. OwnNames'
  BY DEF CallTypes, OwnNames
<1>6. Underway'
  BY DEF CallTypes, Underway
<1>7. Loaded'
  BY DEF Loaded, CallTypes
<1>8. Channels'
  BY DEF CallTypes, Channels
<1>9. ChannelObjects'
  BY DEF CallTypes, ChannelObjects
<1>10. ChannelsHeld'
  BY DEF CallTypes, ChannelsHeld
<1>11. NothingRunsUnnamed'
  BY DEF CallTypes, NothingRunsUnnamed
<1>12. QED
  BY <1>1, <1>2, <1>3, <1>4, <1>5, <1>6, <1>7, <1>8, <1>9, <1>10, <1>11

LEMMA activateStep ==
  ASSUME Inv, NEW p \in Programs, activate(p)
  PROVE  Inv'
<1> USE NoneAssumption, RetryAssumption DEF Inv, Types, Places, Loading, SettingUp, TearingDown,
        Exists, activate, Go, ActivationFails, Return, images, chans
<1>1. DeviceTypes'
  BY DEF DeviceTypes
<1>2. ImageTypes'
  BY DEF ImageTypes
<1>3. NetTypes'
  BY DEF NetTypes
<1>4. CallTypes'
  <2>1. pc' \in [Programs -> Places] /\ net' \in [Programs -> Nets \cup {None}]
    BY DEF CallTypes, NetTypes
  <2>2. tries' \in [Programs -> 0..RetryCount]
    BY DEF CallTypes
  <2>3. teardown' \in [Programs -> BOOLEAN]
    BY DEF CallTypes
  <2>4. hand' \in [Programs -> Nets \cup {None}]
    BY DEF CallTypes, NetTypes
  <2>5. QED
    BY <2>1, <2>2, <2>3, <2>4 DEF CallTypes
<1>5. OwnNames'
  BY DEF CallTypes, NetTypes, ImageTypes, OwnNames, Underway
<1>6. Underway'
  BY DEF CallTypes, NetTypes, ImageTypes, DeviceTypes, Underway, OwnNames
<1>7. Loaded'
  BY DEF Loaded, CallTypes
<1>8. Channels'
  BY DEF CallTypes, NetTypes, DeviceTypes, Channels, Underway
<1>9. ChannelObjects'
  BY DEF CallTypes, NetTypes, DeviceTypes, ChannelObjects, Channels, Underway
<1>10. ChannelsHeld'
  BY DEF CallTypes, NetTypes, ChannelsHeld, Underway
<1>11. NothingRunsUnnamed'
  BY DEF CallTypes, NetTypes, DeviceTypes, NothingRunsUnnamed, Channels, Underway
<1>12. QED
  BY <1>1, <1>2, <1>3, <1>4, <1>5, <1>6, <1>7, <1>8, <1>9, <1>10, <1>11

LEMMA createVCStep ==
  ASSUME Inv, NEW p \in Programs, createVC(p)
  PROVE  Inv'
<1> USE NoneAssumption, RetryAssumption DEF Inv, Types, Places, Loading, SettingUp, TearingDown,
        Exists, createVC, Go, ActivationFails, Return, device, images, chans
<1>1. DeviceTypes'
  BY DEF DeviceTypes
<1>2. ImageTypes'
  BY DEF ImageTypes
<1>3. NetTypes'
  <2>1. net[p] \in Nets /\ devVc[net[p]] \in VCs
    BY DEF Underway, CallTypes, DeviceTypes
  <2>2. vcMap' \in [VCs -> Nets \cup {None}]
    BY <2>1 DEF NetTypes
  <2>3. vcRefs' \in [Nets -> 0..(RefMod - 1)]
    BY <2>1, RefModPositive DEF NetTypes
  <2>4. qnn' \in [Programs -> Nets \cup {None}]
    BY DEF NetTypes
  <2>5. QED
    BY <2>2, <2>3, <2>4 DEF NetTypes
<1>4. CallTypes'
  <2>1. pc' \in [Programs -> Places] /\ net' \in [Programs -> Nets \cup {None}]
    BY DEF CallTypes, NetTypes
  <2>2. tries' \in [Programs -> 0..RetryCount]
    BY DEF CallTypes
  <2>3. teardown' \in [Programs -> BOOLEAN]
    BY DEF CallTypes
  <2>4. hand' \in [Programs -> Nets \cup {None}]
    BY DEF CallTypes, NetTypes
  <2>5. QED
    BY <2>1, <2>2, <2>3, <2>4 DEF CallTypes
<1>5. OwnNames'
  BY DEF CallTypes, NetTypes, ImageTypes, OwnNames
<1>6. Underway'
  BY DEF CallTypes, NetTypes, ImageTypes, Underway
<1>7. Loaded'
  BY DEF Loaded, CallTypes
<1>8. Channels'
  BY DEF CallTypes, Channels
<1>9. ChannelObjects'
  BY DEF CallTypes, NetTypes, DeviceTypes, ChannelObjects, Channels, Underway, OwnNames
<1>10. ChannelsHeld'
  BY DEF CallTypes, NetTypes, DeviceTypes, ChannelsHeld, Channels, Underway
<1>11. NothingRunsUnnamed'
  BY DEF CallTypes, NetTypes, DeviceTypes, NothingRunsUnnamed, ChannelObjects, Channels, Underway, OwnNames
<1>12. QED
  BY <1>1, <1>2, <1>3, <1>4, <1>5, <1>6, <1>7, <1>8, <1>9, <1>10, <1>11

LEMMA attachStep ==
  ASSUME Inv, NEW p \in Programs, attach(p)
  PROVE  Inv'
<1> USE NoneAssumption, RetryAssumption DEF Inv, Types, Places, Loading, SettingUp, TearingDown,
        Exists, attach, Go, Return, device, chans
<1>1. DeviceTypes'
  BY DEF DeviceTypes
<1>0. /\ net[p] \in Nets /\ netImage[net[p]] = None
      /\ image[p] \in Images /\ devVc[net[p]] \in VCs
  BY DEF Underway, Loaded, CallTypes, DeviceTypes, ImageTypes
<1>2. ImageTypes'
  <2>1. imgRefs' \in [Images -> Int]
    BY <1>0 DEF ImageTypes
  <2>2. constRefs' \in Int
    BY DEF ImageTypes
  <2>3. QED
    BY <2>1, <2>2 DEF ImageTypes
<1>3. NetTypes'
  BY <1>0 DEF NetTypes
<1>4. CallTypes'
  BY DEF CallTypes
<1>5. OwnNames'
  BY DEF CallTypes, NetTypes, ImageTypes, OwnNames, Underway
<1>6. Underway'
  <2>1. \A q \in Programs : q # p => net[q] # net[p] \/ net[q] = None
    BY DEF OwnNames
  <2>2. QED
    BY <1>0, <2>1 DEF CallTypes, NetTypes, ImageTypes, Underway
<1>7. Loaded'
  BY DEF Loaded, CallTypes
<1>8. Channels'
  <2> USE <1>0 DEF CallTypes, NetTypes, DeviceTypes
  <2>1. ASSUME NEW n \in Nets
        PROVE  (Exists(n) <=> netVc[n] # None)'
    BY DEF Channels
  <2>2. ASSUME NEW n \in Nets, NEW q \in Programs, pc'[q] = "release", net'[q] = n
        PROVE  devVc[n] = None
    BY <2>2 DEF Channels
  <2>3. ASSUME NEW n \in Nets, Exists(n)'
        PROVE  \/ devVc[n] = netVc'[n]
               \/ \E q \in Programs : pc'[q] = "release" /\ net'[q] = n
    BY <2>3 DEF Channels, Underway
  <2>4. QED
    BY <2>1, <2>2, <2>3 DEF Channels
<1>9. ChannelObjects'
  BY DEF CallTypes, NetTypes, ChannelObjects, Underway
<1>10. ChannelsHeld'
  BY DEF CallTypes, NetTypes, DeviceTypes, ChannelsHeld, ChannelObjects, Channels, Underway, OwnNames
<1>11. NothingRunsUnnamed'
  <2>1. \A n \in Nets : n # net[p] => netImage'[n] = netImage[n]
    BY <1>0 DEF NetTypes
  <2>2. netImage'[net[p]] # None
    BY <1>0 DEF NetTypes
  <2>3. \A q \in Programs : q # p => net'[q] = net[q] /\ pc'[q] = pc[q]
    BY DEF CallTypes
  <2>4. QED
    BY <2>1, <2>2, <2>3 DEF NothingRunsUnnamed
<1>12. QED
  BY <1>1, <1>2, <1>3, <1>4, <1>5, <1>6, <1>7, <1>8, <1>9, <1>10, <1>11

LEMMA deactivateStep ==
  ASSUME Inv, NEW p \in Programs, deactivate(p)
  PROVE  Inv'
<1> USE NoneAssumption, RetryAssumption DEF Inv, Types, Places, Loading, SettingUp, TearingDown,
        Exists, deactivate, Go, device, images, nets
<1>1. DeviceTypes'
  BY DEF DeviceTypes
<1>2. ImageTypes'
  BY DEF ImageTypes
<1>3. NetTypes'
  <2>1. vcRefs[qnn[p]] + RefMod - 1 \in Nat
    BY RefModAssumption DEF NetTypes
  <2>2. (vcRefs[qnn[p]] + RefMod - 1) % RefMod \in 0..(RefMod - 1)
    BY <2>1, ModRange, RefModAssumption, RefModPositive
  <2>3. QED
    BY <2>2 DEF NetTypes
<1>4. CallTypes'
  BY DEF CallTypes, NetTypes
<1>5. OwnNames'
  BY DEF CallTypes, NetTypes, ImageTypes, OwnNames, Underway
<1>6. Underway'
  BY DEF CallTypes, NetTypes, ImageTypes, Underway
<1>7. Loaded'
  BY DEF Loaded, CallTypes
<1>8. Channels'
  BY DEF CallTypes, Channels
<1>9. ChannelObjects'
  BY DEF CallTypes, NetTypes, ChannelObjects, Underway
<1>10. ChannelsHeld'
  BY DEF CallTypes, NetTypes, ChannelsHeld, Underway
<1>11. NothingRunsUnnamed'
  BY DEF CallTypes, NothingRunsUnnamed
<1>12. QED
  BY <1>1, <1>2, <1>3, <1>4, <1>5, <1>6, <1>7, <1>8, <1>9, <1>10, <1>11

LEMMA takeStep ==
  ASSUME Inv, NEW p \in Programs, take(p)
  PROVE  Inv'
<1> USE NoneAssumption, RetryAssumption DEF Inv, Types, Places, Loading, SettingUp, TearingDown,
        Exists, take, Go, Return, device, images, nets
<1>1. DeviceTypes'
  BY DEF DeviceTypes
<1>2. ImageTypes'
  BY DEF ImageTypes
<1>3. NetTypes'
  BY DEF NetTypes
<1>4. CallTypes'
  <2>1. pc' \in [Programs -> Places] /\ net' \in [Programs -> Nets \cup {None}]
    BY DEF CallTypes, NetTypes
  <2>2. tries' \in [Programs -> 0..RetryCount]
    BY DEF CallTypes
  <2>3. teardown' \in [Programs -> BOOLEAN]
    BY DEF CallTypes
  <2>4. hand' \in [Programs -> Nets \cup {None}]
    <3>1. net[p] \in Nets /\ netVc[net[p]] \in VCs
      BY DEF Underway, Channels, CallTypes, NetTypes
    <3>2. vcMap[netVc[net[p]]] \in Nets \cup {None}
      BY <3>1 DEF NetTypes
    <3>3. QED
      BY <3>2 DEF CallTypes
  <2>5. QED
    BY <2>1, <2>2, <2>3, <2>4 DEF CallTypes
<1>5. OwnNames'
  BY DEF CallTypes, OwnNames
<1>6. Underway'
  BY DEF CallTypes, NetTypes, ImageTypes, DeviceTypes, Underway, OwnNames, ChannelsHeld
<1>7. Loaded'
  BY DEF Loaded, CallTypes
<1>8. Channels'
  BY DEF CallTypes, Channels
<1>9. ChannelObjects'
  BY DEF CallTypes, NetTypes, DeviceTypes, ChannelObjects, Channels, Underway, OwnNames
<1>10. ChannelsHeld'
  BY DEF CallTypes, NetTypes, DeviceTypes, ChannelsHeld, ChannelObjects, Channels, Underway, OwnNames
<1>11. NothingRunsUnnamed'
  BY DEF CallTypes, NothingRunsUnnamed
<1>12. QED
  BY <1>1, <1>2, <1>3, <1>4, <1>5, <1>6, <1>7, <1>8, <1>9, <1>10, <1>11

LEMMA deactivateSucceedsStep ==
  ASSUME Inv, NEW p \in Programs, deactivateSucceeds(p)
  PROVE  Inv'
<1> USE NoneAssumption, RetryAssumption DEF Inv, Types, Places, Loading, SettingUp, TearingDown,
        Exists, deactivateSucceeds, Go, images, nets, chans
<1>1. DeviceTypes'
  BY DEF DeviceTypes
<1>2. ImageTypes'
  BY DEF ImageTypes
<1>3. NetTypes'
  BY DEF NetTypes
<1>4. CallTypes'
  BY DEF CallTypes
<1>5. OwnNames'
  BY DEF CallTypes, OwnNames
<1>6. Underway'
  BY DEF CallTypes, Underway
<1>7. Loaded'
  BY DEF Loaded, CallTypes
<1>8. Channels'
  BY DEF CallTypes, NetTypes, DeviceTypes, Channels, Underway, OwnNames
<1>9. ChannelObjects'
  BY DEF CallTypes, NetTypes, ChannelObjects, Underway
<1>10. ChannelsHeld'
  BY DEF CallTypes, ChannelsHeld
<1>11. NothingRunsUnnamed'
  BY DEF CallTypes, NothingRunsUnnamed
<1>12. QED
  BY <1>1, <1>2, <1>3, <1>4, <1>5, <1>6, <1>7, <1>8, <1>9, <1>10, <1>11

LEMMA deactivateRefusedStep ==
  ASSUME Inv, NEW p \in Programs, deactivateRefused(p)
  PROVE  Inv'
<1> USE NoneAssumption, RetryAssumption DEF Inv, Types, Places, Loading, SettingUp, TearingDown,
        Exists, deactivateRefused, Go, Return, restoreVcMapEntry, device, images, nets
<1>1. DeviceTypes'
  BY DEF DeviceTypes
<1>2. ImageTypes'
  BY DEF ImageTypes
<1>3. NetTypes'
  BY DEF NetTypes, CallTypes
<1>4. CallTypes'
  <2>1. pc' \in [Programs -> Places] /\ net' \in [Programs -> Nets \cup {None}]
    BY DEF CallTypes, NetTypes
  <2>2. tries' \in [Programs -> 0..RetryCount]
    BY DEF CallTypes
  <2>3. teardown' \in [Programs -> BOOLEAN]
    BY DEF CallTypes
  <2>4. hand' \in [Programs -> Nets \cup {None}]
    BY DEF CallTypes, NetTypes
  <2>5. QED
    BY <2>1, <2>2, <2>3, <2>4 DEF CallTypes
<1>5. OwnNames'
  BY DEF CallTypes, OwnNames
<1>6. Underway'
  BY DEF CallTypes, Underway
<1>7. Loaded'
  BY DEF Loaded, CallTypes
<1>8. Channels'
  BY DEF CallTypes, Channels
<1>9. ChannelObjects'
  BY DEF CallTypes, NetTypes, DeviceTypes, ChannelObjects, Channels, Underway, OwnNames
<1>10. ChannelsHeld'
  BY DEF CallTypes, NetTypes, DeviceTypes, ChannelsHeld, ChannelObjects, Channels, Underway, OwnNames
<1>11. NothingRunsUnnamed'
  BY DEF CallTypes, NothingRunsUnnamed
<1>12. QED
  BY <1>1, <1>2, <1>3, <1>4, <1>5, <1>6, <1>7, <1>8, <1>9, <1>10, <1>11

LEMMA releaseStep ==
  ASSUME Inv, NEW p \in Programs, release(p)
  PROVE  Inv'
<1> USE NoneAssumption, RetryAssumption DEF Inv, Types, Places, Loading, SettingUp, TearingDown,
        Exists, release, Go, Return, device, chans
<1>1. DeviceTypes'
  BY DEF DeviceTypes
<1>2. ImageTypes'
  <2>1. net[p] \in Nets /\ netImage[net[p]] \in Images
    BY DEF Underway, NetTypes, CallTypes
  <2>2. imgRefs' \in [Images -> Int]
    BY <2>1 DEF ImageTypes
  <2>3. constRefs' \in Int
    BY DEF ImageTypes
  <2>4. QED
    BY <2>2, <2>3 DEF ImageTypes
<1>3. NetTypes'
  BY DEF NetTypes
<1>4. CallTypes'
  BY DEF CallTypes
<1>5. OwnNames'
  BY DEF CallTypes, OwnNames
<1>6. Underway'
  BY DEF CallTypes, NetTypes, ImageTypes, DeviceTypes, Underway, OwnNames
<1>7. Loaded'
  BY DEF Loaded, CallTypes
<1>8. Channels'
  BY DEF CallTypes, NetTypes, Channels, Underway
<1>9. ChannelObjects'
  BY DEF CallTypes, NetTypes, DeviceTypes, ChannelObjects, Channels, Underway, OwnNames
<1>10. ChannelsHeld'
  BY DEF CallTypes, NetTypes, ChannelsHeld, Underway
<1>11. NothingRunsUnnamed'
  BY DEF CallTypes, NetTypes, DeviceTypes, NothingRunsUnnamed, Channels, Underway
<1>12. QED
  BY <1>1, <1>2, <1>3, <1>4, <1>5, <1>6, <1>7, <1>8, <1>9, <1>10, <1>11

\* The container closes when no program has an image.
LEMMA closeContainerStep ==
  ASSUME Inv, CountsExact, closeContainer
  PROVE  Inv'
<1> USE DEF Inv, closeContainer, nets, chans, local, Exists
<1>1. Types'
  BY DEF Types, DeviceTypes, ImageTypes, NetTypes, CallTypes
<1>2. OwnNames' /\ Underway'
  BY DEF OwnNames, Underway
<1>3. Loaded'
  <2>1. ASSUME NEW n \in Nets, Exists(n)
        PROVE  devConstants'
    <3>1. constRefs # 0
      BY <2>1, InUse
    <3>2. devConstants
      BY <2>1 DEF Loaded
    <3>3. UNCHANGED devConstants
      BY <3>1
    <3>4. QED
      BY <3>2, <3>3, Zenon
  <2>2. QED
    BY <2>1, NoneAssumption DEF Loaded, Loading, SettingUp
<1>4. Channels' /\ ChannelObjects' /\ ChannelsHeld' /\ NothingRunsUnnamed'
  BY DEF Channels, ChannelObjects, ChannelsHeld, NothingRunsUnnamed
<1>5. QED
  BY <1>1, <1>2, <1>3, <1>4

LEMMA StutterStep ==
  ASSUME Inv, UNCHANGED vars
  PROVE  Inv'
<1> USE DEF Inv, vars, device, images, nets, chans, local, Exists
<1>1. Types'
  BY DEF Types, DeviceTypes, ImageTypes, NetTypes, CallTypes
<1>2. OwnNames' /\ Underway' /\ Loaded'
  BY DEF OwnNames, Underway, Loaded
<1>3. Channels' /\ ChannelObjects' /\ ChannelsHeld' /\ NothingRunsUnnamed'
  BY DEF Channels, ChannelObjects, ChannelsHeld, NothingRunsUnnamed
<1>4. QED
  BY <1>1, <1>2, <1>3

-----------------------------------------------------------------------------
(* The counters: the sets they count gain or lose one network.             *)

Users(f, i) == {n \in Nets : f[n] = i}
UsersOfAny(f)  == {n \in Nets : f[n] # None}

\* Only a network that is made or deleted changes a counter.
LEMMA CountsKept ==
  ASSUME CountsExact, UNCHANGED <<netImage, imgRefs, constRefs>>
  PROVE  CountsExact'
BY DEF CountsExact, Exists

LEMMA attachCounts ==
  ASSUME Inv, CountsExact, NEW p \in Programs, attach(p)
  PROVE  CountsExact'
<1> DEFINE n == net[p]
           i == image[p]
<1>1. n \in Nets /\ netImage[n] = None /\ i \in Images /\ i # None
  BY NoneAssumption DEF attach, Inv, Types, CallTypes, ImageTypes, Underway, Loaded, SettingUp, Exists
<1>2. netImage' = [netImage EXCEPT ![n] = i] /\ netImage \in [Nets -> Images \cup {None}]
  BY DEF attach, Inv, Types, NetTypes
<1>3. imgRefs' = [imgRefs EXCEPT ![i] = @ + 1] /\ imgRefs \in [Images -> Int]
      /\ constRefs' = constRefs + 1
  BY DEF attach, Inv, Types, ImageTypes
<1>4. \A S \in SUBSET Nets : n \notin S =>
        Cardinality(S) \in Nat /\ Cardinality(S \cup {n}) = Cardinality(S) + 1
  BY NetsAssumption, FS_Subset, FS_AddElement, FS_CardinalityType
<1>5. Users(netImage', i) = Users(netImage, i) \cup {n} /\ n \notin Users(netImage, i)
  BY <1>1, <1>2 DEF Users
<1>6. \A j \in Images : j # i => Users(netImage', j) = Users(netImage, j)
  BY <1>1, <1>2, NoneAssumption DEF Users
<1>7. UsersOfAny(netImage') = UsersOfAny(netImage) \cup {n} /\ n \notin UsersOfAny(netImage)
  BY <1>1, <1>2 DEF UsersOfAny
<1>8. \A j \in Images : imgRefs'[j] = Cardinality(Users(netImage', j))
  <2>1. \A j \in Images : imgRefs[j] = Cardinality(Users(netImage, j))
    BY DEF CountsExact, Users
  <2>2. Cardinality(Users(netImage', i)) = Cardinality(Users(netImage, i)) + 1
    BY <1>4, <1>5 DEF Users
  <2>3. QED
    <3>1. ASSUME NEW j \in Images, j # i
          PROVE  imgRefs'[j] = Cardinality(Users(netImage', j))
      BY <3>1, <1>3, <1>6, <2>1
    <3>2. imgRefs'[i] = Cardinality(Users(netImage', i))
      BY <1>1, <1>3, <2>1, <2>2
    <3>3. QED
      BY <3>1, <3>2
<1>9. constRefs' = Cardinality(UsersOfAny(netImage'))
  BY <1>3, <1>4, <1>7 DEF CountsExact, UsersOfAny, Exists
<1>10. QED
  BY <1>8, <1>9 DEF CountsExact, Users, UsersOfAny, Exists

LEMMA releaseCounts ==
  ASSUME Inv, CountsExact, NEW p \in Programs, release(p)
  PROVE  CountsExact'
<1> DEFINE n == net[p]
           i == netImage[n]
<1>1. n \in Nets /\ i \in Images /\ i # None
  BY NoneAssumption DEF release, Inv, Types, CallTypes, NetTypes, Underway, TearingDown, Exists
<1>2. netImage' = [netImage EXCEPT ![n] = None] /\ netImage \in [Nets -> Images \cup {None}]
  BY DEF release, Inv, Types, NetTypes
<1>3. imgRefs' = [imgRefs EXCEPT ![i] = @ - 1] /\ imgRefs \in [Images -> Int]
      /\ constRefs' = constRefs - 1
  BY DEF release, Inv, Types, ImageTypes
<1>4. \A S \in SUBSET Nets : n \in S => Cardinality(S \ {n}) = Cardinality(S) - 1
  BY NetsAssumption, FS_Subset, FS_RemoveElement
<1>5. Users(netImage', i) = Users(netImage, i) \ {n} /\ n \in Users(netImage, i)
  BY <1>1, <1>2 DEF Users
<1>6. \A j \in Images : j # i => Users(netImage', j) = Users(netImage, j)
  BY <1>1, <1>2, NoneAssumption DEF Users
<1>7. UsersOfAny(netImage') = UsersOfAny(netImage) \ {n} /\ n \in UsersOfAny(netImage)
  BY <1>1, <1>2 DEF UsersOfAny
<1>8. \A j \in Images : imgRefs'[j] = Cardinality(Users(netImage', j))
  <2>1. \A j \in Images : imgRefs[j] = Cardinality(Users(netImage, j))
    BY DEF CountsExact, Users
  <2>2. Cardinality(Users(netImage', i)) = Cardinality(Users(netImage, i)) - 1
    BY <1>4, <1>5 DEF Users
  <2>3. QED
    <3>1. ASSUME NEW j \in Images, j # i
          PROVE  imgRefs'[j] = Cardinality(Users(netImage', j))
      BY <3>1, <1>3, <1>6, <2>1
    <3>2. imgRefs'[i] = Cardinality(Users(netImage', i))
      BY <1>1, <1>3, <2>1, <2>2
    <3>3. QED
      BY <3>1, <3>2
<1>9. constRefs' = Cardinality(UsersOfAny(netImage'))
  BY <1>3, <1>4, <1>7 DEF CountsExact, UsersOfAny, Exists
<1>10. QED
  BY <1>8, <1>9 DEF CountsExact, Users, UsersOfAny, Exists

\* The counters never pass the number of networks.
LEMMA CountsBounded ==
  ASSUME Inv, CountsExact
  PROVE  TypeOK
<1>1. \A S \in SUBSET Nets : Cardinality(S) \in 0..Cardinality(Nets)
  BY NetsAssumption, FS_Subset, FS_CardinalityType
<1>2. imgRefs \in [Images -> 0..Cardinality(Nets)]
  BY <1>1 DEF CountsExact, Inv, Types, ImageTypes
<1>3. constRefs \in 0..Cardinality(Nets)
  BY <1>1 DEF CountsExact
<1>4. \A p \in Programs : hand[p] \in {None, net[p]}
  BY DEF Inv, Underway
<1>5. QED
  BY <1>2, <1>3, <1>4
     DEF TypeOK, Inv, Types, DeviceTypes, ImageTypes, NetTypes, CallTypes

-----------------------------------------------------------------------------
(* The inductive invariant.                                                *)

IInv == Inv /\ CountsExact

LEMMA InitIInv == Init => IInv
<1> SUFFICES ASSUME Init PROVE IInv
  OBVIOUS
<1> USE NoneAssumption, RetryAssumption, RefModPositive DEF Init, Exists
<1>1. Types
  <2>1. DeviceTypes
    BY DEF DeviceTypes
  <2>2. ImageTypes
    BY DEF ImageTypes
  <2>3. NetTypes
    <3>1. 0 \in 0..(RefMod - 1)
      OBVIOUS
    <3>2. QED
      BY <3>1 DEF NetTypes
  <2>4. CallTypes
    BY DEF CallTypes, Places
  <2>5. QED
    BY <2>1, <2>2, <2>3, <2>4 DEF Types
<1>2. OwnNames /\ Underway /\ Loaded
  BY DEF OwnNames, Underway, Loaded, Places, Loading, SettingUp, TearingDown
<1>3. Channels /\ ChannelObjects /\ ChannelsHeld /\ NothingRunsUnnamed
  BY DEF Channels, ChannelObjects, ChannelsHeld, NothingRunsUnnamed
<1>4. CountsExact
  <2>1. \A i \in Images : {n \in Nets : netImage[n] = i} = {}
    OBVIOUS
  <2>2. {n \in Nets : Exists(n)} = {}
    OBVIOUS
  <2>3. QED
    BY <2>1, <2>2, FS_EmptySet DEF CountsExact
<1>5. QED
  BY <1>1, <1>2, <1>3, <1>4 DEF IInv, Inv

LEMMA NextInv == IInv /\ [Next]_vars => Inv'
<1> SUFFICES ASSUME IInv, [Next]_vars PROVE Inv'
  OBVIOUS
<1>1. ASSUME NEW p \in Programs, ProgramStep(p)
      PROVE  Inv'
  BY <1>1, getCommonDeviceImageStep, loadConstantsExStep, loadConstantsAtOffsetStep,
     loadImageStep, unloadStep, activateNetworkStep, activateStep, createVCStep, attachStep,
     deactivateStep, takeStep, deactivateSucceedsStep, deactivateRefusedStep, releaseStep
     DEF IInv, ProgramStep
<1>2. CASE closeContainer
  BY <1>2, closeContainerStep DEF IInv
<1>3. CASE UNCHANGED vars
  BY <1>3, StutterStep DEF IInv
<1>4. QED
  BY <1>1, <1>2, <1>3 DEF Next, Closed

LEMMA NextCounts == IInv /\ [Next]_vars => CountsExact'
<1> SUFFICES ASSUME IInv, [Next]_vars PROVE CountsExact'
  OBVIOUS
<1>1. ASSUME NEW p \in Programs, ProgramStep(p)
      PROVE  CountsExact'
  <2>1. CASE attach(p)
    BY <2>1, attachCounts DEF IInv
  <2>2. CASE release(p)
    BY <2>2, releaseCounts DEF IInv
  <2>3. CASE \/ getCommonDeviceImage(p) \/ loadConstantsEx(p) \/ loadConstantsAtOffset(p)
             \/ loadImage(p) \/ unload(p)
    BY <2>3, CountsKept DEF IInv, getCommonDeviceImage, loadConstantsEx,
       loadConstantsAtOffset, loadImage, unload, nets
  <2>4. CASE activateNetwork(p) \/ activate(p) \/ createVC(p)
    BY <2>4, CountsKept DEF IInv, activateNetwork, activate, createVC, images, nets
  <2>5. CASE deactivate(p) \/ take(p) \/ deactivateSucceeds(p) \/ deactivateRefused(p)
    BY <2>5, CountsKept DEF IInv, deactivate, take, deactivateSucceeds, deactivateRefused,
       images, nets
  <2>6. QED
    BY <1>1, <2>1, <2>2, <2>3, <2>4, <2>5 DEF ProgramStep
<1>2. CASE closeContainer
  BY <1>2, CountsKept DEF IInv, closeContainer, nets
<1>3. CASE UNCHANGED vars
  BY <1>3, CountsKept DEF IInv, vars, images, nets
<1>4. QED
  BY <1>1, <1>2, <1>3 DEF Next, Closed

LEMMA Invariant == Spec => []IInv
<1>1. IInv /\ [Next]_vars => IInv'
  BY NextInv, NextCounts DEF IInv
<1>2. QED
  BY InitIInv, <1>1, PTL DEF Spec

-----------------------------------------------------------------------------
(* What a reader should know of.                                           *)

\* Every variable keeps its type; in particular the counters of an image and of
\* the constants never pass the number of networks, and a channel object that is
\* out of the map is in the hand of the program that deactivates its network.
THEOREM TypeCorrect == Spec => []TypeOK
<1>1. IInv => TypeOK
  BY CountsBounded DEF IInv
<1>2. QED
  BY Invariant, <1>1, PTL

\* QKmdDevice: whatever is refused and tried again, a network that exists has
\* its channel object, and only its own deactivation deletes it.
THEOREM EveryNetworkHasItsChannel == Spec => []ChannelsHeld
<1>1. IInv => ChannelsHeld
  BY DEF IInv, Inv
<1>2. QED
  BY Invariant, <1>1, PTL

\* QKmdDevice::activate: the device runs no network the library has lost, since
\* the object of a new channel is never refused as a duplicate.
THEOREM EveryNetworkIsNamed == Spec => []NothingRunsUnnamed
<1>1. IInv => NothingRunsUnnamed
  BY DEF IInv, Inv
<1>2. QED
  BY Invariant, <1>1, PTL

\* QProgramContainer: an image or constants that a network uses are not
\* unloaded, whichever programs load and unload at the same time.
THEOREM ImagesOutlive == Spec => []ImagesOutliveNetworks
<1>1. IInv => ImagesOutliveNetworks
  BY DEF IInv, Inv, Loaded, ImagesOutliveNetworks
<1>2. QED
  BY Invariant, <1>1, PTL

\* QNNImage, QNNConstants: refCnt_ is the number of networks that use it.
THEOREM CountersAreExact == Spec => []CountsExact
<1>1. IInv => CountsExact
  BY DEF IInv
<1>2. QED
  BY Invariant, <1>1, PTL

-----------------------------------------------------------------------------
(* Refinement: making a network object is Activate of NetworkHandles, as   *)
(* is an activation that fails; deleting one is Deactivate.                *)

Live == {n \in Nets : Exists(n)}

\* The networks that exist, as the abstract specification sees them.
LEMMA LiveChanges ==
  /\ UNCHANGED netImage => UNCHANGED Live
  /\ \A n \in Nets, i \in Images :
       /\ netImage \in [Nets -> Images \cup {None}]
       /\ netImage' = [netImage EXCEPT ![n] = i]
       => Live' = Live \cup {n}
  /\ \A n \in Nets :
       /\ netImage \in [Nets -> Images \cup {None}]
       /\ netImage' = [netImage EXCEPT ![n] = None]
       => Live' = Live \ {n}
BY NoneAssumption DEF Live, Exists

LEMMA FailureIsActivate ==
  ASSUME NEW p \in Programs, ActivationFails(p), UNCHANGED netImage
  PROVE  Handles!Activate(p)
BY LiveChanges DEF ActivationFails, Handles!Activate, Live

LEMMA attachIsActivate ==
  ASSUME Inv, NEW p \in Programs, attach(p)
  PROVE  Handles!Activate(p)
<1> DEFINE n == net[p]
<1>1. n \in Nets \ Live /\ image[p] \in Images
  BY NoneAssumption DEF attach, Inv, Types, CallTypes, ImageTypes, Underway, Loaded, SettingUp,
     Exists, Live
<1>2. Live' = Live \cup {n}
  BY <1>1, LiveChanges DEF attach, Inv, Types, NetTypes
<1>3. n # None /\ qnn' = [qnn EXCEPT ![p] = n]
  BY <1>1, NoneAssumption DEF attach
<1>4. QED
  BY <1>1, <1>2, <1>3 DEF Handles!Activate, Live

LEMMA releaseIsDeactivate ==
  ASSUME Inv, NEW p \in Programs, release(p)
  PROVE  Handles!Deactivate(p)
<1>1. net[p] \in Live /\ net[p] = qnn[p]
  BY NoneAssumption DEF release, Inv, Types, CallTypes, Underway, TearingDown, Exists, Live
<1>2. Live' = Live \ {net[p]}
  BY <1>1, LiveChanges DEF release, Inv, Types, NetTypes, Live
<1>3. qnn' = [qnn EXCEPT ![p] = None]
  BY DEF release
<1>4. QED
  BY <1>1, <1>2, <1>3 DEF Handles!Deactivate, Live

\* QRuntime: a handle names a network nobody else has, and only a deactivation
\* that succeeds ends it, whatever the device refuses.
THEOREM HandlesRefined == Spec => ImplementsHandles
<1>1. Init => Handles!Init
  BY NoneAssumption DEF Init, Handles!Init, Exists
<1>2. IInv /\ [Next]_vars => [Handles!Next]_Handles!vars
  <2> SUFFICES ASSUME IInv, [Next]_vars
               PROVE  Handles!Next \/ UNCHANGED <<qnn, Live>>
    BY DEF Handles!vars, Live
  <2>1. ASSUME NEW p \in Programs, ProgramStep(p)
        PROVE  Handles!Next \/ UNCHANGED <<qnn, Live>>
    <3>1. CASE attach(p)
      BY <3>1, attachIsActivate DEF IInv, Handles!Next
    <3>2. CASE release(p)
      BY <3>2, releaseIsDeactivate DEF IInv, Handles!Next
    <3>3. CASE activate(p) \/ createVC(p)
      <4>1. CASE ActivationFails(p)
        BY <3>3, <4>1, FailureIsActivate DEF activate, createVC, Handles!Next
      <4>2. CASE ~ActivationFails(p)
        BY <3>3, <4>2, LiveChanges DEF activate, createVC
      <4>3. QED
        BY <4>1, <4>2
    <3>4. CASE \/ getCommonDeviceImage(p) \/ loadConstantsEx(p) \/ loadConstantsAtOffset(p)
               \/ loadImage(p) \/ unload(p) \/ activateNetwork(p)
      BY <3>4, LiveChanges DEF getCommonDeviceImage, loadConstantsEx,
         loadConstantsAtOffset, loadImage, unload, activateNetwork, nets
    <3>5. CASE deactivate(p) \/ take(p) \/ deactivateSucceeds(p) \/ deactivateRefused(p)
      BY <3>5, LiveChanges DEF deactivate, take, deactivateSucceeds, deactivateRefused, nets
    <3>6. QED
      BY <2>1, <3>1, <3>2, <3>3, <3>4, <3>5 DEF ProgramStep
  <2>2. CASE closeContainer
    BY <2>2, LiveChanges DEF closeContainer, nets
  <2>3. CASE UNCHANGED vars
    BY <2>3, LiveChanges DEF vars, nets
  <2>4. QED
    BY <2>1, <2>2, <2>3 DEF Next, Closed
<1>3. QED
  BY <1>1, <1>2, Invariant, PTL DEF Spec, ImplementsHandles, Handles!Spec

=============================================================================
