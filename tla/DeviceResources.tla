-------------------------- MODULE DeviceResources --------------------------
(***************************************************************************)
(* What programs hold on a device, and how it is counted: the constants    *)
(* that programs of one container share and the image each loads           *)
(* (lib/core/src/QProgramContainer.cpp), the networks activated on them    *)
(* (lib/network-driver/src/QRuntime.cpp, QNeuralNetwork.cpp) and the       *)
(* virtual channels of those (QKmdDevice.cpp).  Calls of one program come  *)
(* one after another (QProgramDevice holds programMutex_); calls of        *)
(* different programs interleave.  A step is one command to the device or  *)
(* what happens under one lock.                                            *)
(*                                                                         *)
(* The device is external: it hands out identifiers that are not in use,   *)
(* may be restarting (the command is tried again), and may refuse, in      *)
(* which case nothing changes on it.  A device that is reset and forgets   *)
(* what it held is not modelled here.                                      *)
(***************************************************************************)
EXTENDS Naturals, FiniteSets

CONSTANTS
  Programs,     \* programs of one container on one device
  Nets,         \* activations; each has one QNeuralnetwork and makes one channel object
  Images,       \* loaded images
  VCs,          \* virtual channels of the device
  None,
  RetryCount,   \* activationRetryCount, deactivationRetryCount
  RefMod        \* 2^32: the counters wrap

ASSUME NoneAssumption == None \notin Programs \cup Nets \cup Images \cup VCs
ASSUME NetsAssumption == IsFiniteSet(Nets)
ASSUME RetryAssumption == RetryCount \in Nat \ {0}
ASSUME RefModAssumption == RefMod \in Nat /\ RefMod > Cardinality(Nets) + 1

VARIABLES
  devImages, devConstants,  \* loaded on the device
  devVc,        \* the channel of each network active on the device, or None
  devChannels,  \* channels set up on the device
  common,       \* commonImageLoadedMap_: "none", "loading", "loaded", "closed"
  mapMutex,     \* who holds commonImageLoadedMapMutex_ from step to step
  image,        \* deviceImage_ of each program
  qnn,          \* qnn_ of each program
  imgRefs, constRefs,       \* refCnt_ of QNNImage and QNNConstants
  netImage, netVc,          \* image_ and vc_ of each QNeuralnetwork that exists
  vcMap,        \* vcMap_: the channel object of each channel
  vcRefs,       \* refCnt_ of each channel object
  pc, tries, net, teardown, hand   \* what each program is in the middle of

device  == <<devImages, devConstants, devVc, devChannels>>
images  == <<common, mapMutex, image, imgRefs, constRefs>>
nets    == <<qnn, netImage, netVc>>
chans   == <<vcMap, vcRefs>>
local   == <<pc, tries, net, teardown, hand>>
vars    == <<device, images, nets, chans, local>>

Exists(n) == netImage[n] # None
Go(p, where) == pc' = [pc EXCEPT ![p] = where]
Free(m) == m = None

\* The call returns and its locals are gone.
Return(p) ==
  /\ Go(p, "idle")
  /\ tries' = [tries EXCEPT ![p] = 0]
  /\ net' = [net EXCEPT ![p] = None]
  /\ teardown' = [teardown EXCEPT ![p] = FALSE]
  /\ hand' = [hand EXCEPT ![p] = None]

-----------------------------------------------------------------------------
(* QProgramContainer: constants once for all programs, an image for each.  *)

\* getDeviceImage asks for the common image first.
getCommonDeviceImage(p) ==
  /\ pc[p] = "idle" /\ image[p] = None /\ Free(mapMutex) /\ common # "closed"
  /\ \/ /\ common = "loaded" /\ Go(p, "image")
        /\ UNCHANGED <<common, mapMutex>>
     \/ /\ common = "none" /\ Go(p, "constants")
        /\ common' = "loading" /\ mapMutex' = p
  /\ UNCHANGED <<device, image, imgRefs, constRefs, nets, chans,
                 tries, net, teardown, hand>>

\* A failure leaves no entry: the next program tries again.
CommonFails(p) == common' = "none" /\ mapMutex' = None /\ Go(p, "idle")

loadConstantsEx(p) ==
  /\ pc[p] = "constants"
  /\ \/ /\ Go(p, "segments") /\ devConstants' = TRUE
        /\ UNCHANGED <<common, mapMutex>>
     \/ CommonFails(p) /\ UNCHANGED devConstants
  /\ UNCHANGED <<devImages, devVc, devChannels, image, imgRefs, constRefs, nets, chans,
                 tries, net, teardown, hand>>

\* When a segment fails the device drops the constants and none is unloaded.
loadConstantsAtOffset(p) ==
  /\ pc[p] = "segments"
  /\ \/ /\ common' = "loaded" /\ mapMutex' = None /\ Go(p, "image")
        /\ UNCHANGED devConstants
     \/ CommonFails(p) /\ devConstants' = FALSE
  /\ UNCHANGED <<devImages, devVc, devChannels, image, imgRefs, constRefs, nets, chans,
                 tries, net, teardown, hand>>

loadImage(p) ==
  /\ pc[p] = "image" /\ Free(mapMutex)
  /\ \/ \E i \in Images \ devImages :
          /\ imgRefs[i] = 0
          /\ devImages' = devImages \cup {i}
          /\ image' = [image EXCEPT ![p] = i]
     \/ UNCHANGED <<devImages, image>>
  /\ Go(p, "idle")
  /\ UNCHANGED <<devConstants, devVc, devChannels, common, mapMutex, imgRefs, constRefs,
                 nets, chans, tries, net, teardown, hand>>

\* Fault: an image in use is unloaded.
unload_Busy(p) ==
  /\ pc[p] = "idle" /\ image[p] # None
  /\ devImages' = devImages \ {image[p]} \/ UNCHANGED devImages
  /\ image' = [image EXCEPT ![p] = None]
  /\ UNCHANGED <<devConstants, devVc, devChannels, common, mapMutex, imgRefs, constRefs,
                 nets, chans, local>>

\* ~QDeviceImage: an image in use is left alone (QS_BUSY), and forgotten.
unload(p) ==
  /\ pc[p] = "idle" /\ image[p] # None
  /\ \/ imgRefs[image[p]] = 0 /\ devImages' = devImages \ {image[p]}
     \/ UNCHANGED devImages
  /\ image' = [image EXCEPT ![p] = None]
  /\ UNCHANGED <<devConstants, devVc, devChannels, common, mapMutex, imgRefs, constRefs,
                 nets, chans, local>>

\* The container goes with the last program.
closeContainer ==
  /\ common = "loaded"
  /\ \A p \in Programs : pc[p] = "idle" /\ image[p] = None
  /\ common' = "closed"
  /\ \/ constRefs = 0 /\ devConstants' = FALSE
     \/ UNCHANGED devConstants
  /\ UNCHANGED <<devImages, devVc, devChannels, mapMutex, image, imgRefs, constRefs,
                 nets, chans, local>>

-----------------------------------------------------------------------------
(* QRuntime::activateNetwork.                                              *)

activateNetwork(p) ==
  /\ pc[p] = "idle" /\ image[p] # None
  /\ Go(p, "activate")
  /\ tries' = [tries EXCEPT ![p] = RetryCount]
  /\ UNCHANGED <<device, images, nets, chans, net, teardown, hand>>

\* qnn_ is overwritten whatever it was.
ActivationFails(p) ==
  /\ qnn' = [qnn EXCEPT ![p] = None]
  /\ Return(p)

\* QKmdDevice::activate, up to the reply.
activate(p) ==
  /\ pc[p] = "activate"
  /\ \/ \E n \in Nets, v \in VCs \ devChannels :         \* NNC_STATUS_SUCCESS
          /\ devVc[n] = None /\ ~Exists(n) /\ \A w \in VCs : vcMap[w] # n
          /\ devVc' = [devVc EXCEPT ![n] = v]
          /\ devChannels' = devChannels \cup {v}
          /\ net' = [net EXCEPT ![p] = n]
          /\ Go(p, "createVC")
          /\ UNCHANGED <<qnn, tries, teardown, hand>>
     \/ /\ tries[p] > 1                                  \* QS_AGAIN
        /\ tries' = [tries EXCEPT ![p] = @ - 1]
        /\ UNCHANGED <<devVc, devChannels, qnn, net, pc, teardown, hand>>
     \/ ActivationFails(p) /\ UNCHANGED <<devVc, devChannels>>
  /\ UNCHANGED <<devImages, devConstants, images, netImage, netVc, chans>>

\* The channel object; a channel that has one already is an error.
createVC(p) ==
  LET n == net[p]
      v == devVc[n]
  IN
  /\ pc[p] = "createVC"
  /\ \/ /\ vcMap[v] = None
        /\ vcMap' = [vcMap EXCEPT ![v] = n]
        /\ vcRefs' = [vcRefs EXCEPT ![n] = 1]
        /\ Go(p, "attach")
        /\ UNCHANGED <<qnn, tries, net, teardown, hand>>
     \/ vcMap[v] # None /\ ActivationFails(p) /\ UNCHANGED chans
  /\ UNCHANGED <<device, images, netImage, netVc>>

\* The network object, which counts as a user of the image and the constants.
attach(p) ==
  LET n == net[p] IN
  /\ pc[p] = "attach"
  /\ netImage' = [netImage EXCEPT ![n] = image[p]]
  /\ netVc' = [netVc EXCEPT ![n] = devVc[n]]
  /\ imgRefs' = [imgRefs EXCEPT ![image[p]] = @ + 1]
  /\ constRefs' = constRefs + 1
  /\ qnn' = [qnn EXCEPT ![p] = n]
  /\ Return(p)
  /\ UNCHANGED <<device, common, mapMutex, image, chans>>

-----------------------------------------------------------------------------
(* QNeuralnetwork::deactivate.                                             *)

\* The channel goes with its last network; the counter wraps when a
\* deactivation that failed is tried again.
deactivate(p) ==
  LET n == qnn[p]
      refs == (vcRefs[n] + RefMod - 1) % RefMod
  IN
  /\ pc[p] = "idle" /\ n # None
  /\ vcRefs' = [vcRefs EXCEPT ![n] = refs]
  /\ teardown' = [teardown EXCEPT ![p] = (refs = 0)]
  /\ tries' = [tries EXCEPT ![p] = RetryCount]
  /\ net' = [net EXCEPT ![p] = n]
  /\ Go(p, "take")
  /\ UNCHANGED <<device, images, nets, vcMap, hand>>

\* Fault: the entry of the map is not erased.
take_Keeps(p) ==
  LET v == netVc[net[p]] IN
  /\ pc[p] = "take"
  /\ IF teardown[p]
     THEN hand' = [hand EXCEPT ![p] = vcMap[v]] /\ UNCHANGED vcMap
     ELSE UNCHANGED <<vcMap, hand>>
  /\ Go(p, "send")
  /\ UNCHANGED <<device, images, nets, vcRefs, tries, net, teardown>>

\* QKmdDevice::deactivate: nothing is sent while the device is not valid; the
\* channel object is taken out of the map first, so that whoever gets the
\* channel next finds none.
take(p) ==
  LET v == netVc[net[p]] IN
  /\ pc[p] = "take"
  /\ \/ /\ teardown[p] /\ vcMap[v] # None
        /\ hand' = [hand EXCEPT ![p] = vcMap[v]]
        /\ vcMap' = [vcMap EXCEPT ![v] = None]
        /\ Go(p, "send")
        /\ UNCHANGED <<tries, net, teardown>>
     \/ ~teardown[p] /\ Go(p, "send") /\ UNCHANGED <<vcMap, tries, net, teardown, hand>>
     \/ Return(p) /\ UNCHANGED vcMap
  /\ UNCHANGED <<device, images, nets, vcRefs>>

deactivateSucceeds(p) ==
  LET n == net[p] IN
  /\ pc[p] = "send"
  /\ devVc' = [devVc EXCEPT ![n] = None]
  /\ devChannels' = IF teardown[p] THEN devChannels \ {netVc[n]} ELSE devChannels
  /\ hand' = [hand EXCEPT ![p] = None]
  /\ Go(p, "release")
  /\ UNCHANGED <<devImages, devConstants, images, nets, chans, tries, net, teardown>>

\* Fault: the channel object is not put back.
restoreVcMapEntry_Drops(p) == UNCHANGED vcMap

restoreVcMapEntry(p) ==
  IF teardown[p] THEN vcMap' = [vcMap EXCEPT ![netVc[net[p]]] = hand[p]] ELSE UNCHANGED vcMap

\* The device restarts and the command is tried again, or it refuses.
deactivateRefused(p) ==
  /\ pc[p] = "send"
  /\ restoreVcMapEntry(p)
  /\ \/ /\ tries[p] > 1 /\ Go(p, "take")
        /\ tries' = [tries EXCEPT ![p] = @ - 1]
        /\ hand' = [hand EXCEPT ![p] = None]
        /\ UNCHANGED <<net, teardown>>
     \/ Return(p)
  /\ UNCHANGED <<device, images, nets, vcRefs>>

\* Fault: the handle of the deleted network is kept.
release_KeepsHandle(p) ==
  LET n == net[p] IN
  /\ pc[p] = "release"
  /\ netImage' = [netImage EXCEPT ![n] = None]
  /\ netVc' = [netVc EXCEPT ![n] = None]
  /\ imgRefs' = [imgRefs EXCEPT ![netImage[n]] = @ - 1]
  /\ constRefs' = constRefs - 1
  /\ Return(p)
  /\ UNCHANGED <<device, common, mapMutex, image, qnn, chans>>

\* Fault: the image is not given back with its network.
release_KeepsImage(p) ==
  LET n == net[p] IN
  /\ pc[p] = "release"
  /\ netImage' = [netImage EXCEPT ![n] = None]
  /\ netVc' = [netVc EXCEPT ![n] = None]
  /\ constRefs' = constRefs - 1
  /\ qnn' = [qnn EXCEPT ![p] = None]
  /\ Return(p)
  /\ UNCHANGED <<device, common, mapMutex, image, imgRefs, chans>>

release(p) ==
  LET n == net[p] IN
  /\ pc[p] = "release"
  /\ netImage' = [netImage EXCEPT ![n] = None]
  /\ netVc' = [netVc EXCEPT ![n] = None]
  /\ imgRefs' = [imgRefs EXCEPT ![netImage[n]] = @ - 1]
  /\ constRefs' = constRefs - 1
  /\ qnn' = [qnn EXCEPT ![p] = None]
  /\ Return(p)
  /\ UNCHANGED <<device, common, mapMutex, image, chans>>

-----------------------------------------------------------------------------
Init ==
  /\ devImages = {} /\ devConstants = FALSE
  /\ devVc = [n \in Nets |-> None] /\ devChannels = {}
  /\ common = "none" /\ mapMutex = None
  /\ image = [p \in Programs |-> None] /\ qnn = [p \in Programs |-> None]
  /\ imgRefs = [i \in Images |-> 0] /\ constRefs = 0
  /\ netImage = [n \in Nets |-> None] /\ netVc = [n \in Nets |-> None]
  /\ vcMap = [v \in VCs |-> None] /\ vcRefs = [n \in Nets |-> 0]
  /\ pc = [p \in Programs |-> "idle"] /\ tries = [p \in Programs |-> 0]
  /\ net = [p \in Programs |-> None] /\ teardown = [p \in Programs |-> FALSE]
  /\ hand = [p \in Programs |-> None]

ProgramStep(p) ==
  \/ getCommonDeviceImage(p) \/ loadConstantsEx(p) \/ loadConstantsAtOffset(p)
  \/ loadImage(p) \/ unload(p)
  \/ activateNetwork(p) \/ activate(p) \/ createVC(p) \/ attach(p)
  \/ deactivate(p) \/ take(p) \/ deactivateSucceeds(p) \/ deactivateRefused(p) \/ release(p)

Closed == common = "closed" /\ UNCHANGED vars

Next == (\E p \in Programs : ProgramStep(p)) \/ closeContainer \/ Closed

Spec == Init /\ [][Next]_vars

-----------------------------------------------------------------------------
(* Properties.                                                             *)

\* Every variable has its type; a channel object in somebody's hand is that of
\* the network it deactivates.
TypeOK ==
  /\ devImages \subseteq Images /\ devConstants \in BOOLEAN
  /\ devVc \in [Nets -> VCs \cup {None}] /\ devChannels \subseteq VCs
  /\ common \in {"none", "loading", "loaded", "closed"}
  /\ mapMutex \in Programs \cup {None} /\ (mapMutex # None <=> common = "loading")
  /\ image \in [Programs -> Images \cup {None}] /\ qnn \in [Programs -> Nets \cup {None}]
  /\ imgRefs \in [Images -> 0..Cardinality(Nets)] /\ constRefs \in 0..Cardinality(Nets)
  /\ netImage \in [Nets -> Images \cup {None}] /\ netVc \in [Nets -> VCs \cup {None}]
  /\ vcMap \in [VCs -> Nets \cup {None}] /\ vcRefs \in [Nets -> 0..(RefMod - 1)]
  /\ tries \in [Programs -> 0..RetryCount] /\ teardown \in [Programs -> BOOLEAN]
  /\ \A p \in Programs : hand[p] \in {None, net[p]}

\* Whatever is refused and tried again, a network that exists has its channel
\* object, which is deleted by nobody but its own deactivation.
ChannelsHeld ==
  \A n \in Nets : Exists(n) =>
    \/ vcMap[netVc[n]] = n
    \/ \E p \in Programs : net[p] = n /\ (hand[p] = n \/ pc[p] = "release")

\* The device runs no network that the library has lost: a channel that is
\* handed out again is never found taken, although other programs erase, put
\* back and create channel objects at the same time.
NothingRunsUnnamed ==
  \A n \in Nets : devVc[n] # None =>
    Exists(n) \/ \E p \in Programs : net[p] = n /\ pc[p] \in {"createVC", "attach"}

\* A network that runs has its image and its constants on the device, also one
\* that was abandoned when its deactivation was refused and whose program went
\* on to unload.
ImagesOutliveNetworks ==
  \A n \in Nets : devVc[n] # None /\ Exists(n) => netImage[n] \in devImages /\ devConstants

\* The counters say how many networks use an image and the constants.
CountsExact ==
  /\ \A i \in Images : imgRefs[i] = Cardinality({n \in Nets : netImage[n] = i})
  /\ constRefs = Cardinality({n \in Nets : Exists(n)})

\* A handle a program holds is a network that runs, until its deactivation is
\* through: the device and the library agree.
Handles == INSTANCE NetworkHandles WITH live <- {n \in Nets : Exists(n)}
ImplementsHandles == Handles!Spec

=============================================================================
