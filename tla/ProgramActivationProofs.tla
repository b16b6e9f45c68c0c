---------------------- MODULE ProgramActivationProofs ----------------------
(***************************************************************************)
(* Proofs about ProgramActivation, for any number of threads, execution    *)
(* objects and networks: no call takes the network away from an execution  *)
(* object, an inference is submitted where it was prepared, and a program  *)
(* that is only activated for its execution objects goes with the last.    *)
(*                                                                         *)
(* None of this rests on one lock.  The list of execution objects is       *)
(* looked at before the device is locked, an object registers under        *)
(* neither mutex, and handles are counted with errors.  What holds it      *)
(* together is that an object binds to a network only while programMutex_  *)
(* is free, and that whoever gives a handle back too early is not the      *)
(* last to give one back.                                                  *)
(***************************************************************************)
EXTENDS ProgramActivation, FiniteSetTheorems, TLAPS

-----------------------------------------------------------------------------
(* The inductive invariant.                                                *)

DeviceTypes ==
  /\ phase \in Device!Phases
  /\ qnn \in Networks \cup {NoNet}
  /\ live \subseteq Networks
  /\ object \in {"alive", "closing", "gone"}

OwnTypes ==
  /\ manual \in BOOLEAN
  /\ refs \in Nat
  /\ mutex \in ExecObjs \cup Threads \cup {Nobody}
  /\ pc \in [ExecObjs -> Stages]
  /\ call \in [Threads -> Calls]
  /\ net \in [ExecObjs -> Networks \cup {NoNet}]
  /\ using \in [ExecObjs -> Networks \cup {NoNet}]
  /\ lost \subseteq Networks

Types == DeviceTypes /\ OwnTypes

\* A network a program still has is active; one it keeps without being ready
\* is one that the device refused to deactivate.
DeviceRests ==
  /\ initError => phase = "created" /\ qnn = NoNet /\ live = {}
  /\ qnn # NoNet => qnn \in live
  /\ qnn # NoNet /\ object = "alive" => phase = "ac_ready" \/ qnn \in lost
  /\ phase = "ac_ready" => qnn # NoNet

\* execObjs_ holds the objects between their creation and their destructor.
Unlisted == {"absent", "dtor", "put", "putting"}
Listed == execObjs = {e \in ExecObjs : pc[e] \notin Unlisted}

\* Nobody comes to a program that is being destroyed.
Unused ==
  object # "alive" =>
    /\ \A e \in ExecObjs : pc[e] = "absent"
    /\ \A t \in Threads : call[t] = "idle"

\* While somebody who found no execution object tears the network down, one
\* may register, but none gets as far as to bind to it.
NobodyBound == \A e \in ExecObjs : pc[e] \notin Bound
TeardownAlone ==
  /\ \A e \in ExecObjs : mutex = e /\ pc[e] = "putting" => NobodyBound
  /\ \A t \in Threads : mutex = t => NobodyBound

\* The network an execution object has is that of the ready program, or it was
\* lost in a device error; so is the one an inference got.
InUse(n) == n \in lost \/ (phase = "ac_ready" /\ n = qnn)
NetworksInUse ==
  \A e \in ExecObjs :
    /\ pc[e] \in Bound => InUse(net[e])
    /\ pc[e] \in {"enqueue", "finish", "wait"} => InUse(using[e])

\* Of the objects that ask for activation, those that have a handle or will give
\* one back without having had it, and those that are about to ask for one.
NoHandle == {"absent", "registered", "load", "get", "put", "putting"}
Holders == {e \in AutoObjs : pc[e] \notin NoHandle}
Asking == {e \in ExecObjs : pc[e] \in {"load", "get"}}

\* Handles are lost, when one is given back that was never taken, but none is
\* counted that nobody will give back, unless the program is activated by hand.
Counted ==
  /\ Asking \subseteq AutoObjs
  /\ ~manual => refs <= Cardinality(Holders)
  /\ refs + Cardinality(Asking) <= Cardinality(ExecObjs)

\* The flag is set before a thread activates.
ByHand == \A t \in Threads : call[t] = "activate" => manual

Inv ==
  /\ Types /\ DeviceRests /\ Listed /\ Unused /\ TeardownAlone
  /\ NetworksInUse /\ PreparedWhereSubmitted /\ Counted /\ ByHand
  /\ DeactivatedWithLast

-----------------------------------------------------------------------------
(* What the calls of the device leave behind.                              *)

\* A network in use stays in use, or a device error took it.
Harmless ==
  /\ lost \subseteq lost'
  /\ phase = "ac_ready" => (phase' = "ac_ready" /\ qnn' = qnn) \/ qnn \in lost'

LEMMA LoadLeaves ==
  ASSUME Types, DeviceRests, DeviceCall(Device!Load)
  PROVE  /\ DeviceTypes' /\ DeviceRests' /\ Harmless
         /\ lost' = lost /\ execObjs' = execObjs /\ object' = object
         /\ phase' = "ac_ready" => phase = "ac_ready"
<1>1. CASE initError
  BY <1>1, NetworksAssumption DEF DeviceCall, Fresh, Device!Load, Device!FirstCallFails,
     Device!Fail, Device!TornDown, Device!Kept, Types, DeviceTypes, DeviceRests,
     Harmless, Device!Phases
<1>2. CASE ~initError
  BY <1>2 DEF DeviceCall, Fresh, Device!Load, Device!FirstCallFails, Device!Stay,
     Device!Rest, Device!Returns, Types, DeviceTypes, DeviceRests, Harmless,
     Device!Phases, Device!LoadedPhases, Device!CreatedPhases
<1>3. QED
  BY <1>1, <1>2

LEMMA ActivateLeaves ==
  ASSUME Types, DeviceRests, DeviceCall(Device!Activate)
  PROVE  /\ DeviceTypes' /\ DeviceRests' /\ Harmless
         /\ lost' = lost /\ execObjs' = execObjs /\ object' = object
<1>1. CASE initError
  BY <1>1, NetworksAssumption DEF DeviceCall, Fresh, Device!Activate,
     Device!FirstCallFails, Device!Fail, Device!TornDown, Device!Kept, Types,
     DeviceTypes, DeviceRests, Harmless, Device!Phases
<1>2. CASE ~initError
  <2>1. CASE phase \in {"ac_ready", "device_error", "load_failed"}
    BY <1>2, <2>1 DEF DeviceCall, Fresh, Device!Activate, Device!FirstCallFails,
       Device!Stay, Device!Returns, Types, DeviceTypes, DeviceRests, Harmless
  <2>2. CASE phase \notin {"ac_ready", "device_error", "load_failed"}
    <3>1. PICK n \in {NoNet} \cup (Networks \ live) :
            /\ qnn' = n /\ live' = live \cup ({n} \ {NoNet})
            /\ phase' = IF n = NoNet THEN "activate_failed" ELSE "ac_ready"
            /\ ~initError /\ UNCHANGED <<initError, execObjs, object, lost>>
      BY <1>2, <2>2 DEF DeviceCall, Fresh, Device!Activate, Device!FirstCallFails
    <3>2. CASE n = NoNet
      BY <2>2, <3>1, <3>2 DEF Types, DeviceTypes, DeviceRests, Harmless, Device!Phases,
         Device!LoadedPhases, Device!CreatedPhases
    <3>3. CASE n # NoNet
      BY <2>2, <3>1, <3>3 DEF Types, DeviceTypes, DeviceRests, Harmless, Device!Phases,
         Device!LoadedPhases, Device!CreatedPhases
    <3>4. QED
      BY <3>2, <3>3
  <2>3. QED
    BY <2>1, <2>2
<1>3. QED
  BY <1>1, <1>2

\* A network that is torn down is forgotten, one that is refused is lost.
LEMMA FailLeaves ==
  ASSUME Types, DeviceRests, NEW c, NEW ok, Device!Fail(c, ok), Lose, UNCHANGED object
  PROVE  /\ DeviceTypes' /\ DeviceRests' /\ Harmless /\ lost' \subseteq Networks
         /\ phase' # "ac_ready"
BY NetworksAssumption DEF Device!Fail, Device!TornDown, Device!Kept, Lose, Types,
   DeviceTypes, OwnTypes, DeviceRests, Harmless, Device!Phases

LEMMA TeardownLeaves ==
  ASSUME Types, DeviceRests,
         NEW p \in {"created", "loaded"}, initError => p = "created",
         NEW c, Teardown(Device!Teardown(c, p))
  PROVE  /\ DeviceTypes' /\ DeviceRests' /\ lost \subseteq lost' /\ lost' \subseteq Networks
         /\ execObjs' = execObjs /\ object' = object /\ phase' # "ac_ready"
<1>1. CASE Device!Fail(c, c = "destroy")
  BY <1>1, FailLeaves DEF Teardown, Harmless
<1>2. CASE phase' = p /\ Device!TornDown /\ UNCHANGED initError
  BY <1>2 DEF Teardown, Device!TornDown, Lose, Types, OwnTypes, DeviceTypes,
     DeviceRests, Device!Phases, Device!LoadedPhases, Device!CreatedPhases
<1>3. QED
  BY <1>1, <1>2 DEF Teardown, Device!Teardown

LEMMA DeactivateLeaves ==
  ASSUME Types, DeviceRests, Teardown(Device!Deactivate)
  PROVE  /\ DeviceTypes' /\ DeviceRests' /\ lost \subseteq lost' /\ lost' \subseteq Networks
         /\ execObjs' = execObjs /\ object' = object /\ phase' # "ac_ready"
<1>1. CASE initError
  BY <1>1, FailLeaves DEF Teardown, Device!Deactivate, Device!FirstCallFails, Harmless
<1>2. CASE ~initError /\ phase = "ac_ready"
  <2>1. Device!Teardown("deactivate", "loaded")
    BY <1>2 DEF Teardown, Device!Deactivate, Device!FirstCallFails
  <2>2. QED
    BY <1>2, <2>1, TeardownLeaves DEF Teardown
<1>3. CASE ~initError /\ phase # "ac_ready"
  BY <1>3 DEF Teardown, Device!Deactivate, Device!FirstCallFails, Device!Stay,
     Device!Returns, Lose, Types, OwnTypes, DeviceTypes, DeviceRests
<1>4. QED
  BY <1>1, <1>2, <1>3

\* unload() of a program that is not ready.
LEMMA UnloadLeaves ==
  ASSUME Types, DeviceRests, phase # "ac_ready", Teardown(Device!Unload)
  PROVE  /\ DeviceTypes' /\ DeviceRests' /\ Harmless /\ lost' \subseteq Networks
         /\ execObjs' = execObjs /\ object' = object /\ phase' # "ac_ready"
<1>1. CASE initError
  BY <1>1, FailLeaves DEF Teardown, Device!Unload, Device!FirstCallFails
<1>2. CASE ~initError
  BY <1>2 DEF Teardown, Device!Unload, Device!FirstCallFails, Device!Stay, Device!Rest,
     Device!Returns, Lose, Types, OwnTypes, DeviceTypes, DeviceRests, Harmless,
     Device!Phases, Device!LoadedPhases, Device!CreatedPhases
<1>3. QED
  BY <1>1, <1>2

LEMMA EventLeaves ==
  ASSUME Types, DeviceRests, Device!DeviceEvent, Lose
  PROVE  /\ DeviceTypes' /\ DeviceRests' /\ Harmless /\ lost' \subseteq Networks
         /\ execObjs' = execObjs /\ object' = object
         /\ phase' = "ac_ready" => phase = "ac_ready"
<1>1. CASE Device!FirstCallFails("notify")
  BY <1>1, FailLeaves DEF Device!DeviceEvent, Device!FirstCallFails
<1>2. CASE Device!Fail("notify", TRUE)
  BY <1>2, FailLeaves DEF Device!DeviceEvent
<1>3. CASE Device!Rest("notify", TRUE, "created") /\ phase = "device_error"
  BY <1>3 DEF Device!DeviceEvent, Device!Rest, Device!Returns, Lose, Types, OwnTypes,
     DeviceTypes, DeviceRests, Harmless, Device!Phases, Device!CreatedPhases
<1>4. CASE Device!Stay("notify", TRUE)
  BY <1>4 DEF Device!DeviceEvent, Device!Stay, Device!Returns, Lose, Types, OwnTypes,
     DeviceTypes, DeviceRests, Harmless
<1>5. QED
  BY <1>1, <1>2, <1>3, <1>4 DEF Device!DeviceEvent, Device!DeviceDown, Device!DeviceUp

-----------------------------------------------------------------------------
(* What an execution object does to each part when it moves to a stage.    *)

LEMMA MovedTypes ==
  ASSUME Types, NEW e \in ExecObjs, NEW s \in Stages, Go(e, s)
  PROVE  /\ pc' \in [ExecObjs -> Stages]
         /\ pc'[e] = s
         /\ \A f \in ExecObjs \ {e} : pc'[f] = pc[f]
BY DEF Types, OwnTypes, Go

LEMMA MovedListed ==
  ASSUME Types, Listed, NEW e \in ExecObjs, NEW s \in Stages, Go(e, s),
         execObjs' = IF s \in Unlisted THEN execObjs \ {e} ELSE execObjs \cup {e}
  PROVE  Listed'
BY MovedTypes DEF Listed

LEMMA MovedAlone ==
  ASSUME Types, TeardownAlone, NEW e \in ExecObjs, NEW s \in Stages, Go(e, s),
         s \in Bound => pc[e] \in Bound,
         \/ UNCHANGED mutex /\ s # "putting"
         \/ mutex' = Nobody
         \/ mutex' = e /\ s = "activating"
  PROVE  TeardownAlone'
BY MovedTypes, OwnersAssumption DEF TeardownAlone, NobodyBound, Bound

LEMMA MovedUses ==
  ASSUME Types, NetworksInUse, PreparedWhereSubmitted, Harmless,
         NEW e \in ExecObjs, NEW s \in Stages, Go(e, s),
         \A f \in ExecObjs \ {e} : net'[f] = net[f] /\ using'[f] = using[f],
         s \in Bound => InUse(net[e])',
         s \in {"enqueue", "finish", "wait"} =>
           InUse(using[e])' /\ (using'[e] = net'[e] \/ net'[e] \in lost')
  PROVE  NetworksInUse' /\ PreparedWhereSubmitted'
<1>1. \A f \in ExecObjs \ {e} :
        /\ InUse(net[f]) => InUse(net[f])'
        /\ InUse(using[f]) => InUse(using[f])'
  BY DEF InUse, Harmless
<1>2. NetworksInUse'
  BY <1>1, MovedTypes DEF NetworksInUse
<1>3. PreparedWhereSubmitted'
  BY MovedTypes DEF PreparedWhereSubmitted, Harmless
<1>4. QED
  BY <1>2, <1>3

\* Objects with a handle and objects that ask for one are counted apart.
LEMMA CountedApart ==
  ASSUME NEW H \in SUBSET ExecObjs, NEW A \in SUBSET ExecObjs, H \cap A = {}
  PROVE  /\ Cardinality(H) \in Nat /\ Cardinality(A) \in Nat
         /\ Cardinality(H) + Cardinality(A) <= Cardinality(ExecObjs)
         /\ Cardinality(ExecObjs) \in Nat
<1>1. IsFiniteSet(H) /\ IsFiniteSet(A) /\ IsFiniteSet(H \cup A)
  BY ObjectsAssumption, FS_Subset, H \cup A \subseteq ExecObjs
<1>2. Cardinality(H) \in Nat /\ Cardinality(A) \in Nat /\ Cardinality(ExecObjs) \in Nat
  BY <1>1, ObjectsAssumption, FS_CardinalityType
<1>3. Cardinality(H \cup A) = Cardinality(H) + Cardinality(A)
  BY <1>1, <1>2, FS_Union, FS_EmptySet
<1>4. Cardinality(H \cup A) <= Cardinality(ExecObjs)
  BY ObjectsAssumption, FS_Subset, H \cup A \subseteq ExecObjs
<1>5. QED
  BY <1>2, <1>3, <1>4

\* No handle is taken or given back: none is left over, and nobody asks for
\* one once the program is activated by hand.
LEMMA MovedCounted ==
  ASSUME Types, Counted, NEW e \in ExecObjs, NEW s \in Stages, Go(e, s),
         UNCHANGED <<manual, refs>>,
         s \in NoHandle => pc[e] \in NoHandle \/ manual,
         s \in {"load", "get"} => pc[e] \in {"load", "get"} \/ (~manual /\ e \in AutoObjs)
  PROVE  Counted'
<1>1. /\ Holders' \in SUBSET ExecObjs /\ Asking' \in SUBSET ExecObjs
      /\ Holders' \cap Asking' = {}
  BY AutoAssumption DEF Holders, Asking, NoHandle
<1>2. /\ Cardinality(Holders') \in Nat /\ Cardinality(Asking') \in Nat
      /\ Cardinality(Holders') + Cardinality(Asking') <= Cardinality(ExecObjs)
      /\ Cardinality(ExecObjs) \in Nat
  BY <1>1, CountedApart
<1>3. Asking' \subseteq AutoObjs
  BY MovedTypes DEF Asking, Counted
<1>4. CASE manual
  <2>1. Asking' \subseteq Asking
    BY <1>4, MovedTypes DEF Asking
  <2>2. Cardinality(Asking') <= Cardinality(Asking) /\ Cardinality(Asking) \in Nat
    BY <2>1, ObjectsAssumption, FS_Subset, FS_CardinalityType, Asking \subseteq ExecObjs
       DEF Asking
  <2>3. QED
    BY <1>2, <1>3, <1>4, <2>2 DEF Counted, Types, OwnTypes
<1>5. CASE ~manual
  <2>1. Holders \subseteq Holders'
    BY <1>5, MovedTypes, AutoAssumption DEF Holders
  <2>2. Cardinality(Holders) <= Cardinality(Holders') /\ Cardinality(Holders) \in Nat
    BY <1>1, <2>1, ObjectsAssumption, FS_Subset, FS_CardinalityType, Holders \subseteq
       ExecObjs, AutoAssumption DEF Holders
  <2>3. QED
    BY <1>2, <1>3, <1>5, <2>2 DEF Counted, Types, OwnTypes
<1>6. QED
  BY <1>4, <1>5

\* Where only the device, or a thread, moves.
LEMMA StaysCounted ==
  ASSUME Types, Counted, UNCHANGED <<pc, refs>>, manual => manual'
  PROVE  Counted'
BY DEF Counted, Holders, Asking

LEMMA StaysUsed ==
  ASSUME Types, NetworksInUse, PreparedWhereSubmitted, lost \subseteq lost',
         Harmless \/ NobodyBound, UNCHANGED <<pc, net, using>>
  PROVE  NetworksInUse' /\ PreparedWhereSubmitted'
<1>1. CASE Harmless
  BY <1>1 DEF NetworksInUse, PreparedWhereSubmitted, InUse, Harmless
<1>2. CASE NobodyBound
  BY <1>2 DEF NetworksInUse, PreparedWhereSubmitted, NobodyBound, Bound
<1>3. QED
  BY <1>1, <1>2

-----------------------------------------------------------------------------
(* An execution object moves, and nothing changes but what is its own.     *)

LEMMA QuietMove ==
  ASSUME Inv, NEW e \in ExecObjs, NEW s \in Stages \ {"absent", "putting"}, Go(e, s),
         UNCHANGED <<phase, qnn, live, initError, object, program, call, lost>>,
         execObjs' = IF s \in Unlisted THEN execObjs \ {e} ELSE execObjs \cup {e},
         pc[e] = "absent" => object = "alive",
         net' \in [ExecObjs -> Networks \cup {NoNet}],
         using' \in [ExecObjs -> Networks \cup {NoNet}],
         \A f \in ExecObjs \ {e} : net'[f] = net[f] /\ using'[f] = using[f],
         s \in Bound => InUse(net'[e]) /\ (pc[e] \in Bound \/ mutex = Nobody),
         s \in {"enqueue", "finish", "wait"} =>
           InUse(using'[e]) /\ (using'[e] = net'[e] \/ net'[e] \in lost),
         s \in NoHandle => pc[e] \in NoHandle,
         s \in {"load", "get"} => pc[e] \in {"load", "get"} \/ (~manual /\ e \in AutoObjs)
  PROVE  Inv'
<1>1. DeviceTypes' /\ DeviceRests' /\ Harmless
  BY DEF Inv, Types, DeviceTypes, DeviceRests, Harmless
<1>2. OwnTypes'
  BY MovedTypes DEF program, Inv, Types, OwnTypes
<1>3. Listed'
  BY MovedListed DEF Inv
<1>4. Unused' /\ ByHand'
  <2>1. object # "alive" => pc[e] = "absent"
    BY DEF Inv, Unused
  <2>2. QED
    BY <2>1 DEF program, Inv, Unused, ByHand
<1>5. TeardownAlone'
  <2>1. CASE s \in Bound => pc[e] \in Bound
    BY <2>1, MovedAlone DEF program, Inv
  <2>2. CASE mutex = Nobody
    BY <2>2, OwnersAssumption DEF program, TeardownAlone
  <2>3. QED
    BY <2>1, <2>2
<1>6. NetworksInUse' /\ PreparedWhereSubmitted'
  BY <1>1, MovedUses DEF Inv, InUse
<1>7. Counted'
  BY MovedCounted DEF program, Inv
<1>8. DeactivatedWithLast'
  BY MovedTypes DEF program, Inv, DeactivatedWithLast
<1>9. QED
  BY <1>1, <1>2, <1>3, <1>4, <1>5, <1>6, <1>7, <1>8 DEF Inv, Types

LEMMA createExecObjKeeps ==
  ASSUME Inv, NEW e \in ExecObjs, createExecObj(e)
  PROVE  Inv'
BY QuietMove DEF createExecObj, Device!Register, Inv, Types, OwnTypes, Stages, Unlisted,
   Bound, NoHandle

LEMMA initModeKeeps ==
  ASSUME Inv, NEW e \in ExecObjs, initMode(e)
  PROVE  Inv'
<1>1. execObjs' = execObjs \cup {e}
  BY DEF initMode, device, Inv, Listed, Unlisted
<1>2. CASE e \in AutoObjs /\ ~manual
  BY <1>1, <1>2, QuietMove DEF initMode, device, Inv, Types, OwnTypes, Stages, Unlisted,
     Bound, NoHandle
<1>3. CASE ~(e \in AutoObjs /\ ~manual)
  BY <1>1, <1>3, QuietMove DEF initMode, device, Inv, Types, OwnTypes, Stages, Unlisted,
     Bound, NoHandle
<1>4. QED
  BY <1>2, <1>3

LEMMA checkActiveKeeps ==
  ASSUME Inv, NEW e \in ExecObjs, checkActive(e)
  PROVE  Inv'
<1>1. execObjs' = execObjs \cup {e}
  BY DEF checkActive, device, Inv, Listed, Unlisted
<1>2. PICK s \in {"bind", "failed"} : Go(e, s)
  BY DEF checkActive
<1>3. QED
  BY <1>1, <1>2, QuietMove DEF checkActive, device, Inv, Types, OwnTypes, Stages,
     Unlisted, Bound, NoHandle

\* programMutex_ is free, and what the device hands out is in use.
LEMMA bindKeeps ==
  ASSUME Inv, NEW e \in ExecObjs, bind(e)
  PROVE  Inv'
<1>1. execObjs' = execObjs \cup {e}
  BY DEF bind, device, Inv, Listed, Unlisted
<1>2. object = "alive"
  BY DEF bind, Inv, Unused
<1>3. qnn # NoNet => InUse(qnn)
  BY <1>2 DEF Inv, DeviceRests, InUse
<1>4. PICK s \in {"ready", "failed"} : Go(e, s) /\ (s = "ready" => qnn # NoNet)
  BY DEF bind
<1>5. /\ net'[e] = qnn /\ \A f \in ExecObjs \ {e} : net'[f] = net[f]
      /\ net' \in [ExecObjs -> Networks \cup {NoNet}]
  BY DEF bind, Inv, Types, DeviceTypes, OwnTypes
<1>6. QED
  BY <1>1, <1>3, <1>4, <1>5, QuietMove DEF bind, MutexFree, device, Inv, Types, OwnTypes,
     Stages, Unlisted, Bound, NoHandle

LEMMA unregisterExecObjKeeps ==
  ASSUME Inv, NEW e \in ExecObjs, unregisterExecObj(e)
  PROVE  Inv'
<1>1. /\ \A f \in ExecObjs \ {e} : net'[f] = net[f]
      /\ net' \in [ExecObjs -> Networks \cup {NoNet}]
  BY DEF unregisterExecObj, Inv, Types, OwnTypes
<1>2. QED
  BY <1>1, QuietMove DEF unregisterExecObj, Device!Unregister, Inv, Types, OwnTypes,
     Stages, Unlisted, Bound, NoHandle

LEMMA runCheckKeeps ==
  ASSUME Inv, NEW e \in ExecObjs, runCheck(e)
  PROVE  Inv'
<1>1. execObjs' = execObjs \cup {e} /\ InUse(net[e])
  BY DEF runCheck, device, Inv, Listed, Unlisted, NetworksInUse, Bound
<1>2. QED
  BY <1>1, QuietMove DEF runCheck, device, Inv, Types, OwnTypes, Stages, Unlisted, Bound,
     NoHandle

LEMMA preTransformKeeps ==
  ASSUME Inv, NEW e \in ExecObjs, preTransform(e)
  PROVE  Inv'
<1>1. execObjs' = execObjs \cup {e} /\ InUse(net[e])
  BY DEF preTransform, device, Inv, Listed, Unlisted, NetworksInUse, Bound
<1>2. PICK s \in {"submit", "ready"} : Go(e, s)
  BY DEF preTransform
<1>3. QED
  BY <1>1, <1>2, QuietMove DEF preTransform, device, Inv, Types, OwnTypes, Stages,
     Unlisted, Bound, NoHandle

\* The network of the device is that of the creation, unless that one is lost.
LEMMA nnKeeps ==
  ASSUME Inv, NEW e \in ExecObjs,
         NEW from \in {"submit", "finish"}, NEW to \in {"enqueue", "wait"}, nn(e, from, to)
  PROVE  Inv'
<1>1. /\ execObjs' = execObjs \cup {e} /\ InUse(net[e]) /\ net' = net
      /\ object = "alive"
  BY DEF nn, device, Inv, Listed, Unlisted, NetworksInUse, Bound, Unused
<1>2. CASE phase # "device_error" /\ qnn # NoNet
  <2>1. InUse(qnn) /\ (qnn = net[e] \/ net[e] \in lost)
    BY <1>1, <1>2 DEF Inv, DeviceRests, InUse
  <2>2. /\ using'[e] = qnn /\ \A f \in ExecObjs \ {e} : using'[f] = using[f]
        /\ using' \in [ExecObjs -> Networks \cup {NoNet}]
    BY <1>2 DEF nn, Inv, Types, DeviceTypes, OwnTypes
  <2>3. Go(e, to)
    BY <1>2 DEF nn
  <2>4. QED
    BY <1>1, <2>1, <2>2, <2>3, QuietMove DEF nn, device, Inv, Types, OwnTypes, Stages,
       Unlisted, Bound, NoHandle
<1>3. CASE ~(phase # "device_error" /\ qnn # NoNet)
  <2>1. Go(e, "ready") /\ using' = using
    BY <1>3 DEF nn
  <2>2. QED
    BY <1>1, <2>1, QuietMove DEF nn, device, Inv, Types, OwnTypes, Stages, Unlisted,
       Bound, NoHandle
<1>4. QED
  BY <1>2, <1>3

LEMMA enqueueDataKeeps ==
  ASSUME Inv, NEW e \in ExecObjs, enqueueData(e)
  PROVE  Inv'
<1>1. /\ execObjs' = execObjs \cup {e} /\ InUse(net[e]) /\ InUse(using[e])
      /\ using[e] = net[e] \/ net[e] \in lost
  BY DEF enqueueData, device, Inv, Listed, Unlisted, NetworksInUse, Bound,
     PreparedWhereSubmitted
<1>2. PICK s \in {"finish", "ready"} : Go(e, s) /\ (s = "finish" => using' = using)
  BY DEF enqueueData
<1>3. /\ \A f \in ExecObjs \ {e} : using'[f] = using[f]
      /\ using' \in [ExecObjs -> Networks \cup {NoNet}]
  BY DEF enqueueData, Inv, Types, OwnTypes
<1>4. QED
  BY <1>1, <1>2, <1>3, QuietMove DEF enqueueData, device, Inv, Types, OwnTypes, Stages,
     Unlisted, Bound, NoHandle

LEMMA waitKeeps ==
  ASSUME Inv, NEW e \in ExecObjs, wait(e)
  PROVE  Inv'
<1>1. execObjs' = execObjs \cup {e} /\ InUse(net[e])
  BY DEF wait, device, Inv, Listed, Unlisted, NetworksInUse, Bound
<1>2. /\ \A f \in ExecObjs \ {e} : using'[f] = using[f]
      /\ using' \in [ExecObjs -> Networks \cup {NoNet}]
  BY DEF wait, Inv, Types, OwnTypes
<1>3. QED
  BY <1>1, <1>2, QuietMove DEF wait, device, Inv, Types, OwnTypes, Stages, Unlisted,
     Bound, NoHandle

-----------------------------------------------------------------------------
(* An execution object that asks for the program to be loaded or activated. *)

LEMMA CallMove ==
  ASSUME Inv, NEW e \in ExecObjs, pc[e] \in {"load", "activate", "activating"},
         NEW s \in {"get", "failed", "activating", "check"}, Go(e, s),
         s = "get" => pc[e] = "load",
         DeviceTypes', DeviceRests', Harmless, UNCHANGED <<lost, execObjs, object>>,
         UNCHANGED <<manual, refs, call, net, using>>,
         \/ UNCHANGED mutex
         \/ mutex' = Nobody
         \/ mutex' = e /\ s = "activating"
  PROVE  Inv'
<1>1. OwnTypes'
  BY MovedTypes DEF Inv, Types, OwnTypes, Stages
<1>2. Listed'
  <2>1. execObjs' = execObjs \cup {e}
    BY DEF Inv, Listed, Unlisted
  <2>2. QED
    BY <2>1, MovedListed DEF Inv, Stages, Unlisted
<1>3. Unused' /\ ByHand'
  BY DEF Inv, Unused, ByHand
<1>4. TeardownAlone'
  BY MovedAlone DEF Inv, Stages, Bound
<1>5. NetworksInUse' /\ PreparedWhereSubmitted'
  BY MovedUses DEF Inv, Stages, Bound
<1>6. Counted'
  BY MovedCounted DEF Inv, Stages, NoHandle
<1>7. DeactivatedWithLast'
  <2>1. pc'[e] # "absent"
    BY MovedTypes DEF Inv, Stages
  <2>2. QED
    BY <2>1 DEF DeactivatedWithLast
<1>8. QED
  BY <1>1, <1>2, <1>3, <1>4, <1>5, <1>6, <1>7 DEF Inv, Types

LEMMA loadKeeps ==
  ASSUME Inv, NEW e \in ExecObjs, load(e)
  PROVE  Inv'
<1>1. PICK s \in {"get", "failed"} : Go(e, s)
  BY DEF load
<1>2. DeviceTypes' /\ DeviceRests' /\ Harmless /\ UNCHANGED <<lost, execObjs, object>>
  BY LoadLeaves DEF load, Inv
<1>3. QED
  BY <1>1, <1>2, CallMove DEF load, program

LEMMA shareOrLoadKeeps ==
  ASSUME Inv, NEW e \in ExecObjs, shareOrLoad(e)
  PROVE  Inv'
<1>1. CASE Go(e, "check") /\ UNCHANGED <<device, mutex, lost>>
  <2>1. DeviceTypes' /\ DeviceRests' /\ Harmless
    BY <1>1 DEF device, Inv, Types, DeviceTypes, DeviceRests, Harmless
  <2>2. QED
    BY <1>1, <2>1, CallMove DEF shareOrLoad, device
<1>2. CASE DeviceCall(Device!Load) /\ mutex' = e /\ Go(e, "activating")
  <2>1. DeviceTypes' /\ DeviceRests' /\ Harmless /\ UNCHANGED <<lost, execObjs, object>>
    BY <1>2, LoadLeaves DEF Inv
  <2>2. QED
    BY <1>2, <2>1, CallMove DEF shareOrLoad
<1>3. QED
  BY <1>1, <1>2 DEF shareOrLoad

LEMMA activateKeeps ==
  ASSUME Inv, NEW e \in ExecObjs, activate(e)
  PROVE  Inv'
<1>1. PICK s \in {"check", "failed"} : Go(e, s)
  BY DEF activate
<1>2. DeviceTypes' /\ DeviceRests' /\ Harmless /\ UNCHANGED <<lost, execObjs, object>>
  BY ActivateLeaves DEF activate, Inv
<1>3. QED
  BY <1>1, <1>2, CallMove DEF activate

-----------------------------------------------------------------------------
(* Handles are taken and given back.                                       *)

\* What a step leaves alone that changes nothing of the device.
LEMMA SameDevice ==
  ASSUME Inv, UNCHANGED <<phase, qnn, live, initError, object, lost>>
  PROVE  DeviceTypes' /\ DeviceRests' /\ Harmless
BY DEF Inv, Types, DeviceTypes, DeviceRests, Harmless

LEMMA getActivationHandleKeeps ==
  ASSUME Inv, NEW e \in ExecObjs, getActivationHandle(e)
  PROVE  Inv'
<1>0. Go(e, "activate") /\ "activate" \in Stages
  BY DEF getActivationHandle, Stages
<1>1. DeviceTypes' /\ DeviceRests' /\ Harmless
  BY SameDevice DEF getActivationHandle, device
<1>2. OwnTypes'
  BY <1>0, MovedTypes DEF getActivationHandle, Inv, Types, OwnTypes
<1>3. Listed'
  <2>1. execObjs' = execObjs \cup {e}
    BY DEF getActivationHandle, device, Inv, Listed, Unlisted
  <2>2. QED
    BY <1>0, <2>1, MovedListed DEF Inv, Unlisted
<1>4. Unused' /\ ByHand'
  BY DEF getActivationHandle, device, Inv, Unused, ByHand
<1>5. TeardownAlone'
  BY <1>0, MovedAlone DEF getActivationHandle, Inv, Bound
<1>6. NetworksInUse' /\ PreparedWhereSubmitted'
  BY <1>0, <1>1, MovedUses DEF getActivationHandle, Inv, Bound
<1>7. Counted'
  <2>1. /\ Asking \subseteq ExecObjs /\ e \in Asking /\ Asking' = Asking \ {e}
        /\ Holders \subseteq ExecObjs /\ e \notin Holders
        /\ Holders' = IF e \in AutoObjs THEN Holders \cup {e} ELSE Holders
    BY <1>0, MovedTypes, AutoAssumption
       DEF getActivationHandle, Inv, Asking, Holders, NoHandle
  <2>2. /\ IsFiniteSet(Asking) /\ Cardinality(Asking) \in Nat
        /\ IsFiniteSet(Holders) /\ Cardinality(Holders) \in Nat
        /\ Cardinality(ExecObjs) \in Nat
    BY <2>1, ObjectsAssumption, FS_Subset, FS_CardinalityType
  <2>3. Cardinality(Asking') = Cardinality(Asking) - 1
    BY <2>1, <2>2, FS_RemoveElement
  <2>4. e \in AutoObjs
    BY DEF getActivationHandle, Inv, Counted, Asking
  <2>5. Cardinality(Holders') = Cardinality(Holders) + 1
    BY <2>1, <2>2, <2>4, FS_AddElement
  <2>6. Asking' \subseteq AutoObjs
    BY <2>1 DEF Inv, Counted
  <2>7. QED
    BY <2>2, <2>3, <2>5, <2>6 DEF getActivationHandle, Inv, Types, OwnTypes, Counted
<1>8. DeactivatedWithLast'
  <2>1. pc'[e] # "absent"
    BY <1>0, MovedTypes DEF Inv
  <2>2. QED
    BY <2>1 DEF DeactivatedWithLast
<1>9. QED
  BY <1>1, <1>2, <1>3, <1>4, <1>5, <1>6, <1>7, <1>8 DEF Inv, Types

\* Outside the count, or without a handle of one's own, the count only errs
\* downwards; whoever is the last to give one back finds it empty.
LEMMA putActivationHandleKeeps ==
  ASSUME Inv, NEW e \in ExecObjs, putActivationHandle(e)
  PROVE  Inv'
<1>0. PICK s \in {"put", "absent"} : Go(e, s)
  BY DEF putActivationHandle
<1>1. DeviceTypes' /\ DeviceRests' /\ Harmless
  BY SameDevice DEF putActivationHandle, device
<1>2. OwnTypes'
  <2>1. refs' \in Nat
    BY DEF putActivationHandle, Inv, Types, OwnTypes
  <2>2. QED
    BY <1>0, <2>1, MovedTypes DEF putActivationHandle, Inv, Types, OwnTypes, Stages
<1>3. Listed'
  <2>1. execObjs' = execObjs \ {e}
    BY DEF putActivationHandle, device, Inv, Listed, Unlisted
  <2>2. QED
    BY <1>0, <2>1, MovedListed DEF Inv, Unlisted, Stages
<1>4. Unused' /\ ByHand'
  BY DEF putActivationHandle, device, Inv, Unused, ByHand
<1>5. TeardownAlone'
  BY <1>0, MovedAlone DEF putActivationHandle, Inv, Bound, Stages
<1>6. NetworksInUse' /\ PreparedWhereSubmitted'
  BY <1>0, <1>1, MovedUses DEF putActivationHandle, Inv, Bound, Stages
<1>7. /\ Asking' = Asking /\ Asking \subseteq ExecObjs
      /\ Holders' = Holders \ {e} /\ Holders \subseteq ExecObjs
      /\ e \in AutoObjs => e \in Holders
  BY <1>0, MovedTypes, AutoAssumption
     DEF putActivationHandle, Inv, Stages, Asking, Holders, NoHandle
<1>8. /\ IsFiniteSet(Holders) /\ Cardinality(Holders) \in Nat
      /\ IsFiniteSet(Holders') /\ Cardinality(Holders') \in Nat
      /\ Cardinality(Asking) \in Nat /\ Cardinality(ExecObjs) \in Nat
  BY <1>7, ObjectsAssumption, FS_Subset, FS_CardinalityType
<1>9. e \in AutoObjs => Cardinality(Holders') = Cardinality(Holders) - 1
  BY <1>7, <1>8, FS_RemoveElement
<1>10. e \notin AutoObjs => Holders' = Holders
  BY <1>7 DEF Holders
<1>11. Counted'
  <2>1. CASE e \in AutoObjs /\ ~manual
    BY <1>7, <1>8, <1>9, <2>1 DEF putActivationHandle, Inv, Types, OwnTypes, Counted
  <2>2. CASE e \notin AutoObjs
    BY <1>7, <1>10, <2>2 DEF putActivationHandle, Inv, Types, OwnTypes, Counted
  <2>3. CASE manual
    BY <1>7, <2>3 DEF putActivationHandle, Inv, Types, OwnTypes, Counted
  <2>4. QED
    BY <2>1, <2>2, <2>3
<1>12. DeactivatedWithLast'
  <2>1. SUFFICES ASSUME ~manual', AutoObjs = ExecObjs, pc'[e] = "absent"
                 PROVE  \E f \in ExecObjs : pc'[f] # "absent"
    BY DEF DeactivatedWithLast
  <2>2. refs' # 0
    BY <1>0, <2>1, MovedTypes DEF putActivationHandle, Go, Inv, Types, OwnTypes
  <2>3. refs' <= Cardinality(Holders') /\ refs' \in Nat
    BY <1>2, <1>11, <2>1 DEF Counted, OwnTypes
  <2>4. Holders' # {}
    BY <1>8, <2>2, <2>3, FS_EmptySet
  <2>5. QED
    BY <2>1, <2>4 DEF Holders, NoHandle
<1>13. QED
  BY <1>1, <1>2, <1>3, <1>4, <1>5, <1>6, <1>11, <1>12 DEF Inv, Types

\* Either somebody is there, or nobody is bound and nobody will be.
LEMMA putCheckKeeps ==
  ASSUME Inv, NEW e \in ExecObjs, putCheck(e)
  PROVE  Inv'
<1>0. PICK s \in {"absent", "putting"} : Go(e, s)
  BY DEF putCheck
<1>1. DeviceTypes' /\ DeviceRests' /\ Harmless
  BY SameDevice DEF putCheck, device
<1>2. OwnTypes'
  BY <1>0, MovedTypes DEF putCheck, Inv, Types, OwnTypes, Stages
<1>3. Listed'
  <2>1. execObjs' = execObjs \ {e}
    BY DEF putCheck, device, Inv, Listed, Unlisted
  <2>2. QED
    BY <1>0, <2>1, MovedListed DEF Inv, Unlisted, Stages
<1>4. Unused' /\ ByHand'
  BY DEF putCheck, device, Inv, Unused, ByHand
<1>5. TeardownAlone' /\ DeactivatedWithLast'
  <2>1. CASE execObjs # {}
    <3>1. Go(e, "absent") /\ mutex' = mutex
      BY <2>1 DEF putCheck
    <3>2. TeardownAlone'
      BY <3>1, MovedAlone DEF Inv, Bound, Stages
    <3>3. PICK f \in ExecObjs \ {e} : pc[f] # "absent"
      BY <2>1 DEF putCheck, Inv, Listed, Unlisted
    <3>4. pc'[f] # "absent"
      BY <3>1, <3>3, MovedTypes DEF Inv, Stages
    <3>5. QED
      BY <3>2, <3>4 DEF DeactivatedWithLast
  <2>2. CASE execObjs = {}
    <3>1. Go(e, "putting")
      BY <2>2 DEF putCheck
    <3>2. NobodyBound
      BY <2>2 DEF Inv, Listed, Unlisted, NobodyBound, Bound
    <3>3. NobodyBound' /\ pc'[e] # "absent"
      BY <3>1, <3>2, MovedTypes DEF Inv, Stages, NobodyBound, Bound
    <3>4. QED
      BY <3>3 DEF TeardownAlone, DeactivatedWithLast
  <2>3. QED
    BY <2>1, <2>2
<1>6. NetworksInUse' /\ PreparedWhereSubmitted'
  BY <1>0, <1>1, MovedUses DEF putCheck, Inv, Bound, Stages
<1>7. Counted'
  BY <1>0, MovedCounted DEF putCheck, Inv, Stages, NoHandle
<1>8. QED
  BY <1>1, <1>2, <1>3, <1>4, <1>5, <1>6, <1>7 DEF Inv, Types

LEMMA putDeactivateKeeps ==
  ASSUME Inv, NEW e \in ExecObjs, putDeactivate(e)
  PROVE  Inv'
<1>0. Go(e, "absent") /\ "absent" \in Stages
  BY DEF putDeactivate, Stages
<1>1. /\ DeviceTypes' /\ DeviceRests' /\ lost \subseteq lost' /\ lost' \subseteq Networks
      /\ execObjs' = execObjs /\ object' = object /\ phase' # "ac_ready"
  BY DeactivateLeaves DEF putDeactivate, Inv
<1>2. OwnTypes'
  BY <1>0, <1>1, MovedTypes DEF putDeactivate, Inv, Types, OwnTypes
<1>3. Listed'
  <2>1. execObjs' = execObjs \ {e}
    BY <1>1 DEF putDeactivate, Inv, Listed, Unlisted
  <2>2. QED
    BY <1>0, <2>1, MovedListed DEF Inv, Unlisted
<1>4. Unused' /\ ByHand'
  BY <1>1 DEF putDeactivate, Inv, Unused, ByHand
<1>5. TeardownAlone'
  BY <1>0, MovedAlone DEF putDeactivate, Inv, Bound
<1>6. NetworksInUse' /\ PreparedWhereSubmitted'
  <2>1. NobodyBound
    BY DEF putDeactivate, Inv, TeardownAlone
  <2>2. NobodyBound'
    BY <1>0, <2>1, MovedTypes DEF Inv, NobodyBound, Bound
  <2>3. QED
    BY <2>2 DEF NetworksInUse, PreparedWhereSubmitted, NobodyBound, Bound
<1>7. Counted'
  BY <1>0, MovedCounted DEF putDeactivate, Inv, NoHandle
<1>8. DeactivatedWithLast'
  BY <1>1 DEF DeactivatedWithLast
<1>9. QED
  BY <1>1, <1>2, <1>3, <1>4, <1>5, <1>6, <1>7, <1>8 DEF Inv, Types

-----------------------------------------------------------------------------
(* The program API, and the device.                                        *)

\* A step that moves no execution object.
LEMMA OtherStep ==
  ASSUME Inv, DeviceTypes', DeviceRests', lost \subseteq lost', lost' \subseteq Networks,
         UNCHANGED <<execObjs, refs, pc, net, using>>,
         Harmless \/ NobodyBound, manual' \in BOOLEAN, manual => manual',
         call' \in [Threads -> Calls], mutex' \in ExecObjs \cup Threads \cup {Nobody}
  PROVE  Types' /\ Listed' /\ NetworksInUse' /\ PreparedWhereSubmitted' /\ Counted'
<1>1. Types'
  BY DEF Inv, Types, OwnTypes
<1>2. Listed'
  BY DEF Inv, Listed
<1>3. QED
  BY <1>1, <1>2, StaysUsed, StaysCounted DEF Inv

\* ... and does not begin to tear down.
LEMMA OtherCall ==
  ASSUME Inv, DeviceTypes', DeviceRests', lost \subseteq lost', lost' \subseteq Networks,
         UNCHANGED <<execObjs, object, manual, refs, pc, net, using>>,
         Harmless \/ NobodyBound, phase' = "ac_ready" => phase = "ac_ready" \/ manual,
         mutex' \in {mutex, Nobody},
         call' \in [Threads -> Calls],
         \A t \in Threads : call'[t] \in {call[t], "idle"}
  PROVE  Inv'
<1>1. /\ Types' /\ Listed' /\ NetworksInUse' /\ PreparedWhereSubmitted' /\ Counted'
  <2>1. /\ manual' \in BOOLEAN
        /\ mutex' \in ExecObjs \cup Threads \cup {Nobody}
    BY DEF Inv, Types, OwnTypes
  <2>2. QED
    BY <2>1, OtherStep
<1>2. Unused' /\ ByHand'
  BY DEF Inv, Unused, ByHand
<1>3. TeardownAlone'
  BY OwnersAssumption DEF Inv, TeardownAlone, NobodyBound
<1>4. DeactivatedWithLast'
  BY DEF Inv, DeactivatedWithLast
<1>5. QED
  BY <1>1, <1>2, <1>3, <1>4, DeviceTypes', DeviceRests' DEF Inv

LEMMA apiLoadKeeps ==
  ASSUME Inv, NEW t \in Threads, apiLoad(t)
  PROVE  Inv'
<1>1. /\ DeviceTypes' /\ DeviceRests' /\ Harmless
      /\ lost' = lost /\ execObjs' = execObjs /\ object' = object
      /\ phase' = "ac_ready" => phase = "ac_ready"
  BY LoadLeaves DEF apiLoad, Inv
<1>2. QED
  BY <1>1, OtherCall DEF apiLoad, program, Inv, Types, OwnTypes

LEMMA apiUnloadKeeps ==
  ASSUME Inv, NEW t \in Threads, apiUnload(t)
  PROVE  Inv'
<1>1. CASE execObjs = {} /\ mutex' = t /\ UNCHANGED <<device, lost>>
           /\ call' = [call EXCEPT ![t] = "unloading"]
  <2>1. NobodyBound
    BY <1>1 DEF Inv, Listed, Unlisted, NobodyBound, Bound
  <2>2. DeviceTypes' /\ DeviceRests' /\ Harmless
    BY <1>1, SameDevice DEF device
  <2>3. Types' /\ Listed' /\ NetworksInUse' /\ PreparedWhereSubmitted' /\ Counted'
    <3>1. call' \in [Threads -> Calls]
      BY <1>1 DEF Inv, Types, OwnTypes, Calls
    <3>2. QED
      BY <1>1, <2>2, <3>1, OtherStep DEF apiUnload, device, Inv, Types, OwnTypes
  <2>4. Unused' /\ ByHand' /\ TeardownAlone' /\ DeactivatedWithLast'
    BY <1>1, <2>1 DEF apiUnload, device, Inv, Types, OwnTypes, Unused, ByHand,
       TeardownAlone, NobodyBound, DeactivatedWithLast
  <2>5. QED
    BY <2>2, <2>3, <2>4 DEF Inv
<1>2. CASE Device!Stay("unload", FALSE) /\ UNCHANGED <<execObjs, object, mutex, call, lost>>
  <2>1. UNCHANGED <<phase, qnn, live, initError>>
    BY <1>2 DEF Device!Stay
  <2>2. DeviceTypes' /\ DeviceRests' /\ Harmless
    BY <1>2, <2>1, SameDevice
  <2>3. QED
    BY <1>2, <2>1, <2>2, OtherCall DEF apiUnload, Inv, Types, OwnTypes
<1>3. CASE phase # "ac_ready" /\ Teardown(Device!Unload) /\ UNCHANGED <<mutex, call>>
  <2>1. /\ DeviceTypes' /\ DeviceRests' /\ Harmless /\ lost' \subseteq Networks
        /\ execObjs' = execObjs /\ object' = object /\ phase' # "ac_ready"
    BY <1>3, UnloadLeaves DEF Inv
  <2>2. QED
    BY <1>3, <2>1, OtherCall DEF apiUnload, Harmless, Inv, Types, OwnTypes
<1>4. QED
  BY <1>1, <1>2, <1>3 DEF apiUnload

LEMMA apiUnloadTeardownKeeps ==
  ASSUME Inv, NEW t \in Threads, apiUnloadTeardown(t)
  PROVE  Inv'
<1>1. NobodyBound
  BY DEF apiUnloadTeardown, Inv, TeardownAlone
<1>2. /\ DeviceTypes' /\ DeviceRests' /\ lost \subseteq lost' /\ lost' \subseteq Networks
      /\ execObjs' = execObjs /\ object' = object /\ phase' # "ac_ready"
  BY TeardownLeaves DEF apiUnloadTeardown, Inv
<1>3. /\ call' \in [Threads -> Calls]
      /\ \A u \in Threads : call'[u] \in {call[u], "idle"}
  BY DEF apiUnloadTeardown, Inv, Types, OwnTypes, Calls
<1>4. QED
  BY <1>1, <1>2, <1>3, OtherCall DEF apiUnloadTeardown

LEMMA apiActivateFlagKeeps ==
  ASSUME Inv, NEW t \in Threads, apiActivateFlag(t)
  PROVE  Inv'
<1>1. DeviceTypes' /\ DeviceRests' /\ Harmless
  BY SameDevice DEF apiActivateFlag, device
<1>2. Types' /\ Listed' /\ NetworksInUse' /\ PreparedWhereSubmitted' /\ Counted'
  <2>1. call' \in [Threads -> Calls]
    BY DEF apiActivateFlag, Inv, Types, OwnTypes, Calls
  <2>2. QED
    BY <1>1, <2>1, OtherStep DEF apiActivateFlag, device, Inv, Types, OwnTypes
<1>3. Unused' /\ ByHand' /\ TeardownAlone' /\ DeactivatedWithLast'
  BY DEF apiActivateFlag, device, Inv, Types, OwnTypes, Unused, ByHand, TeardownAlone,
     NobodyBound, DeactivatedWithLast
<1>4. QED
  BY <1>1, <1>2, <1>3 DEF Inv

LEMMA apiActivateKeeps ==
  ASSUME Inv, NEW t \in Threads, apiActivate(t)
  PROVE  Inv'
<1>1. /\ DeviceTypes' /\ DeviceRests' /\ Harmless
      /\ lost' = lost /\ execObjs' = execObjs /\ object' = object
  BY ActivateLeaves DEF apiActivate, Inv
<1>2. /\ call' \in [Threads -> Calls] /\ manual
      /\ \A u \in Threads : call'[u] \in {call[u], "idle"}
  BY DEF apiActivate, Inv, Types, OwnTypes, Calls, ByHand
<1>3. QED
  BY <1>1, <1>2, OtherCall DEF apiActivate, program, Inv, Types, OwnTypes

LEMMA apiDeactivateCheckKeeps ==
  ASSUME Inv, NEW t \in Threads, apiDeactivateCheck(t)
  PROVE  Inv'
<1>1. NobodyBound
  BY DEF apiDeactivateCheck, Inv, Listed, Unlisted, NobodyBound, Bound
<1>2. DeviceTypes' /\ DeviceRests' /\ Harmless
  BY SameDevice DEF apiDeactivateCheck, device
<1>3. Types' /\ Listed' /\ NetworksInUse' /\ PreparedWhereSubmitted' /\ Counted'
  <2>1. call' \in [Threads -> Calls]
    BY DEF apiDeactivateCheck, Inv, Types, OwnTypes, Calls
  <2>2. QED
    BY <1>2, <2>1, OtherStep DEF apiDeactivateCheck, device, Inv, Types, OwnTypes
<1>4. Unused' /\ ByHand' /\ TeardownAlone' /\ DeactivatedWithLast'
  BY <1>1 DEF apiDeactivateCheck, device, Inv, Types, OwnTypes, Unused, ByHand,
     TeardownAlone, NobodyBound, DeactivatedWithLast
<1>5. QED
  BY <1>2, <1>3, <1>4 DEF Inv

LEMMA apiDeactivateKeeps ==
  ASSUME Inv, NEW t \in Threads, apiDeactivate(t)
  PROVE  Inv'
<1>1. NobodyBound
  BY DEF apiDeactivate, Inv, TeardownAlone
<1>2. /\ DeviceTypes' /\ DeviceRests' /\ lost \subseteq lost' /\ lost' \subseteq Networks
      /\ execObjs' = execObjs /\ object' = object /\ phase' # "ac_ready"
  BY DeactivateLeaves DEF apiDeactivate, Inv
<1>3. /\ call' \in [Threads -> Calls]
      /\ \A u \in Threads : call'[u] \in {call[u], "idle"}
  BY DEF apiDeactivate, Inv, Types, OwnTypes, Calls
<1>4. QED
  BY <1>1, <1>2, <1>3, OtherCall DEF apiDeactivate

LEMMA deviceEventKeeps ==
  ASSUME Inv, deviceEvent
  PROVE  Inv'
<1>1. /\ DeviceTypes' /\ DeviceRests' /\ Harmless /\ lost' \subseteq Networks
      /\ execObjs' = execObjs /\ object' = object
      /\ phase' = "ac_ready" => phase = "ac_ready"
  BY EventLeaves DEF deviceEvent, Inv
<1>2. QED
  BY <1>1, OtherCall DEF deviceEvent, program, Harmless, Inv, Types, OwnTypes

\* Nothing is left that could use the network.
LEMMA destroyProgramKeeps ==
  ASSUME Inv, destroyProgram
  PROVE  Inv'
<1>1. NobodyBound
  BY DEF destroyProgram, NobodyBound, Bound
<1>2. DeviceTypes' /\ DeviceRests' /\ phase' # "ac_ready"
  <2>1. CASE phase = "ac_ready" /\ Device!Teardown("destroy", "loaded")
    BY <2>1, NetworksAssumption DEF destroyProgram, Device!Destroy, Device!Teardown,
       Device!Fail, Device!TornDown, Device!Kept, Device!Returns, Inv, Types, DeviceTypes,
       DeviceRests, Device!Phases, Device!LoadedPhases, Device!CreatedPhases
  <2>2. CASE phase # "ac_ready" /\ UNCHANGED <<phase, qnn, live, initError, last>>
    BY <2>2 DEF destroyProgram, Device!Destroy, Inv, Types, DeviceTypes, DeviceRests
  <2>3. CASE phase # "ac_ready" /\ ~initError /\ Device!Stay("destroy", TRUE)
    BY <2>3 DEF destroyProgram, Device!Destroy, Device!Stay, Device!Returns, Inv, Types,
       DeviceTypes, DeviceRests
  <2>4. QED
    BY <2>1, <2>2, <2>3 DEF destroyProgram, Device!Destroy
<1>3. Types' /\ Listed' /\ NetworksInUse' /\ PreparedWhereSubmitted' /\ Counted'
  <2>1. execObjs' = execObjs
    BY DEF destroyProgram, Device!Destroy
  <2>2. QED
    BY <1>1, <1>2, <2>1, OtherStep DEF destroyProgram, program, Inv, Types, OwnTypes
<1>4. Unused' /\ ByHand' /\ TeardownAlone' /\ DeactivatedWithLast'
  BY <1>1, <1>2 DEF destroyProgram, program, Inv, Types, OwnTypes, Unused, ByHand,
     TeardownAlone, NobodyBound, DeactivatedWithLast
<1>5. QED
  BY <1>2, <1>3, <1>4 DEF Inv

LEMMA programGoneKeeps ==
  ASSUME Inv, programGone
  PROVE  Inv'
<1>1. DeviceTypes' /\ DeviceRests' /\ Harmless
  BY DEF programGone, Device!Vanish, Inv, Types, DeviceTypes, DeviceRests, Harmless
<1>2. Types' /\ Listed' /\ NetworksInUse' /\ PreparedWhereSubmitted' /\ Counted'
  BY <1>1, OtherStep DEF programGone, Device!Vanish, program, Inv, Types, OwnTypes
<1>3. Unused' /\ ByHand' /\ TeardownAlone' /\ DeactivatedWithLast'
  BY DEF programGone, Device!Vanish, program, Inv, Types, OwnTypes, Unused, ByHand,
     TeardownAlone, NobodyBound, DeactivatedWithLast
<1>4. QED
  BY <1>1, <1>2, <1>3 DEF Inv

-----------------------------------------------------------------------------
(* The theorems.                                                           *)

LEMMA InitInv == Init => Inv
<1> SUFFICES ASSUME Init PROVE Inv
  OBVIOUS
<1>1. Types /\ DeviceRests /\ Unused /\ TeardownAlone /\ NetworksInUse
      /\ PreparedWhereSubmitted /\ ByHand /\ DeactivatedWithLast
  BY NetworksAssumption, OwnersAssumption DEF Init, Device!Init, Types, DeviceTypes,
     OwnTypes, Device!Phases, Device!CreatedPhases, Device!LoadedPhases, Stages, Calls,
     DeviceRests, Unused, TeardownAlone, NobodyBound, NetworksInUse,
     PreparedWhereSubmitted, Bound, ByHand, DeactivatedWithLast
<1>2. Listed
  BY DEF Init, Device!Init, Listed, Unlisted
<1>3. Counted
  <2>1. Holders = {} /\ Asking = {}
    BY AutoAssumption DEF Init, Holders, Asking, NoHandle
  <2>2. Cardinality(Holders) = 0 /\ Cardinality(Asking) = 0
    BY <2>1, FS_EmptySet
  <2>3. Cardinality(ExecObjs) \in Nat
    BY ObjectsAssumption, FS_CardinalityType
  <2>4. Asking \subseteq AutoObjs
    BY <2>1
  <2>5. QED
    BY <2>2, <2>3, <2>4 DEF Init, Counted
<1>4. QED
  BY <1>1, <1>2, <1>3 DEF Inv

LEMMA NextInv == Inv /\ [Next]_vars => Inv'
<1> SUFFICES ASSUME Inv, [Next]_vars PROVE Inv'
  OBVIOUS
<1>1. ASSUME NEW e \in ExecObjs, ExecObjStep(e)
      PROVE  Inv'
  <2>1. CASE \/ createExecObj(e) \/ initMode(e) \/ checkActive(e) \/ bind(e)
             \/ unregisterExecObj(e)
    BY <2>1, createExecObjKeeps, initModeKeeps, checkActiveKeeps, bindKeeps,
       unregisterExecObjKeeps
  <2>2. CASE load(e) \/ getActivationHandle(e) \/ shareOrLoad(e) \/ activate(e)
    BY <2>2, loadKeeps, getActivationHandleKeeps, shareOrLoadKeeps, activateKeeps
  <2>3. CASE putActivationHandle(e) \/ putCheck(e) \/ putDeactivate(e)
    BY <2>3, putActivationHandleKeeps, putCheckKeeps, putDeactivateKeeps
  <2>4. CASE submit(e) \/ finish(e)
    BY <2>4, nnKeeps DEF submit, finish
  <2>5. CASE runCheck(e) \/ preTransform(e) \/ enqueueData(e) \/ wait(e)
    BY <2>5, runCheckKeeps, preTransformKeeps, enqueueDataKeeps, waitKeeps
  <2>6. QED
    BY <1>1, <2>1, <2>2, <2>3, <2>4, <2>5 DEF ExecObjStep
<1>2. ASSUME NEW t \in Threads, ApiStep(t)
      PROVE  Inv'
  <2>1. CASE apiLoad(t) \/ apiUnload(t) \/ apiUnloadTeardown(t)
    BY <2>1, apiLoadKeeps, apiUnloadKeeps, apiUnloadTeardownKeeps
  <2>2. CASE apiActivateFlag(t) \/ apiActivate(t)
    BY <2>2, apiActivateFlagKeeps, apiActivateKeeps
  <2>3. CASE apiDeactivateCheck(t) \/ apiDeactivate(t)
    BY <2>3, apiDeactivateCheckKeeps, apiDeactivateKeeps
  <2>4. QED
    BY <1>2, <2>1, <2>2, <2>3 DEF ApiStep
<1>3. CASE deviceEvent \/ destroyProgram \/ programGone
  BY <1>3, deviceEventKeeps, destroyProgramKeeps, programGoneKeeps
<1>4. CASE UNCHANGED vars
  <2>1. DeviceTypes' /\ DeviceRests' /\ Harmless
    BY <1>4, SameDevice DEF vars, device
  <2>2. Types' /\ Listed' /\ NetworksInUse' /\ PreparedWhereSubmitted' /\ Counted'
    BY <1>4, <2>1, OtherStep DEF vars, device, program, Inv, Types, OwnTypes
  <2>3. Unused' /\ ByHand' /\ TeardownAlone' /\ DeactivatedWithLast'
    BY <1>4 DEF vars, device, program, Inv, Unused, ByHand, TeardownAlone, NobodyBound,
       DeactivatedWithLast
  <2>4. QED
    BY <2>1, <2>2, <2>3 DEF Inv
<1>5. QED
  BY <1>1, <1>2, <1>3, <1>4 DEF Next, Gone

LEMMA Invariant == Spec => []Inv
BY InitInv, NextInv, PTL DEF Spec

\* Every variable has its type; no more handles are counted than there are
\* execution objects, although destructors give back handles never taken and
\* keep those of a program that was activated by hand.
THEOREM TypeCorrect == Spec => []TypeOK
<1>1. Inv => TypeOK
  <2> SUFFICES ASSUME Inv PROVE TypeOK
    OBVIOUS
  <2>1. Asking \in SUBSET ExecObjs /\ {} \in SUBSET ExecObjs /\ {} \cap Asking = {}
    BY DEF Asking
  <2>2. Cardinality(Asking) \in Nat /\ Cardinality(ExecObjs) \in Nat
    BY <2>1, CountedApart
  <2>3. refs \in 0..Cardinality(ExecObjs)
    BY <2>2 DEF Inv, Types, OwnTypes, Counted
  <2>4. QED
    BY <2>3 DEF Inv, Types, OwnTypes, TypeOK
<1>2. QED
  BY <1>1, Invariant, PTL

\* QExecObj, QProgram: no call of any thread takes the network away from an
\* execution object that was created on it, although deactivate(), unload()
\* and the last handle look at execObjs_ before the device is locked.
THEOREM NetworksAreKept == Spec => []ExecObjsKeepNetwork
<1>1. Inv => ExecObjsKeepNetwork
  BY DEF Inv, DeviceRests, NetworksInUse, InUse, ExecObjsKeepNetwork
<1>2. QED
  BY <1>1, Invariant, PTL

\* QExecObj::run: an inference is submitted to the network it was prepared on,
\* unless a device error took that one in between.
THEOREM SubmittedWherePrepared == Spec => []PreparedWhereSubmitted
<1>1. Inv => PreparedWhereSubmitted
  BY DEF Inv
<1>2. QED
  BY <1>1, Invariant, PTL

\* QProgram::putActivationHandle: for all its errors the count lets the last
\* execution object deactivate the program.
THEOREM LastDeactivates == Spec => []DeactivatedWithLast
<1>1. Inv => DeactivatedWithLast
  BY DEF Inv
<1>2. QED
  BY <1>1, Invariant, PTL

=============================================================================
