-------------------------- MODULE ProgramLifecycle --------------------------
(***************************************************************************)
(* What QProgramDevice promises: every call and every device event is one  *)
(* atomic step between resting points of the program, and the status a     *)
(* call returns says where it got to.  No queue, no transitional state, no *)
(* lock.  ProgramDevice implements it (its property ImplementsLifecycle).  *)
(***************************************************************************)
CONSTANTS Networks, NoNet, ExecObjs, DeactivateMayFail

VARIABLES
  phase,      \* where the program rests
  qnn,        \* its network, or NoNet
  live,       \* networks active on the device
  initError,  \* the device did not validate when the program was created
  execObjs,   \* registered execution objects
  object,     \* "alive", "closing" or "gone"
  last        \* the call that returned last, and whether it succeeded

vars == <<phase, qnn, live, initError, execObjs, object, last>>

LoadedPhases == {"loaded", "activate_failed", "ac_ready"}
CreatedPhases == LoadedPhases \cup {"created"}
Phases == CreatedPhases \cup {"device_error", "load_failed"}

-----------------------------------------------------------------------------
Returns(call, ok) == last' = [op |-> call, ok |-> ok]

\* The call changes nothing of the program.
Stay(call, ok) == Returns(call, ok) /\ UNCHANGED <<phase, qnn, live, initError>>

\* The program comes to rest in p with its network untouched.
Rest(call, ok, p) ==
  /\ Returns(call, ok) /\ phase' = p
  /\ initError' = FALSE
  /\ UNCHANGED <<qnn, live>>

\* The network is torn down, or the device refuses and it is kept.
TornDown == qnn' = NoNet /\ live' = live \ {qnn}
Kept == qnn # NoNet /\ DeactivateMayFail /\ UNCHANGED <<qnn, live>>

Fail(call, ok) ==
  /\ Returns(call, ok) /\ phase' = "device_error"
  /\ initError' = FALSE
  /\ TornDown \/ Kept

\* The first call on a program whose device did not validate fails it.
FirstCallFails(call) == initError /\ Fail(call, call = "notify")

-----------------------------------------------------------------------------
Load ==
  \/ FirstCallFails("load")
  \/ /\ ~initError
     /\ \/ phase \in LoadedPhases /\ Stay("load", TRUE)
        \/ phase = "device_error" /\ Stay("load", FALSE)
        \/ phase \in {"created", "load_failed"} /\ Rest("load", TRUE, "loaded")
        \/ phase \in {"created", "load_failed"} /\ Rest("load", FALSE, "load_failed")

\* From created the image is loaded on the way.
Activate ==
  \/ FirstCallFails("activate")
  \/ /\ ~initError
     /\ \/ phase = "ac_ready" /\ Stay("activate", TRUE)
        \/ phase \in {"device_error", "load_failed"} /\ Stay("activate", FALSE)
        \/ /\ phase \in {"created", "loaded", "activate_failed"}
           /\ \E n \in {NoNet} \cup (Networks \ live) :
                /\ qnn' = n
                /\ live' = live \cup ({n} \ {NoNet})
                /\ phase' = IF n = NoNet THEN "activate_failed" ELSE "ac_ready"
                /\ Returns("activate", n # NoNet)
                /\ UNCHANGED initError

\* Only a ready program is deactivated; it may end in device_error.
Teardown(call, p) ==
  \/ /\ Returns(call, TRUE) /\ phase' = p
     /\ TornDown
     /\ UNCHANGED initError
  \/ DeactivateMayFail /\ Fail(call, call = "destroy")

\* Succeeds without unloading when the last activation failed.
Unload ==
  \/ FirstCallFails("unload")
  \/ /\ ~initError
     /\ \/ phase \in {"created", "activate_failed"} /\ Stay("unload", TRUE)
        \/ phase \in {"device_error", "load_failed"} /\ Stay("unload", FALSE)
        \/ phase = "loaded" /\ Rest("unload", TRUE, "created")
        \/ phase = "ac_ready" /\ execObjs # {} /\ Stay("unload", FALSE)
        \/ phase = "ac_ready" /\ Teardown("unload", "created")

Deactivate ==
  \/ FirstCallFails("deactivate")
  \/ /\ ~initError
     /\ \/ phase \in {"created", "loaded", "activate_failed"} /\ Stay("deactivate", TRUE)
        \/ phase \in {"device_error", "load_failed"} /\ Stay("deactivate", FALSE)
        \/ phase = "ac_ready" /\ Teardown("deactivate", "loaded")

DeviceDown ==
  \/ FirstCallFails("notify")
  \/ ~initError /\ phase \in CreatedPhases /\ Fail("notify", TRUE)
  \/ ~initError /\ phase \notin CreatedPhases /\ Stay("notify", TRUE)

DeviceUp ==
  \/ FirstCallFails("notify")
  \/ /\ ~initError
     /\ \/ phase = "device_error" /\ Rest("notify", TRUE, "created")
        \/ Stay("notify", TRUE)

\* A deactivation is refused while an execution object is registered; one
\* that may have registered after that was looked up is not seen any more.
Calls ==
  /\ object = "alive"
  /\ \/ Load \/ Activate \/ Unload \/ Deactivate
     \/ execObjs # {} /\ Stay("deactivate", FALSE)
  /\ UNCHANGED <<execObjs, object>>

DeviceEvent ==
  /\ object # "gone"
  /\ DeviceDown \/ DeviceUp
  /\ UNCHANGED <<execObjs, object>>

Register(e) ==
  /\ object = "alive"
  /\ execObjs' = execObjs \cup {e}
  /\ UNCHANGED <<phase, qnn, live, initError, object, last>>

Unregister(e) ==
  /\ execObjs' = execObjs \ {e}
  /\ UNCHANGED <<phase, qnn, live, initError, object, last>>

\* Destroying a ready program deactivates it; there may be nothing left to
\* deactivate when a device event comes in between.
Destroy ==
  /\ object = "alive" /\ execObjs = {}
  /\ object' = "closing"
  /\ \/ phase = "ac_ready" /\ Teardown("destroy", "loaded")
     \/ phase # "ac_ready" /\ ~initError /\ Stay("destroy", TRUE)
     \/ phase # "ac_ready" /\ UNCHANGED <<phase, qnn, live, initError, last>>
  /\ UNCHANGED execObjs

Vanish ==
  /\ object = "closing" /\ object' = "gone"
  /\ UNCHANGED <<phase, qnn, live, initError, execObjs, last>>

Init ==
  /\ phase = "created"
  /\ qnn = NoNet /\ live = {}
  /\ initError \in BOOLEAN
  /\ execObjs = {}
  /\ object = "alive"
  /\ last = [op |-> "none", ok |-> TRUE]

Next ==
  \/ Calls \/ DeviceEvent \/ Destroy \/ Vanish
  \/ \E e \in ExecObjs : Register(e) \/ Unregister(e)

Spec == Init /\ [][Next]_vars

=============================================================================
