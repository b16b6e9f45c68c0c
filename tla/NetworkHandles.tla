--------------------------- MODULE NetworkHandles ---------------------------
(***************************************************************************)
(* What a program may rely on when it activates and deactivates: a handle  *)
(* it gets names a network nobody else has, activating overwrites the      *)
(* handle it had (with none, if it fails), and only a deactivation that    *)
(* succeeds ends a network.  ProgramDevice assumes this of the device;     *)
(* DeviceResources implements it.                                          *)
(***************************************************************************)
CONSTANTS Programs, Nets, None

VARIABLES
  qnn,    \* the handle of each program, or None
  live    \* networks that exist

vars == <<qnn, live>>

Activate(p) ==
  \E n \in (Nets \ live) \cup {None} :
    /\ qnn' = [qnn EXCEPT ![p] = n]
    /\ live' = live \cup ({n} \ {None})

Deactivate(p) ==
  /\ qnn[p] \in live
  /\ live' = live \ {qnn[p]}
  /\ qnn' = [qnn EXCEPT ![p] = None]

Init == qnn = [p \in Programs |-> None] /\ live = {}

Next == \E p \in Programs : Activate(p) \/ Deactivate(p)

Spec == Init /\ [][Next]_vars

=============================================================================
