-------------------------- MODULE InferenceService --------------------------
(***************************************************************************)
(* What run() of an execution object promises: its data are queued once or *)
(* not at all, the device takes what is queued in order, and run() returns *)
(* success only when the device has executed what this run queued.  A run  *)
(* that fails before it queued anything leaves nothing behind; one that    *)
(* gives up waiting may.                                                   *)
(***************************************************************************)
EXTENDS Sequences, SequencesExt

CONSTANT Objs

VARIABLES
  phase,     \* of each object: "idle", "running", "queued", "executed"
  pending    \* objects whose data the device has not executed, in order

vars == <<phase, pending>>

Become(o, p) == phase' = [phase EXCEPT ![o] = p]
Pending(o) == Contains(pending, o)

Run(o) == phase[o] = "idle" /\ Become(o, "running") /\ UNCHANGED pending

Queue(o) ==
  /\ phase[o] = "running" /\ ~Pending(o)
  /\ Become(o, "queued") /\ pending' = Append(pending, o)

\* What a run that gave up has left is executed for nobody.
Execute ==
  /\ pending # <<>>
  /\ LET o == Head(pending) IN
       IF phase[o] = "queued" THEN Become(o, "executed") ELSE UNCHANGED phase
  /\ pending' = Tail(pending)

Succeed(o) == phase[o] = "executed" /\ Become(o, "idle") /\ UNCHANGED pending

Fail(o) == phase[o] # "idle" /\ Become(o, "idle") /\ UNCHANGED pending

\* The device is reset and forgets what it has.
Lose == pending' = <<>> /\ UNCHANGED phase

Init == phase = [o \in Objs |-> "idle"] /\ pending = <<>>

Next ==
  \/ \E o \in Objs : Run(o) \/ Queue(o) \/ Succeed(o) \/ Fail(o)
  \/ Execute \/ Lose

Spec == Init /\ [][Next]_vars

=============================================================================
