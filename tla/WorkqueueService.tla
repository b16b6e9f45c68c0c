------------------------- MODULE WorkqueueService -------------------------
(***************************************************************************)
(* What a workqueue promises its elements: a request to run is kept, and   *)
(* requests run one at a time, in the order in which they were made, until *)
(* the queue is closed.  Workqueue implements it; EventDelivery uses it.   *)
(***************************************************************************)
EXTENDS Naturals, Sequences, FiniteSets, SequencesExt

CONSTANTS Elements, Nothing

VARIABLES
  pending,    \* elements that asked to run, oldest first
  running,    \* the element that runs
  closed      \* the queue was told to stop

vars == <<pending, running, closed>>

Request(e) ==
  /\ pending' = Append(pending, e)
  /\ UNCHANGED running /\ closed' = closed

Withdraw(e) ==
  /\ LET others == {i \in DOMAIN pending : pending[i] # e} IN
       \E left \in [1..Cardinality(others) -> others] :
         /\ \A i, j \in DOMAIN left : i < j => left[i] < left[j]
         /\ pending' = [i \in DOMAIN left |-> pending[left[i]]]
  /\ UNCHANGED running /\ closed' = closed

Start ==
  /\ running = Nothing /\ pending # <<>>
  /\ running' = Head(pending) /\ pending' = Tail(pending)
  /\ closed' = closed

Finish ==
  /\ running # Nothing
  /\ running' = Nothing
  /\ UNCHANGED pending /\ closed' = closed

Close == closed' = TRUE /\ UNCHANGED <<pending, running>>

Init == pending = <<>> /\ running = Nothing /\ closed = FALSE

Next ==
  \/ \E e \in Elements : Request(e) \/ Withdraw(e)
  \/ Start \/ Finish \/ Close

\* What may happen, and what must.
Safety == Init /\ [][Next]_vars

Spec == Safety /\ WF_vars(~closed /\ Start) /\ WF_vars(Finish)

=============================================================================
