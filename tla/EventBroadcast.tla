-------------------------- MODULE EventBroadcast --------------------------
(***************************************************************************)
(* What the delivery of device events promises.  Events are numbered in    *)
(* the order in which the monitor raised them.  A client that is subscribed *)
(* hears events without a gap, none twice and none out of order, and only  *)
(* while it is subscribed; the first one it hears may be older than its    *)
(* subscription, since events wait in queues on their way.                 *)
(***************************************************************************)
EXTENDS Naturals, Sequences, SequencesExt

CONSTANT Clients

VARIABLES
  sent,         \* number of events raised
  received,     \* events each client has heard since it subscribed
  subscribed

vars == <<sent, received, subscribed>>

Send == sent' = sent + 1 /\ UNCHANGED <<received, subscribed>>

Subscribe(p) ==
  /\ p \notin subscribed
  /\ subscribed' = subscribed \cup {p}
  /\ received' = [received EXCEPT ![p] = <<>>]
  /\ UNCHANGED sent

Deliver(p) ==
  /\ p \in subscribed
  /\ \E e \in 1..sent :
       /\ received[p] # <<>> => e = Last(received[p]) + 1
       /\ received' = [received EXCEPT ![p] = Append(@, e)]
  /\ UNCHANGED <<sent, subscribed>>

Unsubscribe(p) ==
  /\ subscribed' = subscribed \ {p}
  /\ UNCHANGED <<sent, received>>

Init == sent = 0 /\ received = [p \in Clients |-> <<>>] /\ subscribed = {}

Next ==
  \/ Send
  \/ \E p \in Clients : Subscribe(p) \/ Deliver(p) \/ Unsubscribe(p)

Spec == Init /\ [][Next]_vars

=============================================================================
