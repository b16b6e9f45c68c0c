-------------------------- MODULE MCEventDelivery --------------------------
(* EventDelivery on small instances.                                       *)
EXTENDS EventDelivery, TLC

CONSTANTS c1, p1, p2

OneContext == [p \in Clients |-> c1]
SomePriority == (p1 :> 2) @@ (p2 :> 1)

=============================================================================
