------------------------------- MODULE Delivery -------------------------------
(***************************************************************************)
(* What the outbox, Kafka and the inbox of the services give an event when *)
(* taken together: once the transaction that wrote it has committed, its   *)
(* effect may happen in the consuming service, once.  Module EventDelivery *)
(* implements it.                                                          *)
(***************************************************************************)
EXTENDS Naturals

CONSTANT Events

VARIABLES
  announced,   \* events whose transaction has committed
  effects      \* effects[e]: how often the consumer's handler has applied e

deliveryVars == <<announced, effects>>

Init == announced = {} /\ effects = [e \in Events |-> 0]

Announce(e) ==
  /\ e \notin announced
  /\ announced' = announced \union {e}
  /\ UNCHANGED effects

Apply(e) ==
  /\ e \in announced /\ effects[e] = 0
  /\ effects' = [effects EXCEPT ![e] = 1]
  /\ UNCHANGED announced

Next == \E e \in Events : Announce(e) \/ Apply(e)

Spec == Init /\ [][Next]_deliveryVars
==============================================================================
