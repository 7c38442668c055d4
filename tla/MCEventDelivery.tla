--------------------------- MODULE MCEventDelivery ---------------------------
(***************************************************************************)
(* Small instances of module EventDelivery.                                *)
(***************************************************************************)
EXTENDS EventDelivery

CONSTANTS p1, p2, c1, c2
==============================================================================
