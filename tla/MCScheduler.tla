----------------------------- MODULE MCScheduler -----------------------------
(***************************************************************************)
(* Small instances of module Scheduler.                                    *)
(***************************************************************************)
EXTENDS Scheduler, TLC

CONSTANTS r1, r2, r3, r4, k1, k2, k3

\* r1 and r2 ask for the same reminder, due at 1; r3 and r4 for others, due
\* at 0 and at 1.
MCRequests == {r1, r2, r3, r4}
MCKeys == {k1, k2, k3}
MCKeyOf == (r1 :> k1) @@ (r2 :> k1) @@ (r3 :> k2) @@ (r4 :> k3)
MCRemindAt == (k1 :> 1) @@ (k2 :> 0) @@ (k3 :> 1)
==============================================================================
