------------------------------ MODULE MCBilling ------------------------------
(***************************************************************************)
(* Small instances of module Billing.                                      *)
(***************************************************************************)
EXTENDS Billing

CONSTANTS b1, w1, w2

\* One local webhook, which puts b1 on a tier without a price of its own.
MCLocal == {[type |-> "local", id |-> 1, biz |-> b1, status |-> "active", tier |-> "gold"]}
==============================================================================
