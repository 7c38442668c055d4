---------------------------- MODULE MCNotifications ----------------------------
(***************************************************************************)
(* A small instance of module Notifications.                               *)
(***************************************************************************)
EXTENDS Notifications

CONSTANTS n1, n2, a1, a2

MCReminders == {[id |-> 1, channel |-> "email"]}
\* An appointment is booked and cancelled.
MCBookings == {[id |-> 3, kind |-> "booked", day |-> 1], [id |-> 4, kind |-> "canceled", day |-> 1]}
==============================================================================
