--------------------------- MODULE AppointmentBook ---------------------------
(***************************************************************************)
(* What booking-service promises, with no transactions, locks or failures: *)
(* a book of appointments in which a booking happens in one step, only     *)
(* into free time of the staff member, and a cancellation happens at most  *)
(* once, each step being announced as it happens.  Module Booking          *)
(* implements it.                                                          *)
(***************************************************************************)
EXTENDS Integers

CONSTANTS
  Appointments,   \* every appointment that may ever be booked
  Overlap(_, _)   \* do two appointments claim the same time of one staff member

VARIABLES
  status,         \* status[a]: "none", "booked" or "cancelled"
  announced       \* the <<type, a>> pairs announced to the other services

bookVars == <<status, announced>>

Init ==
  /\ status = [a \in Appointments |-> "none"]
  /\ announced = {}

Book(a) ==
  /\ status[a] = "none"
  /\ \A b \in Appointments \ {a} : Overlap(a, b) => status[b] # "booked"
  /\ status' = [status EXCEPT ![a] = "booked"]
  /\ announced' = announced \union {<<"booked", a>>}

Cancel(a) ==
  /\ status[a] = "booked"
  /\ status' = [status EXCEPT ![a] = "cancelled"]
  /\ announced' = announced \union {<<"cancelled", a>>}

Next == \E a \in Appointments : Book(a) \/ Cancel(a)

Spec == Init /\ [][Next]_bookVars
==============================================================================
