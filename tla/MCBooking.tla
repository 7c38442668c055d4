------------------------------ MODULE MCBooking ------------------------------
(***************************************************************************)
(* Small instances of module Booking: which requests meet which.           *)
(***************************************************************************)
EXTENDS Booking

CONSTANTS r1, r2, r3, k1, b1, s1

MCKeyNone == [r \in Requests |-> NoKey]
MCBusiness == [r \in Requests |-> b1]
MCOneMonth == [r \in Requests |-> 1]

\* One staff member; r2 overlaps both r1 and r3, which only touch.
MCOneStaff == [r \in Requests |-> s1]
MCChainStart == [r \in Requests |-> IF r = r1 THEN 0 ELSE IF r = r2 THEN 1 ELSE 2]
MCChainEnd == [r \in Requests |-> MCChainStart[r] + 2]

\* One key for all of them, or one call made twice and r3 without a key.
MCRetryKey == [r \in Requests |-> k1]
MCTwoKeyed == [r \in Requests |-> IF r = r3 THEN NoKey ELSE k1]
MCSameStart == [r \in Requests |-> 0]
MCSameEnd == [r \in Requests |-> 1]

\* Disjoint times in one month.
MCApartStart == [r \in Requests |-> IF r = r1 THEN 0 ELSE IF r = r2 THEN 1 ELSE 2]
MCApartEnd == [r \in Requests |-> MCApartStart[r] + 1]
==============================================================================
