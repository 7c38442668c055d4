---------------------------- MODULE MCAvailability ----------------------------
(* Instances of Availability for TLC.                                       *)
EXTENDS Availability

Interval(s, e) == [start |-> s, end |-> e]

\* Ahead of UTC, behind it, and the default.
MCZones == {-1, UTC, 1}

\* A whole day and a shorter one.
MCDefaultShift == Interval(1, Day - 1)
MCShifts == {Interval(0, Day), MCDefaultShift}

\* Around the second day, the first with default hours: over either end of it
\* and of the shorter shift, inside, touching one another, over the whole of it.
MCBlocks ==
  {b \in {Interval(Day + s, Day + e) : s \in {-1, 1, 2}, e \in {1, 2, Day}} : b.start < b.end}

\* On that day, and across its midnight, in UTC and locally.
MCBookings ==
  {Interval(Day + s, Day + s + 2) : s \in {0, 1, Day - 2, Day - 1}}

===============================================================================
