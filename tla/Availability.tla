----------------------------- MODULE Availability -----------------------------
(***************************************************************************)
(* When a staff member can be booked: the working hours and the time off   *)
(* that business-service keeps and turns into windows                      *)
(* (GetAvailabilityConfig, subtractBlocks), the slots booking-service      *)
(* offers from them (Slots, AvailableSlots), and the check a booking must  *)
(* pass (validateBookingWithinAvailability) before its row is inserted.    *)
(*                                                                         *)
(* One staff member.  Time is counted in units of UTC; a day has Day of    *)
(* them and the business's midnight is its zone's units before UTC's.  The *)
(* reads of one GetAvailabilityConfig are one step; the calls for the      *)
(* candidate dates are steps of their own, and so is the insert.           *)
(***************************************************************************)
EXTENDS Integers, FiniteSets, Sequences, SequencesExt

CONSTANTS
  Day,        \* units in a day (1440 minutes)
  Week,       \* days in a week
  Zones,      \* time zones an owner may set, as offsets from UTC in units
  Durations,  \* duration_minutes an owner may give a service
  DefaultDuration, \* the duration of a service nobody knows (30 minutes)
  Step,       \* SlotStepMinutes
  Shifts,     \* working hours an owner may set, [start, end] within a day
  DefaultShift, \* the hours a new staff member starts with (9:00 to 17:00)
  Blocks,     \* time off an owner may enter, [start, end] in UTC
  Bookings,   \* intervals a customer may ask for, [start, end] in UTC
  Horizon,    \* bound: the last instant of the model
  MaxBlocks,  \* bound: time-off rows at once
  MaxFailures \* bound: failed reads in one behaviour

UTC == 0

ASSUME AvailabilityAssumption ==
  /\ {Day, Week, DefaultDuration, Step} \union Durations \subseteq Nat \ {0}
  /\ \A z \in Zones : z \in Int /\ -Day < z /\ z < Day
  /\ UTC \in Zones
  /\ DefaultShift \in Shifts
  /\ Shifts \subseteq [start: 0..Day, end: 0..Day] /\ \A s \in Shifts : s.start < s.end
  /\ Blocks \union Bookings \subseteq [start: Int, end: Int]
  /\ \A b \in Blocks \union Bookings : b.start < b.end
  /\ {Horizon, MaxBlocks, MaxFailures} \subseteq Nat

VARIABLES
  zone,      \* timezone of the business's profile
  services,  \* durations of the business's services
  hours,     \* staff_working_hours: a shift or Closed for each weekday
  timeOff,   \* staff_time_off
  booked,    \* intervals of the staff member's booked appointments
  now,       \* time.Now
  request,   \* the Create in progress
  failures   \* failed reads so far

vars == <<zone, services, hours, timeOff, booked, now, request, failures>>

Closed == [start |-> 0, end |-> 0]
NoRequest == [phase |-> "none"]

TypeOK ==
  /\ zone \in Zones
  /\ services \subseteq Durations
  /\ hours \in [0..Week - 1 -> Shifts \union {Closed}]
  /\ timeOff \subseteq Blocks
  /\ booked \subseteq Bookings
  /\ now \in 0..Horizon
  /\ request \in {NoRequest} \union
       [phase: {"checking", "accepted"}, slot: Bookings, dates: SUBSET Int]
  /\ failures \in 0..MaxFailures

\* Half-open intervals.
Overlaps(i, j) == i.start < j.end /\ j.start < i.end
Inside(i, j) == j.start <= i.start /\ i.end <= j.end

----------------------------------------------------------------------------
(* business-service.                                                        *)

Weekday(date) == date % Week
Midnight(date, z) == date * Day - z
ShiftIn(z, date) == [start |-> Midnight(date, z) + hours[Weekday(date)].start,
                     end |-> Midnight(date, z) + hours[Weekday(date)].end]
Shift(date) == ShiftIn(zone, date)
IsWorking(date) == hours[Weekday(date)] # Closed

\* The time off that meets the shift, cut to it.
Clip(base, b) == [start |-> IF b.start < base.start THEN base.start ELSE b.start,
                  end |-> IF b.end > base.end THEN base.end ELSE b.end]
TimeOffBegunIn(base) == {b \in timeOff : b.start > base.start /\ b.start < base.end}
ListTimeOff(base) == {b \in timeOff : b.end > base.start /\ b.start < base.end}
\* sortIntervals: the place of an interval is the number of those before it.
Before(i, j) == i.start < j.start \/ (i.start = j.start /\ i.end < j.end)
Sorted(S) ==
  [n \in 1..Cardinality(S) |-> CHOOSE b \in S : Cardinality({c \in S : Before(c, b)}) = n - 1]
Clipped(base) == Sorted({Clip(base, b) : b \in ListTimeOff(base)})

Merge(merged, cur) ==
  IF merged = <<>> \/ cur.start > Last(merged).end THEN Append(merged, cur)
  ELSE IF cur.end > Last(merged).end THEN [merged EXCEPT ![Len(merged)].end = cur.end]
  ELSE merged

\* One merged block carved from what the cursor has left of the shift.
Carve(acc, m) ==
  [out |-> IF m.start > acc.cursor
           THEN Append(acc.out, [start |-> acc.cursor, end |-> m.start]) ELSE acc.out,
   cursor |-> IF m.end > acc.cursor THEN m.end ELSE acc.cursor]

\* The two loops: what is merged, and what is carved, after n blocks.
Merged(blocks) ==
  LET after[n \in 0..Len(blocks)] == IF n = 0 THEN <<>> ELSE Merge(after[n - 1], blocks[n])
  IN after[Len(blocks)]
Carved(start, blocks) ==
  LET after[n \in 0..Len(blocks)] ==
        IF n = 0 THEN [out |-> <<>>, cursor |-> start] ELSE Carve(after[n - 1], blocks[n])
  IN after[Len(blocks)]

SubtractBlocks(base) ==
  LET carved == Carved(base.start, Merged(Clipped(base)))
  IN IF base.end > carved.cursor
     THEN Append(carved.out, [start |-> carved.cursor, end |-> base.end])
     ELSE carved.out

\* WindowsUTC of a working day.
WindowsUTC(date) == SubtractBlocks(Shift(date))

\* GetServiceDuration: the default is what a service that is not there gets.
DurationsNow == services \union {DefaultDuration}

----------------------------------------------------------------------------
(* booking-service.                                                         *)

\* Explicit windows are preferred; without any, WorkStartUTC and WorkEndUTC.
WindowsIn(z, date) ==
  LET free == SubtractBlocks(ShiftIn(z, date)) IN
  IF ~IsWorking(date) THEN {}
  ELSE IF free # <<>> THEN ToSet(free)
  ELSE {ShiftIn(z, date)}
Windows(date) == WindowsIn(zone, date)

Lasting(d, t) == [start |-> t, end |-> t + d]

AvailableSlots(window, d) ==
  {t \in window.start .. window.end - d :
     /\ (t - window.start) % Step = 0
     /\ t >= now
     /\ \A b \in booked : ~Overlaps(Lasting(d, t), b)}

Slots(date, d) == {Lasting(d, t) : t \in UNION {AvailableSlots(w, d) : w \in Windows(date)}}

UTCDateOnly(slot) == {slot.start \div Day}
\* The UTC date of the start, the day before and the day after.
CandidateDates(slot) == {(slot.start \div Day) + i : i \in {-1, 0, 1}}

MeetsWindow(slot, windows) == \E w \in windows : Overlaps(slot, w)
FitsWindow(slot, windows) == \E w \in windows : Inside(slot, w)

\* What Create would answer were nothing to change while it looks.
WouldAccept(slot) == \E date \in CandidateDates(slot) : FitsWindow(slot, Windows(date))

----------------------------------------------------------------------------
\* GetOrCreateProfile's row, and CreateStaff's: the days between the first and
\* the last of the week are working days.
Init ==
  /\ zone = UTC
  /\ services = {}
  /\ hours = [day \in 0..Week - 1 |-> IF day \in 1..Week - 2 THEN DefaultShift ELSE Closed]
  /\ timeOff = {}
  /\ booked = {}
  /\ now = 0
  /\ request = NoRequest
  /\ failures = 0

Tick ==
  /\ now < Horizon
  /\ now' = now + 1
  /\ UNCHANGED <<zone, services, hours, timeOff, booked, request, failures>>

\* PUT /profile.  A time zone that cannot be loaded counts as UTC.
UpdateProfile(z) ==
  /\ zone' = z
  /\ UNCHANGED <<services, hours, timeOff, booked, now, request, failures>>

CreateService(d) ==
  /\ services' = services \union {d}
  /\ UNCHANGED <<zone, hours, timeOff, booked, now, request, failures>>

UpsertWorkingHours(day, shift) ==
  /\ hours' = [hours EXCEPT ![day] = shift]
  /\ UNCHANGED <<zone, services, timeOff, booked, now, request, failures>>

\* The exclusion constraint refuses overlapping rows (409).
CreateTimeOff(b) ==
  /\ \A o \in timeOff : ~Overlaps(b, o)
  /\ Cardinality(timeOff) < MaxBlocks
  /\ timeOff' = timeOff \union {b}
  /\ UNCHANGED <<zone, services, hours, booked, now, request, failures>>

DeleteTimeOff(b) ==
  /\ b \in timeOff
  /\ timeOff' = timeOff \ {b}
  /\ UNCHANGED <<zone, services, hours, booked, now, request, failures>>

\* Create up to validateBookingWithinAvailability.
BeginRequest(slot) ==
  /\ request = NoRequest
  /\ request' = [phase |-> "checking", slot |-> slot, dates |-> CandidateDates(slot)]
  /\ UNCHANGED <<zone, services, hours, timeOff, booked, now, failures>>

NextDate == CHOOSE d \in request.dates : \A e \in request.dates : d <= e

\* The dates are asked for in order, and the first window that fits decides.
Judge(windows) ==
  /\ request.phase = "checking"
  /\ request.dates # {}
  /\ request' = IF FitsWindow(request.slot, windows)
                THEN [request EXCEPT !.phase = "accepted"]
                ELSE [request EXCEPT !.dates = @ \ {NextDate}]
  /\ UNCHANGED <<zone, services, hours, timeOff, booked, now>>

CheckDate == Judge(Windows(NextDate)) /\ UNCHANGED failures

FailRead == failures < MaxFailures /\ failures' = failures + 1

\* ListTimeOff fails in business-service: it answers with the raw hours.
CheckDateWithoutTimeOff ==
  /\ Judge(IF IsWorking(NextDate) THEN {Shift(NextDate)} ELSE {})
  /\ FailRead

\* The profile cannot be read: the hours are taken for hours of UTC.
CheckDateWithoutProfile == Judge(WindowsIn(UTC, NextDate)) /\ FailRead

\* The call fails, or the hours cannot be read; the other dates are asked for.
CheckDateFails == Judge({}) /\ FailRead

\* 422, or 503 when one of the calls had failed.
RefuseRequest ==
  /\ request.phase = "checking"
  /\ request.dates = {}
  /\ request' = NoRequest
  /\ UNCHANGED <<zone, services, hours, timeOff, booked, now, failures>>

\* The insert, or its 409 (module Booking has the transaction around it).
InsertBooking ==
  /\ request.phase = "accepted"
  /\ booked' = IF \A b \in booked : ~Overlaps(request.slot, b)
               THEN booked \union {request.slot} ELSE booked
  /\ request' = NoRequest
  /\ UNCHANGED <<zone, services, hours, timeOff, now, failures>>

CancelBooking(slot) ==
  /\ slot \in booked
  /\ booked' = booked \ {slot}
  /\ UNCHANGED <<zone, services, hours, timeOff, now, request, failures>>

Next ==
  \/ Tick
  \/ \E z \in Zones : UpdateProfile(z)
  \/ \E d \in Durations : CreateService(d)
  \/ \E day \in 0..Week - 1, shift \in Shifts \union {Closed} : UpsertWorkingHours(day, shift)
  \/ \E b \in Blocks : CreateTimeOff(b) \/ DeleteTimeOff(b)
  \/ \E slot \in Bookings : BeginRequest(slot) \/ CancelBooking(slot)
  \/ CheckDate \/ CheckDateWithoutTimeOff \/ CheckDateWithoutProfile \/ CheckDateFails
  \/ RefuseRequest \/ InsertBooking

Spec == Init /\ [][Next]_vars

----------------------------------------------------------------------------
(* Properties.                                                              *)

Dates == 0..Week - 1
Instants(i) == i.start .. i.end - 1

\* subtractBlocks leaves exactly the instants of the shift that no time off
\* covers, in windows that are in order, apart and not empty: for blocks that
\* hang over an end of the shift, touch each other or cover it.
WindowsAreTheShiftLessTimeOff ==
  \A date \in Dates :
    LET windows == WindowsUTC(date) IN
    IsWorking(date) =>
      /\ UNION {Instants(w) : w \in ToSet(windows)}
           = {t \in Instants(Shift(date)) : \A b \in timeOff : t \notin Instants(b)}
      /\ \A i \in DOMAIN windows : windows[i].start < windows[i].end
      /\ \A i, j \in DOMAIN windows : i < j => windows[i].end < windows[j].start

\* What one request shows, the next one accepts: every slot Slots offers for a
\* local date passes validateBookingWithinAvailability, which looks for that
\* date among the UTC dates around the start, and meets no booked appointment.
OfferedIsBookable ==
  \A date \in Dates, d \in DurationsNow : \A slot \in Slots(date, d) :
    /\ WouldAccept(slot)
    /\ \A b \in booked : ~Overlaps(slot, b)

\* A request is accepted for an interval that lies, as accepted, in one shift
\* of the business's zone, and meets no time off unless time off leaves nothing
\* of that shift (Judge over the dates of validateBookingWithinAvailability);
\* after a failed read it lies in a shift all the same, of that zone or of UTC.
AcceptedIsOpen ==
  [][request.phase = "checking" /\ request'.phase = "accepted" =>
       \E date \in CandidateDates(request.slot) :
         /\ IsWorking(date)
         /\ \E z \in {zone} \union (IF failures' = failures THEN {} ELSE {UTC}) :
              Inside(request.slot, ShiftIn(z, date))
         /\ failures' = failures /\ WindowsUTC(date) # <<>> =>
              \A b \in timeOff : ~Overlaps(request.slot, b)]_vars

\* "Time-off blocks slots" (docs/frontend/phases.md:217).  It does, until it
\* covers the whole shift: then there are no windows, and Slots falls back to
\* the shift itself.
OfferedAvoidsTimeOff ==
  \A date \in Dates, d \in DurationsNow : \A slot \in Slots(date, d), b \in timeOff :
    ~Overlaps(slot, b)

===============================================================================
