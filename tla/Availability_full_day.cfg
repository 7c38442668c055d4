CONSTANTS
  Day = 4
  Week = 3
  Zones <- MCZones
  Durations = {2}
  DefaultDuration = 1
  Step = 1
  Shifts <- MCShifts
  DefaultShift <- MCDefaultShift
  Blocks <- MCBlocks
  Bookings <- MCBookings
  Horizon = 0
  MaxBlocks = 2
  MaxFailures = 0
SPECIFICATION Spec
INVARIANT OfferedAvoidsTimeOff
