CONSTANTS
  Day = 4
  Week = 3
  Zones <- MCZones
  Durations = {2}
  DefaultDuration = 1
  Step = 1
  Shifts <- MCShifts
  DefaultShift <- MCDefaultShift
  Blocks <- MCBlocks
  Bookings <- MCBookings
  Horizon = 1
  MaxBlocks = 2
  MaxFailures = 1
SPECIFICATION Spec
INVARIANTS WindowsAreTheShiftLessTimeOff OfferedIsBookable
PROPERTY AcceptedIsOpen
