CONSTANTS
  n1 = n1
  n2 = n2
  a1 = a1
  a2 = a2
  Reminders <- MCReminders
  Bookings <- MCBookings
  Notifiers = {n1, n2}
  Analysts = {a1, a2}
  MaxFaults = 2
  MaxRebuilds = 1
SPECIFICATION FairSpec
INVARIANTS TypeOK OneMessagePerReminder OutcomesAreTrue NotificationCountsFollowMetrics AppointmentCountsFollowEvents
PROPERTY EverythingIsCounted
CHECK_DEADLOCK FALSE
