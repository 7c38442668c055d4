CONSTANTS
  r1 = r1
  r2 = r2
  r3 = r3
  k1 = k1
  b1 = b1
  s1 = s1
  Requests = {r1, r2, r3}
  Cancels = {c1, c2}
  Keys = {k1}
  NoKey = NoKey
  NoRow = NoRow
  NoTx = NoTx
  Businesses = {b1}
  BusinessOf <- MCBusiness
  MonthOf <- MCOneMonth
  StaffOf <- MCOneStaff
  StartOf <- MCChainStart
  EndOf <- MCChainEnd
  KeyOf <- MCKeyNone
  Caps = {}
  FreeMax = 3
  Conns = 3
  Reminders = {m1}
SPECIFICATION Spec
INVARIANTS TypeOK NoDoubleBooking OutboxMatchesAppointments SingleCancellation
PROPERTY ImplementsBook
CHECK_DEADLOCK FALSE
