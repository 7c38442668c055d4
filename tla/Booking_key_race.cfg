CONSTANTS
  r1 = r1
  r2 = r2
  r3 = r3
  k1 = k1
  b1 = b1
  s1 = s1
  Requests = {r1, r2}
  Cancels = {c1}
  Keys = {k1}
  NoKey = NoKey
  NoRow = NoRow
  NoTx = NoTx
  Businesses = {b1}
  BusinessOf <- MCBusiness
  MonthOf <- MCOneMonth
  StaffOf <- MCOneStaff
  StartOf <- MCSameStart
  EndOf <- MCSameEnd
  KeyOf <- MCRetryKey
  Caps = {3}
  FreeMax = 3
  Conns = 4
  Reminders = {}
SPECIFICATION Spec
INVARIANT SameKeySameAppointment
CHECK_DEADLOCK FALSE
