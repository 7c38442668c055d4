CONSTANTS
  r1 = r1
  r2 = r2
  r3 = r3
  k1 = k1
  b1 = b1
  s1 = s1
  Requests = {r1, r2, r3}
  Cancels = {}
  Keys = {k1}
  NoKey = NoKey
  NoRow = NoRow
  NoTx = NoTx
  Businesses = {b1}
  BusinessOf <- MCBusiness
  MonthOf <- MCOneMonth
  StaffOf <- MCOneStaff
  StartOf <- MCApartStart
  EndOf <- MCApartEnd
  KeyOf <- MCKeyNone
  Caps = {1}
  FreeMax = 1
  Conns = 2
  Reminders = {m1}
SPECIFICATION Spec
INVARIANT MonthlyCap
CHECK_DEADLOCK FALSE
