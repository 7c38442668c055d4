CONSTANTS
  r1 = r1
  r2 = r2
  r3 = r3
  k1 = k1
  b1 = b1
  s1 = s1
  Requests = {r1, r2, r3}
  Cancels = {c1}
  Keys = {k1}
  NoKey = NoKey
  NoRow = NoRow
  NoTx = NoTx
  Businesses = {b1}
  BusinessOf <- MCBusiness
  MonthOf <- MCOneMonth
  StaffOf <- MCOneStaff
  StartOf <- MCSameStart
  EndOf <- MCSameEnd
  KeyOf <- MCTwoKeyed
  Caps = {1}
  FreeMax = 2
  Conns = 3
  Reminders = {}
SPECIFICATION FairSpec
INVARIANTS RecordsNameBookings LateDuplicateNeverBooks
PROPERTY EveryRequestAnswered
CHECK_DEADLOCK FALSE
