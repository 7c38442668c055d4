CONSTANTS
  b1 = b1
  w1 = w1
  w2 = w2
  Businesses = {b1}
  Tiers = {"starter"}
  Subs = {1, 2}
  LocalEvents <- MCLocal
  Requests = {w1, w2}
  Reconciler = Reconciler
  NoRow = NoRow
  NoKey = NoKey
  NoSub = NoSub
  BatchSize = 1
  MaxInputs = 3
SPECIFICATION FairSpec
INVARIANTS TypeOK AnnouncedIsCurrent  CompletedIffPaid EntitledByPayment
  
CHECK_DEADLOCK FALSE
