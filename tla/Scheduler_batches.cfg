CONSTANTS
  r1 = r1
  r2 = r2
  r3 = r3
  r4 = r4
  k1 = k1
  k2 = k2
  k3 = k3
  Requests <- MCRequests
  Keys <- MCKeys
  KeyOf <- MCKeyOf
  RemindAt <- MCRemindAt
  Workers = {w1, w2}
  Nobody = Nobody
  BatchSize = 2
  Backoff = 1
  MaxAttempts = 2
  Horizon = 2
  MaxFailures = 3
SPECIFICATION FairSpec
CHECK_DEADLOCK FALSE
INVARIANTS OneReminderPerKey ProcessedIffAnnounced 
PROPERTIES ImplementsSchedule EveryJobAnnounced
