CONSTANTS
  p1 = p1
  p2 = p2
  c1 = c1
  c2 = c2
  Events = {1, 2}
  Publishers = {p1, p2}
  Consumers = {c1, c2}
  Nobody = Nobody
  BatchSize = 2
  Faulty = {"publisher", "offset", "inbox", "handler", "consumer", "rebalance"}
  MaxFaults = 3
SPECIFICATION FairSpec
INVARIANTS PublishedReachedKafka FaultFreeOnce LostByFaultsOnly
PROPERTIES ImplementsDelivery EveryEventTakesEffect
CHECK_DEADLOCK FALSE
