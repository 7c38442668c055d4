CONSTANTS
  p1 = p1
  p2 = p2
  c1 = c1
  c2 = c2
  Events = {1, 2}
  Publishers = {p1}
  Consumers = {c1}
  Nobody = Nobody
  BatchSize = 2
  Faulty = {"handler"}
  MaxFaults = 1
SPECIFICATION Spec
INVARIANT CommittedIsServed
CHECK_DEADLOCK FALSE
