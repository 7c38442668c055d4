CONSTANTS
  k1 = k1
  k2 = k2
  u1 = u1
  q1 = q1
  q2 = q2
  r1 = r1
  r2 = r2
  g1 = g1
  Users = {u1}
  Requests = {q1, q2}
  Replicas = {r1, r2}
  KeySets <- MCKeySets
  Nobody = Nobody
  AccessTTL = 1
  RefreshTTL = 1
  MaxTime = 2
  MaxInputs = 4
  Gateways = {g1}
  CacheTTL = 1
  Limit = 1
  Window = 1
SPECIFICATION Spec
INVARIANTS RotationBounded RotationKeepsSession BurstBounded  RemovedKeyFades
PROPERTY LogoutIsFinal
CHECK_DEADLOCK FALSE
