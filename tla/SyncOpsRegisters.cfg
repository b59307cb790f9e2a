CONSTANTS
  v1 = v1
  v2 = v2
  b1 = b1
  t1 = t1
  m1 = m1
  m2 = m2
  Stub = Stub
  Device <- OneDevice
  Register <- LikesAndOverride
  KindOf <- KindsHere
  Meta <- TwoMetas
  Quota <- RoomForOne
  TracksQuota = 1
  MaxOps = 2
  MaxTime = 2
  Ahead = 0
  MaxLimit = 1
  MaxEpoch = 1
  MaxStray = 1
SPECIFICATION Spec
SYMMETRY Symmetry
INVARIANTS
  LastWordKept
  LikesHaveTracks
PROPERTIES
  EffectOnce
CHECK_DEADLOCK FALSE
