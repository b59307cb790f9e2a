CONSTANTS
  v1 = v1
  v2 = v2
  b1 = b1
  t1 = t1
  m1 = m1
  m2 = m2
  Stub = Stub
  Device <- OneDevice
  Register <- LikeAndBookmark
  KindOf <- KindsHere
  Meta <- OneMeta
  Quota <- RoomForAll
  TracksQuota = 9
  MaxOps = 1
  MaxTime = 1
  Ahead = 0
  MaxLimit = 1
  MaxEpoch = 2
  MaxStray = 1
SPECIFICATION FairSpec
PROPERTIES
  Implements
  OutboxDrains
CHECK_DEADLOCK FALSE
