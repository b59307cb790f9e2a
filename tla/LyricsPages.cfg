CONSTANTS
  d1 = d1
  d2 = d2
  v1 = v1
  v2 = v2
  v3 = v3
  t1 = t1
  none = none
  Follower <- OneDevice
  Video <- ThreeVideos
  Text <- OneText
  NoText <- MCNoText
  Replaces = TRUE
  MaxRev = 4
  MaxLimit = 2
SPECIFICATION LyricsFairSpec
INVARIANTS
  NothingMissed
PROPERTIES
  Converges
CHECK_DEADLOCK FALSE
