CONSTANTS
  d1 = d1
  d2 = d2
  Device <- TwoDevices
  MaxPerDevice = 2
  MaxPerUser = 3
  MaxOpened = 4
  MaxChanges = 3
  MaxLoad = 5
SPECIFICATION FairSpec
INVARIANTS
  NobodyMissesNews
PROPERTIES
  RecheckSparesGood
  StaleStreamsClose
CHECK_DEADLOCK FALSE
