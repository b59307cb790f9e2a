CONSTANTS
  a = a b = b
  Devices = {a, b}
  Inputs <- MCInputs
  Ats <- MCAts
  Nothing = Nothing
  Attempts = 2
  Retention = 2
  MaxTime = 4
  Burst = 1
SPECIFICATION PlaybackSpec
INVARIANTS
  WatcherAgrees
PROPERTIES
  RevGrows
  NoStaleTakeover
CHECK_DEADLOCK FALSE
