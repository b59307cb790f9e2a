CONSTANTS
  login = login word = word mine = mine other = other third = third
  Logins <- MCLogins
  Words <- MCWords
  Hwids <- MCHwids
  Modes <- MCModes
  Overlaps <- MCOverlaps
  DeviceLimit = 2
  RestrictHours = 1
  Inactive = 0
  Ttl = 1
  Batch = 1
  Tables = 1
  MaxRows = 1
  MaxUser = 2
  MaxDevice = 2
  MaxVersion = 2
  MaxLoad = 2
  MaxRestarts = 1
  MaxTime = 1
SPECIFICATION Spec
INVARIANTS
  KeptOut
  NothingLeft
PROPERTIES
  
  UsedDevicesStay
  FirstIsAlone
CHECK_DEADLOCK FALSE
SYMMETRY MachinesAlike
