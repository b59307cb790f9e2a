CONSTANTS
  made = made copy = copy copy2 = copy2
  name = name other = other recovered = recovered browse = browse
  RecoveryName <- MCRecoveryName
  Norm <- MCNorm
  Browses <- MCBrowses
  Requests <- MCRequests
  Open = Open
  Base = 2
  MaxLength = 3
  Smallest <- MCSmallest
  Devices <- MCDevices
  Lists <- MCLists
  Chain <- MCChain
  Videos <- MCVideos
  Names <- MCNames
  Ops <- MCOps
  Times <- MCTimes
  MaxLists = 2
  MaxItems = 3
  MaxRows = 4
  MaxSeq = 5
SPECIFICATION Spec
INVARIANTS
  Tidy
  PlacedAsShown
  ImportYields
  PlanRepeats
PROPERTIES
  ChangesTold
CHECK_DEADLOCK FALSE
