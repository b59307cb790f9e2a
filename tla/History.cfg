CONSTANTS
  v = v w = w all = all
  Videos <- MCVideos
  All = all
  Pools <- MCPools
  MaxHistory = 2
  MaxPlays = 2
  MaxStats = 1
  PerHour = 2
  MaxOps = 2
  MaxTotal = 2
  Hour = 1
  History = 2
  Idempotency = 1
  Journal = 2
  Batch = 1
  MaxTime = 2
SPECIFICATION Spec
INVARIANTS
  ForgottenStays
  ResetHolds
  Capped
  NothingOld
PROPERTIES
  BaselinesOnce
CHECK_DEADLOCK FALSE
