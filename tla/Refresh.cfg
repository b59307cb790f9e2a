CONSTANTS
  s1 = s1 s2 = s2
  Deployments <- MCDeployments
  Grace = 2
  Ttl = 3
  RestoreGrace = 1
  Slot <- TwoSlots
  Heads = 2
  EpochBatch = 1
  MaxTime = 3
SPECIFICATION Spec
INVARIANTS
  OneFamily
  NoFalseReuse
  ServedRotated
PROPERTIES
  StaysSignedIn
  
SYMMETRY Alike
CHECK_DEADLOCK FALSE
