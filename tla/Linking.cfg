CONSTANTS
  u1 = u1 u2 = u2 a1 = a1 a2 = a2 n1 = n1 n2 = n2 p1 = p1 p2 = p2
  Users = {u1}
  Approvers = {a1}
  Newcomers = {n1, n2}
  Owner <- OneAccount
  Polls = {p1, p2}
  PollOf <- OneNewcomer
  Nobody = Nobody
  Ttl = 2
  Repoll = 1
  DeviceLimit = 2
  MaxInvites = 1
  MaxRequests = 1
  Attempts = 2
  MaxLinks = 1
  MaxTime = 3
SPECIFICATION Spec
INVARIANTS
  OneSession
  WordKept
PROPERTIES
  ApprovedSettles
CHECK_DEADLOCK FALSE
