SPECIFICATION Spec
CONSTANTS
  Procs = {p1}
  Users = {u1}
  MsTicks = 1
  MsPerSecond = 2
  AccessSeconds = 1
  RefreshSeconds = 2
  FallbackTtl = 5
  Faults = {"sign_access"}
  Foreign = FALSE
  MaxNow = 1
  MaxRequests = 3
INVARIANTS
  RefreshReturnsBothTokens
CHECK_DEADLOCK FALSE
