SPECIFICATION Spec
CONSTANTS
  Procs = {p1, p2}
  Users = {u1}
  MsTicks = 1
  MsPerSecond = 2
  AccessSeconds = 1
  RefreshSeconds = 2
  FallbackTtl = 5
  Faults = {}
  Foreign = FALSE
  MaxNow = 1
  MaxRequests = 3
SYMMETRY Interchangeable
PROPERTIES
  NoTokensOnceRetired
CHECK_DEADLOCK FALSE
