SPECIFICATION Spec
CONSTANTS
  Procs = {p1, p2}
  Users = {u1}
  MsTicks = 2
  MsPerSecond = 2
  AccessSeconds = 1
  RefreshSeconds = 2
  FallbackTtl = 9
  Faults = {}
  Foreign = FALSE
  MaxNow = 6
  MaxRequests = 3
SYMMETRY Interchangeable
PROPERTIES
  ImplementsTokenGate
INVARIANTS
  TypeOK
  RetiredKeysSpent
  EntriesOutliveTokens
  NoLateAdmission
  RefreshTokenFresh
  ClearedCookieIsSpent
CHECK_DEADLOCK FALSE
