SPECIFICATION FairSpec
CONSTANTS
  Procs = {p1}
  Users = {u1}
  MsTicks = 1
  MsPerSecond = 1
  AccessSeconds = 1
  RefreshSeconds = 2
  FallbackTtl = 1
  Faults = {"get", "set", "lost", "sign_access", "sign_refresh"}
  Foreign = TRUE
  MaxNow = 2
  MaxRequests = 3
PROPERTIES
  EveryRequestAnswered
INVARIANTS
  RetiredKeysSpent
  NoLateAdmission
  EntriesExpire
  RefusedOnlyIfSpent
CHECK_DEADLOCK FALSE
