SPECIFICATION FairSpec
CONSTANTS
  Procs = {p1, p2}
  Emails = {e1, e2}
  Seeded = {}
  Registered = {a}
  PoolMax = 1
  Faults = {"begin", "panic", "write", "lost", "commit"}
  MaxRequests = 3
CHECK_DEADLOCK FALSE
INVARIANTS
  DeletedStaysDeleted
  NoCircularWait
PROPERTIES
  EveryRequestAnswered
  TransactionsEnd
