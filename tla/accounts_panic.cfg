SPECIFICATION Spec
CONSTANTS
  Procs = {p1, p2}
  Emails = {e1, e2}
  Seeded = {s}
  Registered = {}
  PoolMax = 2
  Faults = {"panic"}
  MaxRequests = 3
SYMMETRY Interchangeable
CHECK_DEADLOCK FALSE
INVARIANT RegisteredMeansStored
