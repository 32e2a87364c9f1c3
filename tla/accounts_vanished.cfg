SPECIFICATION Spec
CONSTANTS
  Procs = {p1, p2}
  Emails = {e1, e2}
  Seeded = {}
  Registered = {a}
  PoolMax = 2
  Faults = {}
  MaxRequests = 3
SYMMETRY Interchangeable
CHECK_DEADLOCK FALSE
INVARIANT UpdatedMeansStored
