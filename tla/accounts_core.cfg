SPECIFICATION Spec
CONSTANTS
  Procs = {p1, p2}
  Emails = {e1, e2, e3}
  Seeded = {s}
  Registered = {a}
  PoolMax = 2
  Faults = {"begin", "read", "hash", "write", "commit"}
  MaxRequests = 4
SYMMETRY Interchangeable
CHECK_DEADLOCK FALSE
INVARIANTS
  TypeOK
  EmailsUnique
  FailedLeavesNoRow
  ConflictMeansTaken
  OpenMeansAtWork
PROPERTIES
  ImplementsDirectory
