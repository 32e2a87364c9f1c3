SPECIFICATION Spec
CONSTANTS
  Seeders = {s1, s2}
  Emails = {e1}
  MaxRuns = 3
  MaxWrites = 2
SYMMETRY Interchangeable
CHECK_DEADLOCK FALSE
INVARIANTS
  TypeOK
  SuccessMeansSeeded
  RerunNeverRefused
  RefusalHasCause
  RolesWhole
