SPECIFICATION Spec
CONSTANTS
  MsTicks = 1
  Procs = {p1, p2}
  Users = {s, a}
  Staff = {s}
  Roles = {admin}
  ProfileTtl = 1
  Faults = {"get", "read", "rows", "set", "lost"}
  MaxNow = 2
  MaxRequests = 3
  MaxFailures = 1
  MaxWrites = 1
  MaxWiped = 3
SYMMETRY Interchangeable
CHECK_DEADLOCK FALSE
INVARIANTS
  TypeOK
  AnswersWereTrue
PROPERTIES
  SettledAnswersCurrent
