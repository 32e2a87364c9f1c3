SPECIFICATION Spec
CONSTANTS
  Uuids = {u1, u2, u3}
  Stamps = {1, 2, 3}
  Pages <- SomePages
  Sizes <- SomeSizes
  DefaultSize = 3
  MaxSize = 4
  MaxInt = 31
  Faults = {"query", "rows"}
  MaxRequests = 4
  MaxWrites = 2
SYMMETRY Interchangeable
CHECK_DEADLOCK FALSE
INVARIANTS
  TypeOK
  WalkMissesNone
  WalkRepeatsNone
  PagesAsAnnounced
  NegativeRefused
