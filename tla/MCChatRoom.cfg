SPECIFICATION Spec
CONSTANTS
  Clients = {c1}
  Calls = {k1, k2}
  Other = Other
  PageSize = 1
  OldRows = 2
  MaxRows = 4
  MaxEvents = 1
  MaxChanged = 1
SYMMETRY CallsAreAlike
CHECK_DEADLOCK FALSE
INVARIANTS
  TypeOK
  PostedOnce
  ShownOnce
  HistoryIsContiguous
  BroadcastsAreMarked
