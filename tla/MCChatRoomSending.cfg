SPECIFICATION Spec
CONSTANTS
  Clients = {c1}
  Calls = {k1, k2}
  Other = Other
  PageSize = 1
  OldRows = 2
  MaxRows = 4
  MaxEvents = 1
  MaxChanged = 0
CHECK_DEADLOCK FALSE
INVARIANT
  PendingIsInFlightOrFailed
