SPECIFICATION Spec
CONSTANTS
  Media = {v1, v2, p1}
  Photos = {p1}
  MaxRecordings = 2
  MaxCalls = 2
CHECK_DEADLOCK FALSE
INVARIANT
  RecordsWhileHeld
