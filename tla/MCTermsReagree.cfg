SPECIFICATION Spec
CONSTANTS
  Requests = {r1, r2}
  Nothing = Nothing
  MaxVersion = 3
PROPERTY
  ReagreeIsAccepted
