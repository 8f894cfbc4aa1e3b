SPECIFICATION FairSpec
CONSTANTS
  Requests = {r1, r2}
  Nothing = Nothing
  Fans = {f1}
  Idol = idol
INVARIANTS
  TypeOK
PROPERTIES
  ImplementsCheering
  LeaversAreOut
  RequestsAreAnswered
