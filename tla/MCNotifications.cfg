SPECIFICATION FairSpec
CONSTANTS
  Requests = {r1, r2}
  Nothing = Nothing
  Unset = Unset
  Users = {u1, u2}
  Tokens = {t1}
  Ids = {1, 2}
  Kinds = {"new_message", "marketing"}
INVARIANTS
  TypeOK
PROPERTIES
  RegisteredIsPushed
  OwnersSignOff
  SettingsAreHonoured
  RequestsAreAnswered
