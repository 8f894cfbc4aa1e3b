SPECIFICATION FairSpec
CONSTANTS
  Users = {u1, u2}
  Admins = {a1, a2}
  Names = {n1, n2}
  Requests = {r1, r2}
  NoName = NoName
  Nobody = Nobody
INVARIANTS
  TypeOK
  ApprovalIsAtomic
  StageNamesUnique
  AnsweredDecisionStands
  SignupIsWhole
PROPERTIES
  DecisionIsFinal
  RequestsAreAnswered
  ImplementsDecisions
