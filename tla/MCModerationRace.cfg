SPECIFICATION Spec
CONSTANTS
  Fans = {f1}
  Idols = {i1}
  f1 = f1
  i1 = i1
  m2 = m2
  Admins = {a1, a2}
  Messages = {m1, m2}
  Sender <- MCSender
  Targets = {i1, a2}
  Requests = {r1, r2}
  Nothing = Nothing
PROPERTIES
  HandledIsFinal
