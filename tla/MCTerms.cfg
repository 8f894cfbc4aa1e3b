SPECIFICATION Spec
CONSTANTS
  Requests = {r1, r2}
  Nothing = Nothing
  MaxVersion = 3
SYMMETRY Symmetry
INVARIANTS
  TypeOK
  ConsentIsWhole
PROPERTIES
  AgreedStaysAgreed
