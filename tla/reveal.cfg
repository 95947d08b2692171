SPECIFICATION Spec
CONSTANTS
  r1 = r1
  r2 = r2
  r3 = r3
  x1 = x1
  x2 = x2
  Requests = {r1, r2, r3}
  Replicas = {x1, x2}
  None = none
  MaxVersion = 2
SYMMETRY RequestSymmetry
INVARIANTS
  TypeOK
  TokenRevealsOnce
  HtmlIsOfTheNote
PROPERTIES
  ImplicitReadsBurnNothing
  BrowsersConfirm
CHECK_DEADLOCK FALSE
