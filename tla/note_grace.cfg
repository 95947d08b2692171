SPECIFICATION Spec
CONSTANTS
  Readers = {r1, r2, r3}
  Writers = {w1}
  Creates <- GraceCreates
  Payloads <- GracePayloads
  ReuseSlug = FALSE
  MaxVersion = 3
  MaxTime = 5
SYMMETRY RequestSymmetry
INVARIANT GraceReadStartsTimer
PROPERTY GraceDeadlineFixed
CHECK_DEADLOCK FALSE
