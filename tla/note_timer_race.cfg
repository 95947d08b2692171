SPECIFICATION Spec
CONSTANTS
  Readers = {r1, r2}
  Writers = {w1}
  Creates <- GraceCreates
  Payloads <- RearmPayloads
  ReuseSlug = TRUE
  MaxVersion = 2
  MaxTime = 2
SYMMETRY RequestSymmetry
INVARIANT ImmediateBurnAtMostOnce
CHECK_DEADLOCK FALSE
