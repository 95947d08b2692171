SPECIFICATION Spec
CONSTANTS
  Readers = {r1}
  Writers = {w1, w2}
  Creates <- RenewedCreates
  Payloads <- RenewedPayloads
  ReuseSlug = TRUE
  MaxVersion = 3
  MaxTime = 4
SYMMETRY RequestSymmetry
PROPERTY ReadsDestroyOnlyDueNotes
CHECK_DEADLOCK FALSE
