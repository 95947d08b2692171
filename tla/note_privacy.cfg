SPECIFICATION Spec
CONSTANTS
  Readers = {r1}
  Writers = {w1, w2}
  Creates <- RenewedCreates
  Payloads <- PrivacyPayloads
  ReuseSlug = TRUE
  MaxVersion = 3
  MaxTime = 1
SYMMETRY RequestSymmetry
PROPERTY OmittedPrivacyKept
CHECK_DEADLOCK FALSE
