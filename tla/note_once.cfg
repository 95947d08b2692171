SPECIFICATION Spec
CONSTANTS
  Readers = {r1, r2, r3}
  Writers = {w1, w2}
  Creates <- OnceCreates
  Payloads <- OncePayloads
  ReuseSlug = TRUE
  MaxVersion = 3
  MaxTime = 1
SYMMETRY RequestSymmetry
INVARIANTS
  TypeOK
  ImmediateBurnAtMostOnce
  ServedBurnIsGone
PROPERTIES
  ReadsDestroyOnlyDueNotes
  ViewsSurviveUpdates
  KeepsPromise
CHECK_DEADLOCK FALSE
