SPECIFICATION Spec
CONSTANTS
  s1 = s1
  s2 = s2
  Servers = {s1, s2}
  Admin = admin
  Old = old
  New = new
  Stray = stray
  None = none
  N = 2
  BatchSize = 2
  MaxWrites = 1
  MaxRuns = 4
SYMMETRY ServerSymmetry
INVARIANTS
  TypeOK
  ServersReadEverything
  NothingLost
  NothingComesBack
  KeysAreRegistered
  RemovedKeysUnused
PROPERTY RefusedForCause
CHECK_DEADLOCK FALSE
