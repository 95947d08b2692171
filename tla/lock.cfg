SPECIFICATION Spec
CONSTANTS
  Goroutines = {g1, g2, g3}
  Keys = {k1, k2}
  Entries = {e1, e2, e3}
  None = None
INVARIANTS
  MutualExclusion
  EntriesMatchUsers
PROPERTY WaitersServed
