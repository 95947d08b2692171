SPECIFICATION Spec
CONSTANTS
  l1 = l1
  l2 = l2
  c1 = c1
  m1 = m1
  m2 = m2
  j1 = j1
  j2 = j2
  b1 = b1
  b2 = b2
  i1 = i1
  None = none
  Bootstrap = bootstrap
  Logins = {l1, l2}
  Changes = {c1}
  Mints = {m1, m2}
  Joins = {j1, j2}
  Boots = {b1, b2}
  Invites = {i1}
  MaxCode = 3
  MaxGen = 2
  MaxRequests = 4
  TokenLimit = 2
SYMMETRY RequestSymmetry
INVARIANTS
  TypeOK
  CodesAcceptedOnce
  OldCredentialsEnd
  CredentialsFollowOwners
  OriginsServeOnce
CHECK_DEADLOCK FALSE
