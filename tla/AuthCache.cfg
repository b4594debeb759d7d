CONSTANTS
  u1 = u1
  p1 = p1
  p2 = p2
  c1 = c1
  c2 = c2
  c3 = c3
  NULL = NULL
  User = {u1}
  Pass = {p1, p2}
  Credential = {c1, c2, c3}
  Decode <- MCDecode
  CacheTTL = 2
  MaxLatency = 1
  MaxTime = 6
SPECIFICATION Spec
INVARIANTS
  CacheBound
  RenewalStored
PROPERTY
  RevokedInTime
