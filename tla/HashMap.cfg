CONSTANTS
  k1 = k1
  k2 = k2
  k3 = k3
  k4 = k4
  k5 = k5
  NULL = NULL
  Key = {k1, k2, k3, k4, k5}
  Value = {v1, v2}
  HashCode <- MCHashCode
  InitialCapacity = 2
SPECIFICATION Spec
INVARIANTS
  WellFormed
  LoadBound
PROPERTY
  Refinement
