CONSTANTS
  Capacity = 2
  HeadLen = 1
  MaxSent = 3
  MaxAnswer = 2
CHECK_DEADLOCK FALSE
SPECIFICATION FairSpec
INVARIANTS
  Conservation
PROPERTIES
  Delivery
  TunnelSpec
