\* A connection that has ended stops.
CHECK_DEADLOCK FALSE
SPECIFICATION FairSpec
CONSTANTS
  InitialCapacity = 4
  MaxBytes = 12
INVARIANTS TypeOK HeadNotMissed MemoryFollowsData
PROPERTY HeadRecognised
