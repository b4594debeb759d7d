CONSTANTS
  NULL = NULL
  Addr = {a1}
  Fds = {3, 4}
  MaxClients = 1
  PeerMoves = {"data", "eof", "reset"}
  Requests = {TRUE}
  BufCap = 1
  MaxBacklog = 1
  EpollAddMayFail = TRUE
  DataMayFail = TRUE
SPECIFICATION FairSpec
INVARIANTS
  TypeOK
  InterestInv
  NotDeaf
  StaleOnlyAfterTimer
PROPERTIES
  ClosingReclaimed
  SetupEnds
  QueueServed
