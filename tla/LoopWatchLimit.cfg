CONSTANTS
  NULL = NULL
  Addr = {a1, a2}
  Fds = {3, 4}
  MaxClients = 2
  PeerMoves = {"data"}
  Requests = {TRUE}
  BufCap = 1
  MaxBacklog = 1
  EpollAddMayFail = TRUE
  DataMayFail = FALSE
SPECIFICATION Spec
PROPERTY
  Isolation
