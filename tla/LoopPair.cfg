CONSTANTS
  NULL = NULL
  Addr = {a1, a2}
  Fds = {3, 4}
  MaxClients = 2
  PeerMoves = {"data"}
  Requests = {FALSE}
  BufCap = 1
  MaxBacklog = 1
  EpollAddMayFail = FALSE
  DataMayFail = FALSE
SPECIFICATION Spec
SYMMETRY AddrSymmetry
INVARIANTS
  RegistryInv
  FdOwnership
  NotDeaf
PROPERTY
  Isolation
