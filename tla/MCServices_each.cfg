SPECIFICATION ServicesSpec
CONSTANTS
  airplay = airplay
  sockserv = sockserv
  Apps <- MCApps
  Conf <- MCConf
  MaxTasks = 3
  MaxFresh = 2
  MaxCmds = 3
  MaxFaults = 1
  MaxConns = 2
  MaxFd = 4
  SockPeers = {c1, c2, c3}
  NoPeer = NoPeer
  Kinds <- MCKinds
  Size = 3
  MaxAsks = 2
INVARIANTS
  TypesOK
  Supervises
  SocketsAreKept
PROPERTIES
  ServicesProgress
CHECK_DEADLOCK FALSE
