SPECIFICATION NetSpec
CONSTANTS
  MaxSeq = 7
  MaxTime = 1
  MaxMixed = 5
  StaleFloor = 1
  Wait = {v, w}
  Fd = {f, g}
  Event = {in, out}
  Unasked = {err}
  MaxFds = 2
  Conn = {"c", "d"}
  Listener = {k, l}
  Most = 1
  Graces = {TRUE}
  OnError = {"returns", "waits", "raises"}
  CloseFails = TRUE
  MaxSignals = 2
  Servers <- MCServers
  Numbers = {3, 4, 5}
  Slots = 2
  WatchedMax = 2
  MaxOthers = 2
  Listeners = {"l1", "l2"}
  Inodes = {1, 2, 3}
  MaxMoves = 3
  Messages <- MCMessages
  Wanted = 2
  ReceiveMax = 3
  Transfers = {"t1", "t2"}
  Scripts <- MCScripts
  Threshold = 2
  ReadSizes = {1, 3}
  MaxFaults = 1
  RootRows <- MCRootRows
  RevokedRows <- MCRevoked
  Chains <- MCChains
  MaxChains = 2
  Users = {"u1", "u2"}
  SendRoom = 1
  WriteSize = 2
  MaxCalls = 3
  MaxWrites = 2
  MaxArrived = 1
  MaxBreaks = 1
  Handles = {"h1", "h2"}
  MaxPid = 2
  MaxForks = 1
  MaxDrops = 1
  Tasks = {t1, t2}
  Requests <- MCRequests
  Endpoints <- MCEndpoints
  Public <- MCPublic
  Ports = 2
  Flight = 2
  Reserve = 1
  MaxTag = 2
  MaxAsks = 3
  MaxStarts = 2
  MaxKills = 1
INVARIANTS
  WatchTables
  ConnectionExact
  LookupAnswers
  SocketsOwned
  TransfersExact
  ChainsJudgedAlone
  ChildrenKept
  RequestsKept
  SocketsRight
PROPERTIES
  TimersFire
  ServerKeeps
CHECK_DEADLOCK FALSE
