SPECIFICATION WaitsSpec
CONSTANTS
  Task = {m, a}
  Main = m
  Notifier = {n}
  Fd = {f, g}
  Timeouts = {1}
  MaxTime = 1
  MaxShields = 1
  None = None
  Guard = {k1, k2}
  Waited = {k1}
  Waiter = {w1, w2}
  Signals = {15}
  Unit = 64
  MaxCaught = 2
  Tasks = {t1, t2}
  Requests <- MCRequests
  Endpoints <- MCEndpoints
  Public <- MCPublic
  Ports = 2
  Flight = 2
  Reserve = 1
  MaxTag = 2
  MaxAsks = 2
  MaxStarts = 1
  MaxKills = 1
PROPERTIES
  AskAnswered
  TimedWaitEnds
  WokenResumes
  WaitTakes
CHECK_DEADLOCK FALSE
