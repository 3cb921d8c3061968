SPECIFICATION TasksSpec
CONSTANTS
  Task = {main, t1, t2}
  Main = main
  Notifier = {notEmpty, notFull}
  Fd = {}
  Timeouts = {1}
  MaxTime = 1
  MaxShields = 1
  None = None
  NotEmpty = notEmpty
  NotFull = notFull
  Capacities = {1}
  Policies = {"block"}
  MaxSends = 2
  Guard = {g, h, i}
  Waited = {g}
  Waiter = {u}
  Signals = {15}
  Unit = 64
  MaxCaught = 2
SYMMETRY Symmetry
INVARIANTS
  OnePlace
  ListsExact
  CancelledNotParked
  Truthful
  NoticesKept
  GuardsAgree
  NoSignalLost
PROPERTIES
  DeadlockHonest
