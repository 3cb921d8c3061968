SPECIFICATION CrewSpec
CONSTANTS
  Task = {main, t1, t2}
  Main = main
  Notifier = {notEmpty, notFull}
  Fd = {f}
  Timeouts = {1}
  MaxTime = 1
  MaxShields = 0
  None = None
  NotEmpty = notEmpty
  NotFull = notFull
  Capacities = {1, 2}
  Policies = {"block", "drop_oldest", "drop_newest", "close"}
  MaxSends = 3
PROPERTIES
  IsBoundedQueue
  CallersServed
  StuckEnds
