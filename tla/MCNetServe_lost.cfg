SPECIFICATION FairServeSpec
CONSTANTS
  Conn = {c}
  Listener = {l}
  Most = 1
  Graces = {TRUE}
  OnError = {"returns", "raises"}
  CloseFails = TRUE
  MaxSignals = 0
CHECK_DEADLOCK FALSE
PROPERTIES
  StopEndsServer
