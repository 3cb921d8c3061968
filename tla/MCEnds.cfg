SPECIFICATION EndsSpec
CONSTANTS
  Conn = {"c", "d"}
  Listener = {l}
  Most = 2
  Graces = {FALSE, TRUE}
  OnError = {"returns", "waits"}
  CloseFails = TRUE
  MaxSignals = 2
  Plans <- MCPlans
  MaxFaults = 2
  Abi9 = FALSE
INVARIANTS
  ProgramHeld
  SpawnTells
PROPERTIES
  ServerEnds
  SpawnEnds
CHECK_DEADLOCK FALSE
