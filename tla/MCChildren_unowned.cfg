SPECIFICATION ChildrenSpec
CONSTANTS
  Handles = {"h1", "h2"}
  MaxPid = 2
  MaxForks = 1
  MaxDrops = 1
INVARIANT WaitAnswers
CHECK_DEADLOCK FALSE
