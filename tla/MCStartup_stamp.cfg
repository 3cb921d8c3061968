SPECIFICATION StampSpec
CONSTANTS
  Starts = {"s1", "s2"}
  DiskInodes = {1, 2, 3, 4}
  MaxClock = 4
  MaxWrites = 2
INVARIANTS
  StampTrue
CHECK_DEADLOCK FALSE
