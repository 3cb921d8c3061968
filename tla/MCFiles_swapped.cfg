SPECIFICATION FilesSpec
CONSTANTS
  Parts = {1, 2, 3}
  KindOf <- MCKinds
  LeadsTo <- MCLeads
  Unreadable <- MCUnreadable
  Art = "art"
  MadeNode = "made"
  Scenes <- RemoveScenes
  MaxShifts = 1
  MaxLinks = 3
  MaxDepth = 2
  MaxPasses = 2
INVARIANTS
  RemovedWhenOk
CHECK_DEADLOCK FALSE
