SPECIFICATION CoreSpec
CONSTANTS
  Filters <- MCFilterSet
  Calls <- MCCalls
  Fds = {3, 4, 5, 6}
  Paths = {"proc", "work"}
  MaxLimit = 2
  Raised = 2
  MaxSteps = 2
  MaxCalls = 2
  Restrictions <- MCRestrictions
  Projects = {"p", "q"}
  Rows <- MCRows
  MaxAsks = 6
  Starts = {"s1", "s2"}
  DiskInodes = {1, 2, 3, 4}
  MaxClock = 3
  MaxWrites = 2
  Shell = 2
  Alignment = 2
  ManifestLength = 1
  HeaderLength = 1
  TrailerLength = 1
  MaxEntries = 2
  Amounts = {0, 1, 2}
  Word = 32
  Fields = {0, 1, 2, 3, 4, 5, 6, 7, 31}
  Dirt <- MCDirt
  FileSizes = {4, 8, 9}
  Targets = {0, 1, 2}
  Required = {1}
  Compiled = 1
  Own = {"a"}
  Borrowed = {"b"}
  Stmts = {"s"}
  Budgets = {0, 2}
  MaxTime = 3
  MaxSqlCalls = 4
  Jobs <- MCJobs
  Chunks = {0, 1, 2, 5}
  Limits = {1, 3}
  Slice = 2
  PadWord = 2
  Offered <- MCOffered
  Ids = {1, 2}
  FirstRoom = 1
  MaxRows = 4
  Dims = 1
  Parts = {1, 2, 3}
  KindOf <- MCKinds
  LeadsTo <- MCLeads
  Unreadable <- MCUnreadable
  Art = "art"
  MadeNode = "made"
  Scenes <- MCScenes
  MaxShifts = 2
  MaxLinks = 3
  MaxDepth = 2
  MaxPasses = 2
INVARIANTS
  FilterExact
  RestrictTells
  StoreAnswers
  StartupTrusts
  ArtifactReads
  OutcomeItsOwn
  LifetimesHold
  StreamsExact
  SearchExact
  FilesHold
CHECK_DEADLOCK FALSE
