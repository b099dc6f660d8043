CONSTANTS
  MaxAttempts = 1
  BaseDelay = 1
  MaxDelay = 2
  StableWindow = 1
  MaxGeneration = 3
  MaxTime = 2
  Holders = {"supervisor", "monitor", "client"}
  First = "supervisor"
  MaxHsFrames = 2
  TreePlatforms = {"linux", "macos", "windows"}
  MaxTreeFaults = 2
  MaxCleanups = 2
  Refs = {"r1", "r2"}
  Profiles = {"p1", "p2"}
  Revisions = {"s", "t"}
  Documents <- MCDocuments
  MaxChanges = 1
  Paths = {1, 2}
  MaxPathEdits = 3
  MaxBadScans = 1
  GitPlatforms = {"unix", "windows"}
  MaxGitBytes = 2
  GitLimit = 1
  MaxSwaps = 1
  EntryNames = {1, 2}
  TheFile = 1
  PageSize = 1
  OnWindows = TRUE
  MaxFileEdits = 2
  MaxDepth = 1
  MaxEntries = 2
  MaxResults = 2
SPECIFICATION MCSpec
INVARIANTS
  OwnershipIsSafe
  CrashLoopEnds
  HandleIsKept
  SurvivorIsReported
  
  AnswersAreSnapshots
  SearchIsHonest
PROPERTIES
  ImplementsSingleOwner
  CloseReturns
  ReadyIsGenuine
  SecretsGoToTheirOwners
  HandshakeEnds
  ClientCatchesUp
CHECK_DEADLOCK FALSE
