CONSTANTS
  TermPlatform = "unix"
  MaxOutput = 1
  MaxEvents = 1
  MaxCalls = 1
  Closers = {"user", "exit"}
  MaxTermFaults = 1
  MaxFaults = 4
  Peers = {"m"}
  PreviewIds = {1, 2}
  Urls = {"x", "y", "file"}
  BadUrls = {"file"}
  MaxPreviews = 1
  MaxPreviewEvents = 2
  MaxNavigations = 1
  MaxTitled = 2
  Workspaces = {"w1", "w2"}
  MaxBridges = 2
  MaxForced = 2
  MaxLaunches = 3
  Windows = {"a", "b"}
  KeyKinds = {"plain", "underscored"}
  MaxRevision = 3
  MaxDamage = 1
  MaxSettingsFaults = 2
  ServerShapes <- TwoServers
  ProfileShapes <- TwoProfiles
SPECIFICATION MCSpec
INVARIANTS
  SessionIsSound
  CleanupIsHonest
  GroupEndIsSafe
  PreviewAccounts
  HostOwnsItsBridge
  ForcedExitGatesLaunch
  SavedSurvives
PROPERTIES
  SessionEnds
CHECK_DEADLOCK FALSE
