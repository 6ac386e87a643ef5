SPECIFICATION ToolsSpec
CONSTANTS
  ServerNames <- Servers2
  Advertised <- Lists
  Deferred = {"bash"}
  Kids = {k1}
  MaxBuilds = 3
  GoodPaths = {"p", "q"}
  BadPaths = {"out"}
  MaxLines = 5
  MaxDoc = 3
  Files = {"f", "g"}
  Aliases = {"f"}
  MaxRecords = 2
  MaxCalls = 2
  StartDisks <- PfDisks
  MaxNames <- PfNames
  WebCalls = {c1, c2}
  RawUrls <- Raws
  Normal <- Norm
  PageSizes = {0, 2, 3, 5}
  CacheMax = 4
  Ttl = 1
  MaxFollowed = 2
  MaxClock = 2
  SearchFiles <- FilesOfTree
  Place <- Where
  Trees <- Workspaces
  Inputs <- Queries
  HeadLimit = 2
  DefaultLimit = 3
  MaxResults = 2
  IncludeHidden = FALSE
  MaxHits = 2
  MaxEdits = 1
  RgCalls <- ResolveCalls
  RgProcess <- ProcessOf
  RgVersion <- VersionOf
  MaxStamp = 3
  Keep = 2
  CompactAt = 5
  CollapseAt = 5
  MaxLog = 6
  MaxCompacts = 2
  Sessions = {s1}
  Callers = {turn, ui}
  Confs = {"a", "b"}
  MaxMessages = 2
  MaxUsage = 1
  MaxFaults = 1
  MaxCrashes = 1
PROPERTIES NoticesReachParent
CHECK_DEADLOCK FALSE
