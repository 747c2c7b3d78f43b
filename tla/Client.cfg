SPECIFICATION WrapperSpec
CONSTANTS
  Pids = {p1, p2, p3}
  Distributable = {p1}
  MaxTasks = 1
  Overprovision = 1
  Retries = 1
  MaxLost = 1
  Parts <- MCParts
  MaxIovs = 2
  StatusSize = 2
  HeaderSizes = {2, 4}
  BodySize = 2
  MaxHeaderSize = 3
  InputSize = 4
  OutputSize = 4
  PipeSize = 1
  Samples <- MCSamples
  Prefix <- MCPrefix
  MaxPath = 4
  SizeWidth = 2
  Options <- MCOptions
  OneValueArguments <- MCOneValueArguments
  IgnoredArgs <- MCIgnoredArgs
  Submitters = {s1, s2}
  MaxVersions = 3
  Wrappers = {"w1", "w2", "w3"}
  Build <- MCBuild
  PayloadSize <- MCPayloadSize
  UnitBits = 3
  Width = 8
  MaxLoadSamples = 4
  MonthDays <- MCMonthDays
  PathMax = 30
  ChunkSize = 2
INVARIANTS PermissionsSound IoIntact FormatsExact SharedSound
PROPERTIES FailuresAreLocal TerminatesUnlessLost PermissionReclaimed IoTerminates
CHECK_DEADLOCK FALSE
