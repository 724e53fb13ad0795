SPECIFICATION ReqSpec
CONSTANTS
  PerSecond = 2
  Users <- SessionUsers
  Configs <- SessionConfigs
  MaxNow = 6
  MaxTokens = 2
  Threads = {1, 2}
  Slices <- SomeSlices
  Maps <- SomeMaps
  SharedKeys = {1, 2, 3}
  MaxOps = 2
  MaxLen = 3
  Ceiling = 2
  Batch = 1
  Kinds = {"redis", "valkey"}
  Receivers = {1, 2}
  MaxMessages = 2
  Expiries <- SomeExpiries
  Millisecond = 2
  Second = 8
  Clients <- QueueClients
  Messages <- QueueMessages
  Bad = {2}
  MaxSends = 2
  MaxCrashes = 1
  HTTPClients <- SomeHTTPClients
  BodyLens = {0, 1, 3}
  FailPoints = {0, 1, 2}
  TraceIDs = {"none", "bad", "id"}
  Tables <- SomeTables
  IDs = {1, 2, 3}
  Names = {1, 2, 3}
  Chars = {"q", "s", "z", "lf", "sub", "b", "d", "0", ","}
  MaxChars = 3
  MaxWrites = 3
  Servers <- SomeServers
  RouteLists <- SomeRoutes
  RoutePaths = {"/a", "/p", "/ping", "/", "/*"}
  Bodies = {0, 2}
  Codes = {103, 200, 404}
  MaxSteps = 2
  Bases <- SomeBases
  PathParams <- ProxyPaths
CHECK_DEADLOCK FALSE
PROPERTY
  UncommittedIsRedelivered
