SPECIFICATION OperationsSpec
CONSTANTS
  Clients = {c1, c2}
  c1 = c1
  c2 = c2
  Activity <- MCActivity
  Capacity = 3
  Databases = {"app"}
  HealthConfigs <- MCConfigs
  Policies <- MCPolicies
  MaxMoves = 2
  MaxFailures = 1
  Unset = Unset
  Schemas = {"app", "public"}
  SearchPath <- AppFirst
  Commands <- MCCommands
  LongestTimeout = 200000
  Units = {1, 10}
  MaxOid = 3
  MaxBlocks = 3
  None = None
INVARIANTS SuccessMeansProcessed TimeoutsAreToldApart EveryStatusWasTrue CriticalIsNotHidden AllClearIsEarned ExportIsWhole
PROPERTIES BoundedCommandsEnd
CHECK_DEADLOCK FALSE
