SPECIFICATION HealthSpec
CONSTANTS
  Clients = {c1, c2}
  c1 = c1
  c2 = c2
  Activity <- MCActivity
  Capacity = 3
  Databases = {"app"}
  HealthConfigs <- MCConfigs
  Policies <- MCPolicies
  MaxMoves = 2
  MaxFailures = 1
  Unset = Unset
INVARIANT FailuresAreIsolated
CHECK_DEADLOCK FALSE
