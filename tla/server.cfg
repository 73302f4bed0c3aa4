SPECIFICATION ServerSpec
CONSTANTS
  i1 = i1
  i2 = i2
  p1 = p1
  p2 = p2
  Invocations = {i1, i2}
  Pids = {p1, p2}
  MaxBackends = 3
  Nobody = Nobody
  Sessions = {1, 2, 3}
  Prepared = 0
  Asked = {{1}, {1, 2}}
  MaxChanges = 1
INVARIANTS ResultTellsTheSignal SignalIsAdmissible ChainsAreSimple NoBlockerIsLost
PROPERTIES TerminatedSessionsEnd ChainEnds
CHECK_DEADLOCK FALSE
