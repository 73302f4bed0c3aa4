SPECIFICATION Spec
CONSTANTS
  None = None
  Other = Other
  r1 = r1
  r2 = r2
  r3 = r3
  Restore <- MCRestore
  Creating <- MCCreating
  Cleaning <- MCCleaning
  Parallel <- MCParallel
  Exclusive <- MCCleaning
  Droppable = FALSE
  Version = {v1, v2}
  Plain = {v2}
INVARIANTS NoImplicitOverwrite
PROPERTY SuccessMeansRestored
CHECK_DEADLOCK FALSE
