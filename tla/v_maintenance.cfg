SPECIFICATION MaintenanceSpec
CONSTANTS
  Schemas = {"app", "public"}
  SearchPath <- AppFirst
  Commands <- MCCommands
  LongestTimeout = 200000
  Units = {1, 10}
  MaxOid = 3
  MaxBlocks = 3
  None = None
INVARIANT CheckedTargetIsProcessed
CHECK_DEADLOCK FALSE
