SPECIFICATION ReadingSpec
CONSTANTS
  n = n
  m = m
  Labels = {n, m}
  Asking = n
  Requests <- MCRequests
  Documents <- MCDocuments
  Versions = {99999, 100000}
  MaxDdl = 2
  Absent = Absent
  Names = {us, dba, reader, other}
  Us = us
  Dba = dba
  Reader = reader
  Other = other
  Public = public
  Objects <- MCObjects
  Privileges = {"SELECT", "INSERT"}
  Newer = {"MAINTAIN"}
  InitialRoles <- MCInitialRoles
  Menu <- MCMenu
  MaxStatements = 4
  Unset = Unset
  Tools = {"pg_dump", "pg_restore", "psql"}
  Jobs <- MCJobs
  MaxCtrlC = 2
  MaxMoves = 2
INVARIANTS ExitCodeTellsTheCause DescriptionIsWitnessed QuietDescriptionIsWhole StatementIsSentOnce EffectiveIsExplained WhatSucceededIsListed NoChildIsLeft ResultsAreTheChildsOwn AvailabilityIsEarned
PROPERTIES EveryInspectionEnds TimedJobsEnd
CHECK_DEADLOCK FALSE
