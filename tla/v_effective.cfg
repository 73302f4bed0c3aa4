SPECIFICATION RoleSpec
CONSTANTS
  Names = {us, dba, reader, other}
  Us = us
  Dba = dba
  Reader = reader
  Other = other
  Public = public
  Objects <- MCObjects
  Privileges = {"SELECT", "INSERT"}
  Newer = {"MAINTAIN"}
  InitialRoles <- MCInitialRoles
  Menu <- MCMenu
  MaxStatements = 4
  Unset = Unset
INVARIANT EffectiveListingAnswers
CHECK_DEADLOCK FALSE
