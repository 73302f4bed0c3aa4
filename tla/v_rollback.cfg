SPECIFICATION Spec
CONSTANTS
  None = None
  Attempt = {a1, a2}
  Forced = {a2}
  Overlap = FALSE
  Failable = {"moveArtifact"}
INVARIANT BackupSurvives
CHECK_DEADLOCK FALSE
