SPECIFICATION Spec
CONSTANTS
  None = None
  Attempt = {a1, a2, a3}
  Forced = {a2}
  Overlap = TRUE
  Failable = {"link", "moveArtifact", "moveMetadata", "put", "restore"}
INVARIANT TemporariesAreCleanedUp
SYMMETRY SameKind
CHECK_DEADLOCK FALSE
