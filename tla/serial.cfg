SPECIFICATION Spec
CONSTANTS
  None = None
  Attempt = {a1, a2, a3}
  Forced = {a2, a3}
  Overlap = FALSE
  Failable = {"link", "put"}
INVARIANTS TypeOK PublishedPairIsSound BackupSurvives
PROPERTY ImplementsSlot
CHECK_DEADLOCK FALSE
