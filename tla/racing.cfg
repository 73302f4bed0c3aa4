SPECIFICATION Spec
CONSTANTS
  None = None
  Attempt = {a1, a2, a3}
  Forced = {}
  Overlap = TRUE
  Failable = {"link", "unlink"}
SYMMETRY SameKind
INVARIANT AtMostOneSuccess
PROPERTY PublishedIsNeverTouched
CHECK_DEADLOCK FALSE
