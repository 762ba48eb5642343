SPECIFICATION Spec
CONSTANTS
  Outcomes = {"ok", "refused"}
  SnapshotsMove = TRUE
  MaxInterrupts = 0
CHECK_DEADLOCK FALSE
INVARIANT ExitCodeAuthoritative
