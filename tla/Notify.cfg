SPECIFICATION FairSpec
CONSTANTS
  Outcomes = {"ok", "refused", "malformed"}
  SnapshotsMove = TRUE
  MaxInterrupts = 2
CHECK_DEADLOCK FALSE
INVARIANTS
  SuccessIsReal
  ExitCodeSurvivesRefusals
  NoOrphan
PROPERTY WrapperEnds
