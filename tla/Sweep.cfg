SPECIFICATION Spec
CONSTANTS
  Paths <- MCPaths
  Comparator = "comparator"
  Backend <- MCBackend
  Cells = {c1, c2}
  NoCell = NoCell
  Trials = 2
  Warmups = 1
  Calibrated = {0, 2}
  ThreadCounts = {1, 2}
  GpuWarmup = TRUE
  Calibration = TRUE
  Conditions <- MCConditions
SYMMETRY Symmetry
CHECK_DEADLOCK FALSE
INVARIANTS
  TimedIsCorrect
  CaseFilesSound
  EvidenceSound
