SPECIFICATION Spec
CONSTANTS
  W32 = 4
  W64 = 16
  Inputs <- MCInputs
CHECK_DEADLOCK FALSE
INVARIANTS
  MatchesCompress
  SkippedK3CannotPass
  SamplesCoverTheirRun
  RunsUseTheirStream
  FreedIsIdle
