SPECIFICATION Spec
CONSTANTS
  W32 = 4
  W64 = 16
  Requests <- AllRequests
INVARIANTS
  SuccessLeavesItsOutput
  LeftRecordIsRight
  FailureLeavesNoNewFile
  ReportMatchesRuns
  DecodeIsStrict
CHECK_DEADLOCK FALSE
