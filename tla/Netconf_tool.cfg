SPECIFICATION ToolFairSpec
CONSTANTS
  Calls = {c1, c2}
  Tool = {c1}
  Advertised <- BothVersions
  RevertResetsCandidate = FALSE
  UnlockDiscards = FALSE
  Faults <- AllFaults
  None = None
INVARIANTS FinalizedIsKept NoHalfApplied ReportIsTrue
PROPERTY LockIsReleased
CHECK_DEADLOCK FALSE
