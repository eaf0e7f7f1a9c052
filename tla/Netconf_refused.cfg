SPECIFICATION ToolSpec
CONSTANTS
  Calls = {c1}
  Tool = {c1}
  Advertised <- BothVersions
  RevertResetsCandidate = TRUE
  UnlockDiscards = TRUE
  Faults <- NoFaults
  None = None
INVARIANT RefusedIsUntouched
CHECK_DEADLOCK FALSE
