SPECIFICATION Spec
CONSTANTS
  t1 = t1
  t2 = t2
  t3 = t3
  p1 = p1
  p2 = p2
  Threads = {t1, t2, t3}
  Processes = {p1, p2}
  ProcOf <- MCProcOf
  CanSignal <- OneUser
  MaxTokens = 1
  None = None
INVARIANT HoldersWithinLimit
CHECK_DEADLOCK FALSE
SYMMETRY SameProcess
