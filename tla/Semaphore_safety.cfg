SPECIFICATION Spec
CONSTANTS
  t1 = t1
  t2 = t2
  t3 = t3
  p1 = p1
  p2 = p2
  Threads = {t1, t2, t3}
  Processes = {p1, p2}
  ProcOf <- MCProcOf
  CanSignal <- RootAndUser
  MaxTokens = 2
  None = None
INVARIANTS TypeOK LiveTokenIsHeld FreshVerdictIsRight
PROPERTIES EvictionNeedsRace NoSpuriousTimeout
CHECK_DEADLOCK FALSE
SYMMETRY SameProcess
