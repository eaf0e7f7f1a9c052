SPECIFICATION FairSpec
CONSTANTS
  t1 = t1
  t2 = t2
  t3 = t3
  p1 = p1
  p2 = p2
  Threads = {t1, t2, t3}
  Processes = {p1, p2}
  ProcOf <- MCProcOf
  CanSignal <- RootAndUser
  MaxTokens = 1
  None = None
PROPERTIES AcquireReturns AbandonedTokenIsSwept
CHECK_DEADLOCK FALSE
