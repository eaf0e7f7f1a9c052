SPECIFICATION Spec
CONSTANTS
  Threads = {t1, t2, t3}
  Sessions = {x1, x2, x3}
  MaxSessions = 2
  Reuse = TRUE
  LastPool = 1
  Faults <- Rerun
  Free = Free
  Other = Other
  None = None
INVARIANTS TypeOK NoStrandedToken  ClosedIsGone SessionExclusive
SYMMETRY Symmetry
CHECK_DEADLOCK FALSE
