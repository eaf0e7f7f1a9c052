SPECIFICATION FairSpec
CONSTANTS
  Threads = {t1, t2}
  Sessions = {x1, x2, x3}
  MaxSessions = 2
  Reuse = TRUE
  LastPool = 1
  Faults <- Mishaps
  Free = Free
  Other = Other
  None = None
INVARIANTS SessionHasToken SessionsWithinLimit
PROPERTIES ImplementsLease CallsReturn
CHECK_DEADLOCK FALSE
