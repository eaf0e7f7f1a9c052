SPECIFICATION Spec
CONSTANTS
  Calls = {c1, c2, c3}
  Advertised <- BothVersions
  RevertResetsCandidate = TRUE
  UnlockDiscards = TRUE
  Faults <- AllFaults
  None = None
INVARIANTS TypeOK OnlyConfirmedIsKept TransientIsUndone
PROPERTIES PersistOutlivesSession ImplementsTrial
SYMMETRY Symmetry
CHECK_DEADLOCK FALSE
