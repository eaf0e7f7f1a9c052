SPECIFICATION Spec
CONSTANTS
  p1 = p1
  p2 = p2
  Paths = {p1, p2}
  Identity <- Twins
  Features <- AllFeatures
  MaxCalls = 4
  None = None
INVARIANTS  PublishedIsChecked
CHECK_DEADLOCK FALSE
