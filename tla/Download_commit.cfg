SPECIFICATION TransferSpec
CONSTANTS
  Calls = {c1, c2}
  Tool = {c1}
  MaxVersion = 4
  Size <- Sizes
  Mtime <- Mtimes
  Regular = {1, 2, 4}
  MaxChunks = 2
  None = None
  Foreign = Foreign
INVARIANTS VerdictIsTrue PublishedIsWhole WithinLimit OutcomeIsHonest NoLitter OnlyOneWins
PROPERTY ImplementsCopy
CHECK_DEADLOCK FALSE
