SPECIFICATION SmokeSpec
CONSTANTS
  Kinds <- AllKinds
  Commands = 2
  Scripts <- AllScripts
  Banners <- AllBanners
  ShellPrompts <- Either
  Attempts = 2
  MaxPagers = 1
  MaxBytes = 6
  None = None
INVARIANTS AnswersMatch  RefusedOnce  TelnetReadsAlike PassedIsShown
CHECK_DEADLOCK FALSE
