SPECIFICATION Spec
CONSTANTS
  Kinds <- SshOnly
  Commands = 2
  Scripts <- Plain
  Banners <- NoBanner
  ShellPrompts <- Always
  Attempts = 1
  MaxPagers = 1
INVARIANT CommandsWaitForPrompt
CHECK_DEADLOCK FALSE
