--------------------------- MODULE MCTransferTool ---------------------------
\* Constants for checking TransferTool, and with it Download.  The versions: a
\* file, a change that keeps its size, a shorter symlink, a growth beyond the limit.
EXTENDS TransferTool

Sizes  == <<2, 2, 1, 3>>
Mtimes == <<1, 2, 3, 4>>

=============================================================================
