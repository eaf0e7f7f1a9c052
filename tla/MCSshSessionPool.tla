------------------------- MODULE MCSshSessionPool -------------------------
\* Constants for checking SshSessionPool.
EXTENDS SshSessionPool, TLC

Symmetry == Permutations(Threads) \cup Permutations(Sessions)
Rerun == {"rerun"}
Mishaps == {"interrupt", "logout"}

===========================================================================
