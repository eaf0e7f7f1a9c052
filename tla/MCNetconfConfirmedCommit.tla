--------------------- MODULE MCNetconfConfirmedCommit ---------------------
\* Constants for checking NetconfConfirmedCommit.
EXTENDS NetconfConfirmedCommit, TLC

Symmetry == Permutations(Calls)
BothVersions == {"candidate:1.0", "confirmed-commit:1.0", "confirmed-commit:1.1"}
AllFaults == {"reply", "session", "crash", "cleanup"}

===========================================================================
