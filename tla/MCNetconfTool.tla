--------------------------- MODULE MCNetconfTool ---------------------------
\* Constants for checking NetconfTool.
EXTENDS NetconfTool

BothVersions == {"candidate:1.0", "confirmed-commit:1.0", "confirmed-commit:1.1"}
AllFaults == {"reply", "session", "crash", "cleanup"}
NoFaults == {}

===========================================================================
