------------------------ MODULE MCFtpControlChannel ------------------------
\* Constants for checking FtpControlChannel: two files that look the same.
EXTENDS FtpControlChannel

CONSTANTS p1, p2
Twins == [p \in Paths |-> 0]
AllFeatures == SUBSET {"OPTS", "MLSD", "MLST"}

============================================================================
