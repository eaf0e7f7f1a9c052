---------------------- MODULE MCFileTokenSemaphore ----------------------
\* Constants for checking FileTokenSemaphore: threads of two processes, two of
\* them in one process, run by one user, or the first process by root.
EXTENDS FileTokenSemaphore, TLC

CONSTANTS t1, t2, t3, p1, p2

MCProcOf == [t \in Threads |-> IF t = t3 THEN p2 ELSE p1]
OneUser  == [p \in Processes |-> Processes]
RootAndUser == [p \in Processes |-> IF p = p1 THEN Processes ELSE {p}]
SameProcess == Permutations({t1, t2})

=========================================================================
