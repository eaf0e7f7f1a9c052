--------------------------- MODULE SessionLease ---------------------------
(***************************************************************************)
(* What the SSH session pool promises its callers, without locks, idle     *)
(* lists or token files: a session is used by one thread at a time, there  *)
(* are never more than MaxSessions of them, and a closed one is gone.      *)
(***************************************************************************)
EXTENDS Integers, FiniteSets

CONSTANTS Threads, Sessions, MaxSessions, None

VARIABLES
    live,   \* sessions that exist
    lessee  \* lessee[x]: the thread that uses session x, or None

leaseVars == <<live, lessee>>

HasNoLease(t) == \A x \in Sessions : lessee[x] # t

Init ==
    /\ live = {}
    /\ lessee = [x \in Sessions |-> None]

\* A thread gets a session of its own ...
Open(t, x) ==
    /\ x \notin live
    /\ Cardinality(live) < MaxSessions
    /\ HasNoLease(t)
    /\ live' = live \cup {x}
    /\ lessee' = [lessee EXCEPT ![x] = t]

\* ... or one nobody uses.
ReuseSession(t, x) ==
    /\ x \in live
    /\ lessee[x] = None
    /\ HasNoLease(t)
    /\ lessee' = [lessee EXCEPT ![x] = t]
    /\ UNCHANGED live

GiveBack(x) ==
    /\ lessee[x] # None
    /\ lessee' = [lessee EXCEPT ![x] = None]
    /\ UNCHANGED live

\* The lessee closes it, or the pool does while nobody uses it.
Close(x) ==
    /\ x \in live
    /\ live' = live \ {x}
    /\ lessee' = [lessee EXCEPT ![x] = None]

Next ==
    \E x \in Sessions :
        \/ \E t \in Threads : Open(t, x) \/ ReuseSession(t, x)
        \/ GiveBack(x)
        \/ Close(x)

Spec == Init /\ [][Next]_leaseVars

============================================================================
