------------------------ MODULE FileTokenSemaphore ------------------------
(***************************************************************************)
(* The cross-process semaphore that limits the SSH sessions to one device: *)
(* class FileTokenSemaphore of cli_tool/transport/ssh.py.  A token is a    *)
(* file <name>.<index>.token in a shared directory; creating it with       *)
(* O_CREAT|O_EXCL takes the slot, unlinking it frees the slot.  The file   *)
(* is empty until its creator has written its pid into it, and an acquirer *)
(* first unlinks every file it judges stale.                               *)
(*                                                                         *)
(* One action is one system call that other processes can observe (glob,   *)
(* read, kill(pid, 0), unlink, open, write); what a thread does between    *)
(* two of them is local.  POSIX file semantics: writing through a          *)
(* descriptor whose file was unlinked has no effect on the directory.      *)
(***************************************************************************)
EXTENDS Integers, FiniteSets

CONSTANTS
    Threads,    \* callers of acquire(); each holds at most one token
    Processes,  \* operating-system processes, each with a pid of its own
    ProcOf,     \* the process of each thread
    CanSignal,  \* CanSignal[p]: processes p may signal, so not another user's
    MaxTokens,  \* max_tokens
    None        \* no file

ASSUME SemaphoreAssumption ==
    /\ MaxTokens \in Nat \ {0}        \* __init__ refuses max_tokens < 1
    /\ ProcOf \in [Threads -> Processes]
    /\ CanSignal \in [Processes -> SUBSET Processes]
    /\ None \notin Threads

Slots == 0 .. MaxTokens - 1

VARIABLES
    creator,  \* creator[s]: the thread that created the file of slot s, or None
    written,  \* slots whose file holds its creator's pid
    alive,    \* running processes
    pc,       \* where each thread is in acquire() or release()
    at,       \* the slot a thread inspects, tries to create, or holds
    seen,     \* the process whose pid a thread read from a token file
    todo,     \* paths of the glob a sweeping thread has still to inspect
    late      \* threads whose deadline has passed

\* History variables: read by properties, never by a guard.
VARIABLES
    outdated, \* sweepers whose slot changed after they read its file
    vacant    \* vacant[t]: slots free ever since t's current round began

files  == <<creator, written>>
sweeps == <<seen, todo, outdated>>
vars   == <<creator, written, alive, pc, at, seen, todo, late, outdated, vacant>>

Labels == {"idle", "glob", "sweep", "probe", "unlink", "try", "write", "hold", "dead"}

TypeOK ==
    /\ creator \in [Slots -> Threads \cup {None}]
    /\ written \in SUBSET {s \in Slots : creator[s] # None}
    /\ alive \in SUBSET Processes
    /\ pc \in [Threads -> Labels]
    /\ at \in [Threads -> 0 .. MaxTokens]
    /\ seen \in [Threads -> Processes]
    /\ todo \in [Threads -> SUBSET Slots]
    /\ late \in SUBSET Threads
    /\ outdated \in SUBSET {t \in Threads : pc[t] \in {"probe", "unlink"}}
    /\ vacant \in [Threads -> SUBSET Slots]

Init ==
    /\ creator = [s \in Slots |-> None]
    /\ written = {}
    /\ alive = Processes
    /\ pc = [t \in Threads |-> "idle"]
    /\ at = [t \in Threads |-> 0]
    /\ seen = [t \in Threads |-> ProcOf[t]]
    /\ todo = [t \in Threads |-> {}]
    /\ late = {}
    /\ outdated = {}
    /\ vacant = [t \in Threads |-> {}]

----------------------------------------------------------------------------
(* The directory. *)

Sweepers(s) == {u \in Threads : pc[u] \in {"probe", "unlink"} /\ at[u] = s}

\* A file appears in slot s: no reader's verdict on s is about it.
CreateFile(t, s) ==
    /\ creator' = [creator EXCEPT ![s] = t]
    /\ outdated' = outdated \cup Sweepers(s)
    /\ vacant' = [u \in Threads |-> vacant[u] \ {s}]
    /\ UNCHANGED written

\* Path.unlink(), FileNotFoundError ignored.
UnlinkFile(t, s) ==
    /\ creator' = [creator EXCEPT ![s] = None]
    /\ written' = written \ {s}
    /\ outdated' = (outdated \cup Sweepers(s)) \ {t}

Goto(t, label) == pc' = [pc EXCEPT ![t] = label]

\* Locals that go out of scope return to their initial values.
Forget(t) ==
    /\ at' = [at EXCEPT ![t] = 0]
    /\ seen' = [seen EXCEPT ![t] = ProcOf[t]]

LeaveAcquire(t) ==
    /\ late' = late \ {t}
    /\ vacant' = [vacant EXCEPT ![t] = {}]

\* The sweep is done with the path the thread looked at.
NextPath(t) ==
    /\ Goto(t, "sweep")
    /\ todo' = [todo EXCEPT ![t] = @ \ {at[t]}]
    /\ Forget(t)

----------------------------------------------------------------------------
(* acquire(): _remove_stale_tokens, then one O_EXCL attempt per slot. *)

StartAcquire(t) ==
    /\ pc[t] = "idle"
    /\ Goto(t, "glob")
    /\ UNCHANGED <<files, alive, at, sweeps, late, vacant>>

\* time.monotonic() reaches the deadline while the thread is in acquire().
DeadlinePasses(t) ==
    /\ pc[t] \notin {"idle", "write", "hold", "dead"}
    /\ t \notin late
    /\ late' = late \cup {t}
    /\ UNCHANGED <<files, alive, pc, at, sweeps, vacant>>

\* directory.glob() lists the directory once, before the first path.
Glob(t) ==
    /\ pc[t] = "glob"
    /\ Goto(t, "sweep")
    /\ todo' = [todo EXCEPT ![t] = {s \in Slots : creator[s] # None}]
    /\ vacant' = [vacant EXCEPT ![t] = {s \in Slots : creator[s] = None}]
    /\ UNCHANGED <<files, alive, at, seen, late, outdated>>

\* _is_stale up to os.kill: a file that is gone or holds no JSON is stale ...
ReadUnwritten(t, s) ==
    /\ s \notin written
    /\ Goto(t, "unlink")
    /\ at' = [at EXCEPT ![t] = s]
    /\ UNCHANGED <<seen, todo>>

\* Mutant: the own pid counts as left over from an earlier run.
ReadOwnPidMutant(t, s) ==
    /\ s \in written
    /\ ProcOf[creator[s]] = ProcOf[t]
    /\ Goto(t, "unlink")
    /\ at' = [at EXCEPT ![t] = s]
    /\ UNCHANGED <<seen, todo>>

\* ... one with this process's own pid is not ...
ReadOwnPid(t, s) ==
    /\ s \in written
    /\ ProcOf[creator[s]] = ProcOf[t]
    /\ todo' = [todo EXCEPT ![t] = @ \ {s}]
    /\ UNCHANGED <<pc, at, seen>>

\* ... and any other pid has to be probed.
ReadOtherPid(t, s) ==
    /\ s \in written
    /\ ProcOf[creator[s]] # ProcOf[t]
    /\ Goto(t, "probe")
    /\ at' = [at EXCEPT ![t] = s]
    /\ seen' = [seen EXCEPT ![t] = ProcOf[creator[s]]]
    /\ UNCHANGED todo

ReadToken(t) ==
    /\ pc[t] = "sweep"
    /\ \E s \in todo[t] :
        \/ ReadUnwritten(t, s)
        \/ ReadOwnPid(t, s)
        \/ ReadOtherPid(t, s)
    /\ UNCHANGED <<files, alive, late, outdated, vacant>>

\* Mutant: any error of os.kill but "not permitted" is ignored.
AnswersMutant(p, q) == q \in CanSignal[p]

\* os.kill(pid, 0) raises OSError when there is no such process and when the
\* caller may not signal it.
Answers(p, q) == q \in alive /\ q \in CanSignal[p]

OwnerAnswers(t) ==
    /\ pc[t] = "probe"
    /\ Answers(ProcOf[t], seen[t])
    /\ NextPath(t)
    /\ outdated' = outdated \ {t}
    /\ UNCHANGED <<files, alive, late, vacant>>

OwnerGone(t) ==
    /\ pc[t] = "probe"
    /\ ~ Answers(ProcOf[t], seen[t])
    /\ Goto(t, "unlink")
    /\ seen' = [seen EXCEPT ![t] = ProcOf[t]]
    /\ UNCHANGED <<files, alive, at, todo, late, outdated, vacant>>

RemoveStale(t) ==
    /\ pc[t] = "unlink"
    /\ UnlinkFile(t, at[t])
    /\ NextPath(t)
    /\ UNCHANGED <<alive, late, vacant>>

\* Mutant: slots counted from one.
FirstIndexMutant == 1

FirstIndex == 0

SweepDone(t) ==
    /\ pc[t] = "sweep"
    /\ todo[t] = {}
    /\ Goto(t, "try")
    /\ at' = [at EXCEPT ![t] = FirstIndex]
    /\ UNCHANGED <<files, alive, sweeps, late, vacant>>

\* os.open(O_CREAT | O_EXCL) on the next index.
CreateToken(t) ==
    /\ pc[t] = "try"
    /\ at[t] < MaxTokens
    /\ creator[at[t]] = None
    /\ CreateFile(t, at[t])
    /\ Goto(t, "write")
    /\ UNCHANGED <<alive, at, seen, todo, late>>

\* FileExistsError: continue with the next index.
SkipSlot(t) ==
    /\ pc[t] = "try"
    /\ at[t] < MaxTokens
    /\ creator[at[t]] # None
    /\ at' = [at EXCEPT ![t] = @ + 1]
    /\ UNCHANGED <<files, alive, pc, sweeps, late, vacant>>

\* Mutant: the deadline is not looked at.
RetryMutant(t) ==
    /\ pc[t] = "try"
    /\ at[t] = MaxTokens
    /\ Goto(t, "glob")
    /\ Forget(t)
    /\ vacant' = [vacant EXCEPT ![t] = {}]
    /\ UNCHANGED <<files, alive, todo, late, outdated>>

\* Every slot was taken: sleep 0.2 s and start another round ...
Retry(t) ==
    /\ pc[t] = "try"
    /\ at[t] = MaxTokens
    /\ t \notin late
    /\ Goto(t, "glob")
    /\ Forget(t)
    /\ vacant' = [vacant EXCEPT ![t] = {}]
    /\ UNCHANGED <<files, alive, todo, late, outdated>>

\* Mutant: the failing acquire() cleans up the path it tried last.
TimeOutMutant(t) ==
    /\ pc[t] = "try"
    /\ at[t] = MaxTokens
    /\ t \in late
    /\ UnlinkFile(t, MaxTokens - 1)
    /\ Goto(t, "idle")
    /\ Forget(t)
    /\ LeaveAcquire(t)
    /\ UNCHANGED <<alive, todo>>

\* ... or raise TimeoutError.
TimeOut(t) ==
    /\ pc[t] = "try"
    /\ at[t] = MaxTokens
    /\ t \in late
    /\ Goto(t, "idle")
    /\ Forget(t)
    /\ LeaveAcquire(t)
    /\ UNCHANGED <<files, alive, todo, outdated>>

\* Mutant: the JSON is written through the path, whatever the path names now.
WriteTokenMutant(t) ==
    /\ pc[t] = "write"
    /\ Goto(t, "hold")
    /\ written' = written \cup {at[t]}
    /\ outdated' = outdated \cup Sweepers(at[t])
    /\ LeaveAcquire(t)
    /\ UNCHANGED <<creator, alive, at, seen, todo>>

\* Closing the file writes the JSON.  If the file was unlinked meanwhile, the
\* data goes to a file no directory entry names.
WriteToken(t) ==
    /\ pc[t] = "write"
    /\ Goto(t, "hold")
    /\ IF creator[at[t]] = t
       THEN /\ written' = written \cup {at[t]}
            /\ outdated' = outdated \cup Sweepers(at[t])
       ELSE UNCHANGED <<written, outdated>>
    /\ LeaveAcquire(t)
    /\ UNCHANGED <<creator, alive, at, seen, todo>>

\* The write fails (disk full): acquire() raises and leaves the empty file.
WriteFails(t) ==
    /\ pc[t] = "write"
    /\ Goto(t, "idle")
    /\ Forget(t)
    /\ LeaveAcquire(t)
    /\ UNCHANGED <<files, alive, todo, outdated>>

\* Mutant: the file is left behind.
ReleaseMutant(t) ==
    /\ pc[t] = "hold"
    /\ Goto(t, "idle")
    /\ Forget(t)
    /\ UNCHANGED <<files, alive, todo, late, outdated, vacant>>

Release(t) ==
    /\ pc[t] = "hold"
    /\ UnlinkFile(t, at[t])
    /\ Goto(t, "idle")
    /\ Forget(t)
    /\ UNCHANGED <<alive, todo, late, vacant>>

ThreadsOf(p) == {t \in Threads : ProcOf[t] = p}

\* A process dies; its files stay.
Crash(p) ==
    /\ p \in alive
    /\ alive' = alive \ {p}
    /\ pc' = [t \in Threads |-> IF t \in ThreadsOf(p) THEN "dead" ELSE pc[t]]
    /\ at' = [t \in Threads |-> IF t \in ThreadsOf(p) THEN 0 ELSE at[t]]
    /\ seen' = [t \in Threads |-> IF t \in ThreadsOf(p) THEN p ELSE seen[t]]
    /\ todo' = [t \in Threads |-> IF t \in ThreadsOf(p) THEN {} ELSE todo[t]]
    /\ late' = late \ ThreadsOf(p)
    /\ outdated' = outdated \ ThreadsOf(p)
    /\ vacant' = [t \in Threads |-> IF t \in ThreadsOf(p) THEN {} ELSE vacant[t]]
    /\ UNCHANGED files

----------------------------------------------------------------------------
\* The steps of acquire() a scheduled thread takes by itself; starting,
\* releasing and crashing are up to the callers.
Progress(t) ==
    \/ Glob(t)
    \/ ReadToken(t)
    \/ OwnerAnswers(t)
    \/ OwnerGone(t)
    \/ RemoveStale(t)
    \/ SweepDone(t)
    \/ CreateToken(t)
    \/ SkipSlot(t)
    \/ Retry(t)
    \/ TimeOut(t)
    \/ WriteToken(t)

ThreadStep(t) ==
    \/ Progress(t)
    \/ StartAcquire(t)
    \/ DeadlinePasses(t)
    \/ WriteFails(t)
    \/ Release(t)

Next ==
    \/ \E t \in Threads : ThreadStep(t)
    \/ \E p \in Processes : Crash(p)

Spec == Init /\ [][Next]_vars

\* A runnable thread is eventually scheduled, and time passes.
Fairness ==
    \A t \in Threads :
        /\ WF_vars(Progress(t))
        /\ WF_vars(DeadlinePasses(t))

FairSpec == Spec /\ Fairness

----------------------------------------------------------------------------
(* Properties. *)

Holders == {t \in Threads : pc[t] = "hold"}

\* At most max_tokens callers are past acquire() at once: what the class is
\* for (ssh.py:344-346) and what its timeout message reports (ssh.py:376-378).
HoldersWithinLimit == Cardinality(Holders) <= MaxTokens

\* A completed token of a running process is held by the thread that created
\* it: no error path, timeout or lost race leaves such a file behind, which
\* nobody would ever judge stale.
LiveTokenIsHeld ==
    \A s \in written :
        ProcOf[creator[s]] \in alive =>
            pc[creator[s]] = "hold" /\ at[creator[s]] = s

\* A sweeper about to unlink a slot, whose file nobody touched since it was
\* read, is right to do so: the file is gone, unwritten, or its owner's process
\* is dead or out of the sweeper's reach.
FreshVerdictIsRight ==
    \A u \in Threads \ outdated :
        pc[u] = "unlink" =>
            \/ at[u] \notin written
            \/ ProcOf[creator[at[u]]] \notin alive
            \/ ProcOf[creator[at[u]]] \notin CanSignal[ProcOf[u]]

\* A completed token of a running process disappears only when its holder
\* releases it, when a sweeper acts on a verdict that is out of date or about a
\* process it may not signal, or when a holder that lost its own file releases
\* the slot: _is_stale itself never condemns a token in use.
EvictionNeedsRace ==
    [][\A s \in written :
         LET t == creator[s] IN
         ProcOf[t] \in alive /\ creator'[s] # t /\ ~ Release(t) =>
             \E u \in Threads \ {t} :
                 /\ at[u] = s
                 /\ \/ pc[u] = "hold"
                    \/ /\ pc[u] = "unlink"
                       /\ \/ u \in outdated
                          \/ ProcOf[t] \notin CanSignal[ProcOf[u]]]_vars

\* acquire() raises TimeoutError only after a round in which no slot was free
\* all along, however the slots changed hands during the round.
NoSpuriousTimeout ==
    [][\A t \in Threads :
         pc[t] = "try" /\ pc'[t] = "idle" => vacant[t] = {}]_vars

\* acquire() ends: with a token, with TimeoutError, or with its process.
AcquireReturns ==
    \A t \in Threads : pc[t] = "glob" ~> pc[t] \in {"hold", "idle", "dead"}

AbandonedBy(s, p) == creator[s] # None /\ ProcOf[creator[s]] = p /\ p \notin alive

\* A token left by a crashed process is removed by the next sweep that lists
\* it, unless the sweeper dies too: a crash costs no capacity for good.
AbandonedTokenIsSwept ==
    \A t \in Threads, s \in Slots, p \in Processes :
        (pc[t] = "sweep" /\ s \in todo[t] /\ AbandonedBy(s, p))
            ~> (~ AbandonedBy(s, p) \/ pc[t] = "dead")

============================================================================
