-------------------------- MODULE SshSessionPool --------------------------
(***************************************************************************)
(* The SSH session pool of one process: classes SshSessionPool and         *)
(* PooledSshSession and the pool registry of cli_tool/transport/ssh.py.    *)
(* Threads lease sessions with `with pool.acquire(owner)`; a session that  *)
(* is given back healthy waits in the pool's idle list, still owning its   *)
(* token file, and every other one is closed and its token unlinked.       *)
(*                                                                         *)
(* The token files are taken and freed in one step here, and only by the   *)
(* process that owns them; what happens inside FileTokenSemaphore.acquire, *)
(* and when it fails to keep tokens apart, is the subject of the module of *)
(* that name.  Other processes take and free tokens of the same device.    *)
(* The idle list is a set: nothing here depends on the order of pops.      *)
(* A command is sent in one step and its output read in another.           *)
(***************************************************************************)
EXTENDS Integers, FiniteSets

CONSTANTS
    Threads,      \* threads of this process
    Sessions,     \* identities of SshCliSession objects
    MaxSessions,  \* max_sessions, the number of token slots
    Reuse,        \* reuse_sessions
    LastPool,     \* bound: how often the registry may be emptied
    Faults,       \* the faults below that may happen
    Free, Other,  \* a token file that is absent, or another process's
    None

ASSUME PoolAssumption ==
    /\ MaxSessions \in Nat \ {0}
    /\ LastPool \in Nat
    /\ Reuse \in BOOLEAN
    \* "interrupt": a BaseException (Ctrl-C, a test timeout) in connect() or
    \*              while the output of a command is read
    \* "logout":    close(logout=True) raises while it sends the logout
    \* "rerun":     a caller runs commands on a session after a failed run
    /\ Faults \subseteq {"interrupt", "logout", "rerun"}
    /\ Free \notin Sessions /\ Other \notin Sessions /\ None \notin Sessions
    /\ Free # Other
    /\ None \notin Threads

Slots == 0 .. MaxSessions - 1
Pools == 0 .. LastPool

VARIABLES
    token,    \* token[s]: the session whose token file occupies slot s
    slot,     \* slot[x]: token_path of session x
    state,    \* state[x]: what is_healthy and close find
    pending,  \* sessions with a command sent whose output was never read
    idle,     \* idle[g]: the idle list of pool g
    lock,     \* lock[g]: the thread inside `with self._lock` of pool g
    current,  \* the pool in the registry
    pc,       \* where each thread is
    pool,     \* pool[t]: the pool thread t works on
    mine,     \* mine[t]: the session leased to thread t
    batch     \* batch[t]: sessions close_all took from the idle list

tokens  == <<token, slot>>
conns   == <<state, pending>>
shared  == <<idle, lock, current>>
vars    == <<token, slot, state, pending, idle, lock, current, pc, pool, mine, batch>>

Labels == {"out", "enter", "lookup", "token", "connect", "using", "command",
           "failed", "release", "put", "swap", "drain"}

\* Threads that have a session they may use or must give back.
Leased(t) == pc[t] \in {"connect", "using", "command", "release", "put"}

TypeOK ==
    /\ token \in [Slots -> Sessions \cup {Free, Other}]
    /\ slot \in [Sessions -> Slots]
    /\ state \in [Sessions -> {"new", "open", "broken", "closed"}]
    /\ pending \in SUBSET Sessions
    /\ idle \in [Pools -> SUBSET Sessions]
    /\ lock \in [Pools -> Threads \cup {None}]
    /\ current \in Pools
    /\ pc \in [Threads -> Labels]
    /\ pool \in [Threads -> Pools]
    /\ mine \in [Threads -> Sessions \cup {None}]
    /\ batch \in [Threads -> SUBSET Sessions]
    /\ \A t \in Threads : Leased(t) \/ pc[t] = "failed" <=> mine[t] # None
    /\ \A t \in Threads : batch[t] # {} => pc[t] = "drain"

Init ==
    /\ token = [s \in Slots |-> Free]
    /\ slot = [x \in Sessions |-> 0]
    /\ state = [x \in Sessions |-> "closed"]
    /\ pending = {}
    /\ idle = [g \in Pools |-> {}]
    /\ lock = [g \in Pools |-> None]
    /\ current = 0
    /\ pc = [t \in Threads |-> "out"]
    /\ pool = [t \in Threads |-> 0]
    /\ mine = [t \in Threads |-> None]
    /\ batch = [t \in Threads |-> {}]

Goto(t, label) == pc' = [pc EXCEPT ![t] = label]

\* The call is over.
Leave(t) ==
    /\ Goto(t, "out")
    /\ pool' = [pool EXCEPT ![t] = 0]
    /\ mine' = [mine EXCEPT ![t] = None]

Unreferenced(x) ==
    /\ \A t \in Threads : mine[t] # x
    /\ \A t \in Threads : x \notin batch[t]
    /\ \A g \in Pools : x \notin idle[g]

\* An identity no object and no token file has.
Unused(x) == Unreferenced(x) /\ state[x] = "closed" /\ \A s \in Slots : token[s] # x

\* SshCliSession.close as far as the pool can tell, without and with the
\* token: closed for good, and nothing more will be read from it.
CloseSession(x) ==
    /\ state' = [state EXCEPT ![x] = "closed"]
    /\ pending' = pending \ {x}
    /\ UNCHANGED slot

\* semaphore.release(token_path): unlinks the path, whoever created it.
FreeToken(x) == token' = [token EXCEPT ![slot[x]] = Free]

----------------------------------------------------------------------------
(* _acquire *)

\* ssh_session_pool() returns the registered pool.
StartAcquire(t) ==
    /\ pc[t] = "out"
    /\ Goto(t, "enter")
    /\ pool' = [pool EXCEPT ![t] = current]
    /\ UNCHANGED <<tokens, conns, shared, mine, batch>>

EnterLookup(t) ==
    /\ pc[t] = "enter"
    /\ lock[pool[t]] = None
    /\ lock' = [lock EXCEPT ![pool[t]] = t]
    /\ Goto(t, "lookup")
    /\ UNCHANGED <<tokens, conns, idle, current, pool, mine, batch>>

PopHealthy(t) ==
    /\ pc[t] = "lookup"
    /\ \E x \in idle[pool[t]] :
        /\ state[x] = "open"
        /\ idle' = [idle EXCEPT ![pool[t]] = @ \ {x}]
        /\ mine' = [mine EXCEPT ![t] = x]
    /\ lock' = [lock EXCEPT ![pool[t]] = None]
    /\ Goto(t, "using")
    /\ UNCHANGED <<tokens, conns, current, pool, batch>>

\* Mutant: the loop looks at the last idle session without popping it.
PopBrokenMutant(t) ==
    /\ pc[t] = "lookup"
    /\ \E x \in idle[pool[t]] :
        /\ state[x] # "open"
        /\ CloseSession(x)
        /\ FreeToken(x)
    /\ UNCHANGED <<shared, pc, pool, mine, batch>>

\* An idle session the device has dropped.
PopBroken(t) ==
    /\ pc[t] = "lookup"
    /\ \E x \in idle[pool[t]] :
        /\ state[x] # "open"
        /\ idle' = [idle EXCEPT ![pool[t]] = @ \ {x}]
        /\ CloseSession(x)
        /\ FreeToken(x)
    /\ UNCHANGED <<lock, current, pc, pool, mine, batch>>

\* Mutant: the semaphore is skipped.
NothingIdleMutant(t) ==
    /\ pc[t] = "lookup"
    /\ idle[pool[t]] = {}
    /\ lock' = [lock EXCEPT ![pool[t]] = None]
    /\ Goto(t, "connect")
    /\ UNCHANGED <<tokens, conns, idle, current, pool, mine, batch>>

NothingIdle(t) ==
    /\ pc[t] = "lookup"
    /\ idle[pool[t]] = {}
    /\ lock' = [lock EXCEPT ![pool[t]] = None]
    /\ Goto(t, "token")
    /\ UNCHANGED <<tokens, conns, idle, current, pool, mine, batch>>

\* semaphore.acquire() returns a path, and a new session object is made.
TakeToken(t) ==
    /\ pc[t] = "token"
    /\ \E s \in Slots, x \in Sessions :
        /\ token[s] = Free
        /\ Unused(x)
        /\ token' = [token EXCEPT ![s] = x]
        /\ slot' = [slot EXCEPT ![x] = s]
        /\ state' = [state EXCEPT ![x] = "new"]
        /\ mine' = [mine EXCEPT ![t] = x]
    /\ Goto(t, "connect")
    /\ UNCHANGED <<pending, shared, pool, batch>>

\* semaphore.acquire() raises TimeoutError; it found each slot taken in turn,
\* so one may be free by now.
TokenTimeout(t) ==
    /\ pc[t] = "token"
    /\ Leave(t)
    /\ UNCHANGED <<tokens, conns, shared, batch>>

Connected(t) ==
    /\ pc[t] = "connect"
    /\ state' = [state EXCEPT ![mine[t]] = "open"]
    /\ Goto(t, "using")
    /\ UNCHANGED <<tokens, pending, shared, pool, mine, batch>>

\* Mutant: the token is kept when connect() fails.
ConnectFailsMutant(t) ==
    /\ pc[t] = "connect"
    /\ CloseSession(mine[t])
    /\ Leave(t)
    /\ UNCHANGED <<token, shared, batch>>

\* connect() gives up, after its retries.
ConnectFails(t) ==
    /\ pc[t] = "connect"
    /\ FreeToken(mine[t])
    /\ CloseSession(mine[t])
    /\ Leave(t)
    /\ UNCHANGED <<shared, batch>>

\* `except Exception` lets a BaseException pass, here and in connect(): the
\* token stays and nobody closes the session.
ConnectInterrupted(t) ==
    /\ "interrupt" \in Faults
    /\ pc[t] = "connect"
    /\ Leave(t)
    /\ UNCHANGED <<tokens, conns, shared, batch>>

----------------------------------------------------------------------------
(* The leased session. *)

\* The device drops a connected session, leased or idle.
Drop(x) ==
    /\ state[x] = "open"
    /\ state' = [state EXCEPT ![x] = "broken"]
    /\ UNCHANGED <<tokens, pending, shared, pc, pool, mine, batch>>

\* run_command sends a line ...
SendCommand(t) ==
    /\ pc[t] = "using"
    /\ pending' = pending \cup {mine[t]}
    /\ Goto(t, "command")
    /\ UNCHANGED <<tokens, state, shared, pool, mine, batch>>

\* ... and reads up to the prompt.
CommandDone(t) ==
    /\ pc[t] = "command"
    /\ pending' = pending \ {mine[t]}
    /\ Goto(t, "using")
    /\ UNCHANGED <<tokens, state, shared, pool, mine, batch>>

\* Mutant: a failed run leaves the session to release().
RunFailsMutant(t) ==
    /\ pc[t] = "command"
    /\ Goto(t, "release")
    /\ UNCHANGED <<tokens, conns, shared, pool, mine, batch>>

\* Mutant: timing.error is not set, so the discarded session is released too.
RunFailsUnmarked(t) ==
    /\ pc[t] = "command"
    /\ CloseSession(mine[t])
    /\ FreeToken(mine[t])
    /\ Goto(t, "release")
    /\ UNCHANGED <<shared, pool, mine, batch>>

\* The command raises: run_commands discards the session before the exception
\* reaches the caller, and timing.error keeps acquire() from releasing it.
RunFails(t) ==
    /\ pc[t] = "command"
    /\ CloseSession(mine[t])
    /\ FreeToken(mine[t])
    /\ Goto(t, "failed")
    /\ UNCHANGED <<shared, pool, mine, batch>>

\* The caller caught the exception and runs more commands on the closed
\* session: run_command raises at once, and the session is discarded again.
RunAgain(t) ==
    /\ "rerun" \in Faults
    /\ pc[t] = "failed"
    /\ FreeToken(mine[t])
    /\ UNCHANGED <<slot, conns, shared, pc, pool, mine, batch>>

\* The exception leaves the with block.
LeaveFailed(t) ==
    /\ pc[t] = "failed"
    /\ Leave(t)
    /\ UNCHANGED <<tokens, conns, shared, batch>>

\* A BaseException in the middle of a command passes `except Exception`, so
\* timing.error stays unset and acquire() releases the session.
RunInterrupted(t) ==
    /\ "interrupt" \in Faults
    /\ pc[t] = "command"
    /\ Goto(t, "release")
    /\ UNCHANGED <<tokens, conns, shared, pool, mine, batch>>

\* The with block ends, normally or by an exception of the caller's own.
EndBlock(t) ==
    /\ pc[t] = "using"
    /\ Goto(t, "release")
    /\ UNCHANGED <<tokens, conns, shared, pool, mine, batch>>

----------------------------------------------------------------------------
(* release and discard *)

KeepSession(t) ==
    /\ pc[t] = "release"
    /\ Reuse /\ state[mine[t]] = "open"
    /\ Goto(t, "put")
    /\ UNCHANGED <<tokens, conns, shared, pool, mine, batch>>

\* Mutant: the token is freed although the session stays open.
PutIdleMutant(t) ==
    /\ pc[t] = "put"
    /\ lock[pool[t]] = None
    /\ idle' = [idle EXCEPT ![pool[t]] = @ \cup {mine[t]}]
    /\ FreeToken(mine[t])
    /\ Leave(t)
    /\ UNCHANGED <<slot, conns, lock, current, batch>>

PutIdle(t) ==
    /\ pc[t] = "put"
    /\ lock[pool[t]] = None
    /\ idle' = [idle EXCEPT ![pool[t]] = @ \cup {mine[t]}]
    /\ Leave(t)
    /\ UNCHANGED <<tokens, conns, lock, current, batch>>

MustDiscard(t) == ~ Reuse \/ state[mine[t]] # "open"

Discard(t) ==
    /\ pc[t] = "release"
    /\ MustDiscard(t)
    /\ CloseSession(mine[t])
    /\ FreeToken(mine[t])
    /\ Leave(t)
    /\ UNCHANGED <<shared, batch>>

\* _logout raises out of close() and discard(): the channel is closed, but not
\* the connection, and the token is not released.
DiscardFails(t) ==
    /\ "logout" \in Faults
    /\ pc[t] = "release"
    /\ MustDiscard(t)
    /\ state' = [state EXCEPT ![mine[t]] = "broken"]
    /\ Leave(t)
    /\ UNCHANGED <<tokens, pending, shared, batch>>

----------------------------------------------------------------------------
(* close_ssh_session_pools and close_all *)

\* The registry forgets the pool; leases of the pool go on.
ForgetPools(t) ==
    /\ pc[t] = "out"
    /\ current < LastPool
    /\ current' = current + 1
    /\ pool' = [pool EXCEPT ![t] = current]
    /\ Goto(t, "swap")
    /\ UNCHANGED <<tokens, conns, idle, lock, mine, batch>>

\* Mutant: the idle list is copied and not emptied.
SwapIdleMutant(t) ==
    /\ pc[t] = "swap"
    /\ lock[pool[t]] = None
    /\ batch' = [batch EXCEPT ![t] = idle[pool[t]]]
    /\ Goto(t, "drain")
    /\ UNCHANGED <<tokens, conns, shared, pool, mine>>

SwapIdle(t) ==
    /\ pc[t] = "swap"
    /\ lock[pool[t]] = None
    /\ batch' = [batch EXCEPT ![t] = idle[pool[t]]]
    /\ idle' = [idle EXCEPT ![pool[t]] = {}]
    /\ Goto(t, "drain")
    /\ UNCHANGED <<tokens, conns, lock, current, pool, mine>>

DrainOne(t) ==
    /\ pc[t] = "drain"
    /\ \E x \in batch[t] :
        /\ CloseSession(x)
        /\ FreeToken(x)
        /\ batch' = [batch EXCEPT ![t] = @ \ {x}]
    /\ UNCHANGED <<shared, pc, pool, mine>>

\* _logout raises out of the loop: the rest of the batch is never closed.
DrainFails(t) ==
    /\ "logout" \in Faults
    /\ pc[t] = "drain"
    /\ \E x \in batch[t] : state' = [state EXCEPT ![x] = "broken"]
    /\ batch' = [batch EXCEPT ![t] = {}]
    /\ Leave(t)
    /\ UNCHANGED <<tokens, pending, shared>>

DrainDone(t) ==
    /\ pc[t] = "drain"
    /\ batch[t] = {}
    /\ Leave(t)
    /\ UNCHANGED <<tokens, conns, shared, batch>>

----------------------------------------------------------------------------
(* Python's garbage collector, and other processes on the token directory. *)

\* Paramiko closes the connection of a client that is collected.
Collect(x) ==
    /\ state[x] # "closed"
    /\ Unreferenced(x)
    /\ CloseSession(x)
    /\ UNCHANGED <<token, shared, pc, pool, mine, batch>>

OtherTakes(s) ==
    /\ token[s] = Free
    /\ token' = [token EXCEPT ![s] = Other]
    /\ UNCHANGED <<slot, conns, shared, pc, pool, mine, batch>>

OtherFrees(s) ==
    /\ token[s] = Other
    /\ token' = [token EXCEPT ![s] = Free]
    /\ UNCHANGED <<slot, conns, shared, pc, pool, mine, batch>>

----------------------------------------------------------------------------
\* Steps that wait for a lock.
Locking(t) == EnterLookup(t) \/ PutIdle(t) \/ SwapIdle(t)

\* Steps a running thread takes without anybody's help.
Running(t) ==
    \/ PopHealthy(t) \/ PopBroken(t) \/ NothingIdle(t)
    \/ TakeToken(t) \/ TokenTimeout(t)
    \/ Connected(t) \/ ConnectFails(t) \/ ConnectInterrupted(t)
    \/ KeepSession(t) \/ Discard(t) \/ DiscardFails(t)
    \/ DrainOne(t) \/ DrainFails(t) \/ DrainDone(t)

\* What callers do when they please.
Calling(t) ==
    \/ StartAcquire(t)
    \/ SendCommand(t) \/ CommandDone(t) \/ RunFails(t) \/ RunAgain(t) \/ LeaveFailed(t)
    \/ RunInterrupted(t) \/ EndBlock(t)
    \/ ForgetPools(t)

Next ==
    \/ \E t \in Threads : Locking(t) \/ Running(t) \/ Calling(t)
    \/ \E x \in Sessions : Drop(x) \/ Collect(x)
    \/ \E s \in Slots : OtherTakes(s) \/ OtherFrees(s)

Spec == Init /\ [][Next]_vars

\* Threads are scheduled, blocking calls of the semaphore and of connect() end
\* by their timeouts, and a lock that is free again and again is got in the end.
Fairness ==
    \A t \in Threads : WF_vars(Running(t)) /\ SF_vars(Locking(t))

FairSpec == Spec /\ Fairness

----------------------------------------------------------------------------
(* Properties. *)

\* Sessions towards the device, and those the pool still knows of: leased,
\* idle, or about to be closed.
Unclosed == {x \in Sessions : state[x] # "closed"}
Known ==
    {x \in Sessions :
        \/ \E t \in Threads : Leased(t) /\ mine[t] = x
        \/ \E g \in Pools : x \in idle[g]
        \/ \E t \in Threads : x \in batch[t]}

\* No two threads share a session, no leased session is idle or being drained,
\* and no idle session is in two lists: commands of two owners never mix.
SessionExclusive ==
    /\ \A t, u \in Threads : mine[t] # None /\ mine[t] = mine[u] => t = u
    /\ \A t \in Threads, g \in Pools : mine[t] \notin idle[g]
    /\ \A t, u \in Threads : mine[t] \notin batch[u]
    /\ \A g, h \in Pools : g # h => idle[g] \cap idle[h] = {}
    /\ \A t, u \in Threads : t # u => batch[t] \cap batch[u] = {}
    /\ \A g \in Pools, t \in Threads : idle[g] \cap batch[t] = {}

\* Every session that is not closed owns the token file it will release, as
\* long as nobody runs commands on a discarded session: no code path frees a
\* token twice, nor frees one while its session stays open.
SessionHasToken ==
    "rerun" \notin Faults => \A x \in Unclosed : token[slot[x]] = x

\* Hence the device never sees more of this pool's sessions than max_sessions.
SessionsWithinLimit ==
    "rerun" \notin Faults => Cardinality(Unclosed) <= MaxSessions

\* What the pool still knows of is not closed: a discarded session is neither
\* leased nor found in an idle list again, whoever else still refers to it.
ClosedIsGone ==
    /\ \A t \in Threads : Leased(t) => mine[t] \in Unclosed
    /\ \A g \in Pools : idle[g] \subseteq Unclosed
    /\ \A t \in Threads : batch[t] \subseteq Unclosed

\* A token this process holds belongs to a session the pool knows of unless an interrupt
\* or a failed logout stranded it: ordinary errors lose no capacity.
NoStrandedToken ==
    Faults \subseteq {"rerun"} =>
        \A s \in Slots : token[s] \in Sessions => token[s] \in Known

\* A session waiting in the idle list has no unread output of an earlier
\* command, unless a command was interrupted: a command that timed out or
\* failed never feeds its late output to the next lease.
IdleIsClean ==
    "interrupt" \notin Faults => \A g \in Pools : idle[g] \cap pending = {}

\* acquire() ends with a session or an exception, and so does close_all.
CallsReturn ==
    \A t \in Threads :
        pc[t] \in {"enter", "put", "swap"} ~> pc[t] \in {"using", "failed", "out"}

----------------------------------------------------------------------------
\* The thread a session is leased to.
Lessee(x) ==
    IF \E t \in Threads : Leased(t) /\ mine[t] = x
    THEN CHOOSE t \in Threads : Leased(t) /\ mine[t] = x
    ELSE None

Lease == INSTANCE SessionLease
    WITH live <- Unclosed, lessee <- [x \in Sessions |-> Lessee(x)]

\* The pool implements the lease: sessions are handed out to one thread at a
\* time and within the limit, through locks, idle lists, retired pools,
\* interrupts and failed logouts (callers that rerun failed commands aside).
ImplementsLease == Lease!Spec

===========================================================================
