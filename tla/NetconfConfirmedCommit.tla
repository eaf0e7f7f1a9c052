---------------------- MODULE NetconfConfirmedCommit ----------------------
(***************************************************************************)
(* The confirmed-commit transaction of cli_tool/transport/netconf.py:      *)
(* execute_confirmed_commit and the two calls that settle a persisted      *)
(* commit, run by several callers against one device.                      *)
(*                                                                         *)
(* A configuration is the set of calls whose edit it contains, wholly or   *)
(* in part.  The device answers the RPCs of one session in order, each in  *)
(* one step: it may refuse one, and its reply may come after the client's  *)
(* timeout, in which case the client sees an exception although the device *)
(* has done what it was asked.  The device follows RFC 6241; where the RFC *)
(* leaves room, constants say what the device does.                        *)
(***************************************************************************)
EXTENDS FiniteSets

CONSTANTS
    Calls,                 \* calls of execute_confirmed_commit
    Advertised,            \* capabilities the server advertises
    RevertResetsCandidate, \* a revert of running also undoes the candidate
    UnlockDiscards,        \* giving up the lock discards outstanding changes
    Faults,                \* the faults below that may happen
    None

ASSUME NetconfAssumption ==
    /\ RevertResetsCandidate \in BOOLEAN
    /\ UnlockDiscards \in BOOLEAN
    \* "reply":   a reply comes after the timeout
    \* "session": the session breaks
    \* "crash":   the calling process dies
    \* "cleanup": the device refuses discard-changes, or Ctrl-C hits it
    /\ Faults \subseteq {"reply", "session", "crash", "cleanup"}
    /\ None \notin Calls

VARIABLES
    running,   \* the running datastore
    candidate, \* the candidate datastore
    lock,      \* the call whose session has locked the candidate
    pending,   \* the call whose confirmed commit awaits confirmation
    persisted, \* the pending commit has a persist token
    saved,     \* what running returns to unless the commit is confirmed
    sessions,  \* calls whose session the device has open
    pc,        \* the RPC a call sends next
    finalize,  \* calls made with finalize=True
    persist,   \* calls made with persist=<token>
    raised     \* calls with an exception on its way to the caller

\* History variables: read by properties, never by a guard.
VARIABLES
    confirmed, \* calls that sent a confirming commit
    tried,     \* calls whose confirmed commit the device executed
    uncleaned  \* calls that failed without a discard the device executed

trial   == <<pending, persisted, saved>>
device  == <<running, candidate, lock, trial, sessions>>
options == <<finalize, persist>>
history == <<confirmed, tried, uncleaned>>
vars    == <<device, pc, options, raised, history>>

\* Mutant: the lock is requested inside the try block of the clean-up.
CaughtLockMutant ==
    [lock |-> "discard", edit |-> "discard", validate |-> "discard",
     commit |-> "discard", verify |-> "unlock", finalize |-> "unlock",
     discard |-> "unlock", unlock |-> "close"]

\* Mutant: a refused edit or validate is not discarded.
CaughtEditMutant ==
    [lock |-> "close", edit |-> "unlock", validate |-> "unlock",
     commit |-> "discard", verify |-> "unlock", finalize |-> "unlock",
     discard |-> "unlock", unlock |-> "close"]

\* Where an exception at each RPC of execute_confirmed_commit leads.
Caught == [lock |-> "close", edit |-> "discard", validate |-> "discard",
           commit |-> "discard", verify |-> "unlock", finalize |-> "unlock",
           discard |-> "unlock", unlock |-> "close"]

\* The exceptions of these RPCs are swallowed.
Swallowed == {"discard", "unlock"}

Rpcs   == DOMAIN Caught
Labels == Rpcs \cup {"idle", "close", "done"}

\* Between lock and unlock.
Inside(c) == pc[c] \in Rpcs \ {"lock"}

TypeOK ==
    /\ running \in SUBSET Calls
    /\ candidate \in SUBSET Calls
    /\ lock \in Calls \cup {None}
    /\ pending \in Calls \cup {None}
    /\ persisted \in BOOLEAN
    /\ saved \in SUBSET Calls
    /\ sessions \in SUBSET Calls
    /\ pc \in [Calls -> Labels]
    /\ finalize \in SUBSET Calls
    /\ persist \in SUBSET Calls
    /\ raised \in SUBSET Calls
    /\ confirmed \in SUBSET Calls
    /\ tried \in SUBSET Calls
    /\ uncleaned \in SUBSET Calls
    \* a call that is past its lock holds it as long as it has its session
    /\ \A c \in sessions : Inside(c) => lock = c

Init ==
    /\ running = {} /\ candidate = {}
    /\ lock = None
    /\ pending = None /\ persisted = FALSE /\ saved = {}
    /\ sessions = {}
    /\ pc = [c \in Calls |-> "idle"]
    /\ finalize = {} /\ persist = {}
    /\ raised = {}
    /\ confirmed = {} /\ tried = {} /\ uncleaned = {}

----------------------------------------------------------------------------
(* The device. *)

NothingPending == pending' = None /\ persisted' = FALSE /\ saved' = {}

\* The candidate after a revert of running.
Reset == IF RevertResetsCandidate THEN candidate \ (running \ saved) ELSE candidate

Revert ==
    /\ running' = saved
    /\ candidate' = Reset
    /\ NothingPending

\* The session of call c ends: its lock goes, and its pending commit is
\* reverted unless it was persisted.
EndSession(c) ==
    LET reverts == pending = c /\ ~ persisted
        config  == IF reverts THEN saved ELSE running
    IN  /\ sessions' = sessions \ {c}
        /\ lock' = IF lock = c THEN None ELSE lock
        /\ running' = config
        /\ candidate' = IF lock = c /\ UnlockDiscards THEN config
                        ELSE IF reverts THEN Reset ELSE candidate
        /\ IF reverts THEN NothingPending ELSE UNCHANGED trial

\* A commit is refused while another session holds the lock.
MayCommit(c) == lock \in {None, c}

----------------------------------------------------------------------------
(* The client. *)

Goto(c, label) == pc' = [pc EXCEPT ![c] = label]

\* Mutant: the finally clauses swallow every exception.
RaiseMutant(c) ==
    /\ Goto(c, Caught[pc[c]])
    /\ raised' = IF pc[c] \in Swallowed \cup {"finalize"} THEN raised ELSE raised \cup {c}

Raise(c) ==
    /\ Goto(c, Caught[pc[c]])
    /\ raised' = IF pc[c] \in Swallowed THEN raised ELSE raised \cup {c}

\* The device has executed the RPC; its reply arrives in time, or does not.
Replied(c, label) ==
    \/ Goto(c, label) /\ UNCHANGED raised
    \/ "reply" \in Faults /\ Raise(c)

\* Call c sends the RPC of this label on its open session.
Sends(c, label) == pc[c] = label /\ c \in sessions

\* Per required capability, the versions of which one must be advertised.
Required(isPersist) ==
    {{"candidate:1.0"},
     IF isPersist THEN {"confirmed-commit:1.1"}
     ELSE {"confirmed-commit:1.0", "confirmed-commit:1.1"}}

Missing(isPersist) ==
    {versions \in Required(isPersist) : versions \cap Advertised = {}}

\* A bad argument, a host key that does not match, no connection: no session.
CannotConnect(c) ==
    /\ pc[c] = "idle"
    /\ Goto(c, "done")
    /\ raised' = raised \cup {c}
    /\ UNCHANGED <<device, options, history>>

\* NetconfCapabilityError leads to the close in the outer finally.
Connect(c) ==
    /\ pc[c] = "idle"
    /\ sessions' = sessions \cup {c}
    /\ \E isFinal, isPersist \in BOOLEAN :
        /\ finalize' = IF isFinal THEN finalize \cup {c} ELSE finalize
        /\ persist' = IF isPersist THEN persist \cup {c} ELSE persist
        /\ IF Missing(isPersist) = {}
           THEN Goto(c, "lock") /\ UNCHANGED raised
           ELSE Goto(c, "close") /\ raised' = raised \cup {c}
    /\ UNCHANGED <<running, candidate, lock, trial, history>>

\* Mutant: no lock is taken.
LockMutant(c) ==
    /\ Sends(c, "lock")
    /\ Goto(c, "edit")
    /\ UNCHANGED <<device, options, raised, history>>

Lock(c) ==
    /\ Sends(c, "lock")
    /\ lock = None
    /\ lock' = c
    /\ Replied(c, "edit")
    /\ UNCHANGED <<running, candidate, trial, sessions, options, history>>

Edit(c) ==
    /\ Sends(c, "edit")
    /\ candidate' = candidate \cup {c}
    /\ Replied(c, "validate")
    /\ UNCHANGED <<running, lock, trial, sessions, options, history>>

\* The device stops at the first error and keeps what it has applied.
EditStops(c) ==
    /\ Sends(c, "edit")
    /\ candidate' = candidate \cup {c}
    /\ Raise(c)
    /\ UNCHANGED <<running, lock, trial, sessions, options, history>>

Validate(c) ==
    /\ Sends(c, "validate")
    /\ Replied(c, "commit")
    /\ UNCHANGED <<device, options, history>>

\* Mutant: <confirmed/> is left out of the commit.
CommitMutant(c) ==
    /\ Sends(c, "commit")
    /\ MayCommit(c) /\ pending = None
    /\ running' = candidate
    /\ tried' = tried \cup {c}
    /\ Replied(c, "verify")
    /\ UNCHANGED <<candidate, lock, trial, sessions, options, confirmed, uncleaned>>

\* Mutant: <persist> is left out of the commit.
CommitUnpersisted(c) ==
    /\ Sends(c, "commit")
    /\ MayCommit(c) /\ pending = None
    /\ running' = candidate
    /\ pending' = c /\ persisted' = FALSE /\ saved' = running
    /\ tried' = tried \cup {c}
    /\ Replied(c, "verify")
    /\ UNCHANGED <<candidate, lock, sessions, options, confirmed, uncleaned>>

\* commit(confirmed=True): refused while another one is pending.
Commit(c) ==
    /\ Sends(c, "commit")
    /\ MayCommit(c) /\ pending = None
    /\ running' = candidate
    /\ pending' = c /\ persisted' = (c \in persist) /\ saved' = running
    /\ tried' = tried \cup {c}
    /\ Replied(c, "verify")
    /\ UNCHANGED <<candidate, lock, sessions, options, confirmed, uncleaned>>

\* The verify read, if any, has succeeded.
Verify(c) ==
    /\ pc[c] = "verify"
    /\ Goto(c, IF c \in finalize THEN "finalize" ELSE "unlock")
    /\ UNCHANGED <<device, options, raised, history>>

\* commit() confirms the pending commit of its session and, with none pending,
\* commits the candidate for good; commit(persist_id) needs a pending one.
Finalize(c) ==
    /\ Sends(c, "finalize")
    /\ MayCommit(c)
    /\ pending = c \/ (pending = None /\ c \notin persist)
    /\ running' = candidate
    /\ NothingPending
    /\ confirmed' = confirmed \cup {c}
    /\ Replied(c, "unlock")
    /\ UNCHANGED <<candidate, lock, sessions, options, tried, uncleaned>>

Discard(c) ==
    /\ Sends(c, "discard")
    /\ candidate' = running
    /\ Replied(c, "unlock")
    /\ UNCHANGED <<running, lock, trial, sessions, options, history>>

Unlock(c) ==
    /\ Sends(c, "unlock")
    /\ lock = c
    /\ lock' = None
    /\ candidate' = IF UnlockDiscards THEN running ELSE candidate
    /\ Replied(c, "close")
    /\ UNCHANGED <<running, trial, sessions, options, history>>

\* The device refuses the RPC, or the session is gone.
RpcFails(c) ==
    /\ pc[c] \in Rpcs
    /\ Raise(c)
    /\ IF pc[c] = "discard"
       THEN /\ c \notin sessions \/ "cleanup" \in Faults
            /\ uncleaned' = uncleaned \cup {c}
       ELSE UNCHANGED uncleaned
    /\ UNCHANGED <<device, options, confirmed, tried>>

\* Ctrl-C during discard-changes is no Exception: the unlock is skipped.
CleanupInterrupted(c) ==
    /\ "cleanup" \in Faults
    /\ pc[c] = "discard"
    /\ Goto(c, "close")
    /\ uncleaned' = uncleaned \cup {c}
    /\ UNCHANGED <<device, options, raised, confirmed, tried>>

\* Mutant: after an exception the session is left open.
CloseMutant(c) ==
    /\ pc[c] = "close"
    /\ IF c \in raised THEN UNCHANGED device ELSE EndSession(c)
    /\ Goto(c, "done")
    /\ UNCHANGED <<options, raised, history>>

\* Whether or not close-session is answered, the connection is closed.
Close(c) ==
    /\ pc[c] = "close"
    /\ EndSession(c)
    /\ Goto(c, "done")
    /\ UNCHANGED <<options, raised, history>>

----------------------------------------------------------------------------
(* confirm_persisted_commit and cancel_persisted_commit, by the caller of a *)
(* call that is over, on a session of their own.  If nothing is pending     *)
(* under the token, the device refuses and nothing changes.                 *)

ConfirmPersisted(c) ==
    /\ pc[c] = "done"
    /\ pending = c /\ persisted
    /\ lock = None
    /\ running' = candidate
    /\ NothingPending
    /\ confirmed' = confirmed \cup {c}
    /\ UNCHANGED <<candidate, lock, sessions, pc, options, raised, tried, uncleaned>>

CancelPersisted(c) ==
    /\ pc[c] = "done"
    /\ pending = c /\ persisted
    /\ Revert
    /\ UNCHANGED <<lock, sessions, pc, options, raised, history>>

----------------------------------------------------------------------------
(* Time and faults. *)

\* The confirm timeout of the pending commit runs out.
ConfirmTimeout ==
    /\ pending # None
    /\ Revert
    /\ UNCHANGED <<lock, sessions, pc, options, raised, history>>

\* The client has yet to notice.
SessionBreaks(c) ==
    /\ "session" \in Faults
    /\ c \in sessions
    /\ EndSession(c)
    /\ UNCHANGED <<pc, options, raised, history>>

Crash(c) ==
    /\ "crash" \in Faults
    /\ pc[c] \in Rpcs \cup {"close"}
    /\ EndSession(c)
    /\ Goto(c, "done")
    /\ raised' = raised \cup {c}
    /\ uncleaned' = uncleaned \cup {c}
    /\ UNCHANGED <<options, confirmed, tried>>

----------------------------------------------------------------------------
\* Each RPC is answered, refused or given up after the client's timeout.
CallStep(c) ==
    \/ Lock(c) \/ Edit(c) \/ EditStops(c) \/ Validate(c) \/ Commit(c) \/ Verify(c)
    \/ Finalize(c) \/ Discard(c) \/ Unlock(c) \/ Close(c)
    \/ RpcFails(c) \/ CleanupInterrupted(c)

Environment(c) ==
    \/ CannotConnect(c) \/ Connect(c)
    \/ ConfirmPersisted(c) \/ CancelPersisted(c)
    \/ SessionBreaks(c) \/ Crash(c)

Next ==
    \/ \E c \in Calls : CallStep(c) \/ Environment(c)
    \/ ConfirmTimeout

Spec == Init /\ [][Next]_vars

Fairness == \A c \in Calls : WF_vars(CallStep(c))

FairSpec == Spec /\ Fairness

----------------------------------------------------------------------------
(* Properties. *)

\* What running holds for good, whatever becomes of the pending commit.
Kept == IF pending = None THEN running ELSE saved

\* An edit becomes permanent only by a confirming commit of its own call: no
\* failure, lost reply or concurrent call makes an edit stay that its caller
\* did not finalize (netconf.py:135-139, docs/netconf.md "edit-config").
OnlyConfirmedIsKept == Kept \subseteq confirmed

\* A call without finalize and persist has left running as soon as it is over,
\* however it ended.
TransientIsUndone ==
    \A c \in Calls : pc[c] = "done" /\ c \notin finalize \cup persist => c \notin running

\* A call that returns normally with finalize=True has its edit in running for
\* good, even when the confirm timeout ran out before the confirming commit.
FinalizedIsKept ==
    \A c \in finalize : pc[c] = "done" /\ c \notin raised => c \in Kept

\* A call that failed before its commit and whose discard the device executed
\* leaves nothing of its edit in the candidate.
NoHalfApplied ==
    \A c \in Calls :
        pc[c] = "done" /\ c \notin tried \cup uncleaned => c \notin candidate

\* A persisted commit outlives its session and the process: only a confirming
\* commit, its cancellation or the confirm timeout end it.
PersistOutlivesSession ==
    [][\A c \in persist :
         pending = c /\ pending' # c =>
             \/ c \in confirmed'
             \/ sessions' = sessions /\ pc' = pc]_vars

\* However the call goes, the lock is given up.
LockIsReleased == \A c \in Calls : lock = c ~> lock # c

----------------------------------------------------------------------------
Trial == INSTANCE ConfigTrial WITH kept <- Kept, trial <- pending, shown <- running

\* On a device whose reverts and unlocks clean the candidate, running shows what
\* is kept and one whole edit on trial: through refused and half-applied edits,
\* lost replies and sessions, crashes and late confirming commits.
ImplementsTrial == Trial!Spec

============================================================================
