------------------- MODULE NetconfConfirmedCommit_proofs -------------------
(***************************************************************************)
(* Machine-checked proofs about NetconfConfirmedCommit, for any number of  *)
(* calls and any combination of faults.                                    *)
(***************************************************************************)
EXTENDS NetconfConfirmedCommit, TLAPS

\* The labels are not expanded further than this.
LEMMA LabelFacts ==
    /\ Rpcs = {"lock", "edit", "validate", "commit", "verify", "finalize", "discard", "unlock"}
    /\ Labels = Rpcs \cup {"idle", "close", "done"}
    /\ Caught["lock"] = "close" /\ Caught["unlock"] = "close"
    /\ Caught["edit"] = "discard" /\ Caught["validate"] = "discard"
    /\ Caught["commit"] = "discard"
    /\ Caught["verify"] = "unlock" /\ Caught["finalize"] = "unlock"
    /\ Caught["discard"] = "unlock"
  BY DEF Rpcs, Labels, Caught

LEMMA InitTypeOK == Init => TypeOK
  BY LabelFacts, NetconfAssumption DEF Init, TypeOK, Inside


LEMMA NextTypeOK ==
  TypeOK /\ [Next]_vars => TypeOK'
<1> SUFFICES ASSUME TypeOK, [Next]_vars PROVE TypeOK'
  OBVIOUS
<1> USE NetconfAssumption, LabelFacts DEF TypeOK, Inside, Swallowed
<1>1. ASSUME NEW c \in Calls, Lock(c) PROVE TypeOK'
  BY <1>1 DEF Lock, Sends, Replied, Raise, Goto, device, trial, options, history
<1>2. ASSUME NEW c \in Calls, Edit(c) PROVE TypeOK'
  BY <1>2 DEF Edit, Sends, Replied, Raise, Goto, device, trial, options, history
<1>3. ASSUME NEW c \in Calls, EditStops(c) PROVE TypeOK'
  BY <1>3 DEF EditStops, Sends, Raise, Goto, device, trial, options, history
<1>4. ASSUME NEW c \in Calls, Validate(c) PROVE TypeOK'
  BY <1>4 DEF Validate, Sends, Replied, Raise, Goto, device, trial, options, history
<1>5. ASSUME NEW c \in Calls, Commit(c) PROVE TypeOK'
  BY <1>5 DEF Commit, Sends, MayCommit, Replied, Raise, Goto, device, trial, options, history
<1>6. ASSUME NEW c \in Calls, Verify(c) PROVE TypeOK'
  BY <1>6 DEF Verify, Goto, device, trial, options, history
<1>7. ASSUME NEW c \in Calls, Finalize(c) PROVE TypeOK'
  <2>1. /\ pc' = [pc EXCEPT ![c] = "unlock"]
        /\ raised' \in SUBSET Calls
    BY <1>7 DEF Finalize, Sends, Replied, Raise, Goto
  <2>2. /\ running' = candidate /\ pending' = None /\ persisted' = FALSE /\ saved' = {}
        /\ confirmed' = confirmed \cup {c}
        /\ UNCHANGED <<candidate, lock, sessions, options, tried, uncleaned>>
    BY <1>7 DEF Finalize, NothingPending
  <2> QED
    BY <1>7, <2>1, <2>2 DEF Finalize, Sends, options
<1>8. ASSUME NEW c \in Calls, Discard(c) PROVE TypeOK'
  BY <1>8 DEF Discard, Sends, Replied, Raise, Goto, device, trial, options, history
<1>9. ASSUME NEW c \in Calls, Unlock(c) PROVE TypeOK'
  BY <1>9 DEF Unlock, Sends, Replied, Raise, Goto, device, trial, options, history
<1>10. ASSUME NEW c \in Calls, Close(c) PROVE TypeOK'
  BY <1>10 DEF Close, EndSession, NothingPending, Reset, Goto, device, trial, options, history
<1>11. ASSUME NEW c \in Calls, RpcFails(c) PROVE TypeOK'
  BY <1>11 DEF RpcFails, Raise, Goto, device, trial, options, history
<1>12. ASSUME NEW c \in Calls, CleanupInterrupted(c) PROVE TypeOK'
  BY <1>12 DEF CleanupInterrupted, Goto, device, trial, options, history
<1>13. ASSUME NEW c \in Calls, CannotConnect(c) PROVE TypeOK'
  BY <1>13 DEF CannotConnect, Goto, device, trial, options, history
<1>14. ASSUME NEW c \in Calls, Connect(c) PROVE TypeOK'
  BY <1>14 DEF Connect, Goto, device, trial, options, history
<1>15. ASSUME NEW c \in Calls, ConfirmPersisted(c) PROVE TypeOK'
  BY <1>15 DEF ConfirmPersisted, NothingPending, device, trial, options, history
<1>16. ASSUME NEW c \in Calls, CancelPersisted(c) PROVE TypeOK'
  BY <1>16 DEF CancelPersisted, Revert, NothingPending, Reset, device, trial, options, history
<1>17. ASSUME NEW c \in Calls, SessionBreaks(c) PROVE TypeOK'
  BY <1>17 DEF SessionBreaks, EndSession, NothingPending, Reset, device, trial, options, history
<1>18. ASSUME NEW c \in Calls, Crash(c) PROVE TypeOK'
  BY <1>18 DEF Crash, EndSession, NothingPending, Reset, Goto, device, trial, options, history
<1>19. CASE ConfirmTimeout
  BY <1>19 DEF ConfirmTimeout, Revert, NothingPending, Reset, options, history
<1>20. CASE UNCHANGED vars
  BY <1>20 DEF vars, device, trial, options, history
<1> QED
  BY <1>1, <1>2, <1>3, <1>4, <1>5, <1>6, <1>7, <1>8, <1>9, <1>10, <1>11,
     <1>12, <1>13, <1>14, <1>15, <1>16, <1>17, <1>18, <1>19, <1>20
     DEF Next, CallStep, Environment


\* Type correctness, and mutual exclusion on the candidate: a call between lock
\* and unlock holds the lock while its session is open.
THEOREM TypeCorrect == Spec => []TypeOK
  BY InitTypeOK, NextTypeOK, PTL DEF Spec

----------------------------------------------------------------------------
\* A call that has not sent its confirmed commit yet.
Early == {"idle", "lock", "edit", "validate", "commit"}

\* The pending commit belongs to a call that made it, with a session unless it
\* is persisted, and running without it is what the device has saved.
TrialInv ==
    /\ saved \subseteq running
    /\ running \subseteq candidate
    /\ pending = None => saved = {} /\ ~ persisted
    /\ pending # None =>
         /\ pending \in tried
         /\ persisted <=> pending \in persist
         /\ ~ persisted => pending \in sessions
    /\ \A c \in Calls : pc[c] \in Early => c \notin tried
    /\ \A c \in sessions : pc[c] \notin {"idle", "done"}

LEMMA InitTrialInv == Init => TrialInv
  BY DEF Init, TrialInv


LEMMA NextTrialInv ==
  TypeOK /\ TrialInv /\ [Next]_vars => TrialInv'
<1> SUFFICES ASSUME TypeOK, TrialInv, [Next]_vars PROVE TrialInv'
  OBVIOUS
<1> USE NetconfAssumption, LabelFacts DEF TypeOK, Inside, Swallowed, TrialInv, Early
<1>1. ASSUME NEW c \in Calls, Lock(c) PROVE TrialInv'
  BY <1>1 DEF Lock, Sends, Replied, Raise, Goto, device, trial, options, history
<1>2. ASSUME NEW c \in Calls, Edit(c) PROVE TrialInv'
  BY <1>2 DEF Edit, Sends, Replied, Raise, Goto, device, trial, options, history
<1>3. ASSUME NEW c \in Calls, EditStops(c) PROVE TrialInv'
  BY <1>3 DEF EditStops, Sends, Raise, Goto, device, trial, options, history
<1>4. ASSUME NEW c \in Calls, Validate(c) PROVE TrialInv'
  BY <1>4 DEF Validate, Sends, Replied, Raise, Goto, device, trial, options, history
<1>5. ASSUME NEW c \in Calls, Commit(c) PROVE TrialInv'
  <2>1. /\ pc' = [pc EXCEPT ![c] = "verify"] \/ pc' = [pc EXCEPT ![c] = "discard"]
        /\ c \in sessions
    BY <1>5 DEF Commit, Sends, Replied, Raise, Goto
  <2>2. /\ running' = candidate /\ pending' = c /\ saved' = running
        /\ tried' = tried \cup {c}
        /\ UNCHANGED <<candidate, sessions, persist>>
    BY <1>5 DEF Commit, options
  <2>3. persisted' <=> c \in persist
    BY <1>5 DEF Commit
  <2> QED
    BY <2>1, <2>2, <2>3
<1>6. ASSUME NEW c \in Calls, Verify(c) PROVE TrialInv'
  BY <1>6 DEF Verify, Goto, device, trial, options, history
<1>7. ASSUME NEW c \in Calls, Finalize(c) PROVE TrialInv'
  BY <1>7 DEF Finalize, Sends, MayCommit, NothingPending, Replied, Raise, Goto, device, trial, options, history
<1>8. ASSUME NEW c \in Calls, Discard(c) PROVE TrialInv'
  BY <1>8 DEF Discard, Sends, Replied, Raise, Goto, device, trial, options, history
<1>9. ASSUME NEW c \in Calls, Unlock(c) PROVE TrialInv'
  BY <1>9 DEF Unlock, Sends, Replied, Raise, Goto, device, trial, options, history
<1>10. ASSUME NEW c \in Calls, Close(c) PROVE TrialInv'
  BY <1>10 DEF Close, EndSession, NothingPending, Reset, Goto, device, trial, options, history
<1>11. ASSUME NEW c \in Calls, RpcFails(c) PROVE TrialInv'
  BY <1>11 DEF RpcFails, Raise, Goto, device, trial, options, history
<1>12. ASSUME NEW c \in Calls, CleanupInterrupted(c) PROVE TrialInv'
  BY <1>12 DEF CleanupInterrupted, Goto, device, trial, options, history
<1>13. ASSUME NEW c \in Calls, CannotConnect(c) PROVE TrialInv'
  BY <1>13 DEF CannotConnect, Goto, device, trial, options, history
<1>14. ASSUME NEW c \in Calls, Connect(c) PROVE TrialInv'
  BY <1>14 DEF Connect, Goto, device, trial, options, history
<1>15. ASSUME NEW c \in Calls, ConfirmPersisted(c) PROVE TrialInv'
  BY <1>15 DEF ConfirmPersisted, NothingPending, device, trial, options, history
<1>16. ASSUME NEW c \in Calls, CancelPersisted(c) PROVE TrialInv'
  BY <1>16 DEF CancelPersisted, Revert, NothingPending, Reset, device, trial, options, history
<1>17. ASSUME NEW c \in Calls, SessionBreaks(c) PROVE TrialInv'
  BY <1>17 DEF SessionBreaks, EndSession, NothingPending, Reset, device, trial, options, history
<1>18. ASSUME NEW c \in Calls, Crash(c) PROVE TrialInv'
  BY <1>18 DEF Crash, EndSession, NothingPending, Reset, Goto, device, trial, options, history
<1>19. CASE ConfirmTimeout
  BY <1>19 DEF ConfirmTimeout, Revert, NothingPending, Reset, options, history
<1>20. CASE UNCHANGED vars
  BY <1>20 DEF vars, device, trial, options, history
<1> QED
  BY <1>1, <1>2, <1>3, <1>4, <1>5, <1>6, <1>7, <1>8, <1>9, <1>10, <1>11,
     <1>12, <1>13, <1>14, <1>15, <1>16, <1>17, <1>18, <1>19, <1>20
     DEF Next, CallStep, Environment


LEMMA AlwaysTrialInv == Spec => [](TypeOK /\ TrialInv)
  BY InitTypeOK, NextTypeOK, InitTrialInv, NextTrialInv, PTL DEF Spec

----------------------------------------------------------------------------
(* Devices whose reverts and unlocks clean the candidate. *)

CleanDevice == RevertResetsCandidate /\ UnlockDiscards

\* Nobody but the holder of the lock has changes in the candidate, a call that
\* may commit has its edit there, which a revert takes out again, and one edit
\* is on trial.
CandidateInv ==
    /\ candidate \subseteq running \cup {lock}
    /\ \A c \in sessions : pc[c] \in {"validate", "commit"} => c \in candidate
    /\ \A c \in sessions :
         pc[c] \in {"verify", "finalize"} /\ pending # c => c \notin candidate
    /\ pending # None => running = saved \cup {pending} /\ pending \notin saved
    /\ running \subseteq tried

LEMMA InitCandidateInv == Init => CandidateInv
  BY DEF Init, CandidateInv

LEMMA CleanReset ==
  ASSUME CleanDevice
  PROVE  Reset = candidate \ (running \ saved) /\ UnlockDiscards
  BY DEF CleanDevice, Reset

LEMMA NextCandidateInv ==
  ASSUME CleanDevice
  PROVE  TypeOK /\ TrialInv /\ CandidateInv /\ [Next]_vars => CandidateInv'
<1> SUFFICES ASSUME TypeOK /\ TrialInv, CandidateInv, [Next]_vars PROVE CandidateInv'
  OBVIOUS
<1> USE NetconfAssumption, LabelFacts DEF TypeOK, TrialInv, Inside, Early, CandidateInv, CleanDevice
<1>1. ASSUME NEW c \in Calls, Lock(c) PROVE CandidateInv'
  BY <1>1 DEF Lock, Sends, Replied, Raise, Goto, device, trial, options, history
<1>2. ASSUME NEW c \in Calls, Edit(c) PROVE CandidateInv'
  BY <1>2 DEF Edit, Sends, Replied, Raise, Goto, device, trial, options, history
<1>3. ASSUME NEW c \in Calls, EditStops(c) PROVE CandidateInv'
  BY <1>3 DEF EditStops, Sends, Raise, Goto, device, trial, options, history
<1>4. ASSUME NEW c \in Calls, Validate(c) PROVE CandidateInv'
  BY <1>4 DEF Validate, Sends, Replied, Raise, Goto, device, trial, options, history
<1>5. ASSUME NEW c \in Calls, Commit(c) PROVE CandidateInv'
  BY <1>5 DEF Commit, Sends, MayCommit, Replied, Raise, Goto, device, trial, options, history
<1>6. ASSUME NEW c \in Calls, Verify(c) PROVE CandidateInv'
  BY <1>6 DEF Verify, Goto, device, trial, options, history
<1>7. ASSUME NEW c \in Calls, Finalize(c) PROVE CandidateInv'
  BY <1>7 DEF Finalize, Sends, MayCommit, NothingPending, Replied, Raise, Goto, device, trial, options, history
<1>8. ASSUME NEW c \in Calls, Discard(c) PROVE CandidateInv'
  BY <1>8 DEF Discard, Sends, Replied, Raise, Goto, device, trial, options, history
<1>9. ASSUME NEW c \in Calls, Unlock(c) PROVE CandidateInv'
  BY <1>9 DEF Unlock, Sends, Replied, Raise, Goto, device, trial, options, history
<1>10. ASSUME NEW c \in Calls, Close(c) PROVE CandidateInv'
  BY <1>10 DEF Close, EndSession, NothingPending, Reset, Goto, device, trial, options, history
<1>11. ASSUME NEW c \in Calls, RpcFails(c) PROVE CandidateInv'
  BY <1>11 DEF RpcFails, Raise, Goto, device, trial, options, history
<1>12. ASSUME NEW c \in Calls, CleanupInterrupted(c) PROVE CandidateInv'
  BY <1>12 DEF CleanupInterrupted, Goto, device, trial, options, history
<1>13. ASSUME NEW c \in Calls, CannotConnect(c) PROVE CandidateInv'
  BY <1>13 DEF CannotConnect, Goto, device, trial, options, history
<1>14. ASSUME NEW c \in Calls, Connect(c) PROVE CandidateInv'
  BY <1>14 DEF Connect, Goto, device, trial, options, history
<1>15. ASSUME NEW c \in Calls, ConfirmPersisted(c) PROVE CandidateInv'
  BY <1>15 DEF ConfirmPersisted, NothingPending, device, trial, options, history
<1>16. ASSUME NEW c \in Calls, CancelPersisted(c) PROVE CandidateInv'
  BY <1>16 DEF CancelPersisted, Revert, NothingPending, Reset, device, trial, options, history
<1>17. ASSUME NEW c \in Calls, SessionBreaks(c) PROVE CandidateInv'
  BY <1>17 DEF SessionBreaks, EndSession, NothingPending, Reset, device, trial, options, history
<1>18. ASSUME NEW c \in Calls, Crash(c) PROVE CandidateInv'
  BY <1>18 DEF Crash, EndSession, NothingPending, Reset, Goto, device, trial, options, history
<1>19. CASE ConfirmTimeout
  <2>1. /\ pending # None
        /\ running' = saved /\ candidate' = candidate \ (running \ saved)
        /\ pending' = None
        /\ UNCHANGED <<lock, sessions, pc, tried>>
    BY <1>19 DEF ConfirmTimeout, Revert, NothingPending, Reset, history
  <2>2. candidate' \subseteq running' \cup {lock'}
    BY <2>1
  <2>3. ASSUME NEW c \in sessions', pc'[c] \in {"validate", "commit"}
        PROVE  c \in candidate'
    BY <2>1, <2>3
  <2>4. ASSUME NEW c \in sessions', pc'[c] \in {"verify", "finalize"}
        PROVE  c \notin candidate'
    BY <2>1, <2>4
  <2> QED
    BY <2>1, <2>2, <2>3, <2>4
<1>20. CASE UNCHANGED vars
  BY <1>20 DEF vars, device, trial, options, history
<1> QED
  BY <1>1, <1>2, <1>3, <1>4, <1>5, <1>6, <1>7, <1>8, <1>9, <1>10, <1>11,
     <1>12, <1>13, <1>14, <1>15, <1>16, <1>17, <1>18, <1>19, <1>20
     DEF Next, CallStep, Environment

\* Every step is one of ConfigTrial's, or none that it can see.
LEMMA NextTrialStep ==
  ASSUME CleanDevice
  PROVE  TypeOK /\ TrialInv /\ CandidateInv /\ [Next]_vars => [Trial!Next]_Trial!trialVars
<1> SUFFICES ASSUME TypeOK /\ TrialInv, CandidateInv, [Next]_vars PROVE [Trial!Next]_Trial!trialVars
  OBVIOUS
<1> USE NetconfAssumption, LabelFacts DEF TypeOK, TrialInv, CandidateInv, Inside, Early, Kept, CleanDevice, Trial!trialVars, Trial!Next, Trial!Keep, Trial!Undo, Trial!Try
<1>1. ASSUME NEW c \in Calls, Lock(c) PROVE [Trial!Next]_Trial!trialVars
  BY <1>1 DEF Lock, Sends, Replied, Raise, Goto, device, trial, options, history
<1>2. ASSUME NEW c \in Calls, Edit(c) PROVE [Trial!Next]_Trial!trialVars
  BY <1>2 DEF Edit, Sends, Replied, Raise, Goto, device, trial, options, history
<1>3. ASSUME NEW c \in Calls, EditStops(c) PROVE [Trial!Next]_Trial!trialVars
  BY <1>3 DEF EditStops, Sends, Raise, Goto, device, trial, options, history
<1>4. ASSUME NEW c \in Calls, Validate(c) PROVE [Trial!Next]_Trial!trialVars
  BY <1>4 DEF Validate, Sends, Replied, Raise, Goto, device, trial, options, history
<1>5. ASSUME NEW c \in Calls, Commit(c) PROVE [Trial!Next]_Trial!trialVars
  BY <1>5 DEF Commit, Sends, MayCommit, Replied, Raise, Goto, device, trial, options, history
<1>6. ASSUME NEW c \in Calls, Verify(c) PROVE [Trial!Next]_Trial!trialVars
  BY <1>6 DEF Verify, Goto, device, trial, options, history
<1>7. ASSUME NEW c \in Calls, Finalize(c) PROVE [Trial!Next]_Trial!trialVars
  BY <1>7 DEF Finalize, Sends, MayCommit, NothingPending, Replied, Raise, Goto, device, trial, options, history
<1>8. ASSUME NEW c \in Calls, Discard(c) PROVE [Trial!Next]_Trial!trialVars
  BY <1>8 DEF Discard, Sends, Replied, Raise, Goto, device, trial, options, history
<1>9. ASSUME NEW c \in Calls, Unlock(c) PROVE [Trial!Next]_Trial!trialVars
  BY <1>9 DEF Unlock, Sends, Replied, Raise, Goto, device, trial, options, history
<1>10. ASSUME NEW c \in Calls, Close(c) PROVE [Trial!Next]_Trial!trialVars
  BY <1>10 DEF Close, EndSession, NothingPending, Reset, Goto, device, trial, options, history
<1>11. ASSUME NEW c \in Calls, RpcFails(c) PROVE [Trial!Next]_Trial!trialVars
  BY <1>11 DEF RpcFails, Raise, Goto, device, trial, options, history
<1>12. ASSUME NEW c \in Calls, CleanupInterrupted(c) PROVE [Trial!Next]_Trial!trialVars
  BY <1>12 DEF CleanupInterrupted, Goto, device, trial, options, history
<1>13. ASSUME NEW c \in Calls, CannotConnect(c) PROVE [Trial!Next]_Trial!trialVars
  BY <1>13 DEF CannotConnect, Goto, device, trial, options, history
<1>14. ASSUME NEW c \in Calls, Connect(c) PROVE [Trial!Next]_Trial!trialVars
  BY <1>14 DEF Connect, Goto, device, trial, options, history
<1>15. ASSUME NEW c \in Calls, ConfirmPersisted(c) PROVE [Trial!Next]_Trial!trialVars
  BY <1>15 DEF ConfirmPersisted, NothingPending, device, trial, options, history
<1>16. ASSUME NEW c \in Calls, CancelPersisted(c) PROVE [Trial!Next]_Trial!trialVars
  BY <1>16 DEF CancelPersisted, Revert, NothingPending, Reset, device, trial, options, history
<1>17. ASSUME NEW c \in Calls, SessionBreaks(c) PROVE [Trial!Next]_Trial!trialVars
  BY <1>17 DEF SessionBreaks, EndSession, NothingPending, Reset, device, trial, options, history
<1>18. ASSUME NEW c \in Calls, Crash(c) PROVE [Trial!Next]_Trial!trialVars
  BY <1>18 DEF Crash, EndSession, NothingPending, Reset, Goto, device, trial, options, history
<1>19. CASE ConfirmTimeout
  BY <1>19 DEF ConfirmTimeout, Revert, NothingPending, Reset, options, history
<1>20. CASE UNCHANGED vars
  BY <1>20 DEF vars, device, trial, options, history
<1> QED
  BY <1>1, <1>2, <1>3, <1>4, <1>5, <1>6, <1>7, <1>8, <1>9, <1>10, <1>11,
     <1>12, <1>13, <1>14, <1>15, <1>16, <1>17, <1>18, <1>19, <1>20
     DEF Next, CallStep, Environment

LEMMA InitTrial == Init => Trial!Init
  BY DEF Init, Trial!Init, Kept

\* Running shows what is kept and one whole edit on trial.
THEOREM TrialImplemented ==
  ASSUME CleanDevice
  PROVE  Spec => ImplementsTrial
<1>1. TypeOK /\ TrialInv /\ CandidateInv /\ [Next]_vars => CandidateInv'
  BY NextCandidateInv
<1>2. TypeOK /\ TrialInv /\ CandidateInv /\ [Next]_vars => [Trial!Next]_Trial!trialVars
  BY NextTrialStep
<1> QED
  BY <1>1, <1>2, InitTypeOK, NextTypeOK, InitTrialInv, NextTrialInv, InitCandidateInv,
     InitTrial, PTL DEF Spec, ImplementsTrial, Trial!Spec


\* What is kept was confirmed, and only a call made with finalize or persist
\* confirms.
ConfirmInv ==
    /\ OnlyConfirmedIsKept
    /\ confirmed \subseteq finalize \cup persist
    /\ \A c \in Calls : pc[c] = "finalize" => c \in finalize

LEMMA InitConfirmInv == Init => ConfirmInv
  BY DEF Init, ConfirmInv, OnlyConfirmedIsKept, Kept

LEMMA NextConfirmInv ==
  TypeOK /\ TrialInv /\ CandidateInv /\ ConfirmInv /\ [Next]_vars => ConfirmInv'
<1> SUFFICES ASSUME TypeOK /\ TrialInv /\ CandidateInv, ConfirmInv, [Next]_vars PROVE ConfirmInv'
  OBVIOUS
<1> USE NetconfAssumption, LabelFacts DEF TypeOK, TrialInv, CandidateInv, Inside, ConfirmInv, OnlyConfirmedIsKept, Kept
<1>1. ASSUME NEW c \in Calls, Lock(c) PROVE ConfirmInv'
  BY <1>1 DEF Lock, Sends, Replied, Raise, Goto, device, trial, options, history
<1>2. ASSUME NEW c \in Calls, Edit(c) PROVE ConfirmInv'
  BY <1>2 DEF Edit, Sends, Replied, Raise, Goto, device, trial, options, history
<1>3. ASSUME NEW c \in Calls, EditStops(c) PROVE ConfirmInv'
  BY <1>3 DEF EditStops, Sends, Raise, Goto, device, trial, options, history
<1>4. ASSUME NEW c \in Calls, Validate(c) PROVE ConfirmInv'
  BY <1>4 DEF Validate, Sends, Replied, Raise, Goto, device, trial, options, history
<1>5. ASSUME NEW c \in Calls, Commit(c) PROVE ConfirmInv'
  BY <1>5 DEF Commit, Sends, MayCommit, Replied, Raise, Goto, device, trial, options, history
<1>6. ASSUME NEW c \in Calls, Verify(c) PROVE ConfirmInv'
  BY <1>6 DEF Verify, Goto, device, trial, options, history
<1>7. ASSUME NEW c \in Calls, Finalize(c) PROVE ConfirmInv'
  BY <1>7 DEF Finalize, Sends, MayCommit, NothingPending, Replied, Raise, Goto, device, trial, options, history
<1>8. ASSUME NEW c \in Calls, Discard(c) PROVE ConfirmInv'
  BY <1>8 DEF Discard, Sends, Replied, Raise, Goto, device, trial, options, history
<1>9. ASSUME NEW c \in Calls, Unlock(c) PROVE ConfirmInv'
  BY <1>9 DEF Unlock, Sends, Replied, Raise, Goto, device, trial, options, history
<1>10. ASSUME NEW c \in Calls, Close(c) PROVE ConfirmInv'
  BY <1>10 DEF Close, EndSession, NothingPending, Reset, Goto, device, trial, options, history
<1>11. ASSUME NEW c \in Calls, RpcFails(c) PROVE ConfirmInv'
  BY <1>11 DEF RpcFails, Raise, Goto, device, trial, options, history
<1>12. ASSUME NEW c \in Calls, CleanupInterrupted(c) PROVE ConfirmInv'
  BY <1>12 DEF CleanupInterrupted, Goto, device, trial, options, history
<1>13. ASSUME NEW c \in Calls, CannotConnect(c) PROVE ConfirmInv'
  BY <1>13 DEF CannotConnect, Goto, device, trial, options, history
<1>14. ASSUME NEW c \in Calls, Connect(c) PROVE ConfirmInv'
  BY <1>14 DEF Connect, Goto, device, trial, options, history
<1>15. ASSUME NEW c \in Calls, ConfirmPersisted(c) PROVE ConfirmInv'
  BY <1>15 DEF ConfirmPersisted, NothingPending, device, trial, options, history
<1>16. ASSUME NEW c \in Calls, CancelPersisted(c) PROVE ConfirmInv'
  BY <1>16 DEF CancelPersisted, Revert, NothingPending, Reset, device, trial, options, history
<1>17. ASSUME NEW c \in Calls, SessionBreaks(c) PROVE ConfirmInv'
  BY <1>17 DEF SessionBreaks, EndSession, NothingPending, Reset, device, trial, options, history
<1>18. ASSUME NEW c \in Calls, Crash(c) PROVE ConfirmInv'
  BY <1>18 DEF Crash, EndSession, NothingPending, Reset, Goto, device, trial, options, history
<1>19. CASE ConfirmTimeout
  BY <1>19 DEF ConfirmTimeout, Revert, NothingPending, Reset, options, history
<1>20. CASE UNCHANGED vars
  BY <1>20 DEF vars, device, trial, options, history
<1> QED
  BY <1>1, <1>2, <1>3, <1>4, <1>5, <1>6, <1>7, <1>8, <1>9, <1>10, <1>11,
     <1>12, <1>13, <1>14, <1>15, <1>16, <1>17, <1>18, <1>19, <1>20
     DEF Next, CallStep, Environment

LEMMA AlwaysConfirmInv ==
  ASSUME CleanDevice
  PROVE  Spec => [](TypeOK /\ TrialInv /\ CandidateInv /\ ConfirmInv)
<1>1. TypeOK /\ TrialInv /\ CandidateInv /\ [Next]_vars => CandidateInv'
  BY NextCandidateInv
<1> QED
  BY <1>1, InitTypeOK, NextTypeOK, InitTrialInv, NextTrialInv, InitCandidateInv,
     InitConfirmInv, NextConfirmInv, PTL DEF Spec

\* On a device that cleans its candidate, no edit stays without a confirming
\* commit of its own call.
THEOREM NoUnconfirmedChange ==
  ASSUME CleanDevice
  PROVE  Spec => []OnlyConfirmedIsKept
<1>1. ConfirmInv => OnlyConfirmedIsKept
  BY DEF ConfirmInv
<1> QED
  BY <1>1, AlwaysConfirmInv, PTL

LEMMA TransientByInv ==
  TypeOK /\ TrialInv /\ CandidateInv /\ ConfirmInv => TransientIsUndone
  BY NetconfAssumption
     DEF TypeOK, TrialInv, CandidateInv, ConfirmInv, OnlyConfirmedIsKept, Kept, TransientIsUndone

\* And a call without finalize and persist leaves nothing in running.
THEOREM TransientLeavesNothing ==
  ASSUME CleanDevice
  PROVE  Spec => []TransientIsUndone
  BY AlwaysConfirmInv, TransientByInv, PTL

----------------------------------------------------------------------------
(* Any device. *)

\* Remains of an edit whose call neither committed nor gave up cleaning up
\* belong to a call that will still discard them, and are in running only if
\* that call has lost its session.
HalfInv ==
    /\ \A c \in candidate \ (tried \cup uncleaned) :
         pc[c] \in {"validate", "commit", "discard"}
    /\ \A c \in running \ (tried \cup uncleaned) : c \notin sessions

LEMMA InitHalfInv == Init => HalfInv
  BY DEF Init, HalfInv

LEMMA NextHalfInv ==
  TypeOK /\ TrialInv /\ HalfInv /\ [Next]_vars => HalfInv'
<1> SUFFICES ASSUME TypeOK /\ TrialInv, HalfInv, [Next]_vars PROVE HalfInv'
  OBVIOUS
<1> USE NetconfAssumption, LabelFacts DEF TypeOK, TrialInv, Inside, HalfInv
<1>1. ASSUME NEW c \in Calls, Lock(c) PROVE HalfInv'
  BY <1>1 DEF Lock, Sends, Replied, Raise, Goto, device, trial, options, history
<1>2. ASSUME NEW c \in Calls, Edit(c) PROVE HalfInv'
  BY <1>2 DEF Edit, Sends, Replied, Raise, Goto, device, trial, options, history
<1>3. ASSUME NEW c \in Calls, EditStops(c) PROVE HalfInv'
  BY <1>3 DEF EditStops, Sends, Raise, Goto, device, trial, options, history
<1>4. ASSUME NEW c \in Calls, Validate(c) PROVE HalfInv'
  BY <1>4 DEF Validate, Sends, Replied, Raise, Goto, device, trial, options, history
<1>5. ASSUME NEW c \in Calls, Commit(c) PROVE HalfInv'
  BY <1>5 DEF Commit, Sends, MayCommit, Replied, Raise, Goto, device, trial, options, history
<1>6. ASSUME NEW c \in Calls, Verify(c) PROVE HalfInv'
  BY <1>6 DEF Verify, Goto, device, trial, options, history
<1>7. ASSUME NEW c \in Calls, Finalize(c) PROVE HalfInv'
  BY <1>7 DEF Finalize, Sends, MayCommit, NothingPending, Replied, Raise, Goto, device, trial, options, history
<1>8. ASSUME NEW c \in Calls, Discard(c) PROVE HalfInv'
  BY <1>8 DEF Discard, Sends, Replied, Raise, Goto, device, trial, options, history
<1>9. ASSUME NEW c \in Calls, Unlock(c) PROVE HalfInv'
  BY <1>9 DEF Unlock, Sends, Replied, Raise, Goto, device, trial, options, history
<1>10. ASSUME NEW c \in Calls, Close(c) PROVE HalfInv'
  BY <1>10 DEF Close, EndSession, NothingPending, Reset, Goto, device, trial, options, history
<1>11. ASSUME NEW c \in Calls, RpcFails(c) PROVE HalfInv'
  BY <1>11 DEF RpcFails, Raise, Goto, device, trial, options, history
<1>12. ASSUME NEW c \in Calls, CleanupInterrupted(c) PROVE HalfInv'
  BY <1>12 DEF CleanupInterrupted, Goto, device, trial, options, history
<1>13. ASSUME NEW c \in Calls, CannotConnect(c) PROVE HalfInv'
  BY <1>13 DEF CannotConnect, Goto, device, trial, options, history
<1>14. ASSUME NEW c \in Calls, Connect(c) PROVE HalfInv'
  BY <1>14 DEF Connect, Goto, device, trial, options, history
<1>15. ASSUME NEW c \in Calls, ConfirmPersisted(c) PROVE HalfInv'
  BY <1>15 DEF ConfirmPersisted, NothingPending, device, trial, options, history
<1>16. ASSUME NEW c \in Calls, CancelPersisted(c) PROVE HalfInv'
  BY <1>16 DEF CancelPersisted, Revert, NothingPending, Reset, device, trial, options, history
<1>17. ASSUME NEW c \in Calls, SessionBreaks(c) PROVE HalfInv'
  BY <1>17 DEF SessionBreaks, EndSession, NothingPending, Reset, device, trial, options, history
<1>18. ASSUME NEW c \in Calls, Crash(c) PROVE HalfInv'
  BY <1>18 DEF Crash, EndSession, NothingPending, Reset, Goto, device, trial, options, history
<1>19. CASE ConfirmTimeout
  BY <1>19 DEF ConfirmTimeout, Revert, NothingPending, Reset, options, history
<1>20. CASE UNCHANGED vars
  BY <1>20 DEF vars, device, trial, options, history
<1> QED
  BY <1>1, <1>2, <1>3, <1>4, <1>5, <1>6, <1>7, <1>8, <1>9, <1>10, <1>11,
     <1>12, <1>13, <1>14, <1>15, <1>16, <1>17, <1>18, <1>19, <1>20
     DEF Next, CallStep, Environment

LEMMA HalfByInv == TypeOK /\ HalfInv => NoHalfApplied
  BY DEF TypeOK, HalfInv, NoHalfApplied

\* On any device a failed call that could discard leaves no half-applied edit.
THEOREM NothingHalfApplied == Spec => []NoHalfApplied
  BY InitTypeOK, NextTypeOK, InitTrialInv, NextTrialInv, InitHalfInv, NextHalfInv, HalfByInv,
     PTL DEF Spec



\* The step is no session end or crash that takes a persisted commit along.
Outlives ==
    \A c \in persist :
        pending = c /\ pending' # c =>
            \/ c \in confirmed'
            \/ sessions' = sessions /\ pc' = pc

LEMMA NextOutlives ==
  TypeOK /\ TrialInv /\ [Next]_vars => Outlives
<1> SUFFICES ASSUME TypeOK /\ TrialInv, [Next]_vars PROVE Outlives
  OBVIOUS
<1> USE NetconfAssumption, LabelFacts DEF TypeOK, TrialInv, Inside, Outlives
<1>1. ASSUME NEW c \in Calls, Lock(c) PROVE Outlives
  BY <1>1 DEF Lock, Sends, Replied, Raise, Goto, device, trial, options, history
<1>2. ASSUME NEW c \in Calls, Edit(c) PROVE Outlives
  BY <1>2 DEF Edit, Sends, Replied, Raise, Goto, device, trial, options, history
<1>3. ASSUME NEW c \in Calls, EditStops(c) PROVE Outlives
  BY <1>3 DEF EditStops, Sends, Raise, Goto, device, trial, options, history
<1>4. ASSUME NEW c \in Calls, Validate(c) PROVE Outlives
  BY <1>4 DEF Validate, Sends, Replied, Raise, Goto, device, trial, options, history
<1>5. ASSUME NEW c \in Calls, Commit(c) PROVE Outlives
  BY <1>5 DEF Commit, Sends, MayCommit, Replied, Raise, Goto, device, trial, options, history
<1>6. ASSUME NEW c \in Calls, Verify(c) PROVE Outlives
  BY <1>6 DEF Verify, Goto, device, trial, options, history
<1>7. ASSUME NEW c \in Calls, Finalize(c) PROVE Outlives
  BY <1>7 DEF Finalize, Sends, MayCommit, NothingPending, Replied, Raise, Goto, device, trial, options, history
<1>8. ASSUME NEW c \in Calls, Discard(c) PROVE Outlives
  BY <1>8 DEF Discard, Sends, Replied, Raise, Goto, device, trial, options, history
<1>9. ASSUME NEW c \in Calls, Unlock(c) PROVE Outlives
  BY <1>9 DEF Unlock, Sends, Replied, Raise, Goto, device, trial, options, history
<1>10. ASSUME NEW c \in Calls, Close(c) PROVE Outlives
  BY <1>10 DEF Close, EndSession, NothingPending, Reset, Goto, device, trial, options, history
<1>11. ASSUME NEW c \in Calls, RpcFails(c) PROVE Outlives
  BY <1>11 DEF RpcFails, Raise, Goto, device, trial, options, history
<1>12. ASSUME NEW c \in Calls, CleanupInterrupted(c) PROVE Outlives
  BY <1>12 DEF CleanupInterrupted, Goto, device, trial, options, history
<1>13. ASSUME NEW c \in Calls, CannotConnect(c) PROVE Outlives
  BY <1>13 DEF CannotConnect, Goto, device, trial, options, history
<1>14. ASSUME NEW c \in Calls, Connect(c) PROVE Outlives
  BY <1>14 DEF Connect, Goto, device, trial, options, history
<1>15. ASSUME NEW c \in Calls, ConfirmPersisted(c) PROVE Outlives
  BY <1>15 DEF ConfirmPersisted, NothingPending, device, trial, options, history
<1>16. ASSUME NEW c \in Calls, CancelPersisted(c) PROVE Outlives
  BY <1>16 DEF CancelPersisted, Revert, NothingPending, Reset, device, trial, options, history
<1>17. ASSUME NEW c \in Calls, SessionBreaks(c) PROVE Outlives
  BY <1>17 DEF SessionBreaks, EndSession, NothingPending, Reset, device, trial, options, history
<1>18. ASSUME NEW c \in Calls, Crash(c) PROVE Outlives
  BY <1>18 DEF Crash, EndSession, NothingPending, Reset, Goto, device, trial, options, history
<1>19. CASE ConfirmTimeout
  BY <1>19 DEF ConfirmTimeout, Revert, NothingPending, Reset, options, history
<1>20. CASE UNCHANGED vars
  BY <1>20 DEF vars, device, trial, options, history
<1> QED
  BY <1>1, <1>2, <1>3, <1>4, <1>5, <1>6, <1>7, <1>8, <1>9, <1>10, <1>11,
     <1>12, <1>13, <1>14, <1>15, <1>16, <1>17, <1>18, <1>19, <1>20
     DEF Next, CallStep, Environment

\* On any device that follows the RFC a persisted commit outlives its session.
THEOREM PersistedSurvives == Spec => PersistOutlivesSession
<1>1. TypeOK /\ TrialInv /\ [Next]_vars => [Outlives]_vars
  BY NextOutlives
<1>2. [Outlives]_vars => [\A c \in persist :
                            pending = c /\ pending' # c =>
                              \/ c \in confirmed'
                              \/ sessions' = sessions /\ pc' = pc]_vars
  BY DEF Outlives
<1> QED
  BY <1>1, <1>2, InitTypeOK, NextTypeOK, InitTrialInv, NextTrialInv, PTL
     DEF Spec, PersistOutlivesSession

\* A call with finalize that has passed its confirming commit without an
\* exception has its edit in running, and has it in the candidate until then.
FinalInv ==
    /\ \A c \in sessions :
         pc[c] \in {"validate", "commit", "verify", "finalize"} => c \in candidate
    /\ \A c \in finalize \ raised :
         /\ pc[c] # "discard"
         /\ pc[c] \in {"unlock", "close", "done"} => c \in Kept

LEMMA InitFinalInv == Init => FinalInv
  BY DEF Init, FinalInv

LEMMA NextFinalInv ==
  ASSUME ~ RevertResetsCandidate
  PROVE  TypeOK /\ TrialInv /\ FinalInv /\ [Next]_vars => FinalInv'
<1> SUFFICES ASSUME TypeOK /\ TrialInv, FinalInv, [Next]_vars PROVE FinalInv'
  OBVIOUS
<1> USE NetconfAssumption, LabelFacts DEF TypeOK, TrialInv, Inside, FinalInv, Kept, Swallowed, Early
<1>1. ASSUME NEW c \in Calls, Lock(c) PROVE FinalInv'
  BY <1>1 DEF Lock, Sends, Replied, Raise, Goto, device, trial, options, history
<1>2. ASSUME NEW c \in Calls, Edit(c) PROVE FinalInv'
  BY <1>2 DEF Edit, Sends, Replied, Raise, Goto, device, trial, options, history
<1>3. ASSUME NEW c \in Calls, EditStops(c) PROVE FinalInv'
  BY <1>3 DEF EditStops, Sends, Raise, Goto, device, trial, options, history
<1>4. ASSUME NEW c \in Calls, Validate(c) PROVE FinalInv'
  BY <1>4 DEF Validate, Sends, Replied, Raise, Goto, device, trial, options, history
<1>5. ASSUME NEW c \in Calls, Commit(c) PROVE FinalInv'
  BY <1>5 DEF Commit, Sends, MayCommit, Replied, Raise, Goto, device, trial, options, history
<1>6. ASSUME NEW c \in Calls, Verify(c) PROVE FinalInv'
  BY <1>6 DEF Verify, Goto, device, trial, options, history
<1>7. ASSUME NEW c \in Calls, Finalize(c) PROVE FinalInv'
  BY <1>7 DEF Finalize, Sends, MayCommit, NothingPending, Replied, Raise, Goto, device, trial, options, history
<1>8. ASSUME NEW c \in Calls, Discard(c) PROVE FinalInv'
  BY <1>8 DEF Discard, Sends, Replied, Raise, Goto, device, trial, options, history
<1>9. ASSUME NEW c \in Calls, Unlock(c) PROVE FinalInv'
  BY <1>9 DEF Unlock, Sends, Replied, Raise, Goto, device, trial, options, history
<1>10. ASSUME NEW c \in Calls, Close(c) PROVE FinalInv'
  BY <1>10 DEF Close, EndSession, NothingPending, Reset, Goto, device, trial, options, history
<1>11. ASSUME NEW c \in Calls, RpcFails(c) PROVE FinalInv'
  BY <1>11 DEF RpcFails, Raise, Goto, device, trial, options, history
<1>12. ASSUME NEW c \in Calls, CleanupInterrupted(c) PROVE FinalInv'
  BY <1>12 DEF CleanupInterrupted, Goto, device, trial, options, history
<1>13. ASSUME NEW c \in Calls, CannotConnect(c) PROVE FinalInv'
  BY <1>13 DEF CannotConnect, Goto, device, trial, options, history
<1>14. ASSUME NEW c \in Calls, Connect(c) PROVE FinalInv'
  BY <1>14 DEF Connect, Goto, device, trial, options, history
<1>15. ASSUME NEW c \in Calls, ConfirmPersisted(c) PROVE FinalInv'
  BY <1>15 DEF ConfirmPersisted, NothingPending, device, trial, options, history
<1>16. ASSUME NEW c \in Calls, CancelPersisted(c) PROVE FinalInv'
  BY <1>16 DEF CancelPersisted, Revert, NothingPending, Reset, device, trial, options, history
<1>17. ASSUME NEW c \in Calls, SessionBreaks(c) PROVE FinalInv'
  BY <1>17 DEF SessionBreaks, EndSession, NothingPending, Reset, device, trial, options, history
<1>18. ASSUME NEW c \in Calls, Crash(c) PROVE FinalInv'
  BY <1>18 DEF Crash, EndSession, NothingPending, Reset, Goto, device, trial, options, history
<1>19. CASE ConfirmTimeout
  BY <1>19 DEF ConfirmTimeout, Revert, NothingPending, Reset, options, history
<1>20. CASE UNCHANGED vars
  BY <1>20 DEF vars, device, trial, options, history
<1> QED
  BY <1>1, <1>2, <1>3, <1>4, <1>5, <1>6, <1>7, <1>8, <1>9, <1>10, <1>11,
     <1>12, <1>13, <1>14, <1>15, <1>16, <1>17, <1>18, <1>19, <1>20
     DEF Next, CallStep, Environment

LEMMA FinalByInv == TypeOK /\ FinalInv => FinalizedIsKept
  BY DEF TypeOK, FinalInv, FinalizedIsKept

\* On a device whose reverts leave the candidate alone, finalize=True means for
\* good, whenever the confirm timeout runs out.
THEOREM FinalizedForGood ==
  ASSUME ~ RevertResetsCandidate
  PROVE  Spec => []FinalizedIsKept
<1>1. TypeOK /\ TrialInv /\ FinalInv /\ [Next]_vars => FinalInv'
  BY NextFinalInv
<1> QED
  BY <1>1, InitTypeOK, NextTypeOK, InitTrialInv, NextTrialInv, InitFinalInv, FinalByInv, PTL
     DEF Spec

============================================================================
