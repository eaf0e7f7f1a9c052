--------------------- MODULE FileTokenSemaphore_proofs ---------------------
(***************************************************************************)
(* Machine-checked proofs about FileTokenSemaphore, for any set of         *)
(* threads, any assignment of threads to processes, any reach of kill()    *)
(* and any number of slots.                                                *)
(***************************************************************************)
EXTENDS FileTokenSemaphore, TLAPS

\* A thread that inspects or holds a slot names one.
PlaceOK ==
    \A t \in Threads :
        pc[t] \in {"probe", "unlink", "write", "hold"} => at[t] \in Slots

TypeInv == TypeOK /\ PlaceOK

LEMMA InitTypeInv == Init => TypeInv
  BY SemaphoreAssumption DEF Init, TypeInv, TypeOK, PlaceOK, Slots, Labels

LEMMA NextTypeInv == TypeInv /\ [Next]_vars => TypeInv'
<1> SUFFICES ASSUME TypeInv, [Next]_vars PROVE TypeInv'
  OBVIOUS
<1> USE SemaphoreAssumption DEF TypeInv, TypeOK, PlaceOK, Slots, Labels
<1>1. ASSUME NEW t \in Threads, StartAcquire(t) PROVE TypeInv'
  BY <1>1 DEF StartAcquire, Goto, files, sweeps
<1>2. ASSUME NEW t \in Threads, DeadlinePasses(t) PROVE TypeInv'
  BY <1>2 DEF DeadlinePasses, files, sweeps
<1>3. ASSUME NEW t \in Threads, Glob(t) PROVE TypeInv'
  BY <1>3 DEF Glob, Goto, files
<1>4. ASSUME NEW t \in Threads, ReadToken(t) PROVE TypeInv'
  <2>1. pc[t] = "sweep" /\ UNCHANGED <<creator, written, alive, late, outdated, vacant>>
    BY <1>4 DEF ReadToken, files
  <2>2. ASSUME NEW s \in todo[t], ReadUnwritten(t, s) PROVE TypeInv'
    BY <2>1, <2>2 DEF ReadUnwritten, Goto
  <2>3. ASSUME NEW s \in todo[t], ReadOwnPid(t, s) PROVE TypeInv'
    BY <2>1, <2>3 DEF ReadOwnPid
  <2>4. ASSUME NEW s \in todo[t], ReadOtherPid(t, s) PROVE TypeInv'
    <3>1. s \in Slots /\ creator[s] \in Threads
      BY <2>4 DEF ReadOtherPid
    <3>2. ProcOf[creator[s]] \in Processes
      BY <3>1
    <3>3. /\ pc' = [pc EXCEPT ![t] = "probe"]
          /\ at' = [at EXCEPT ![t] = s]
          /\ seen' = [seen EXCEPT ![t] = ProcOf[creator[s]]]
          /\ todo' = todo
      BY <2>4 DEF ReadOtherPid, Goto
    <3>4. pc' \in [Threads -> Labels] /\ at' \in [Threads -> 0 .. MaxTokens]
      BY <3>1, <3>3
    <3>5. seen' \in [Threads -> Processes]
      BY <3>2, <3>3
    <3>6. outdated' \in SUBSET {u \in Threads : pc'[u] \in {"probe", "unlink"}} /\ PlaceOK'
      BY <2>1, <3>1, <3>3
    <3> QED BY <2>1, <3>3, <3>4, <3>5, <3>6
  <2> QED BY <1>4, <2>2, <2>3, <2>4 DEF ReadToken
<1>5. ASSUME NEW t \in Threads, OwnerAnswers(t) PROVE TypeInv'
  <2>1. /\ NextPath(t) /\ outdated' = outdated \ {t}
        /\ UNCHANGED <<creator, written, alive, late, vacant>>
    BY <1>5 DEF OwnerAnswers, files
  <2>2. ProcOf[t] \in Processes
    OBVIOUS
  <2>3. /\ pc' \in [Threads -> Labels]
        /\ at' \in [Threads -> 0 .. MaxTokens]
        /\ todo' \in [Threads -> SUBSET Slots]
        /\ PlaceOK'
    BY <2>1 DEF NextPath, Forget, Goto
  <2>4. seen' \in [Threads -> Processes]
    BY <2>1, <2>2 DEF NextPath, Forget
  <2>5. outdated' \in SUBSET {u \in Threads : pc'[u] \in {"probe", "unlink"}}
    BY <2>1 DEF NextPath, Goto
  <2> QED BY <2>1, <2>3, <2>4, <2>5
<1>16. ASSUME NEW t \in Threads, OwnerGone(t) PROVE TypeInv'
  <2>1. /\ Goto(t, "unlink") /\ seen' = [seen EXCEPT ![t] = ProcOf[t]] /\ pc[t] = "probe"
        /\ UNCHANGED <<creator, written, alive, at, todo, late, outdated, vacant>>
    BY <1>16 DEF OwnerGone, files
  <2>2. seen' \in [Threads -> Processes]
    BY <2>1
  <2>3. pc' \in [Threads -> Labels] /\ PlaceOK'
    BY <2>1 DEF Goto
  <2>4. outdated' \in SUBSET {u \in Threads : pc'[u] \in {"probe", "unlink"}}
    BY <2>1 DEF Goto
  <2> QED BY <2>1, <2>2, <2>3, <2>4
<1>6. ASSUME NEW t \in Threads, RemoveStale(t) PROVE TypeInv'
  <2>1. UnlinkFile(t, at[t]) /\ NextPath(t) /\ UNCHANGED <<alive, late, vacant>>
    BY <1>6 DEF RemoveStale
  <2>2. /\ creator' \in [Slots -> Threads \cup {None}]
        /\ written' \in SUBSET {s \in Slots : creator'[s] # None}
    BY <2>1 DEF UnlinkFile
  <2>3. outdated' \in SUBSET {u \in Threads : pc'[u] \in {"probe", "unlink"}}
    BY <2>1 DEF UnlinkFile, Sweepers, NextPath, Goto
  <2>4. /\ pc' \in [Threads -> Labels]
        /\ at' \in [Threads -> 0 .. MaxTokens]
        /\ seen' \in [Threads -> Processes]
        /\ todo' \in [Threads -> SUBSET Slots]
        /\ PlaceOK'
    BY <2>1 DEF NextPath, Forget, Goto
  <2> QED BY <2>1, <2>2, <2>3, <2>4
<1>7. ASSUME NEW t \in Threads, SweepDone(t) PROVE TypeInv'
  BY <1>7 DEF SweepDone, FirstIndex, Goto, files, sweeps
<1>8. ASSUME NEW t \in Threads, CreateToken(t) PROVE TypeInv'
  <2>1. /\ CreateFile(t, at[t]) /\ Goto(t, "write") /\ at[t] \in Slots /\ pc[t] = "try"
        /\ UNCHANGED <<alive, at, seen, todo, late, written>>
    BY <1>8 DEF CreateToken, CreateFile
  <2>2. /\ creator' \in [Slots -> Threads \cup {None}]
        /\ written' \in SUBSET {s \in Slots : creator'[s] # None}
    BY <2>1 DEF CreateFile
  <2>3. outdated' \in SUBSET {u \in Threads : pc'[u] \in {"probe", "unlink"}}
    BY <2>1 DEF CreateFile, Sweepers, Goto
  <2>4. /\ pc' \in [Threads -> Labels]
        /\ vacant' \in [Threads -> SUBSET Slots]
        /\ PlaceOK'
    BY <2>1 DEF CreateFile, Goto
  <2> QED BY <2>1, <2>2, <2>3, <2>4
<1>17. ASSUME NEW t \in Threads, SkipSlot(t) PROVE TypeInv'
  <2>1. /\ pc[t] = "try" /\ at[t] < MaxTokens
        /\ at' = [at EXCEPT ![t] = at[t] + 1]
        /\ UNCHANGED <<creator, written, alive, pc, seen, todo, late, outdated, vacant>>
    BY <1>17 DEF SkipSlot, files, sweeps
  <2>2. at[t] + 1 \in 0 .. MaxTokens
    BY <2>1
  <2>3. at' \in [Threads -> 0 .. MaxTokens] /\ PlaceOK'
    BY <2>1, <2>2
  <2> QED BY <2>1, <2>3
<1>9. ASSUME NEW t \in Threads, Retry(t) PROVE TypeInv'
  BY <1>9 DEF Retry, Forget, Goto, files
<1>10. ASSUME NEW t \in Threads, TimeOut(t) PROVE TypeInv'
  BY <1>10 DEF TimeOut, LeaveAcquire, Forget, Goto, files
<1>11. ASSUME NEW t \in Threads, WriteToken(t) PROVE TypeInv'
  BY <1>11 DEF WriteToken, LeaveAcquire, Sweepers, Goto
<1>12. ASSUME NEW t \in Threads, WriteFails(t) PROVE TypeInv'
  BY <1>12 DEF WriteFails, LeaveAcquire, Forget, Goto, files
<1>13. ASSUME NEW t \in Threads, Release(t) PROVE TypeInv'
  <2>1. /\ UnlinkFile(t, at[t]) /\ Goto(t, "idle") /\ Forget(t) /\ pc[t] = "hold"
        /\ UNCHANGED <<alive, todo, late, vacant>>
    BY <1>13 DEF Release
  <2>2. /\ creator' \in [Slots -> Threads \cup {None}]
        /\ written' \in SUBSET {s \in Slots : creator'[s] # None}
    BY <2>1 DEF UnlinkFile
  <2>3. outdated' \in SUBSET {u \in Threads : pc'[u] \in {"probe", "unlink"}}
    BY <2>1 DEF UnlinkFile, Sweepers, Goto
  <2>4. /\ pc' \in [Threads -> Labels]
        /\ at' \in [Threads -> 0 .. MaxTokens]
        /\ seen' \in [Threads -> Processes]
        /\ PlaceOK'
    BY <2>1 DEF Forget, Goto
  <2> QED BY <2>1, <2>2, <2>3, <2>4
<1>14. ASSUME NEW p \in Processes, Crash(p) PROVE TypeInv'
  BY <1>14 DEF Crash, ThreadsOf, files
<1>15. CASE UNCHANGED vars
  BY <1>15 DEF vars
<1> QED
  BY <1>1, <1>2, <1>3, <1>4, <1>5, <1>16, <1>6, <1>7, <1>8, <1>17, <1>9, <1>10, <1>11,
     <1>12, <1>13, <1>14, <1>15 DEF Next, ThreadStep, Progress

LEMMA TypeInvariance == Spec => []TypeInv
  BY InitTypeInv, NextTypeInv, PTL DEF Spec

\* Type correctness of the semaphore, for every instance: in particular no
\* write, unlink or crash leaves a token written without a file.
THEOREM TypeCorrect == Spec => []TypeOK
<1>1. TypeInv => TypeOK
  BY DEF TypeInv
<1> QED BY <1>1, TypeInvariance, PTL

----------------------------------------------------------------------------
\* The steps that leave the directory and the processes alone.
Local(t) ==
    \/ StartAcquire(t)
    \/ DeadlinePasses(t)
    \/ Glob(t)
    \/ ReadToken(t)
    \/ OwnerAnswers(t)
    \/ OwnerGone(t)
    \/ SweepDone(t)
    \/ SkipSlot(t)
    \/ Retry(t)
    \/ TimeOut(t)
    \/ WriteFails(t)

LEMMA StepKinds ==
    Next <=> \/ \E t \in Threads : \/ Local(t) \/ WriteToken(t) \/ CreateToken(t)
                                   \/ RemoveStale(t) \/ Release(t)
             \/ \E p \in Processes : Crash(p)
  BY DEF Next, ThreadStep, Progress, Local

LEMMA LocalStep ==
    ASSUME TypeInv, NEW t \in Threads, Local(t)
    PROVE  /\ creator' = creator /\ written' = written /\ alive' = alive
           /\ outdated' = outdated \/ outdated' = outdated \ {t}
           /\ pc[t] # "hold"
           /\ \A u \in Threads \ {t} :
                 pc'[u] = pc[u] /\ at'[u] = at[u] /\ seen'[u] = seen[u]
<1>1. /\ pc \in [Threads -> Labels]
      /\ at \in [Threads -> 0 .. MaxTokens]
      /\ seen \in [Threads -> Processes]
  BY DEF TypeInv, TypeOK
<1> USE DEF Local, StartAcquire, DeadlinePasses, Glob, ReadToken, OwnerAnswers, OwnerGone,
            SweepDone, SkipSlot, Retry, TimeOut, WriteFails
<1>2. creator' = creator /\ written' = written /\ alive' = alive /\ pc[t] # "hold"
  BY DEF files
<1>3. outdated' = outdated \/ outdated' = outdated \ {t}
  BY DEF sweeps
<1>4. ASSUME NEW u \in Threads \ {t}
      PROVE  pc'[u] = pc[u] /\ at'[u] = at[u] /\ seen'[u] = seen[u]
  BY <1>1, <1>4 DEF ReadUnwritten, ReadOwnPid, ReadOtherPid, NextPath, Forget, Goto, sweeps
<1> QED BY <1>2, <1>3, <1>4

----------------------------------------------------------------------------
\* What a sweeper knows as long as nobody touches the file it read.
VerdictInv ==
    \A u \in Threads \ outdated :
        /\ pc[u] = "probe" =>
              at[u] \in written /\ seen[u] = ProcOf[creator[at[u]]]
        /\ pc[u] = "unlink" =>
              \/ at[u] \notin written
              \/ ProcOf[creator[at[u]]] \notin alive
              \/ ProcOf[creator[at[u]]] \notin CanSignal[ProcOf[u]]

LEMMA NextLiveTokenIsHeld ==
    TypeInv /\ LiveTokenIsHeld /\ [Next]_vars => LiveTokenIsHeld'
<1> SUFFICES ASSUME TypeInv, LiveTokenIsHeld, [Next]_vars,
                    NEW s \in written', ProcOf[creator'[s]] \in alive'
             PROVE  pc'[creator'[s]] = "hold" /\ at'[creator'[s]] = s
  BY DEF LiveTokenIsHeld
<1> DEFINE t == creator[s]
           Kept == s \in written /\ creator'[s] = t
<1>1. \A r \in written : r \in Slots /\ creator[r] \in Threads
  BY DEF TypeInv, TypeOK
<1>2. pc \in [Threads -> Labels] /\ at \in [Threads -> 0 .. MaxTokens]
  BY DEF TypeInv, TypeOK
<1>3. Kept /\ t \in Threads /\ ProcOf[t] \in alive => pc[t] = "hold" /\ at[t] = s
  BY DEF LiveTokenIsHeld
<1>4. ASSUME NEW u \in Threads, Local(u)
      PROVE  pc'[creator'[s]] = "hold" /\ at'[creator'[s]] = s
  BY <1>1, <1>3, <1>4, LocalStep
<1>5. ASSUME NEW u \in Threads, WriteToken(u)
      PROVE  pc'[creator'[s]] = "hold" /\ at'[creator'[s]] = s
  <2>1. /\ creator' = creator /\ alive' = alive /\ at' = at
        /\ pc' = [pc EXCEPT ![u] = "hold"]
        /\ written' = written \/ (creator[at[u]] = u /\ written' = written \cup {at[u]})
    BY <1>5 DEF WriteToken, Goto
  <2>2. CASE s \in written
    BY <1>1, <1>2, <1>3, <2>1, <2>2
  <2>3. CASE s \notin written
    BY <1>2, <2>1, <2>3
  <2> QED BY <2>2, <2>3
<1>6. ASSUME NEW u \in Threads, CreateToken(u)
      PROVE  pc'[creator'[s]] = "hold" /\ at'[creator'[s]] = s
  <2>1. /\ pc[u] = "try" /\ creator[at[u]] = None
        /\ creator' = [creator EXCEPT ![at[u]] = u]
        /\ pc' = [pc EXCEPT ![u] = "write"]
        /\ UNCHANGED <<written, alive, at>>
    BY <1>6 DEF CreateToken, CreateFile, Goto
  <2>2. s # at[u]
    BY <2>1 DEF TypeInv, TypeOK
  <2>3. Kept
    BY <1>1, <2>1, <2>2
  <2> QED BY <1>1, <1>2, <1>3, <2>1, <2>3
<1>7. ASSUME NEW u \in Threads, UnlinkFile(u, at[u]), UNCHANGED alive,
             \A v \in Threads \ {u} : pc'[v] = pc[v] /\ at'[v] = at[v],
             pc[u] = "hold" \/ pc[u] = "unlink"
      PROVE  pc'[creator'[s]] = "hold" /\ at'[creator'[s]] = s
  <2>1. s # at[u] /\ Kept
    BY <1>1, <1>7 DEF UnlinkFile, TypeInv, TypeOK
  <2>2. t # u
    BY <1>1, <1>3, <1>7, <2>1
  <2> QED BY <1>1, <1>3, <1>7, <2>1, <2>2
<1>8. ASSUME NEW u \in Threads, RemoveStale(u) \/ Release(u)
      PROVE  pc'[creator'[s]] = "hold" /\ at'[creator'[s]] = s
  <2>1. \A v \in Threads \ {u} : pc'[v] = pc[v] /\ at'[v] = at[v]
    BY <1>2, <1>8 DEF RemoveStale, Release, NextPath, Forget, Goto
  <2>2. UnlinkFile(u, at[u]) /\ UNCHANGED alive /\ (pc[u] = "hold" \/ pc[u] = "unlink")
    BY <1>8 DEF RemoveStale, Release
  <2> QED BY <1>7, <2>1, <2>2
<1>9. ASSUME NEW p \in Processes, Crash(p)
      PROVE  pc'[creator'[s]] = "hold" /\ at'[creator'[s]] = s
  <2>1. Kept /\ ProcOf[t] \in alive /\ ProcOf[t] # p
    BY <1>1, <1>9 DEF Crash, files
  <2> QED BY <1>1, <1>2, <1>3, <1>9, <2>1 DEF Crash, ThreadsOf
<1>10. CASE UNCHANGED vars
  BY <1>1, <1>3, <1>10 DEF vars
<1> QED BY <1>4, <1>5, <1>6, <1>8, <1>9, <1>10, StepKinds

\* A completed token of a running process always has its holder: whatever
\* the interleaving of sweeps, crashes and failed writes.
THEOREM NoStrayLiveToken == Spec => []LiveTokenIsHeld
<1>1. Init => LiveTokenIsHeld
  BY DEF Init, LiveTokenIsHeld
<1> QED BY <1>1, NextLiveTokenIsHeld, TypeInvariance, PTL DEF Spec

----------------------------------------------------------------------------
LEMMA NextVerdictInv == TypeInv /\ VerdictInv /\ [Next]_vars => VerdictInv'
<1> DEFINE Knows(u) ==
      /\ pc[u] = "probe" =>
            at[u] \in written /\ seen[u] = ProcOf[creator[at[u]]]
      /\ pc[u] = "unlink" =>
            \/ at[u] \notin written
            \/ ProcOf[creator[at[u]]] \notin alive
            \/ ProcOf[creator[at[u]]] \notin CanSignal[ProcOf[u]]
<1> SUFFICES ASSUME TypeInv, VerdictInv, [Next]_vars,
                    NEW u \in Threads, u \notin outdated'
             PROVE  Knows(u)'
  BY DEF VerdictInv
<1>1. /\ pc \in [Threads -> Labels]
      /\ at \in [Threads -> 0 .. MaxTokens]
      /\ seen \in [Threads -> Processes]
      /\ creator \in [Slots -> Threads \cup {None}]
      /\ pc[u] \in {"probe", "unlink"} => at[u] \in Slots
  BY DEF TypeInv, TypeOK, PlaceOK
<1>2. u \notin outdated => Knows(u)
  BY DEF VerdictInv
\* A thread keeps its knowledge while its slot and its locals are untouched.
<1>3. ASSUME pc'[u] = pc[u], at'[u] = at[u], seen'[u] = seen[u], u \notin outdated,
             pc[u] \in {"probe", "unlink"} => creator'[at[u]] = creator[at[u]],
             pc[u] \in {"probe", "unlink"} => (at[u] \in written' <=> at[u] \in written),
             alive' \subseteq alive
      PROVE  Knows(u)'
  BY <1>2, <1>3
<1>4. ASSUME pc'[u] \notin {"probe", "unlink"} PROVE Knows(u)'
  BY <1>4
<1>5. ASSUME NEW v \in Threads, Local(v) PROVE Knows(u)'
  <2>1. creator' = creator /\ written' = written /\ alive' = alive
    BY <1>5, LocalStep
  <2>2. CASE u # v
    BY <1>3, <1>5, <2>1, <2>2, LocalStep
  <2>3. CASE u = v /\ ReadToken(v)
    <3>1. PICK s \in todo[u] : ReadUnwritten(u, s) \/ ReadOwnPid(u, s) \/ ReadOtherPid(u, s)
      BY <2>3 DEF ReadToken
    <3>2. pc[u] = "sweep"
      BY <2>3 DEF ReadToken
    <3>3. CASE ReadUnwritten(u, s)
      BY <1>1, <2>1, <3>3 DEF ReadUnwritten, Goto
    <3>4. CASE ReadOwnPid(u, s)
      BY <3>2, <3>4 DEF ReadOwnPid
    <3>5. CASE ReadOtherPid(u, s)
      BY <1>1, <2>1, <3>5 DEF ReadOtherPid, Goto
    <3> QED BY <3>1, <3>3, <3>4, <3>5
  <2>4. CASE u = v /\ OwnerGone(v)
    <3>1. /\ ~ Answers(ProcOf[u], seen[u]) /\ pc[u] = "probe" /\ u \notin outdated
          /\ pc'[u] = "unlink" /\ at'[u] = at[u]
      BY <1>1, <2>4 DEF OwnerGone, Goto
    <3>2. seen[u] = ProcOf[creator[at[u]]]
      BY <1>2, <3>1
    <3> QED BY <2>1, <3>1, <3>2 DEF Answers
  <2>5. CASE u = v /\ DeadlinePasses(v)
    <3>1. pc' = pc /\ at' = at /\ seen' = seen /\ outdated' = outdated
      BY <2>5 DEF DeadlinePasses, sweeps
    <3> QED BY <1>3, <2>1, <3>1
  <2>6. CASE u = v /\ ~ ReadToken(v) /\ ~ OwnerGone(v) /\ ~ DeadlinePasses(v)
    <3>1. pc'[u] \notin {"probe", "unlink"}
      BY <1>1, <1>5, <2>6 DEF Local, StartAcquire, WriteFails, Glob, OwnerAnswers,
           SweepDone, SkipSlot, Retry, TimeOut, NextPath, Goto
    <3> QED BY <1>4, <3>1
  <2> QED BY <2>2, <2>3, <2>4, <2>5, <2>6
<1>6. ASSUME NEW v \in Threads, WriteToken(v) PROVE Knows(u)'
  <2>1. /\ creator' = creator /\ alive' = alive /\ at' = at /\ seen' = seen
        /\ pc[v] = "write" /\ pc' = [pc EXCEPT ![v] = "hold"]
        /\ \/ written' = written /\ outdated' = outdated
           \/ written' = written \cup {at[v]} /\ outdated' = outdated \cup Sweepers(at[v])
    BY <1>6 DEF WriteToken, Goto
  <2>2. CASE pc[u] \in {"probe", "unlink"}
    <3>1. pc'[u] = pc[u] /\ u \notin outdated
      BY <1>1, <2>1, <2>2
    <3>2. at[u] \in written' <=> at[u] \in written
      BY <2>1, <2>2 DEF Sweepers
    <3> QED BY <1>3, <2>1, <3>1, <3>2
  <2>3. CASE pc[u] \notin {"probe", "unlink"}
    BY <1>1, <1>4, <2>1, <2>3
  <2> QED BY <2>2, <2>3
<1>7. ASSUME NEW v \in Threads, CreateToken(v) PROVE Knows(u)'
  <2>1. /\ creator' = [creator EXCEPT ![at[v]] = v]
        /\ outdated' = outdated \cup Sweepers(at[v])
        /\ pc[v] = "try" /\ pc' = [pc EXCEPT ![v] = "write"]
        /\ UNCHANGED <<written, alive, at, seen>>
    BY <1>7 DEF CreateToken, CreateFile, Goto
  <2>2. CASE pc[u] \in {"probe", "unlink"}
    <3>1. pc'[u] = pc[u] /\ u \notin outdated /\ at[u] # at[v]
      BY <1>1, <2>1, <2>2 DEF Sweepers
    <3>2. creator'[at[u]] = creator[at[u]]
      BY <1>1, <2>1, <2>2, <3>1
    <3> QED BY <1>3, <2>1, <3>1, <3>2
  <2>3. CASE pc[u] \notin {"probe", "unlink"}
    BY <1>1, <1>4, <2>1, <2>3
  <2> QED BY <2>2, <2>3
<1>8. ASSUME NEW v \in Threads, RemoveStale(v) \/ Release(v) PROVE Knows(u)'
  <2>1. /\ creator' = [creator EXCEPT ![at[v]] = None]
        /\ written' = written \ {at[v]}
        /\ outdated' = (outdated \cup Sweepers(at[v])) \ {v}
        /\ alive' = alive
    BY <1>8 DEF RemoveStale, Release, UnlinkFile
  <2>2. pc'[v] \notin {"probe", "unlink"}
    BY <1>1, <1>8 DEF RemoveStale, Release, NextPath, Goto
  <2>3. u # v => pc'[u] = pc[u] /\ at'[u] = at[u] /\ seen'[u] = seen[u]
    BY <1>1, <1>8 DEF RemoveStale, Release, NextPath, Forget, Goto
  <2>4. CASE u # v /\ pc[u] \in {"probe", "unlink"}
    <3>1. u \notin outdated /\ at[u] # at[v]
      BY <2>1, <2>4 DEF Sweepers
    <3>2. creator'[at[u]] = creator[at[u]] /\ (at[u] \in written' <=> at[u] \in written)
      BY <1>1, <2>1, <2>4, <3>1
    <3> QED BY <1>3, <2>1, <2>3, <2>4, <3>1, <3>2
  <2> QED BY <1>4, <2>2, <2>3, <2>4
<1>9. ASSUME NEW p \in Processes, Crash(p) PROVE Knows(u)'
  <2>1. CASE ProcOf[u] = p
    BY <1>1, <1>4, <1>9, <2>1 DEF Crash, ThreadsOf
  <2>2. CASE ProcOf[u] # p
    <3>1. /\ pc'[u] = pc[u] /\ at'[u] = at[u] /\ seen'[u] = seen[u]
          /\ u \notin outdated /\ alive' \subseteq alive
          /\ creator' = creator /\ written' = written
      BY <1>9, <2>2 DEF Crash, ThreadsOf, files
    <3> QED BY <1>3, <3>1
  <2> QED BY <2>1, <2>2
<1>10. CASE UNCHANGED vars
  BY <1>3, <1>10 DEF vars
<1> QED BY <1>5, <1>6, <1>7, <1>8, <1>9, <1>10, StepKinds

LEMMA VerdictInvariance == Spec => []VerdictInv
<1>1. Init => VerdictInv
  BY DEF Init, VerdictInv
<1> QED BY <1>1, NextVerdictInv, TypeInvariance, PTL DEF Spec

\* A sweeper whose slot nobody touched since it read the file unlinks only a
\* file that is gone, unwritten, or of a process that is dead or out of reach.
THEOREM VerdictSound == Spec => []FreshVerdictIsRight
<1>1. VerdictInv => FreshVerdictIsRight
  BY DEF VerdictInv, FreshVerdictIsRight
<1> QED BY <1>1, VerdictInvariance, PTL

----------------------------------------------------------------------------
(* Evictions. *)

LEMMA StepEvictsByRace ==
    ASSUME TypeInv, LiveTokenIsHeld, VerdictInv, [Next]_vars,
           NEW s \in written, ProcOf[creator[s]] \in alive,
           creator'[s] # creator[s], ~ Release(creator[s])
    PROVE  \E u \in Threads \ {creator[s]} :
              /\ at[u] = s
              /\ \/ pc[u] = "hold"
                 \/ /\ pc[u] = "unlink"
                    /\ \/ u \in outdated
                       \/ ProcOf[creator[s]] \notin CanSignal[ProcOf[u]]
<1> DEFINE t == creator[s]
<1>1. s \in Slots /\ t \in Threads /\ t # None /\ creator \in [Slots -> Threads \cup {None}]
  BY SemaphoreAssumption DEF TypeInv, TypeOK
<1>2. pc[t] = "hold"
  BY DEF LiveTokenIsHeld
<1>3. PICK u \in Threads : CreateToken(u) \/ RemoveStale(u) \/ Release(u)
  <2>1. \A v \in Threads : ~ Local(v) /\ ~ WriteToken(v)
    BY LocalStep DEF WriteToken
  <2>2. \A p \in Processes : ~ Crash(p)
    BY DEF Crash, files
  <2>3. Next
    BY DEF vars
  <2> QED BY <2>1, <2>2, <2>3, StepKinds
<1>4. CASE CreateToken(u)
  BY <1>1, <1>4 DEF CreateToken, CreateFile
<1>5. CASE RemoveStale(u)
  <2>1. pc[u] = "unlink" /\ at[u] = s
    BY <1>1, <1>5 DEF RemoveStale, UnlinkFile
  <2>2. u # t
    BY <1>2, <2>1
  <2>3. u \notin outdated => ProcOf[t] \notin CanSignal[ProcOf[u]]
    BY <2>1 DEF VerdictInv
  <2> QED BY <2>1, <2>2, <2>3
<1>6. CASE Release(u)
  <2>1. pc[u] = "hold" /\ at[u] = s
    BY <1>1, <1>6 DEF Release, UnlinkFile
  <2>2. u # t
    BY <1>6
  <2> QED BY <2>1, <2>2
<1> QED BY <1>3, <1>4, <1>5, <1>6

\* _is_stale never condemns a token in use: a completed token of a running
\* process is only ever taken away by an out-of-date verdict, by a sweeper that
\* cannot signal the owner, or by a holder whose own file was taken before.
THEOREM EvictionsAreRaces == Spec => EvictionNeedsRace
<1>1. TypeInv /\ LiveTokenIsHeld /\ VerdictInv /\ [Next]_vars =>
        [\A s \in written :
           LET t == creator[s] IN
           ProcOf[t] \in alive /\ creator'[s] # t /\ ~ Release(t) =>
             \E u \in Threads \ {t} :
                 /\ at[u] = s
                 /\ \/ pc[u] = "hold"
                    \/ /\ pc[u] = "unlink"
                       /\ \/ u \in outdated
                          \/ ProcOf[t] \notin CanSignal[ProcOf[u]]]_vars
  BY StepEvictsByRace
<1> QED
  BY <1>1, TypeInvariance, NoStrayLiveToken, VerdictInvariance, PTL DEF Spec, EvictionNeedsRace

----------------------------------------------------------------------------
(* Timeouts. *)

\* A slot free since the round began is still free and not yet tried.
ScanInv ==
    \A t \in Threads :
        \A s \in vacant[t] : creator[s] = None /\ (pc[t] = "try" => at[t] <= s)

LEMMA NextScanInv == TypeInv /\ ScanInv /\ [Next]_vars => ScanInv'
<1> SUFFICES ASSUME TypeInv, ScanInv, [Next]_vars,
                    NEW t \in Threads, NEW s \in vacant'[t]
             PROVE  creator'[s] = None /\ (pc'[t] = "try" => at'[t] <= s)
  BY DEF ScanInv
<1> DEFINE Free == creator'[s] = None /\ (pc'[t] = "try" => at'[t] <= s)
<1>1. /\ creator \in [Slots -> Threads \cup {None}]
      /\ pc \in [Threads -> Labels]
      /\ at \in [Threads -> 0 .. MaxTokens]
      /\ vacant \in [Threads -> SUBSET Slots]
      /\ Slots \subseteq Int
  BY DEF TypeInv, TypeOK, Slots
<1>2. ASSUME s \in vacant[t], creator'[s] = creator[s] \/ creator'[s] = None,
             pc'[t] = "try" => pc[t] = "try" /\ at'[t] = at[t]
      PROVE  Free
  BY <1>2 DEF ScanInv
<1>3. ASSUME NEW u \in Threads, Local(u) PROVE Free
  <2>1. creator' = creator
    BY <1>3, LocalStep
  <2>2. CASE Glob(u)
    BY <1>1, <1>2, <2>1, <2>2 DEF Glob, Goto
  <2>3. CASE SweepDone(u)
    <3>1. vacant' = vacant /\ pc' = [pc EXCEPT ![u] = "try"] /\ at' = [at EXCEPT ![u] = 0]
      BY <2>3 DEF SweepDone, FirstIndex, Goto
    <3>2. s >= 0
      BY <1>1, <3>1 DEF Slots
    <3> QED BY <1>1, <2>1, <3>1, <3>2 DEF ScanInv
  <2>4. CASE SkipSlot(u)
    <3>1. /\ vacant' = vacant /\ pc' = pc /\ pc[u] = "try"
          /\ creator[at[u]] # None /\ at' = [at EXCEPT ![u] = at[u] + 1]
      BY <2>4 DEF SkipSlot
    <3>2. s \in Int /\ at[t] \in Int /\ creator[s] = None /\ (pc[t] = "try" => at[t] <= s)
      BY <1>1, <3>1 DEF ScanInv
    <3> QED BY <1>1, <2>1, <3>1, <3>2
  <2>5. CASE ~ Glob(u) /\ ~ SweepDone(u) /\ ~ SkipSlot(u)
    <3>1. s \in vacant[t]
      BY <1>1, <1>3, <2>5 DEF Local, StartAcquire, DeadlinePasses, ReadToken, OwnerAnswers,
           OwnerGone, Retry, TimeOut, WriteFails, LeaveAcquire
    <3>2. pc'[t] = "try" => pc[t] = "try" /\ at'[t] = at[t]
      BY <1>1, <1>3, <2>5 DEF Local, StartAcquire, DeadlinePasses, ReadToken, ReadUnwritten,
           ReadOwnPid, ReadOtherPid, OwnerAnswers, OwnerGone, Retry, TimeOut, WriteFails,
           NextPath, Forget, Goto
    <3> QED BY <1>2, <2>1, <3>1, <3>2
  <2> QED BY <2>2, <2>3, <2>4, <2>5
<1>4. ASSUME NEW u \in Threads, WriteToken(u) PROVE Free
  BY <1>1, <1>2, <1>4 DEF WriteToken, LeaveAcquire, Goto
<1>5. ASSUME NEW u \in Threads, CreateToken(u) PROVE Free
  <2>1. /\ s \in vacant[t] /\ s # at[u] /\ at' = at
        /\ creator' = [creator EXCEPT ![at[u]] = u]
        /\ pc' = [pc EXCEPT ![u] = "write"]
    BY <1>1, <1>5 DEF CreateToken, CreateFile, Goto
  <2> QED BY <1>1, <1>2, <2>1
<1>6. ASSUME NEW u \in Threads, RemoveStale(u) \/ Release(u) PROVE Free
  <2>1. s \in vacant[t] /\ creator' = [creator EXCEPT ![at[u]] = None]
    BY <1>6 DEF RemoveStale, Release, UnlinkFile
  <2>2. pc'[t] = "try" => pc[t] = "try" /\ at'[t] = at[t]
    BY <1>1, <1>6 DEF RemoveStale, Release, NextPath, Forget, Goto
  <2> QED BY <1>1, <1>2, <2>1, <2>2
<1>7. ASSUME NEW p \in Processes, Crash(p) PROVE Free
  BY <1>1, <1>2, <1>7 DEF Crash, ThreadsOf, files
<1>8. CASE UNCHANGED vars
  BY <1>2, <1>8 DEF vars
<1> QED BY <1>3, <1>4, <1>5, <1>6, <1>7, <1>8, StepKinds

\* acquire() never gives up on a slot that was free during its whole last round.
THEOREM TimeoutsAreEarned == Spec => NoSpuriousTimeout
<1>1. Init => ScanInv
  BY DEF Init, ScanInv
<1>2. TypeInv /\ ScanInv /\ [Next]_vars =>
        [\A t \in Threads : pc[t] = "try" /\ pc'[t] = "idle" => vacant[t] = {}]_vars
  <2> SUFFICES ASSUME TypeInv, ScanInv, [Next]_vars, ~ UNCHANGED vars,
                      NEW t \in Threads, pc[t] = "try", pc'[t] = "idle"
               PROVE  vacant[t] = {}
    OBVIOUS
  <2>1. TimeOut(t)
    <3>1. \A u \in Threads : u # t =>
             ~ Local(u) /\ ~ WriteToken(u) /\ ~ CreateToken(u) /\ ~ RemoveStale(u) /\ ~ Release(u)
      BY LocalStep DEF WriteToken, CreateToken, RemoveStale, Release, NextPath, Goto, TypeInv, TypeOK
    <3>2. \A p \in Processes : ~ Crash(p)
      BY DEF Crash, ThreadsOf
    <3>3. \/ Local(t) \/ WriteToken(t) \/ CreateToken(t) \/ RemoveStale(t) \/ Release(t)
      BY <3>1, <3>2, StepKinds
    <3> QED
      BY <3>3 DEF Local, StartAcquire, DeadlinePasses, Glob, ReadToken, OwnerAnswers, OwnerGone,
           SweepDone, SkipSlot, Retry, TimeOut, WriteFails, WriteToken, CreateToken,
           RemoveStale, Release, Goto, TypeInv, TypeOK
  <2>2. \A s \in vacant[t] : s \in 0 .. MaxTokens - 1 /\ MaxTokens <= s
    BY <2>1 DEF TimeOut, ScanInv, TypeInv, TypeOK, Slots
  <2> QED BY <2>2, SemaphoreAssumption
<1> QED
  BY <1>1, <1>2, NextScanInv, TypeInvariance, PTL DEF Spec, NoSpuriousTimeout

============================================================================
