----------------------- MODULE SshSessionPool_proofs -----------------------
(***************************************************************************)
(* Machine-checked proofs about SshSessionPool, for any threads, any       *)
(* number of tokens and any combination of faults.                         *)
(***************************************************************************)
EXTENDS SshSessionPool, FiniteSetTheorems, FunctionTheorems, TLAPS

LEMMA InitTypeOK == Init => TypeOK
  BY PoolAssumption DEF Init, TypeOK, Slots, Pools, Labels, Leased

LEMMA NextTypeOK == TypeOK /\ [Next]_vars => TypeOK'
<1> SUFFICES ASSUME TypeOK, [Next]_vars PROVE TypeOK'
  OBVIOUS
<1> USE PoolAssumption DEF TypeOK, Labels, Leased
<1>1. ASSUME NEW t \in Threads, EnterLookup(t) PROVE TypeOK'
  BY <1>1 DEF EnterLookup, Goto, tokens, conns
<1>2. ASSUME NEW t \in Threads, PutIdle(t) PROVE TypeOK'
  BY <1>2 DEF PutIdle, Leave, Goto, tokens, conns, Pools
<1>3. ASSUME NEW t \in Threads, SwapIdle(t) PROVE TypeOK'
  BY <1>3 DEF SwapIdle, Goto, tokens, conns
<1>4. ASSUME NEW t \in Threads, PopHealthy(t) PROVE TypeOK'
  BY <1>4 DEF PopHealthy, Goto, tokens, conns
<1>5. ASSUME NEW t \in Threads, PopBroken(t) PROVE TypeOK'
  BY <1>5 DEF PopBroken, CloseSession, FreeToken
<1>6. ASSUME NEW t \in Threads, NothingIdle(t) PROVE TypeOK'
  BY <1>6 DEF NothingIdle, Goto, tokens, conns
<1>7. ASSUME NEW t \in Threads, TakeToken(t) PROVE TypeOK'
  BY <1>7 DEF TakeToken, Goto, shared
<1>8. ASSUME NEW t \in Threads, TokenTimeout(t) PROVE TypeOK'
  BY <1>8 DEF TokenTimeout, Leave, Goto, tokens, conns, shared, Pools
<1>9. ASSUME NEW t \in Threads, Connected(t) PROVE TypeOK'
  BY <1>9 DEF Connected, Goto, tokens, shared
<1>10. ASSUME NEW t \in Threads, ConnectFails(t) PROVE TypeOK'
  BY <1>10 DEF ConnectFails, FreeToken, CloseSession, Leave, Goto, shared, Pools
<1>11. ASSUME NEW t \in Threads, ConnectInterrupted(t) PROVE TypeOK'
  BY <1>11 DEF ConnectInterrupted, Leave, Goto, tokens, conns, shared, Pools
<1>12. ASSUME NEW t \in Threads, KeepSession(t) PROVE TypeOK'
  BY <1>12 DEF KeepSession, Goto, tokens, conns, shared
<1>13. ASSUME NEW t \in Threads, Discard(t) PROVE TypeOK'
  BY <1>13 DEF Discard, FreeToken, CloseSession, Leave, Goto, shared, Pools
<1>14. ASSUME NEW t \in Threads, DiscardFails(t) PROVE TypeOK'
  BY <1>14 DEF DiscardFails, Leave, Goto, tokens, shared, Pools
<1>15. ASSUME NEW t \in Threads, DrainOne(t) PROVE TypeOK'
  BY <1>15 DEF DrainOne, FreeToken, CloseSession, shared
<1>16. ASSUME NEW t \in Threads, DrainFails(t) PROVE TypeOK'
  BY <1>16 DEF DrainFails, Leave, Goto, tokens, shared, Pools
<1>17. ASSUME NEW t \in Threads, DrainDone(t) PROVE TypeOK'
  BY <1>17 DEF DrainDone, Leave, Goto, tokens, conns, shared, Pools
<1>18. ASSUME NEW t \in Threads, StartAcquire(t) PROVE TypeOK'
  BY <1>18 DEF StartAcquire, Goto, tokens, conns, shared
<1>19. ASSUME NEW t \in Threads, RunFails(t) PROVE TypeOK'
  BY <1>19 DEF RunFails, FreeToken, CloseSession, Goto, shared
<1>20. ASSUME NEW t \in Threads, RunAgain(t) PROVE TypeOK'
  BY <1>20 DEF RunAgain, FreeToken, conns, shared
<1>21. ASSUME NEW t \in Threads, LeaveFailed(t) PROVE TypeOK'
  BY <1>21 DEF LeaveFailed, Leave, Goto, tokens, conns, shared, Pools
<1>22. ASSUME NEW t \in Threads, RunInterrupted(t) \/ SendCommand(t) \/ CommandDone(t)
       PROVE  TypeOK'
  BY <1>22 DEF RunInterrupted, SendCommand, CommandDone, Goto, tokens, conns, shared
<1>23. ASSUME NEW t \in Threads, EndBlock(t) PROVE TypeOK'
  BY <1>23 DEF EndBlock, Goto, tokens, conns, shared
<1>24. ASSUME NEW t \in Threads, ForgetPools(t) PROVE TypeOK'
  BY <1>24 DEF ForgetPools, Goto, tokens, conns, Pools
<1>25. ASSUME NEW x \in Sessions, Drop(x) \/ Collect(x) PROVE TypeOK'
  BY <1>25 DEF Drop, Collect, CloseSession, tokens, shared
<1>26. ASSUME NEW s \in Slots, OtherTakes(s) \/ OtherFrees(s) PROVE TypeOK'
  BY <1>26 DEF OtherTakes, OtherFrees, conns, shared
<1>27. CASE UNCHANGED vars
  BY <1>27 DEF vars
<1> QED
  BY <1>1, <1>2, <1>3, <1>4, <1>5, <1>6, <1>7, <1>8, <1>9, <1>10, <1>11, <1>12, <1>13, <1>14,
     <1>15, <1>16, <1>17, <1>18, <1>19, <1>20, <1>21, <1>22, <1>23, <1>24, <1>25, <1>26, <1>27
     DEF Next, Locking, Running, Calling

\* Type correctness of the pool: in particular a thread holds a session exactly
\* while it has one to use or to give back.
THEOREM TypeCorrect == Spec => []TypeOK
  BY InitTypeOK, NextTypeOK, PTL DEF Spec

----------------------------------------------------------------------------
(* Exclusive use. *)

\* Steps that leave the leases, the idle lists and the batches alone.
KeepsLeases == UNCHANGED <<mine, idle, batch>>

\* Steps that only end the lease of thread t.
EndsLease(t) ==
    mine' = [mine EXCEPT ![t] = None] /\ UNCHANGED <<idle, batch>>

LEMMA LeaseSteps ==
    Next => \/ KeepsLeases
            \/ \E t \in Threads :
                  \/ EndsLease(t) \/ PutIdle(t) \/ SwapIdle(t) \/ PopHealthy(t)
                  \/ PopBroken(t) \/ TakeToken(t) \/ DrainOne(t) \/ DrainFails(t)
<1> SUFFICES ASSUME Next PROVE
            \/ KeepsLeases
            \/ \E t \in Threads :
                  \/ EndsLease(t) \/ PutIdle(t) \/ SwapIdle(t) \/ PopHealthy(t)
                  \/ PopBroken(t) \/ TakeToken(t) \/ DrainOne(t) \/ DrainFails(t)
  OBVIOUS
<1>1. ASSUME NEW t \in Threads,
             \/ EnterLookup(t) \/ NothingIdle(t) \/ Connected(t) \/ KeepSession(t)
             \/ StartAcquire(t) \/ SendCommand(t) \/ CommandDone(t) \/ RunFails(t) \/ RunAgain(t)
             \/ RunInterrupted(t) \/ EndBlock(t) \/ ForgetPools(t)
      PROVE  KeepsLeases
  BY <1>1 DEF EnterLookup, NothingIdle, Connected, KeepSession, StartAcquire, RunFails, RunAgain,
       RunInterrupted, SendCommand, CommandDone, EndBlock, ForgetPools, KeepsLeases, shared
<1>2. ASSUME NEW t \in Threads,
             \/ TokenTimeout(t) \/ ConnectFails(t) \/ ConnectInterrupted(t) \/ Discard(t)
             \/ DiscardFails(t) \/ DrainDone(t) \/ LeaveFailed(t)
      PROVE  EndsLease(t)
  BY <1>2 DEF TokenTimeout, ConnectFails, ConnectInterrupted, Discard, DiscardFails, DrainDone,
       LeaveFailed, Leave, EndsLease, shared
<1>3. ASSUME NEW x \in Sessions, Drop(x) \/ Collect(x) PROVE KeepsLeases
  BY <1>3 DEF Drop, Collect, KeepsLeases, shared
<1>4. ASSUME NEW s \in Slots, OtherTakes(s) \/ OtherFrees(s) PROVE KeepsLeases
  BY <1>4 DEF OtherTakes, OtherFrees, KeepsLeases, shared
<1> QED BY <1>1, <1>2, <1>3, <1>4 DEF Next, Locking, Running, Calling

LEMMA NextSessionExclusive ==
    TypeOK /\ SessionExclusive /\ [Next]_vars => SessionExclusive'
<1> SUFFICES ASSUME TypeOK, SessionExclusive, [Next]_vars PROVE SessionExclusive'
  OBVIOUS
<1>1. /\ mine \in [Threads -> Sessions \cup {None}]
      /\ idle \in [Pools -> SUBSET Sessions]
      /\ batch \in [Threads -> SUBSET Sessions]
      /\ pool \in [Threads -> Pools]
      /\ None \notin Sessions
  BY PoolAssumption DEF TypeOK
<1>2. CASE KeepsLeases
  BY <1>2 DEF KeepsLeases, SessionExclusive
<1>3. ASSUME NEW t \in Threads, EndsLease(t) PROVE SessionExclusive'
  BY <1>1, <1>3 DEF EndsLease, SessionExclusive
<1>4. ASSUME NEW t \in Threads, PutIdle(t) PROVE SessionExclusive'
  <2>1. /\ mine' = [mine EXCEPT ![t] = None] /\ batch' = batch
        /\ idle' = [idle EXCEPT ![pool[t]] = @ \cup {mine[t]}]
        /\ mine[t] # None
    BY <1>4 DEF PutIdle, Leave, TypeOK, Leased
  <2> QED BY <1>1, <2>1 DEF SessionExclusive
<1>5. ASSUME NEW t \in Threads, SwapIdle(t) PROVE SessionExclusive'
  <2>1. /\ mine' = mine
        /\ batch' = [batch EXCEPT ![t] = idle[pool[t]]]
        /\ idle' = [idle EXCEPT ![pool[t]] = {}]
    BY <1>5 DEF SwapIdle
  <2> QED BY <1>1, <2>1 DEF SessionExclusive
<1>6. ASSUME NEW t \in Threads, PopHealthy(t) PROVE SessionExclusive'
  <2>1. PICK x \in idle[pool[t]] :
           /\ idle' = [idle EXCEPT ![pool[t]] = @ \ {x}]
           /\ mine' = [mine EXCEPT ![t] = x]
    BY <1>6 DEF PopHealthy
  <2>2. batch' = batch
    BY <1>6 DEF PopHealthy
  <2> QED BY <1>1, <2>1, <2>2 DEF SessionExclusive
<1>7. ASSUME NEW t \in Threads, PopBroken(t) PROVE SessionExclusive'
  <2>1. PICK x \in idle[pool[t]] : idle' = [idle EXCEPT ![pool[t]] = @ \ {x}]
    BY <1>7 DEF PopBroken
  <2>2. batch' = batch /\ mine' = mine
    BY <1>7 DEF PopBroken
  <2> QED BY <1>1, <2>1, <2>2 DEF SessionExclusive
<1>8. ASSUME NEW t \in Threads, TakeToken(t) PROVE SessionExclusive'
  <2>1. PICK x \in Sessions : Unused(x) /\ mine' = [mine EXCEPT ![t] = x]
    BY <1>8 DEF TakeToken
  <2>2. batch' = batch /\ idle' = idle
    BY <1>8 DEF TakeToken, shared
  <2> QED BY <1>1, <2>1, <2>2 DEF SessionExclusive, Unused, Unreferenced
<1>9. ASSUME NEW t \in Threads, DrainOne(t) PROVE SessionExclusive'
  <2>1. PICK x \in batch[t] : batch' = [batch EXCEPT ![t] = @ \ {x}]
    BY <1>9 DEF DrainOne
  <2>2. idle' = idle /\ mine' = mine
    BY <1>9 DEF DrainOne, shared
  <2> QED BY <1>1, <2>1, <2>2 DEF SessionExclusive
<1>10. ASSUME NEW t \in Threads, DrainFails(t) PROVE SessionExclusive'
  <2>1. /\ batch' = [batch EXCEPT ![t] = {}] /\ mine' = [mine EXCEPT ![t] = None]
        /\ idle' = idle
    BY <1>10 DEF DrainFails, Leave, shared
  <2> QED BY <1>1, <2>1 DEF SessionExclusive
<1>11. CASE UNCHANGED vars
  BY <1>11 DEF vars, SessionExclusive
<1> QED
  BY <1>2, <1>3, <1>4, <1>5, <1>6, <1>7, <1>8, <1>9, <1>10, <1>11, LeaseSteps

\* A session is never in two hands, under every fault: leased to two threads,
\* leased while idle, or closed by close_all while leased.
THEOREM ExclusiveUse == Spec => []SessionExclusive
<1>1. Init => SessionExclusive
  BY DEF Init, SessionExclusive
<1> QED BY <1>1, TypeCorrect, NextSessionExclusive, PTL DEF Spec

----------------------------------------------------------------------------
(* Closed sessions and tokens. *)

PoolInv == TypeOK /\ SessionExclusive /\ ClosedIsGone

LEMMA NextClosedIsGone == PoolInv /\ [Next]_vars => ClosedIsGone'
<1> SUFFICES ASSUME PoolInv, [Next]_vars PROVE ClosedIsGone'
  OBVIOUS
<1> USE DEF ClosedIsGone, Unclosed
<1>1. /\ mine \in [Threads -> Sessions \cup {None}]
      /\ idle \in [Pools -> SUBSET Sessions]
      /\ batch \in [Threads -> SUBSET Sessions]
      /\ state \in [Sessions -> {"new", "open", "broken", "closed"}]
      /\ pc \in [Threads -> Labels]
      /\ pool \in [Threads -> Pools]
      /\ \A t \in Threads : Leased(t) \/ pc[t] = "failed" <=> mine[t] # None
      /\ None \notin Sessions
      /\ SessionExclusive /\ ClosedIsGone
  BY PoolAssumption DEF TypeOK, PoolInv
\* A step that closes nothing and takes no new session.
<1>2. ASSUME \A x \in Sessions : state[x] # "closed" => state'[x] # "closed",
             \A t \in Threads : Leased(t)' => mine'[t] = mine[t] /\ Leased(t),
             \A g \in Pools : idle'[g] \subseteq idle[g],
             \A t \in Threads : batch'[t] \subseteq batch[t]
      PROVE  ClosedIsGone'
  BY <1>1, <1>2
<1>3. ASSUME NEW t \in Threads,
             \/ EnterLookup(t) \/ NothingIdle(t) \/ TokenTimeout(t) \/ Connected(t)
             \/ KeepSession(t) \/ DrainDone(t) \/ StartAcquire(t) \/ RunAgain(t)
             \/ LeaveFailed(t) \/ RunInterrupted(t) \/ SendCommand(t) \/ CommandDone(t)
             \/ EndBlock(t) \/ ForgetPools(t) \/ ConnectInterrupted(t) \/ DiscardFails(t)
      PROVE  ClosedIsGone'
  <2>1. \A x \in Sessions : state[x] # "closed" => state'[x] # "closed"
    BY <1>1, <1>3 DEF EnterLookup, NothingIdle, TokenTimeout, Connected, KeepSession, DrainDone,
         StartAcquire, RunAgain, LeaveFailed, RunInterrupted, SendCommand, CommandDone,
         EndBlock, ForgetPools, ConnectInterrupted, DiscardFails, conns
  <2>2. \A u \in Threads : Leased(u)' => mine'[u] = mine[u] /\ Leased(u)
    BY <1>1, <1>3 DEF EnterLookup, NothingIdle, TokenTimeout, Connected, KeepSession, DrainDone,
         StartAcquire, RunAgain, LeaveFailed, RunInterrupted, SendCommand, CommandDone,
         EndBlock, ForgetPools, ConnectInterrupted, DiscardFails, Leased,
         Leave, Goto
  <2>3. idle' = idle /\ batch' = batch
    BY <1>3 DEF EnterLookup, NothingIdle, TokenTimeout, Connected, KeepSession, DrainDone,
         StartAcquire, RunAgain, LeaveFailed, RunInterrupted, SendCommand, CommandDone,
         EndBlock, ForgetPools, ConnectInterrupted, DiscardFails, shared
  <2> QED BY <1>2, <2>1, <2>2, <2>3
<1>4. ASSUME NEW t \in Threads,
             ConnectFails(t) \/ Discard(t) \/ RunFails(t)
      PROVE  ClosedIsGone'
  <2>1. /\ state' = [state EXCEPT ![mine[t]] = "closed"]
        /\ idle' = idle /\ batch' = batch /\ mine[t] # None
    BY <1>1, <1>4 DEF ConnectFails, Discard, RunFails,
         CloseSession, shared, Leased
  <2>2. ~ Leased(t)' /\ \A u \in Threads \ {t} : mine'[u] = mine[u] /\ pc'[u] = pc[u]
    BY <1>1, <1>4 DEF ConnectFails, Discard, RunFails,
         Leave, Goto, Leased
  <2>3. \A u \in Threads \ {t} : Leased(u)' => mine'[u] \in Sessions \ {mine[t]} /\ Leased(u)
    BY <1>1, <2>1, <2>2 DEF SessionExclusive, Leased
  <2> QED BY <1>1, <2>1, <2>2, <2>3 DEF SessionExclusive
<1>5. ASSUME NEW t \in Threads, PutIdle(t) PROVE ClosedIsGone'
  <2>1. /\ mine' = [mine EXCEPT ![t] = None] /\ pc' = [pc EXCEPT ![t] = "out"]
        /\ batch' = batch /\ state' = state
        /\ idle' = [idle EXCEPT ![pool[t]] = @ \cup {mine[t]}]
        /\ Leased(t)
    BY <1>5 DEF PutIdle, Leave, Goto, Leased, conns
  <2>2. mine[t] \in Unclosed
    BY <1>1, <2>1
  <2> QED BY <1>1, <2>1, <2>2 DEF Leased
<1>6. ASSUME NEW t \in Threads, SwapIdle(t) PROVE ClosedIsGone'
  <2>1. /\ mine' = mine /\ pc' = [pc EXCEPT ![t] = "drain"] /\ state' = state
        /\ batch' = [batch EXCEPT ![t] = idle[pool[t]]]
        /\ idle' = [idle EXCEPT ![pool[t]] = {}]
    BY <1>6 DEF SwapIdle, Goto, conns
  <2> QED BY <1>1, <2>1 DEF Leased
<1>7. ASSUME NEW t \in Threads, PopHealthy(t) PROVE ClosedIsGone'
  <2>1. PICK x \in idle[pool[t]] :
           /\ idle' = [idle EXCEPT ![pool[t]] = @ \ {x}]
           /\ mine' = [mine EXCEPT ![t] = x]
    BY <1>7 DEF PopHealthy
  <2>2. batch' = batch /\ state' = state /\ pc' = [pc EXCEPT ![t] = "using"]
    BY <1>7 DEF PopHealthy, Goto, conns
  <2> QED BY <1>1, <2>1, <2>2 DEF Leased
<1>8. ASSUME NEW t \in Threads, PopBroken(t) PROVE ClosedIsGone'
  <2>1. PICK x \in idle[pool[t]] :
           /\ idle' = [idle EXCEPT ![pool[t]] = @ \ {x}]
           /\ state' = [state EXCEPT ![x] = "closed"]
    BY <1>8 DEF PopBroken, CloseSession
  <2>2. batch' = batch /\ mine' = mine /\ pc' = pc
    BY <1>8 DEF PopBroken
  <2>3. \A u \in Threads : mine[u] # x /\ x \notin batch[u]
    BY <1>1, <2>1 DEF SessionExclusive
  <2>4. \A g \in Pools : x \notin idle'[g]
    BY <1>1, <2>1 DEF SessionExclusive
  <2>5. \A g \in Pools : idle'[g] \subseteq idle[g]
    BY <1>1, <2>1
  <2> QED BY <1>1, <2>1, <2>2, <2>3, <2>4, <2>5 DEF Leased
<1>9. ASSUME NEW t \in Threads, TakeToken(t) PROVE ClosedIsGone'
  <2>1. PICK x \in Sessions :
           /\ Unused(x) /\ mine' = [mine EXCEPT ![t] = x]
           /\ state' = [state EXCEPT ![x] = "new"]
    BY <1>9 DEF TakeToken
  <2>2. batch' = batch /\ idle' = idle /\ pc' = [pc EXCEPT ![t] = "connect"]
    BY <1>9 DEF TakeToken, Goto, shared
  <2> QED BY <1>1, <2>1, <2>2 DEF Leased
<1>10. ASSUME NEW t \in Threads, DrainOne(t) PROVE ClosedIsGone'
  <2>1. PICK x \in batch[t] :
           /\ batch' = [batch EXCEPT ![t] = @ \ {x}]
           /\ state' = [state EXCEPT ![x] = "closed"]
    BY <1>10 DEF DrainOne, CloseSession
  <2>2. idle' = idle /\ mine' = mine /\ pc' = pc
    BY <1>10 DEF DrainOne, shared
  <2>3. /\ \A u \in Threads : mine[u] # x /\ x \notin batch'[u] /\ batch'[u] \subseteq batch[u]
        /\ \A g \in Pools : x \notin idle[g]
    BY <1>1, <2>1 DEF SessionExclusive
  <2> QED BY <1>1, <2>1, <2>2, <2>3 DEF Leased
<1>11. ASSUME NEW t \in Threads, DrainFails(t) PROVE ClosedIsGone'
  <2>1. PICK x \in batch[t] : state' = [state EXCEPT ![x] = "broken"]
    BY <1>11 DEF DrainFails
  <2>2. /\ batch' = [batch EXCEPT ![t] = {}] /\ mine' = [mine EXCEPT ![t] = None]
        /\ idle' = idle /\ pc' = [pc EXCEPT ![t] = "out"]
    BY <1>11 DEF DrainFails, Leave, Goto, shared
  <2> QED BY <1>1, <1>2, <2>1, <2>2 DEF Leased
<1>12. ASSUME NEW x \in Sessions, Drop(x) PROVE ClosedIsGone'
  BY <1>1, <1>2, <1>12 DEF Drop, shared, Leased
<1>15. ASSUME NEW x \in Sessions, Collect(x) PROVE ClosedIsGone'
  BY <1>1, <1>15 DEF Collect, CloseSession, Unreferenced, shared, Leased
<1>13. ASSUME NEW s \in Slots, OtherTakes(s) \/ OtherFrees(s) PROVE ClosedIsGone'
  BY <1>1, <1>2, <1>13 DEF OtherTakes, OtherFrees, conns, shared, Leased
<1>14. CASE UNCHANGED vars
  BY <1>2, <1>14 DEF vars, Leased
<1> QED
  BY <1>3, <1>4, <1>5, <1>6, <1>7, <1>8, <1>9, <1>10, <1>11, <1>12, <1>13, <1>14,
     <1>15
     DEF Next, Locking, Running, Calling

\* A discarded session never comes back: nothing leased, idle or in a batch of
\* close_all is closed, under every fault.
THEOREM ClosedStaysGone == Spec => []ClosedIsGone
<1>1. Init => ClosedIsGone
  BY DEF Init, ClosedIsGone, Leased
<1> QED BY <1>1, TypeCorrect, ExclusiveUse, NextClosedIsGone, PTL DEF Spec, PoolInv

LEMMA NextSessionHasToken ==
    PoolInv /\ SessionHasToken /\ [Next]_vars => SessionHasToken'
<1> SUFFICES ASSUME PoolInv, SessionHasToken, [Next]_vars, "rerun" \notin Faults
             PROVE  \A x \in Unclosed' : token'[slot'[x]] = x
  BY DEF SessionHasToken
<1> DEFINE Owned == \A x \in Unclosed : token[slot[x]] = x
<1>1. /\ mine \in [Threads -> Sessions \cup {None}]
      /\ idle \in [Pools -> SUBSET Sessions]
      /\ batch \in [Threads -> SUBSET Sessions]
      /\ pool \in [Threads -> Pools]
      /\ state \in [Sessions -> {"new", "open", "broken", "closed"}]
      /\ token \in [Slots -> Sessions \cup {Free, Other}]
      /\ slot \in [Sessions -> Slots]
      /\ None \notin Sessions /\ Free \notin Sessions /\ Other \notin Sessions
      /\ \A t \in Threads : Leased(t) => mine[t] \in Unclosed
      /\ Owned
  BY PoolAssumption DEF TypeOK, PoolInv, ClosedIsGone, SessionHasToken
<1>2. ASSUME token' = token, slot' = slot,
             \A x \in Sessions : state'[x] # "closed" => state[x] # "closed"
      PROVE  Owned'
  BY <1>1, <1>2 DEF Unclosed
\* A session that owns its token is closed and its token freed.
<1>3. ASSUME NEW x \in Unclosed, CloseSession(x), FreeToken(x) PROVE Owned'
  BY <1>1, <1>3 DEF CloseSession, FreeToken, Unclosed
<1>4. ASSUME NEW t \in Threads,
             \/ EnterLookup(t) \/ PutIdle(t) \/ SwapIdle(t) \/ PopHealthy(t) \/ NothingIdle(t)
             \/ TokenTimeout(t) \/ KeepSession(t) \/ DrainDone(t) \/ StartAcquire(t)
             \/ LeaveFailed(t) \/ RunInterrupted(t) \/ SendCommand(t) \/ CommandDone(t)
             \/ EndBlock(t) \/ ForgetPools(t) \/ ConnectInterrupted(t)
      PROVE  Owned'
  BY <1>2, <1>4 DEF EnterLookup, PutIdle, SwapIdle, PopHealthy, NothingIdle, TokenTimeout,
       KeepSession, DrainDone, StartAcquire, LeaveFailed, RunInterrupted, SendCommand, CommandDone,
       EndBlock, ForgetPools, ConnectInterrupted, tokens, conns
<1>5. ASSUME NEW t \in Threads, Connected(t) PROVE Owned'
  <2>1. mine[t] \in Unclosed
    BY <1>1, <1>5 DEF Connected, Leased
  <2> QED BY <1>1, <1>2, <1>5, <2>1 DEF Connected, Unclosed, tokens
<1>6. ASSUME NEW t \in Threads, DiscardFails(t) PROVE Owned'
  <2>1. mine[t] \in Unclosed
    BY <1>1, <1>6 DEF DiscardFails, Leased
  <2> QED BY <1>1, <1>2, <1>6, <2>1 DEF DiscardFails, Unclosed, tokens
<1>7. ASSUME NEW t \in Threads, ConnectFails(t) \/ Discard(t) \/ RunFails(t) PROVE Owned'
  <2>1. mine[t] \in Unclosed
    BY <1>1, <1>7 DEF ConnectFails, Discard, RunFails, Leased
  <2> QED BY <1>3, <1>7, <2>1 DEF ConnectFails, Discard, RunFails
<1>8. ASSUME NEW t \in Threads, PopBroken(t) PROVE Owned'
  <2>1. idle[pool[t]] \subseteq Unclosed
    BY <1>1 DEF PoolInv, ClosedIsGone
  <2> QED BY <1>3, <1>8, <2>1 DEF PopBroken
<1>9. ASSUME NEW t \in Threads, DrainOne(t) PROVE Owned'
  <2>1. batch[t] \subseteq Unclosed
    BY DEF PoolInv, ClosedIsGone
  <2> QED BY <1>3, <1>9, <2>1 DEF DrainOne
<1>10. ASSUME NEW t \in Threads, DrainFails(t) PROVE Owned'
  <2>1. PICK x \in batch[t] : state' = [state EXCEPT ![x] = "broken"]
    BY <1>10 DEF DrainFails
  <2>2. tokens' = tokens /\ x \in Unclosed
    BY <1>10, <2>1 DEF DrainFails, PoolInv, ClosedIsGone
  <2> QED BY <1>1, <1>2, <2>1, <2>2 DEF Unclosed, tokens
<1>11. ASSUME NEW t \in Threads, TakeToken(t) PROVE Owned'
  <2>1. PICK s \in Slots, x \in Sessions :
           /\ token[s] = Free
           /\ token' = [token EXCEPT ![s] = x]
           /\ slot' = [slot EXCEPT ![x] = s]
           /\ state' = [state EXCEPT ![x] = "new"]
    BY <1>11 DEF TakeToken
  <2>2. ASSUME NEW y \in Unclosed', y # x PROVE token'[slot'[y]] = y
    <3>1. y \in Unclosed /\ slot'[y] = slot[y] /\ slot[y] \in Slots /\ token[slot[y]] = y
      BY <1>1, <2>1, <2>2 DEF Unclosed
    <3>2. slot[y] # s
      BY <1>1, <2>1, <3>1 DEF Unclosed
    <3> QED BY <1>1, <2>1, <3>1, <3>2
  <2>3. token'[slot'[x]] = x
    BY <1>1, <2>1
  <2> QED BY <2>2, <2>3
<1>12. ASSUME NEW t \in Threads, RunAgain(t) PROVE Owned'
  BY <1>12 DEF RunAgain
<1>13. ASSUME NEW x \in Sessions, Drop(x) \/ Collect(x) PROVE Owned'
  BY <1>1, <1>2, <1>13 DEF Drop, Collect, CloseSession, tokens
<1>14. ASSUME NEW s \in Slots, OtherTakes(s) \/ OtherFrees(s) PROVE Owned'
  <2>1. /\ token[s] \notin Sessions /\ slot' = slot /\ state' = state
        /\ \E o \in {Free, Other} : token' = [token EXCEPT ![s] = o]
    BY <1>1, <1>14 DEF OtherTakes, OtherFrees, conns
  <2> QED BY <1>1, <2>1 DEF Unclosed
<1>15. CASE UNCHANGED vars
  BY <1>2, <1>15 DEF vars
<1> QED
  BY <1>4, <1>5, <1>6, <1>7, <1>8, <1>9, <1>10, <1>11, <1>12, <1>13, <1>14, <1>15
     DEF Next, Locking, Running, Calling

\* Every session that is not closed owns its token file, whatever interrupts
\* and failed logouts do: no path frees a token twice or too early.
THEOREM TokensFollowSessions == Spec => []SessionHasToken
<1>1. Init => SessionHasToken
  BY DEF Init, SessionHasToken, Unclosed
<1> QED
  BY <1>1, TypeCorrect, ExclusiveUse, ClosedStaysGone, NextSessionHasToken, PTL DEF Spec, PoolInv

----------------------------------------------------------------------------
(* The limit. *)

\* Distinct sessions own distinct slots, of which there are MaxSessions.
LEMMA LiveWithinLimit ==
    ASSUME TypeOK, \A x \in Unclosed : token[slot[x]] = x
    PROVE  IsFiniteSet(Unclosed) /\ Cardinality(Unclosed) <= MaxSessions
<1> DEFINE owned == [x \in Unclosed |-> slot[x]]
<1>1. owned \in [Unclosed -> Slots]
  BY DEF TypeOK, Unclosed
<1>2. \A x, y \in Unclosed : owned[x] = owned[y] => x = y
  OBVIOUS
<1>3. IsFiniteSet(Slots) /\ Cardinality(Slots) = MaxSessions
  BY PoolAssumption, FS_Interval DEF Slots
<1> HIDE DEF owned
<1>4. owned \in Injection(Unclosed, Slots)
  BY <1>1, <1>2, Fun_IsInj
<1> QED BY <1>3, <1>4, FS_Injection

\* The device never sees more sessions of this pool than max_sessions, however
\* interrupts and failed logouts interleave with leases and close_all.
THEOREM LimitKept == Spec => []SessionsWithinLimit
<1>1. TypeOK /\ SessionHasToken => SessionsWithinLimit
  BY LiveWithinLimit DEF SessionHasToken, SessionsWithinLimit
<1> QED BY <1>1, TypeCorrect, TokensFollowSessions, PTL

----------------------------------------------------------------------------
(* The pool implements SessionLease. *)

\* Lessee as a relation: the CHOOSE has at most one candidate.
LesseeIsUnique ==
    \A x \in Sessions :
        /\ Lessee(x) \in Threads \cup {None}
        /\ \A t \in Threads : Lessee(x) = t <=> Leased(t) /\ mine[t] = x

LeaseInv ==
    /\ PoolInv
    /\ LesseeIsUnique
    /\ \A x \in Unclosed : token[slot[x]] = x
    /\ Cardinality(Unclosed) <= MaxSessions

LEMMA ExclusiveLessee ==
    ASSUME TypeOK, SessionExclusive
    PROVE  LesseeIsUnique
<1> USE DEF LesseeIsUnique
<1> TAKE x \in Sessions
<1>1. CASE \E t \in Threads : Leased(t) /\ mine[t] = x
  <2>1. PICK t \in Threads : Leased(t) /\ mine[t] = x
    BY <1>1
  <2>2. \A u \in Threads : Leased(u) /\ mine[u] = x => u = t
    BY <2>1, PoolAssumption DEF SessionExclusive
  <2>3. Lessee(x) = t
    BY <1>1, <2>1, <2>2 DEF Lessee
  <2> QED BY <2>1, <2>2, <2>3
<1>2. CASE \A t \in Threads : ~ (Leased(t) /\ mine[t] = x)
  BY <1>2, PoolAssumption DEF Lessee
<1> QED BY <1>1, <1>2

\* Steps that change no lease and close nothing are invisible.
KeepsLessees ==
    /\ Unclosed' = Unclosed
    /\ \A t \in Threads : (Leased(t)' <=> Leased(t)) /\ (Leased(t) => mine'[t] = mine[t])

LEMMA InvisibleSteps ==
    ASSUME "rerun" \notin Faults, PoolInv, Next
    PROVE  \/ KeepsLessees
           \/ \E t \in Threads :
                 \/ PutIdle(t) \/ PopHealthy(t) \/ PopBroken(t) \/ TakeToken(t)
                 \/ DrainOne(t) \/ ConnectFails(t) \/ ConnectInterrupted(t)
                 \/ Discard(t) \/ DiscardFails(t) \/ RunFails(t)
           \/ \E x \in Sessions : Collect(x)
<1> USE DEF KeepsLessees, Unclosed, Leased, Goto, Leave
<1>1. ASSUME NEW t \in Threads,
             \/ EnterLookup(t) \/ NothingIdle(t) \/ TokenTimeout(t) \/ KeepSession(t)
             \/ DrainDone(t) \/ StartAcquire(t) \/ LeaveFailed(t) \/ RunInterrupted(t)
             \/ SendCommand(t) \/ CommandDone(t) \/ EndBlock(t) \/ ForgetPools(t) \/ SwapIdle(t)
      PROVE  KeepsLessees
  <2>1. state' = state
    BY <1>1 DEF EnterLookup, NothingIdle, TokenTimeout, KeepSession, DrainDone, StartAcquire,
         LeaveFailed, RunInterrupted, SendCommand, CommandDone, EndBlock, ForgetPools, SwapIdle, conns
  <2>2. \A u \in Threads : (Leased(u)' <=> Leased(u)) /\ (Leased(u) => mine'[u] = mine[u])
    BY <1>1 DEF EnterLookup, NothingIdle, TokenTimeout, KeepSession, DrainDone, StartAcquire,
         LeaveFailed, RunInterrupted, SendCommand, CommandDone, EndBlock, ForgetPools, SwapIdle, PoolInv, TypeOK
  <2> QED BY <2>1, <2>2
<1>2. ASSUME NEW t \in Threads, Connected(t) PROVE KeepsLessees
  <2>1. mine[t] \in Unclosed
    BY <1>2 DEF Connected, PoolInv, ClosedIsGone
  <2> QED BY <1>2, <2>1 DEF Connected, PoolInv, TypeOK
<1>3. ASSUME NEW x \in Sessions, Drop(x) PROVE KeepsLessees
  BY <1>3 DEF Drop, PoolInv, TypeOK
<1>4. ASSUME NEW s \in Slots, OtherTakes(s) \/ OtherFrees(s) PROVE KeepsLessees
  BY <1>4 DEF OtherTakes, OtherFrees, conns
<1>5. ASSUME NEW t \in Threads PROVE ~ RunAgain(t)
  BY DEF RunAgain
<1>6. ASSUME NEW t \in Threads, DrainFails(t) PROVE KeepsLessees
  <2>1. PICK x \in batch[t] : state' = [state EXCEPT ![x] = "broken"]
    BY <1>6 DEF DrainFails
  <2>2. x \in Unclosed /\ \A u \in Threads : Leased(u) => mine'[u] = mine[u]
    BY <1>6, <2>1 DEF DrainFails, PoolInv, ClosedIsGone, TypeOK
  <2>3. \A u \in Threads : Leased(u)' <=> Leased(u)
    BY <1>6 DEF DrainFails, PoolInv, TypeOK
  <2> QED BY <2>1, <2>2, <2>3 DEF PoolInv, TypeOK
<1> QED BY <1>1, <1>2, <1>3, <1>4, <1>5, <1>6 DEF Next, Locking, Running, Calling

LEMMA StepRefines ==
    ASSUME "rerun" \notin Faults, LeaseInv, LeaseInv', [Next]_vars
    PROVE  [Lease!Next]_(Lease!leaseVars)
<1> DEFINE L == [x \in Sessions |-> Lessee(x)]
<1>1. /\ TypeOK /\ SessionExclusive /\ ClosedIsGone
      /\ mine \in [Threads -> Sessions \cup {None}]
      /\ pc \in [Threads -> Labels]
      /\ state \in [Sessions -> {"new", "open", "broken", "closed"}]
      /\ \A t \in Threads : Leased(t) \/ pc[t] = "failed" <=> mine[t] # None
      /\ None \notin Sessions /\ None \notin Threads
      /\ \A x \in Unclosed : token[slot[x]] = x
  BY PoolAssumption DEF LeaseInv, PoolInv, TypeOK
<1>2. \A x \in Sessions :
         /\ Lessee(x) \in Threads \cup {None}
         /\ \A t \in Threads : Lessee(x) = t <=> Leased(t) /\ mine[t] = x
  BY DEF LeaseInv, LesseeIsUnique
<1>3. \A x \in Sessions :
         /\ Lessee(x)' \in Threads \cup {None}
         /\ \A t \in Threads : Lessee(x)' = t <=> Leased(t)' /\ mine'[t] = x
  BY DEF LeaseInv, LesseeIsUnique
<1> HIDE DEF Lessee
\* A thread that holds nothing leases nothing.
<1>4. ASSUME NEW t \in Threads, ~ Leased(t) PROVE \A x \in Sessions : L[x] # t
  BY <1>2, <1>4
<1>5. CASE KeepsLessees
  <2>1. \A x \in Sessions : Lessee(x)' = Lessee(x)
    BY <1>1, <1>2, <1>3, <1>5 DEF KeepsLessees
  <2>2. L' = L /\ Unclosed' = Unclosed
    BY <1>5, <2>1 DEF KeepsLessees
  <2> QED BY <2>2 DEF Lease!leaseVars
\* A step that ends a lease of thread t and no other, and starts none.
<1>6. ASSUME NEW t \in Threads, Leased(t), ~ Leased(t)',
             \A u \in Threads \ {t} : pc'[u] = pc[u] /\ mine'[u] = mine[u]
      PROVE  L' = [L EXCEPT ![mine[t]] = None] /\ mine[t] \in Sessions /\ L[mine[t]] = t
  <2>1. mine[t] \in Sessions /\ Lessee(mine[t]) = t
    BY <1>1, <1>2, <1>6
  <2>2. \A u \in Threads \ {t} : Leased(u)' <=> Leased(u)
    BY <1>6 DEF Leased
  <2>3. ASSUME NEW x \in Sessions PROVE Lessee(x)' = IF x = mine[t] THEN None ELSE Lessee(x)
    <3>1. CASE x = mine[t]
      <4>1. \A u \in Threads : ~ (Leased(u)' /\ mine'[u] = x)
        BY <1>1, <1>6, <2>2, <3>1 DEF SessionExclusive
      <4> QED BY <1>3, <3>1, <4>1
    <3>2. CASE x # mine[t]
      <4>1. \A u \in Threads : Leased(u)' /\ mine'[u] = x <=> Leased(u) /\ mine[u] = x
        BY <1>6, <2>2, <3>2
      <4> QED BY <1>2, <1>3, <1>1, <3>2, <4>1
    <3> QED BY <3>1, <3>2
  <2> QED BY <2>1, <2>3
\* A step that starts a lease of thread t on x and changes no other.
<1>7. ASSUME NEW t \in Threads, NEW x \in Sessions, ~ Leased(t), Leased(t)', mine'[t] = x,
             \A u \in Threads \ {t} : pc'[u] = pc[u] /\ mine'[u] = mine[u],
             \A u \in Threads : mine[u] # x
      PROVE  L' = [L EXCEPT ![x] = t] /\ L[x] = None
  <2>1. Lessee(x) = None /\ Lessee(x)' = t
    BY <1>2, <1>3, <1>7
  <2>2. \A u \in Threads \ {t} : Leased(u)' <=> Leased(u)
    BY <1>7 DEF Leased
  <2>3. ASSUME NEW y \in Sessions, y # x PROVE Lessee(y)' = Lessee(y)
    <3>1. \A u \in Threads : Leased(u)' /\ mine'[u] = y <=> Leased(u) /\ mine[u] = y
      BY <1>7, <2>2, <2>3
    <3> QED BY <1>1, <1>2, <1>3, <3>1
  <2> QED BY <2>1, <2>3
\* A step that closes a session nobody leases.
<1>8. ASSUME NEW x \in Unclosed, mine' = mine,
             \A u \in Threads : Leased(u)' <=> Leased(u),
             state' = [state EXCEPT ![x] = "closed"], \A u \in Threads : mine[u] # x
      PROVE  Lease!Next
  <2>1. \A y \in Sessions : Lessee(y)' = Lessee(y)
    BY <1>1, <1>2, <1>3, <1>8
  <2>2. x \in Sessions /\ Lessee(x) = None
    BY <1>2, <1>8 DEF Unclosed
  <2>3. L' = [L EXCEPT ![x] = None]
    BY <2>1, <2>2
  <2>4. Unclosed' = Unclosed \ {x}
    BY <1>1, <1>8 DEF Unclosed
  <2>5. Lease!Close(x)
    BY <1>8, <2>3, <2>4 DEF Lease!Close
  <2> QED BY <2>2, <2>5 DEF Lease!Next
<1>9. ASSUME NEW t \in Threads, PutIdle(t) \/ ConnectInterrupted(t) \/ DiscardFails(t)
      PROVE  Lease!Next
  <2>1. Leased(t) /\ ~ Leased(t)'
    BY <1>1, <1>9 DEF PutIdle, ConnectInterrupted, DiscardFails, Leave, Goto, Leased
  <2>2. \A u \in Threads \ {t} : pc'[u] = pc[u] /\ mine'[u] = mine[u]
    BY <1>1, <1>9 DEF PutIdle, ConnectInterrupted, DiscardFails, Leave, Goto
  <2>3. L' = [L EXCEPT ![mine[t]] = None] /\ mine[t] \in Sessions /\ L[mine[t]] = t
    BY <1>6, <2>1, <2>2
  <2>4. Unclosed' = Unclosed
    <3>1. mine[t] \in Unclosed
      BY <1>1, <2>1 DEF ClosedIsGone
    <3> QED
      BY <1>1, <1>9, <3>1 DEF PutIdle, ConnectInterrupted, DiscardFails, Unclosed, conns
  <2>5. Lease!GiveBack(mine[t])
    BY <1>1, <2>3, <2>4 DEF Lease!GiveBack
  <2> QED BY <2>3, <2>5 DEF Lease!Next
<1>10. ASSUME NEW t \in Threads, ConnectFails(t) \/ Discard(t) \/ RunFails(t)
       PROVE  Lease!Next
  <2>1. Leased(t) /\ ~ Leased(t)' /\ state' = [state EXCEPT ![mine[t]] = "closed"]
    BY <1>1, <1>10 DEF ConnectFails, Discard, RunFails, Leave,
         Goto, Leased, CloseSession
  <2>2. \A u \in Threads \ {t} : pc'[u] = pc[u] /\ mine'[u] = mine[u]
    BY <1>1, <1>10 DEF ConnectFails, Discard, RunFails, Leave,
         Goto
  <2>3. L' = [L EXCEPT ![mine[t]] = None] /\ mine[t] \in Sessions
    BY <1>6, <2>1, <2>2
  <2>4. mine[t] \in Unclosed /\ Unclosed' = Unclosed \ {mine[t]}
    BY <1>1, <2>1, <2>3 DEF ClosedIsGone, Unclosed
  <2>5. Lease!Close(mine[t])
    BY <2>3, <2>4 DEF Lease!Close
  <2> QED BY <2>3, <2>5 DEF Lease!Next
<1>11. ASSUME NEW t \in Threads, PopHealthy(t) PROVE Lease!Next
  <2>1. PICK x \in idle[pool[t]] : mine' = [mine EXCEPT ![t] = x]
    BY <1>11 DEF PopHealthy
  <2>2. ~ Leased(t) /\ Leased(t)' /\ state' = state
    BY <1>1, <1>11 DEF PopHealthy, Goto, Leased, conns
  <2>3. \A u \in Threads \ {t} : pc'[u] = pc[u] /\ mine'[u] = mine[u]
    BY <1>1, <1>11, <2>1 DEF PopHealthy, Goto
  <2>4. x \in Sessions /\ x \in Unclosed /\ \A u \in Threads : mine[u] # x
    BY <1>1, <2>1 DEF TypeOK, ClosedIsGone, SessionExclusive
  <2>5. L' = [L EXCEPT ![x] = t] /\ L[x] = None
    BY <1>1, <1>7, <2>1, <2>2, <2>3, <2>4
  <2>6. Lease!ReuseSession(t, x)
    BY <1>4, <2>2, <2>4, <2>5 DEF Lease!ReuseSession, Lease!HasNoLease, Unclosed
  <2> QED BY <2>4, <2>6 DEF Lease!Next
<1>12. ASSUME NEW t \in Threads, TakeToken(t) PROVE Lease!Next
  <2>1. PICK s \in Slots, x \in Sessions :
           /\ token[s] = Free /\ Unused(x)
           /\ mine' = [mine EXCEPT ![t] = x] /\ state' = [state EXCEPT ![x] = "new"]
    BY <1>12 DEF TakeToken
  <2>2. ~ Leased(t) /\ Leased(t)'
    BY <1>1, <1>12 DEF TakeToken, Goto, Leased
  <2>3. \A u \in Threads \ {t} : pc'[u] = pc[u] /\ mine'[u] = mine[u]
    BY <1>1, <1>12, <2>1 DEF TakeToken, Goto
  <2>4. L' = [L EXCEPT ![x] = t] /\ L[x] = None
    BY <1>1, <1>7, <2>1, <2>2, <2>3 DEF Unused, Unreferenced
  <2>5. x \notin Unclosed
    BY <2>1 DEF Unused, Unclosed
  <2>6. Unclosed' = Unclosed \cup {x}
    BY <1>1, <2>1 DEF Unclosed
  <2>7. Cardinality(Unclosed) < MaxSessions
    <3>1. IsFiniteSet(Unclosed) /\ Cardinality(Unclosed) <= MaxSessions
      BY <1>1, LiveWithinLimit
    <3>2. Cardinality(Unclosed \cup {x}) = Cardinality(Unclosed) + 1
      BY <2>5, <3>1, FS_AddElement
    <3>3. Cardinality(Unclosed \cup {x}) <= MaxSessions
      BY <2>6 DEF LeaseInv
    <3>4. Cardinality(Unclosed) \in Nat
      BY <3>1, FS_CardinalityType
    <3> QED BY <3>2, <3>3, <3>4, PoolAssumption
  <2>8. Lease!Open(t, x)
    <3>1. \A y \in Sessions : L[y] # t
      BY <1>4, <2>2
    <3>2. Lease!HasNoLease(t)
      BY <3>1 DEF Lease!HasNoLease
    <3>3. Lease!Cardinality(Unclosed) = Cardinality(Unclosed)
      BY DEF Cardinality, Lease!Cardinality
    <3> QED BY <2>4, <2>5, <2>6, <2>7, <3>2, <3>3 DEF Lease!Open
  <2> QED BY <2>8 DEF Lease!Next
<1>13. ASSUME NEW t \in Threads, PopBroken(t) PROVE Lease!Next
  <2>1. PICK x \in idle[pool[t]] : state' = [state EXCEPT ![x] = "closed"]
    BY <1>13 DEF PopBroken, CloseSession
  <2>2. pc' = pc /\ mine' = mine /\ x \in Unclosed /\ \A u \in Threads : mine[u] # x
    BY <1>1, <1>13, <2>1 DEF PopBroken, TypeOK, ClosedIsGone, SessionExclusive
  <2> QED BY <1>8, <2>1, <2>2 DEF Leased
<1>14. ASSUME NEW t \in Threads, DrainOne(t) PROVE Lease!Next
  <2>1. PICK x \in batch[t] : state' = [state EXCEPT ![x] = "closed"]
    BY <1>14 DEF DrainOne, CloseSession
  <2>2. pc' = pc /\ mine' = mine /\ x \in Unclosed /\ \A u \in Threads : mine[u] # x
    BY <1>1, <1>14, <2>1 DEF DrainOne, ClosedIsGone, SessionExclusive
  <2> QED BY <1>8, <2>1, <2>2 DEF Leased
<1>15. ASSUME NEW x \in Sessions, Collect(x) PROVE Lease!Next
  BY <1>1, <1>8, <1>15 DEF Collect, CloseSession, Unreferenced, Unclosed, Leased
<1>16. CASE UNCHANGED vars
  BY <1>5, <1>16 DEF vars, KeepsLessees, Unclosed, Leased
<1>17. CASE Next
  <2>1. PoolInv
    BY DEF LeaseInv
  <2> QED
    BY <1>5, <1>9, <1>10, <1>11, <1>12, <1>13, <1>14, <1>15, <1>17, <2>1, InvisibleSteps
<1> QED BY <1>16, <1>17

\* The pool implements the lease of SessionLease: behind its locks, idle lists,
\* retired pools, interrupts and failed logouts, callers see sessions that are
\* opened within the limit, used by one thread at a time and closed for good,
\* as long as nobody runs commands on a session after a failed run.
THEOREM PoolImplementsLease ==
    ASSUME "rerun" \notin Faults
    PROVE  Spec => ImplementsLease
<1>1. Init => Lease!Init
  <2>1. Init => \A x \in Sessions : Lessee(x) = None
    BY DEF Init, Lessee, Leased
  <2>2. Init => Unclosed = {}
    BY DEF Init, Unclosed
  <2> QED BY <2>1, <2>2 DEF Lease!Init
<1>2. TypeOK /\ SessionExclusive /\ ClosedIsGone /\ SessionHasToken => LeaseInv
  BY ExclusiveLessee, LiveWithinLimit DEF LeaseInv, PoolInv, SessionHasToken
<1>3. LeaseInv /\ LeaseInv' /\ [Next]_vars => [Lease!Next]_(Lease!leaseVars)
  BY StepRefines
<1> QED
  BY <1>1, <1>2, <1>3, TypeCorrect, ExclusiveUse, ClosedStaysGone, TokensFollowSessions, PTL
     DEF Spec, ImplementsLease, Lease!Spec

----------------------------------------------------------------------------
(* Stranded tokens and dirty sessions. *)

\* A session frees the slot it took, so that one token file is one session's.
TokenSlot == \A s \in Slots : token[s] \in Sessions => slot[token[s]] = s

AllKnown == \A s \in Slots : token[s] \in Sessions => token[s] \in Known

LEMMA NextTokenSlot == TypeOK /\ TokenSlot /\ [Next]_vars => TokenSlot'
<1> SUFFICES ASSUME TypeOK, TokenSlot, [Next]_vars PROVE TokenSlot'
  OBVIOUS
<1>1. /\ token \in [Slots -> Sessions \cup {Free, Other}]
      /\ slot \in [Sessions -> Slots]
      /\ Free \notin Sessions /\ Other \notin Sessions
  BY PoolAssumption DEF TypeOK
<1>2. ASSUME slot' = slot, \A s \in Slots : token'[s] = token[s] \/ token'[s] \notin Sessions
      PROVE  TokenSlot'
  BY <1>1, <1>2 DEF TokenSlot
<1>3. ASSUME NEW t \in Threads, TakeToken(t) PROVE TokenSlot'
  <2>1. PICK s \in Slots, x \in Sessions :
           /\ Unused(x)
           /\ token' = [token EXCEPT ![s] = x] /\ slot' = [slot EXCEPT ![x] = s]
    BY <1>3 DEF TakeToken
  <2> QED BY <1>1, <2>1 DEF TokenSlot, Unused
<1>4. ASSUME NEW t \in Threads,
             \/ PopBroken(t) \/ ConnectFails(t) \/ RunFails(t) \/ RunAgain(t) \/ Discard(t)
             \/ DrainOne(t)
      PROVE  TokenSlot'
  <2>1. slot' = slot /\ \E x : FreeToken(x)
    BY <1>4 DEF PopBroken, ConnectFails, RunFails, RunAgain, Discard, DrainOne, CloseSession
  <2> QED BY <1>1, <1>2, <2>1 DEF FreeToken
<1>5. ASSUME NEW s \in Slots, OtherTakes(s) \/ OtherFrees(s) PROVE TokenSlot'
  BY <1>1, <1>2, <1>5 DEF OtherTakes, OtherFrees
<1>6. ASSUME tokens' = tokens PROVE TokenSlot'
  BY <1>2, <1>6 DEF tokens
<1>7. ASSUME NEW t \in Threads,
             \/ EnterLookup(t) \/ PutIdle(t) \/ SwapIdle(t) \/ PopHealthy(t) \/ NothingIdle(t)
             \/ TokenTimeout(t) \/ Connected(t) \/ ConnectInterrupted(t) \/ KeepSession(t)
             \/ DiscardFails(t) \/ DrainFails(t) \/ DrainDone(t) \/ StartAcquire(t)
             \/ SendCommand(t) \/ CommandDone(t) \/ LeaveFailed(t) \/ RunInterrupted(t)
             \/ EndBlock(t) \/ ForgetPools(t)
      PROVE  tokens' = tokens
  BY <1>7 DEF EnterLookup, PutIdle, SwapIdle, PopHealthy, NothingIdle, TokenTimeout, Connected,
       ConnectInterrupted, KeepSession, DiscardFails, DrainFails, DrainDone, StartAcquire,
       SendCommand, CommandDone, LeaveFailed, RunInterrupted, EndBlock, ForgetPools, CloseSession,
       tokens
<1>8. ASSUME NEW x \in Sessions, Drop(x) \/ Collect(x) PROVE tokens' = tokens
  BY <1>8 DEF Drop, Collect, CloseSession, tokens
<1>9. CASE UNCHANGED vars
  BY <1>6, <1>9 DEF vars, tokens
<1> QED
  BY <1>3, <1>4, <1>5, <1>6, <1>7, <1>8, <1>9 DEF Next, Locking, Running, Calling

LEMMA NextAllKnown ==
    ASSUME Faults \subseteq {"rerun"}, TypeOK, TokenSlot, AllKnown, [Next]_vars
    PROVE  AllKnown'
<1>1. /\ token \in [Slots -> Sessions \cup {Free, Other}]
      /\ slot \in [Sessions -> Slots]
      /\ mine \in [Threads -> Sessions \cup {None}]
      /\ idle \in [Pools -> SUBSET Sessions]
      /\ batch \in [Threads -> SUBSET Sessions]
      /\ pool \in [Threads -> Pools]
      /\ pc \in [Threads -> Labels]
      /\ None \notin Sessions /\ Free \notin Sessions /\ Other \notin Sessions
  BY PoolAssumption DEF TypeOK
<1>2. ASSUME \A s \in Slots : token'[s] = token[s] \/ token'[s] \notin Sessions,
             Known \subseteq Known'
      PROVE  AllKnown'
  BY <1>1, <1>2 DEF AllKnown
\* The session that is forgotten frees its token.
<1>3. ASSUME NEW x \in Sessions, FreeToken(x), Known \ {x} \subseteq Known' PROVE AllKnown'
  BY <1>1, <1>3 DEF AllKnown, TokenSlot, FreeToken
<1>4. ASSUME NEW t \in Threads,
             \/ EnterLookup(t) \/ NothingIdle(t) \/ TokenTimeout(t) \/ Connected(t)
             \/ KeepSession(t) \/ DrainDone(t) \/ StartAcquire(t) \/ SendCommand(t)
             \/ CommandDone(t) \/ RunAgain(t) \/ LeaveFailed(t) \/ EndBlock(t) \/ ForgetPools(t)
      PROVE  AllKnown'
  <2>1. idle' = idle /\ batch' = batch
    BY <1>4 DEF EnterLookup, NothingIdle, TokenTimeout, Connected, KeepSession, DrainDone,
         StartAcquire, SendCommand, CommandDone, RunAgain, LeaveFailed, EndBlock, ForgetPools,
         shared
  <2>2. \A u \in Threads : Leased(u) => Leased(u)' /\ mine'[u] = mine[u]
    BY <1>1, <1>4 DEF EnterLookup, NothingIdle, TokenTimeout, Connected, KeepSession, DrainDone,
         StartAcquire, SendCommand, CommandDone, RunAgain, LeaveFailed, EndBlock, ForgetPools,
         Leave, Goto, Leased
  <2>3. \A s \in Slots : token'[s] = token[s] \/ token'[s] \notin Sessions
    BY <1>1, <1>4 DEF EnterLookup, NothingIdle, TokenTimeout, Connected, KeepSession, DrainDone,
         StartAcquire, SendCommand, CommandDone, RunAgain, LeaveFailed, EndBlock, ForgetPools,
         tokens, FreeToken
  <2> QED BY <1>2, <2>1, <2>2, <2>3 DEF Known
<1>5. ASSUME NEW t \in Threads, ConnectFails(t) \/ RunFails(t) \/ Discard(t) PROVE AllKnown'
  <2>1. /\ idle' = idle /\ batch' = batch /\ FreeToken(mine[t]) /\ mine[t] \in Sessions
        /\ \A u \in Threads \ {t} : mine'[u] = mine[u] /\ pc'[u] = pc[u]
    BY <1>1, <1>5 DEF ConnectFails, RunFails, Discard, Leave, Goto, shared, TypeOK, Leased
  <2>2. Known \ {mine[t]} \subseteq Known'
    BY <2>1 DEF Known, Leased
  <2> QED BY <1>3, <2>1, <2>2
<1>6. ASSUME NEW t \in Threads, PopBroken(t) PROVE AllKnown'
  <2>1. PICK x \in idle[pool[t]] : FreeToken(x) /\ idle' = [idle EXCEPT ![pool[t]] = @ \ {x}]
    BY <1>6 DEF PopBroken
  <2>2. pc' = pc /\ mine' = mine /\ batch' = batch
    BY <1>6 DEF PopBroken
  <2>3. Known \ {x} \subseteq Known'
    BY <1>1, <2>1, <2>2 DEF Known, Leased
  <2> QED BY <1>1, <1>3, <2>1, <2>3
<1>7. ASSUME NEW t \in Threads, DrainOne(t) PROVE AllKnown'
  <2>1. PICK x \in batch[t] : FreeToken(x) /\ batch' = [batch EXCEPT ![t] = @ \ {x}]
    BY <1>7 DEF DrainOne
  <2>2. pc' = pc /\ mine' = mine /\ idle' = idle
    BY <1>7 DEF DrainOne, shared
  <2>3. Known \ {x} \subseteq Known'
    BY <1>1, <2>1, <2>2 DEF Known, Leased
  <2> QED BY <1>1, <1>3, <2>1, <2>3
<1>8. ASSUME NEW t \in Threads, PutIdle(t) PROVE AllKnown'
  <2>1. /\ idle' = [idle EXCEPT ![pool[t]] = @ \cup {mine[t]}]
        /\ batch' = batch /\ token' = token
        /\ \A u \in Threads \ {t} : mine'[u] = mine[u] /\ pc'[u] = pc[u]
    BY <1>1, <1>8 DEF PutIdle, Leave, Goto, tokens
  <2>2. Known \subseteq Known'
    BY <1>1, <2>1 DEF Known, Leased
  <2> QED BY <1>2, <2>1, <2>2
<1>9. ASSUME NEW t \in Threads, SwapIdle(t) PROVE AllKnown'
  <2>1. /\ idle' = [idle EXCEPT ![pool[t]] = {}]
        /\ batch' = [batch EXCEPT ![t] = idle[pool[t]]]
        /\ pc[t] = "swap" /\ pc' = [pc EXCEPT ![t] = "drain"]
        /\ mine' = mine /\ token' = token
    BY <1>9 DEF SwapIdle, Goto, tokens
  <2>2. batch[t] = {}
    BY <2>1 DEF TypeOK
  <2>3. Known \subseteq Known'
    BY <1>1, <2>1, <2>2 DEF Known, Leased
  <2> QED BY <1>2, <2>1, <2>3
<1>10. ASSUME NEW t \in Threads, PopHealthy(t) PROVE AllKnown'
  <2>1. PICK x \in idle[pool[t]] :
           /\ idle' = [idle EXCEPT ![pool[t]] = @ \ {x}]
           /\ mine' = [mine EXCEPT ![t] = x]
    BY <1>10 DEF PopHealthy
  <2>2. /\ pc[t] = "lookup" /\ pc' = [pc EXCEPT ![t] = "using"]
        /\ batch' = batch /\ token' = token
    BY <1>10 DEF PopHealthy, Goto, tokens
  <2>3. Known \subseteq Known'
    BY <1>1, <2>1, <2>2 DEF Known, Leased
  <2> QED BY <1>2, <2>2, <2>3
<1>11. ASSUME NEW t \in Threads, TakeToken(t) PROVE AllKnown'
  <2>1. PICK s \in Slots, x \in Sessions :
           token' = [token EXCEPT ![s] = x] /\ mine' = [mine EXCEPT ![t] = x]
    BY <1>11 DEF TakeToken
  <2>2. /\ pc[t] = "token" /\ pc' = [pc EXCEPT ![t] = "connect"]
        /\ batch' = batch /\ idle' = idle
    BY <1>11 DEF TakeToken, Goto, shared
  <2>3. Known \cup {x} \subseteq Known'
    BY <1>1, <2>1, <2>2 DEF Known, Leased
  <2> QED BY <1>1, <2>1, <2>3 DEF AllKnown
<1>12. ASSUME NEW t \in Threads,
              ConnectInterrupted(t) \/ RunInterrupted(t) \/ DiscardFails(t) \/ DrainFails(t)
       PROVE  FALSE
  BY <1>12 DEF ConnectInterrupted, RunInterrupted, DiscardFails, DrainFails
<1>13. ASSUME NEW x \in Sessions, Drop(x) \/ Collect(x) PROVE AllKnown'
  BY <1>2, <1>13 DEF Drop, Collect, Known, Leased, tokens, shared
<1>14. ASSUME NEW s \in Slots, OtherTakes(s) \/ OtherFrees(s) PROVE AllKnown'
  BY <1>1, <1>2, <1>14 DEF OtherTakes, OtherFrees, Known, Leased, shared
<1>15. CASE UNCHANGED vars
  BY <1>2, <1>15 DEF vars, Known, Leased
<1> QED
  BY <1>4, <1>5, <1>6, <1>7, <1>8, <1>9, <1>10, <1>11, <1>12, <1>13, <1>14, <1>15
     DEF Next, Locking, Running, Calling

\* A token of this process belongs to a session the pool knows of, leased, idle
\* or about to be closed, unless an interrupt or a failed logout stranded it.
THEOREM NoCapacityLost == Spec => []NoStrandedToken
<1>1. CASE Faults \subseteq {"rerun"}
  <2>1. Init => TokenSlot /\ AllKnown
    BY PoolAssumption DEF Init, TokenSlot, AllKnown
  <2>2. TypeOK /\ TokenSlot /\ AllKnown /\ [Next]_vars => TokenSlot' /\ AllKnown'
    BY <1>1, NextTokenSlot, NextAllKnown
  <2>3. AllKnown => NoStrandedToken
    BY DEF AllKnown, NoStrandedToken
  <2> QED BY <2>1, <2>2, <2>3, TypeCorrect, PTL DEF Spec
<1>2. CASE ~ (Faults \subseteq {"rerun"})
  <2>1. NoStrandedToken
    BY <1>2 DEF NoStrandedToken
  <2> QED BY <2>1, PTL
<1> QED BY <1>1, <1>2

\* Unread output belongs to a session in the middle of a command.
PendingInCommand ==
    \A x \in pending : \E t \in Threads : pc[t] = "command" /\ mine[t] = x

LEMMA NextPendingInCommand ==
    ASSUME "interrupt" \notin Faults, TypeOK, SessionExclusive, PendingInCommand, [Next]_vars
    PROVE  PendingInCommand'
<1>1. /\ mine \in [Threads -> Sessions \cup {None}]
      /\ pc \in [Threads -> Labels]
      /\ idle \in [Pools -> SUBSET Sessions]
      /\ pool \in [Threads -> Pools]
  BY DEF TypeOK
<1>2. ASSUME pending' \subseteq pending,
             \A u \in Threads : pc[u] = "command" => pc'[u] = "command" /\ mine'[u] = mine[u]
      PROVE  PendingInCommand'
  BY <1>2 DEF PendingInCommand
<1>3. ASSUME NEW t \in Threads,
             \/ EnterLookup(t) \/ PutIdle(t) \/ SwapIdle(t) \/ PopHealthy(t) \/ NothingIdle(t)
             \/ TakeToken(t) \/ TokenTimeout(t) \/ Connected(t) \/ KeepSession(t)
             \/ DrainDone(t) \/ StartAcquire(t) \/ RunAgain(t) \/ LeaveFailed(t)
             \/ EndBlock(t) \/ ForgetPools(t)
      PROVE  PendingInCommand'
  <2>1. pending' = pending
    BY <1>3 DEF EnterLookup, PutIdle, SwapIdle, PopHealthy, NothingIdle, TakeToken, TokenTimeout,
         Connected, KeepSession, DrainDone, StartAcquire, RunAgain, LeaveFailed, EndBlock,
         ForgetPools, conns
  <2>2. \A u \in Threads : pc[u] = "command" => pc'[u] = "command" /\ mine'[u] = mine[u]
    BY <1>1, <1>3 DEF EnterLookup, PutIdle, SwapIdle, PopHealthy, NothingIdle, TakeToken,
         TokenTimeout, Connected, KeepSession, DrainDone, StartAcquire, RunAgain, LeaveFailed,
         EndBlock, ForgetPools, Leave, Goto
  <2> QED BY <1>2, <2>1, <2>2
<1>4. ASSUME NEW t \in Threads,
             \/ PopBroken(t) \/ ConnectFails(t) \/ ConnectInterrupted(t) \/ Discard(t)
             \/ DiscardFails(t) \/ DrainOne(t) \/ DrainFails(t)
      PROVE  PendingInCommand'
  <2>1. pending' \subseteq pending
    BY <1>4 DEF PopBroken, ConnectFails, ConnectInterrupted, Discard, DiscardFails, DrainOne,
         DrainFails, CloseSession, conns
  <2>2. \A u \in Threads : pc[u] = "command" => pc'[u] = "command" /\ mine'[u] = mine[u]
    BY <1>1, <1>4 DEF PopBroken, ConnectFails, ConnectInterrupted, Discard, DiscardFails, DrainOne,
         DrainFails, Leave, Goto
  <2> QED BY <1>2, <2>1, <2>2
<1>5. ASSUME NEW t \in Threads, SendCommand(t) PROVE PendingInCommand'
  <2>1. /\ pending' = pending \cup {mine[t]} /\ mine' = mine
        /\ pc[t] = "using" /\ pc' = [pc EXCEPT ![t] = "command"]
    BY <1>5 DEF SendCommand, Goto
  <2> QED BY <1>1, <2>1 DEF PendingInCommand
<1>6. ASSUME NEW t \in Threads, CommandDone(t) \/ RunFails(t) PROVE PendingInCommand'
  <2>1. pending' = pending \ {mine[t]} /\ mine' = mine
    BY <1>6 DEF CommandDone, RunFails, CloseSession
  <2>2. \A u \in Threads \ {t} : pc'[u] = pc[u]
    BY <1>1, <1>6 DEF CommandDone, RunFails, Goto
  <2> QED BY <2>1, <2>2 DEF PendingInCommand
<1>7. ASSUME NEW t \in Threads, RunInterrupted(t) PROVE FALSE
  BY <1>7 DEF RunInterrupted
<1>8. ASSUME NEW x \in Sessions, Drop(x) \/ Collect(x) PROVE PendingInCommand'
  BY <1>2, <1>8 DEF Drop, Collect, CloseSession
<1>9. ASSUME NEW s \in Slots, OtherTakes(s) \/ OtherFrees(s) PROVE PendingInCommand'
  BY <1>2, <1>9 DEF OtherTakes, OtherFrees, conns
<1>10. CASE UNCHANGED vars
  BY <1>2, <1>10 DEF vars
<1> QED
  BY <1>3, <1>4, <1>5, <1>6, <1>7, <1>8, <1>9, <1>10 DEF Next, Locking, Running, Calling

\* The next lease of an idle session never reads output meant for an earlier
\* one, unless an interrupt struck in the middle of a command.
THEOREM IdleSessionsAreClean == Spec => []IdleIsClean
<1>1. CASE "interrupt" \notin Faults
  <2>1. Init => PendingInCommand
    BY DEF Init, PendingInCommand
  <2>2. TypeOK /\ SessionExclusive /\ PendingInCommand /\ [Next]_vars => PendingInCommand'
    BY <1>1, NextPendingInCommand
  <2>3. SessionExclusive /\ PendingInCommand => IdleIsClean
    BY DEF SessionExclusive, PendingInCommand, IdleIsClean
  <2> QED BY <2>1, <2>2, <2>3, TypeCorrect, ExclusiveUse, PTL DEF Spec
<1>2. CASE "interrupt" \in Faults
  <2>1. IdleIsClean
    BY <1>2 DEF IdleIsClean
  <2> QED BY <2>1, PTL
<1> QED BY <1>1, <1>2

===========================================================================
