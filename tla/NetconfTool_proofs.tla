------------------------- MODULE NetconfTool_proofs -------------------------
(***************************************************************************)
(* Machine-checked proofs about NetconfTool: the tool takes the steps of   *)
(* NetconfConfirmedCommit, so everything proved there holds of it, and     *)
(* what it prints and reports is true, for any invocations, any device and *)
(* any faults.                                                             *)
(***************************************************************************)
EXTENDS NetconfTool, NetconfConfirmedCommit_proofs

----------------------------------------------------------------------------
(* The tool makes calls of the library. *)

LEMMA ToolStepIsStep == [ToolNext]_toolVars => [Next]_vars
<1> SUFFICES ASSUME [ToolNext]_toolVars PROVE [Next]_vars
  OBVIOUS
<1>1. ASSUME NEW c \in Tool, ToolStep(c) PROVE UNCHANGED vars
  BY <1>1 DEF ToolStep, Arguments, Plan, Authorize, Credentials, Read, Conclude, Report,
              ReportFails, Refuses, Stops, Exits, Advances, Finds
<1>2. ASSUME NEW c \in Calls, CallConnects(c) \/ CallGoesOn(c) \/ CallCrashes(c) \/ Library(c)
      PROVE  Next
  BY <1>2 DEF CallConnects, CallGoesOn, CallCrashes, Library, Next, Environment
<1>3. CASE Time
  BY <1>3 DEF Time, Next
<1>4. CASE UNCHANGED toolVars
  BY <1>4 DEF toolVars
<1> QED
  BY <1>1, <1>2, <1>3, <1>4 DEF ToolNext

\* An invocation does nothing to the device that a program using the library
\* could not do (main, _execute_live_edit_config).
THEOREM ToolUsesLibrary == ToolSpec => Spec
<1>1. ToolInit => Init
  BY DEF ToolInit
<1> QED
  BY <1>1, ToolStepIsStep, PTL DEF ToolSpec, Spec

----------------------------------------------------------------------------
(* What a call has done at each place, on any device. *)

\* A call that is idle has touched nothing, one past its commit has tried its
\* edit, and one that is over without an exception has done all it was asked.
CallInv ==
    /\ \A c \in Calls : pc[c] = "idle" =>
           c \notin candidate \cup sessions \cup tried \cup confirmed \cup finalize
                    \cup persist \cup raised
    /\ \A c \in Calls : pc[c] \in {"verify", "finalize"} => c \in tried
    /\ \A c \in Calls : pc[c] = "finalize" => c \in finalize
    /\ \A c \in Calls : c \notin raised =>
           /\ pc[c] # "discard"
           /\ pc[c] \in {"unlock", "close", "done"} =>
                  c \in tried /\ (c \in finalize => c \in confirmed)
    /\ confirmed \subseteq finalize \cup persist

LEMMA InitCallInv == Init => CallInv
  BY DEF Init, CallInv


LEMMA NextCallInv ==
  TypeOK /\ TrialInv /\ CallInv /\ [Next]_vars => CallInv'
<1> SUFFICES ASSUME TypeOK /\ TrialInv, CallInv, [Next]_vars PROVE CallInv'
  OBVIOUS
<1> USE NetconfAssumption, LabelFacts DEF TypeOK, TrialInv, Inside, Swallowed, CallInv
<1>1. ASSUME NEW c \in Calls, Lock(c) PROVE CallInv'
  BY <1>1 DEF Lock, Sends, Replied, Raise, Goto, device, trial, options, history
<1>2. ASSUME NEW c \in Calls, Edit(c) PROVE CallInv'
  BY <1>2 DEF Edit, Sends, Replied, Raise, Goto, device, trial, options, history
<1>3. ASSUME NEW c \in Calls, EditStops(c) PROVE CallInv'
  BY <1>3 DEF EditStops, Sends, Raise, Goto, device, trial, options, history
<1>4. ASSUME NEW c \in Calls, Validate(c) PROVE CallInv'
  BY <1>4 DEF Validate, Sends, Replied, Raise, Goto, device, trial, options, history
<1>5. ASSUME NEW c \in Calls, Commit(c) PROVE CallInv'
  BY <1>5 DEF Commit, Sends, MayCommit, Replied, Raise, Goto, device, trial, options, history
<1>6. ASSUME NEW c \in Calls, Verify(c) PROVE CallInv'
  BY <1>6 DEF Verify, Goto, device, trial, options, history
<1>7. ASSUME NEW c \in Calls, Finalize(c) PROVE CallInv'
  BY <1>7 DEF Finalize, Sends, MayCommit, NothingPending, Replied, Raise, Goto, device, trial, options, history
<1>8. ASSUME NEW c \in Calls, Discard(c) PROVE CallInv'
  BY <1>8 DEF Discard, Sends, Replied, Raise, Goto, device, trial, options, history
<1>9. ASSUME NEW c \in Calls, Unlock(c) PROVE CallInv'
  BY <1>9 DEF Unlock, Sends, Replied, Raise, Goto, device, trial, options, history
<1>10. ASSUME NEW c \in Calls, Close(c) PROVE CallInv'
  BY <1>10 DEF Close, EndSession, NothingPending, Reset, Goto, device, trial, options, history
<1>11. ASSUME NEW c \in Calls, RpcFails(c) PROVE CallInv'
  BY <1>11 DEF RpcFails, Raise, Goto, device, trial, options, history
<1>12. ASSUME NEW c \in Calls, CleanupInterrupted(c) PROVE CallInv'
  BY <1>12 DEF CleanupInterrupted, Goto, device, trial, options, history
<1>13. ASSUME NEW c \in Calls, CannotConnect(c) PROVE CallInv'
  BY <1>13 DEF CannotConnect, Goto, device, trial, options, history
<1>14. ASSUME NEW c \in Calls, Connect(c) PROVE CallInv'
  BY <1>14 DEF Connect, Goto, device, trial, options, history
<1>15. ASSUME NEW c \in Calls, ConfirmPersisted(c) PROVE CallInv'
  BY <1>15 DEF ConfirmPersisted, NothingPending, device, trial, options, history
<1>16. ASSUME NEW c \in Calls, CancelPersisted(c) PROVE CallInv'
  BY <1>16 DEF CancelPersisted, Revert, NothingPending, Reset, device, trial, options, history
<1>17. ASSUME NEW c \in Calls, SessionBreaks(c) PROVE CallInv'
  BY <1>17 DEF SessionBreaks, EndSession, NothingPending, Reset, device, trial, options, history
<1>18. ASSUME NEW c \in Calls, Crash(c) PROVE CallInv'
  BY <1>18 DEF Crash, EndSession, NothingPending, Reset, Goto, device, trial, options, history
<1>19. CASE ConfirmTimeout
  BY <1>19 DEF ConfirmTimeout, Revert, NothingPending, Reset, options, history
<1>20. CASE UNCHANGED vars
  BY <1>20 DEF vars, device, trial, options, history
<1> QED
  BY <1>1, <1>2, <1>3, <1>4, <1>5, <1>6, <1>7, <1>8, <1>9, <1>10, <1>11,
     <1>12, <1>13, <1>14, <1>15, <1>16, <1>17, <1>18, <1>19, <1>20
     DEF Next, CallStep, Environment


LEMMA AlwaysCallInv == ToolSpec => [](TypeOK /\ TrialInv /\ CallInv)
  BY InitTypeOK, NextTypeOK, InitTrialInv, NextTrialInv, InitCallInv, NextCallInv,
     ToolUsesLibrary, PTL DEF Spec

\* A call that ended before it touched a datastore.
Spared(d) ==
    /\ pc[d] \in {"close", "done"}
    /\ d \in raised
    /\ d \notin candidate \cup tried \cup confirmed

\* It stays so.

LEMMA SparedStays ==
  ASSUME NEW d \in Calls
  PROVE  TypeOK /\ TrialInv /\ Spared(d) /\ [Next]_vars => Spared(d)'
<1> SUFFICES ASSUME TypeOK /\ TrialInv, Spared(d), [Next]_vars PROVE Spared(d)'
  OBVIOUS
<1> USE NetconfAssumption, LabelFacts DEF TypeOK, TrialInv, Inside, Swallowed, Spared
<1>1. ASSUME NEW c \in Calls, Lock(c) PROVE Spared(d)'
  BY <1>1 DEF Lock, Sends, Replied, Raise, Goto, device, trial, options, history
<1>2. ASSUME NEW c \in Calls, Edit(c) PROVE Spared(d)'
  BY <1>2 DEF Edit, Sends, Replied, Raise, Goto, device, trial, options, history
<1>3. ASSUME NEW c \in Calls, EditStops(c) PROVE Spared(d)'
  BY <1>3 DEF EditStops, Sends, Raise, Goto, device, trial, options, history
<1>4. ASSUME NEW c \in Calls, Validate(c) PROVE Spared(d)'
  BY <1>4 DEF Validate, Sends, Replied, Raise, Goto, device, trial, options, history
<1>5. ASSUME NEW c \in Calls, Commit(c) PROVE Spared(d)'
  BY <1>5 DEF Commit, Sends, MayCommit, Replied, Raise, Goto, device, trial, options, history
<1>6. ASSUME NEW c \in Calls, Verify(c) PROVE Spared(d)'
  BY <1>6 DEF Verify, Goto, device, trial, options, history
<1>7. ASSUME NEW c \in Calls, Finalize(c) PROVE Spared(d)'
  BY <1>7 DEF Finalize, Sends, MayCommit, NothingPending, Replied, Raise, Goto, device, trial, options, history
<1>8. ASSUME NEW c \in Calls, Discard(c) PROVE Spared(d)'
  BY <1>8 DEF Discard, Sends, Replied, Raise, Goto, device, trial, options, history
<1>9. ASSUME NEW c \in Calls, Unlock(c) PROVE Spared(d)'
  BY <1>9 DEF Unlock, Sends, Replied, Raise, Goto, device, trial, options, history
<1>10. ASSUME NEW c \in Calls, Close(c) PROVE Spared(d)'
  BY <1>10 DEF Close, EndSession, NothingPending, Reset, Goto, device, trial, options, history
<1>11. ASSUME NEW c \in Calls, RpcFails(c) PROVE Spared(d)'
  BY <1>11 DEF RpcFails, Raise, Goto, device, trial, options, history
<1>12. ASSUME NEW c \in Calls, CleanupInterrupted(c) PROVE Spared(d)'
  BY <1>12 DEF CleanupInterrupted, Goto, device, trial, options, history
<1>13. ASSUME NEW c \in Calls, CannotConnect(c) PROVE Spared(d)'
  BY <1>13 DEF CannotConnect, Goto, device, trial, options, history
<1>14. ASSUME NEW c \in Calls, Connect(c) PROVE Spared(d)'
  BY <1>14 DEF Connect, Goto, device, trial, options, history
<1>15. ASSUME NEW c \in Calls, ConfirmPersisted(c) PROVE Spared(d)'
  BY <1>15 DEF ConfirmPersisted, NothingPending, device, trial, options, history
<1>16. ASSUME NEW c \in Calls, CancelPersisted(c) PROVE Spared(d)'
  BY <1>16 DEF CancelPersisted, Revert, NothingPending, Reset, device, trial, options, history
<1>17. ASSUME NEW c \in Calls, SessionBreaks(c) PROVE Spared(d)'
  BY <1>17 DEF SessionBreaks, EndSession, NothingPending, Reset, device, trial, options, history
<1>18. ASSUME NEW c \in Calls, Crash(c) PROVE Spared(d)'
  BY <1>18 DEF Crash, EndSession, NothingPending, Reset, Goto, device, trial, options, history
<1>19. CASE ConfirmTimeout
  BY <1>19 DEF ConfirmTimeout, Revert, NothingPending, Reset, options, history
<1>20. CASE UNCHANGED vars
  BY <1>20 DEF vars, device, trial, options, history
<1> QED
  BY <1>1, <1>2, <1>3, <1>4, <1>5, <1>6, <1>7, <1>8, <1>9, <1>10, <1>11,
     <1>12, <1>13, <1>14, <1>15, <1>16, <1>17, <1>18, <1>19, <1>20
     DEF Next, CallStep, Environment

\* A step of one call leaves the places, options and exceptions of the others.
Moves(c) ==
    /\ pc[c] # "done"
    /\ \A d \in Calls \ {c} :
           /\ pc'[d] = pc[d]
           /\ d \in raised' <=> d \in raised
           /\ d \in finalize' <=> d \in finalize
           /\ d \in persist' <=> d \in persist

Goes(c) ==
    /\ Moves(c)
    /\ pc[c] # "idle" /\ pc'[c] # "idle"
    /\ raised \subseteq raised'
    /\ finalize' = finalize /\ persist' = persist

LEMMA StepGoes ==
  ASSUME NEW c \in Calls, TypeOK, CallStep(c) \/ Crash(c)
  PROVE  Goes(c)
<1> USE LabelFacts DEF TypeOK, Goes, Moves, Swallowed
<1>1. CASE Lock(c)
  BY <1>1 DEF Lock, Sends, Replied, Raise, Goto, options
<1>2. CASE Edit(c)
  BY <1>2 DEF Edit, Sends, Replied, Raise, Goto, options
<1>3. CASE EditStops(c)
  BY <1>3 DEF EditStops, Sends, Raise, Goto, options
<1>4. CASE Validate(c)
  BY <1>4 DEF Validate, Sends, Replied, Raise, Goto, options
<1>5. CASE Commit(c)
  BY <1>5 DEF Commit, Sends, Replied, Raise, Goto, options
<1>6. CASE Verify(c)
  BY <1>6 DEF Verify, Goto, options
<1>7. CASE Finalize(c)
  BY <1>7 DEF Finalize, Sends, Replied, Raise, Goto, options
<1>8. CASE Discard(c)
  BY <1>8 DEF Discard, Sends, Replied, Raise, Goto, options
<1>9. CASE Unlock(c)
  BY <1>9 DEF Unlock, Sends, Replied, Raise, Goto, options
<1>10. CASE Close(c)
  BY <1>10 DEF Close, Goto, options
<1>11. CASE RpcFails(c)
  BY <1>11 DEF RpcFails, Raise, Goto, options
<1>12. CASE CleanupInterrupted(c)
  BY <1>12 DEF CleanupInterrupted, Goto, options
<1>13. CASE Crash(c)
  BY <1>13 DEF Crash, Goto, options
<1> QED
  BY <1>1, <1>2, <1>3, <1>4, <1>5, <1>6, <1>7, <1>8, <1>9, <1>10, <1>11, <1>12, <1>13
     DEF CallStep

LEMMA StepCannotConnect ==
  ASSUME NEW c \in Calls, TypeOK, CannotConnect(c)
  PROVE  /\ Moves(c)
         /\ pc[c] = "idle" /\ pc'[c] = "done" /\ c \in raised'
         /\ UNCHANGED <<finalize, persist>>
  BY DEF CannotConnect, Goto, TypeOK, Moves, options

LEMMA StepConnects ==
  ASSUME NEW c \in Calls, TypeOK, Connect(c)
  PROVE  /\ Moves(c)
         /\ pc[c] = "idle" /\ pc'[c] \in {"lock", "close"} /\ c \in sessions'
         /\ pc'[c] = "close" => c \in raised'
         /\ UNCHANGED <<candidate, tried, confirmed>>
  BY DEF Connect, Goto, TypeOK, Moves, history

----------------------------------------------------------------------------
(* The invocation. *)

Before == {"validate", "plan", "authorize", "password"}

\* What a result says of its call.
Means(c, value) ==
    /\ value = "EXECUTED_FINALIZED" => pc[c] = "done" /\ c \notin raised /\ request[c].final
    /\ value = "EXECUTED_TRANSIENT" => pc[c] = "done" /\ c \notin raised /\ ~request[c].final
    /\ value \in {"DRY_RUN_READY", "READ"} => pc[c] = "idle"
    /\ value = "REFUSED_MISSING_CAPABILITY" => pc[c] = "done" /\ c \in lacking

Good == Executed \cup {"DRY_RUN_READY", "READ"}

ToolType ==
    /\ stage \in [Tool -> Before \cup {"call", "report", "exit", "dead"}]
    /\ request \in [Tool -> Requests]
    /\ lacking \subseteq Tool
    /\ result \in [Tool -> Results \cup {"none"}]
    /\ printed \in [Tool -> Results \cup {"none", "REFUSED"}]
    /\ report \in [Tool -> Results \cup {"none"}]
    /\ DOMAIN code = Tool

\* The call of an invocation: it is made in the stage "call" only, with the
\* options of the request, and a live edit is confirmed before.
CallerInv(c) ==
    /\ stage[c] \in Before => pc[c] = "idle"
    /\ stage[c] \notin {"call", "dead"} => pc[c] \in {"idle", "done"}
    /\ stage[c] \in {"password", "call"} /\ request[c].op = "edit" =>
           request[c].live /\ request[c].matches
    /\ pc[c] # "idle" => request[c].op = "edit" /\ request[c].live /\ request[c].matches
    /\ c \in finalize => request[c].final
    /\ pc[c] # "idle" /\ c \notin raised => (c \in finalize <=> request[c].final)
    /\ c \notin persist
    /\ c \in lacking => Spared(c)

\* What it has printed and reported.
OutputInv(c) ==
    /\ Means(c, result[c])
    /\ result[c] # "none" => stage[c] \in {"report", "exit"}
    /\ stage[c] = "report" => result[c] # "none"
    /\ stage[c] # "exit" => printed[c] = "none"
    /\ printed[c] \in {"none", "REFUSED", result[c]}
    /\ report[c] \in {"none", printed[c]}
    /\ stage[c] = "exit" => (code[c] = 0 <=> printed[c] \in Good)

ToolInv ==
    /\ ToolType
    /\ \A c \in Tool : CallerInv(c) /\ OutputInv(c)

LEMMA InitToolInv == ToolInit => ToolInv
  BY ToolAssumption DEF ToolInit, Init, ToolInv, ToolType, CallerInv, OutputInv, Means, Before,
     Good, Results, Executed, Failed

\* One invocation does something of its own.
LEMMA OwnStep ==
  ASSUME TypeOK, CallInv, ToolInv, NEW c \in Tool, ToolStep(c)
  PROVE  ToolInv'
<1>1. c \in Calls /\ ToolType /\ CallerInv(c) /\ OutputInv(c)
  BY ToolAssumption DEF ToolInv
<1>2. UNCHANGED <<vars, request, lacking>>
  BY DEF ToolStep, Arguments, Plan, Authorize, Credentials, Read, Conclude, Report,
         ReportFails, Refuses, Stops, Exits, Advances, Finds
<1>3. UNCHANGED <<pc, raised, finalize, persist, candidate, tried, confirmed, request, lacking>>
  BY <1>2 DEF vars, device, trial, options, history
<1>4. /\ \A d \in Tool \ {c} : /\ stage'[d] = stage[d] /\ result'[d] = result[d]
                               /\ printed'[d] = printed[d] /\ report'[d] = report[d]
                               /\ code'[d] = code[d]
      /\ ToolType'
  <2> USE <1>1, <1>3 DEF ToolType, Before, Results, Executed, Failed
  <2>1. CASE Arguments(c) \/ Plan(c) \/ Authorize(c) \/ Credentials(c)
    BY <2>1 DEF Arguments, Plan, Authorize, Credentials, Refuses, Stops, Exits, Advances, outcome
  <2>2. CASE Read(c) \/ Conclude(c)
    BY <2>2 DEF Read, Conclude, Finds
  <2>3. CASE Report(c) \/ ReportFails(c)
    BY <2>3 DEF Report, ReportFails, Refuses, Stops, Exits
  <2> QED BY <2>1, <2>2, <2>3 DEF ToolStep
<1>5. CallerInv(c)' /\ OutputInv(c)'
  <2> USE <1>1, <1>3 DEF ToolType, CallerInv, OutputInv, Spared, Means, Good, Before
  <2>1. CASE Refuses(c) /\ stage[c] \in Before \cup {"report"}
    BY <2>1 DEF Refuses, Exits, Executed
  <2>2. CASE Stops(c) /\ stage[c] \in Before \cup {"report"}
    BY <2>2 DEF Stops, Exits, Executed
  <2>3. CASE \E label \in {"plan", "password"} :
                stage[c] = "validate" /\ Advances(c, label)
                  /\ (request[c].op = "read" => ~request[c].live)
                  /\ (label = "password" => request[c].op # "edit")
    BY <2>3 DEF Advances, outcome
  <2>4. CASE stage[c] = "plan" /\ Advances(c, "authorize")
    BY <2>4 DEF Advances, outcome
  <2>5. CASE Authorize(c)
    <3>1. CASE Authorized(c) /\ request[c].live
      <4>1. stage[c] = "authorize" /\ Advances(c, "password")
        BY <2>5, <3>1 DEF Authorize
      <4> QED BY <4>1, <3>1 DEF Advances, outcome, Authorized
    <3>2. CASE Authorized(c) /\ ~request[c].live
      BY <2>5, <3>2 DEF Authorize
    <3>3. CASE ~Authorized(c)
      BY <2>5, <3>3, <2>1 DEF Authorize
    <3> QED BY <3>1, <3>2, <3>3
  <2>6. CASE stage[c] = "password" /\ Advances(c, "call")
    BY <2>6 DEF Advances, outcome
  <2>7. CASE Read(c)
    BY <2>7 DEF Read, Finds
  <2>8. CASE Conclude(c)
    <3>1. c \notin raised => c \in finalize <=> request[c].final
      BY <2>8 DEF Conclude
    <3> QED BY <2>8, <3>1 DEF Conclude, Finds
  <2>9. CASE Report(c)
    BY <2>9 DEF Report, Status, Failed, Executed, Results
  <2> QED
    BY <2>1, <2>2, <2>3, <2>4, <2>5, <2>6, <2>7, <2>8, <2>9
       DEF ToolStep, Arguments, Plan, Credentials, ReportFails, Requests
<1>6. ASSUME NEW d \in Tool, d # c PROVE CallerInv(d)' /\ OutputInv(d)'
  BY <1>3, <1>4, <1>6 DEF ToolInv, CallerInv, OutputInv, Spared, Means
<1> QED BY <1>4, <1>5, <1>6 DEF ToolInv

\* What a step has to leave alone for an invocation to keep its invariant.
Untouched(d) ==
    /\ pc'[d] = pc[d]
    /\ d \in raised' <=> d \in raised
    /\ d \in finalize' <=> d \in finalize
    /\ d \in persist' <=> d \in persist
    /\ d \in lacking' <=> d \in lacking
    /\ stage'[d] = stage[d] /\ request'[d] = request[d] /\ result'[d] = result[d]
    /\ printed'[d] = printed[d] /\ report'[d] = report[d] /\ code'[d] = code[d]

LEMMA UntouchedKeeps ==
  ASSUME NEW d \in Tool, CallerInv(d), OutputInv(d), Untouched(d), Spared(d) => Spared(d)'
  PROVE  CallerInv(d)' /\ OutputInv(d)'
  BY DEF CallerInv, OutputInv, Means, Untouched

\* The call of an invocation, or of another program, does something.
LEMMA CallsStep ==
  ASSUME TypeOK /\ TrialInv, CallInv, ToolInv,
         NEW c \in Calls, CallConnects(c) \/ CallGoesOn(c) \/ CallCrashes(c)
  PROVE  ToolInv'
<1>1. \A d \in Tool : d \in Calls /\ CallerInv(d) /\ OutputInv(d)
  BY ToolAssumption DEF ToolInv
<1>2. \A d \in Tool : Spared(d) => Spared(d)'
  <2>1. [Next]_vars
    BY DEF CallConnects, CallGoesOn, CallCrashes, Next, Environment
  <2> QED BY <1>1, <2>1, SparedStays
<1>3. /\ ToolType'
      /\ request' = request /\ result' = result /\ printed' = printed
      /\ report' = report /\ code' = code
      /\ \A d \in Tool \ {c} : stage'[d] = stage[d] /\ (d \in lacking' <=> d \in lacking)
  <2> USE DEF ToolInv, ToolType, Before
  <2>1. CASE CallConnects(c)
    BY <2>1 DEF CallConnects, outcome
  <2>2. CASE CallGoesOn(c)
    BY <2>2 DEF CallGoesOn, Dies, tool, outcome
  <2>3. CASE CallCrashes(c)
    BY <2>3 DEF CallCrashes, Dies, outcome
  <2> QED BY <2>1, <2>2, <2>3
<1>4. Moves(c)
  BY StepGoes, StepCannotConnect, StepConnects
     DEF CallConnects, CallGoesOn, CallCrashes, Goes
<1>5. ASSUME NEW d \in Tool, d # c PROVE CallerInv(d)' /\ OutputInv(d)'
  <2>1. Untouched(d)
    BY <1>1, <1>3, <1>4, <1>5 DEF Untouched, Moves
  <2> QED BY <1>1, <1>2, <2>1, UntouchedKeeps
<1>6. ASSUME c \in Tool PROVE CallerInv(c)' /\ OutputInv(c)'
  <2>1. CallerInv(c) /\ OutputInv(c) /\ request'[c] = request[c] /\ result'[c] = result[c]
        /\ printed'[c] = printed[c] /\ report'[c] = report[c] /\ ToolType /\ ToolType'
    BY <1>1, <1>3, <1>6 DEF ToolInv
  <2>2. CASE CallConnects(c)
    <3>1. stage[c] = "call" /\ stage'[c] = "call" /\ request[c].op = "edit"
          /\ (c \in finalize' <=> c \in sessions' /\ request[c].final) /\ c \notin persist'
      BY <1>6, <2>2 DEF CallConnects, Asked
    <3>2. pc[c] = "idle" /\ c \notin lacking
          /\ c \notin candidate \cup tried \cup confirmed \cup finalize
      <4>1. pc[c] = "idle"
        BY <2>2, StepCannotConnect, StepConnects DEF CallConnects
      <4> QED BY <2>1, <4>1 DEF CallInv, CallerInv, Spared
    <3>3. result[c] = "none" /\ printed[c] = "none" /\ report[c] = "none"
      BY <2>1, <3>1 DEF OutputInv, Means, Before
    <3>4. CASE CannotConnect(c)
      <4>1. pc'[c] = "done" /\ c \in raised' /\ finalize' = finalize
        BY <3>4, StepCannotConnect
      <4>2. c \notin lacking'
        BY <2>2, <3>2, <4>1 DEF CallConnects
      <4> QED BY <2>1, <3>1, <3>2, <3>3, <4>1, <4>2 DEF CallerInv, OutputInv, Means, Before
    <3>5. CASE Connect(c)
      <4>1. pc'[c] \in {"lock", "close"} /\ c \in sessions'
            /\ (pc'[c] = "close" => c \in raised')
            /\ UNCHANGED <<candidate, tried, confirmed>>
        BY <3>5, StepConnects
      <4>2. c \in lacking' => pc'[c] = "close"
        BY <2>2, <3>2 DEF CallConnects
      <4>3. c \in lacking' => Spared(c)'
        BY <4>1, <4>2, <3>2 DEF Spared
      <4> QED BY <2>1, <3>1, <3>3, <4>1, <4>3 DEF CallerInv, OutputInv, Means, Before
    <3> QED BY <2>2, <3>4, <3>5 DEF CallConnects
  <2>3. CASE CallGoesOn(c) \/ CallCrashes(c)
    <3>1. Goes(c)
      BY <2>3, StepGoes DEF CallGoesOn, CallCrashes
    <3>2. stage[c] \in {"call", "dead"} /\ stage'[c] \in {stage[c], "dead"} /\ lacking' = lacking
      <4>1. stage[c] \in {"call", "dead"}
        BY <2>1, <3>1 DEF CallerInv, Goes, Moves
      <4> QED BY <1>6, <2>1, <2>3, <4>1 DEF CallGoesOn, CallCrashes, Dies, tool
    <3>3. result[c] = "none" /\ printed[c] = "none" /\ report[c] = "none"
      BY <2>1, <3>2 DEF OutputInv
    <3>4. OutputInv(c)'
      BY <2>1, <3>2, <3>3 DEF OutputInv, Means
    <3>5. CallerInv(c)'
      BY <1>2, <1>6, <2>1, <3>1, <3>2 DEF CallerInv, Goes, Moves, Before
    <3> QED BY <3>4, <3>5
  <2> QED BY <2>2, <2>3
<1> QED BY <1>3, <1>5, <1>6 DEF ToolInv

LEMMA NextToolInv ==
  TypeOK /\ TrialInv /\ CallInv /\ ToolInv /\ [ToolNext]_toolVars => ToolInv'
<1> SUFFICES ASSUME TypeOK /\ TrialInv, CallInv, ToolInv, [ToolNext]_toolVars
             PROVE  ToolInv'
  OBVIOUS
<1>1. ASSUME NEW c \in Tool, ToolStep(c) PROVE ToolInv'
  BY <1>1, OwnStep
<1>2. ASSUME NEW c \in Calls, CallConnects(c) \/ CallGoesOn(c) \/ CallCrashes(c)
      PROVE  ToolInv'
  BY <1>2, CallsStep
<1>3. CASE (\E c \in Calls : Library(c)) \/ Time \/ UNCHANGED toolVars
  <2>1. UNCHANGED <<pc, raised, finalize, persist, tool>>
    BY <1>3 DEF Library, Time, toolVars, vars, options, ConfirmPersisted, CancelPersisted,
                SessionBreaks, ConfirmTimeout
  <2>2. \A d \in Tool : CallerInv(d) /\ OutputInv(d) /\ Untouched(d)
    BY <2>1 DEF ToolInv, Untouched, tool, outcome
  <2>3. \A d \in Tool : Spared(d) => Spared(d)'
    BY SparedStays, ToolStepIsStep, ToolAssumption
  <2>4. ToolType'
    BY <2>1 DEF ToolInv, ToolType, tool, outcome
  <2> QED BY <2>2, <2>3, <2>4, UntouchedKeeps DEF ToolInv
<1> QED BY <1>1, <1>2, <1>3 DEF ToolNext

----------------------------------------------------------------------------
(* Every report is true. *)

\* The part of ReportIsTrue that depends on how the device reverts and unlocks.
DeviceHolds ==
    /\ CleanDevice => TransientIsUndone
    /\ ~RevertResetsCandidate => FinalizedIsKept

LEMMA ReportByInv ==
  TypeOK /\ TrialInv /\ CallInv /\ ToolInv /\ DeviceHolds => ReportIsTrue
<1> SUFFICES ASSUME TypeOK, TrialInv, CallInv, ToolInv, DeviceHolds
             PROVE  ReportIsTrue
  OBVIOUS
<1>1. ASSUME NEW c \in Tool
      PROVE  /\ c \in Calls /\ c \notin persist
             /\ pc[c] = "idle" => ~Touched(c)
             /\ Spared(c) /\ pc[c] = "done" => ~Touched(c)
             /\ pc[c] # "idle" =>
                    request[c].op = "edit" /\ request[c].live /\ request[c].matches
             /\ c \in confirmed => c \in finalize /\ request[c].final
             /\ pc[c] = "done" /\ c \notin raised =>
                    /\ c \in tried
                    /\ c \in finalize => c \in confirmed
                    /\ c \in finalize <=> request[c].final
             /\ c \in lacking => Spared(c)
             /\ OutputInv(c)
  <2>1. c \in Calls /\ CallerInv(c) /\ OutputInv(c)
    BY <1>1, ToolAssumption DEF ToolInv
  <2> QED BY <2>1 DEF TypeOK, TrialInv, CallInv, CallerInv, Touched, Spared
<1>2. ASSUME NEW c \in Tool, printed[c] = "EXECUTED_FINALIZED"
      PROVE  c \in tried \cap confirmed /\ (~RevertResetsCandidate => c \in Kept)
  <2>1. pc[c] = "done" /\ c \notin raised /\ request[c].final
    BY <1>1, <1>2 DEF OutputInv, Means
  <2> QED BY <1>1, <2>1 DEF DeviceHolds, FinalizedIsKept
<1>3. ASSUME NEW c \in Tool, printed[c] = "EXECUTED_TRANSIENT"
      PROVE  c \in tried \ confirmed /\ (DeviceCleans => c \notin running)
  <2>1. pc[c] = "done" /\ c \notin raised /\ ~request[c].final
    BY <1>1, <1>3 DEF OutputInv, Means
  <2>2. c \notin finalize \cup persist
    BY <1>1, <2>1
  <2> QED BY <1>1, <2>1, <2>2 DEF DeviceHolds, DeviceCleans, CleanDevice, TransientIsUndone
<1>4. ASSUME NEW c \in Tool,
             printed[c] \in {"DRY_RUN_READY", "READ", "REFUSED_MISSING_CAPABILITY"}
      PROVE  ~Touched(c)
  BY <1>1, <1>4 DEF OutputInv, Means
<1>5. ASSUME NEW c \in Tool
      PROVE  /\ Touched(c) => request[c].op = "edit" /\ request[c].live /\ request[c].matches
             /\ c \in confirmed => request[c].final
             /\ report[c] # "none" => report[c] = printed[c]
             /\ stage[c] = "exit" =>
                    (code[c] = 0 <=> printed[c] \in Executed \cup {"DRY_RUN_READY", "READ"})
  BY <1>1 DEF OutputInv, Good
<1> QED BY <1>2, <1>3, <1>4, <1>5 DEF ReportIsTrue

LEMMA AlwaysDeviceHolds == ToolSpec => []DeviceHolds
<1>1. ASSUME CleanDevice PROVE ToolSpec => []DeviceHolds
  <2>1. TransientIsUndone => DeviceHolds
    BY <1>1 DEF DeviceHolds, CleanDevice
  <2>2. Spec => []TransientIsUndone
    BY <1>1, TransientLeavesNothing
  <2> QED BY <2>1, <2>2, ToolUsesLibrary, PTL
<1>2. ASSUME ~RevertResetsCandidate PROVE ToolSpec => []DeviceHolds
  <2>1. FinalizedIsKept => DeviceHolds
    BY <1>2 DEF DeviceHolds, CleanDevice
  <2>2. Spec => []FinalizedIsKept
    BY <1>2, FinalizedForGood
  <2> QED BY <2>1, <2>2, ToolUsesLibrary, PTL
<1>3. ASSUME ~CleanDevice, RevertResetsCandidate PROVE ToolSpec => []DeviceHolds
  <2>1. DeviceHolds
    BY <1>3 DEF DeviceHolds
  <2> QED BY <2>1, PTL
<1> QED BY <1>1, <1>2, <1>3

\* What an invocation prints and reports is what happened, for every request,
\* however the call went: whatever the device, a dry run, a read and a missing
\* capability have touched nothing and an unconfirmed target is never edited;
\* "finalized" is for good where reverts spare the candidate, and "transient"
\* is gone where they clean it (run, main, _execute_live_edit_config).
THEOREM ReportsAreTrue == ToolSpec => []ReportIsTrue
<1>1. ToolSpec => []ToolInv
  BY AlwaysCallInv, InitToolInv, NextToolInv, PTL DEF ToolSpec
<1> QED BY <1>1, AlwaysCallInv, AlwaysDeviceHolds, ReportByInv, PTL

============================================================================
