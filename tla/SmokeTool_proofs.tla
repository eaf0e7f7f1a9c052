-------------------------- MODULE SmokeTool_proofs --------------------------
(***************************************************************************)
(* Proofs about SmokeTool: the tool runs one session of CliSession and     *)
(* ends it before it gives a verdict, and exit code 0 is backed by output, *)
(* for any settings, commands and outputs; and about TelnetProtocol: where *)
(* the reads cut a Telnet stream does not matter, for streams of any       *)
(* length.                                                                 *)
(***************************************************************************)
EXTENDS SmokeTool, CliSession_proofs

LEMMA SmokeStepIsStep == [SmokeNext]_smokeVars => [Next]_vars
<1> SUFFICES ASSUME [SmokeNext]_smokeVars PROVE [Next]_vars
  OBVIOUS
<1>1. CASE Resolve \/ ResolveTarget \/ ResolvePassword \/ LoadDriver \/ CommandSpec
  BY <1>1 DEF Resolve, ResolveTarget, ResolvePassword, LoadDriver, CommandSpec, Stops, Advances
<1>2. CASE Session
  BY <1>2 DEF Session
<1>3. CASE SessionFailed \/ Verify \/ BuildReport \/ WriteReport
  BY <1>3 DEF SessionFailed, Verify, BuildReport, WriteReport, Stops, Advances
<1>4. CASE UNCHANGED smokeVars
  BY <1>4 DEF smokeVars
<1> QED BY <1>1, <1>2, <1>3, <1>4 DEF SmokeNext

\* What holds of every session holds of the one the tool runs (run_smoke).
THEOREM SmokeUsesSession == SmokeSpec => Spec
<1>1. SmokeInit => Init
  BY DEF SmokeInit
<1> QED BY <1>1, SmokeStepIsStep, PTL DEF SmokeSpec, Spec

----------------------------------------------------------------------------
(* A verdict comes after the session. *)

Concluded == {"report", "write"}

\* Only a tool whose session returned normally gets to its report, and only a
\* report has an exit code 0.
VerdictInv ==
    /\ stage \in Concluded => pc = "done" /\ ~raised
    /\ code # 1 /\ code # None => pc = "done" /\ ~raised
    /\ stage = "library" => code = None

LEMMA InitVerdictInv == SmokeInit => VerdictInv
  BY DEF SmokeInit, VerdictInv, Concluded

\* A session that is over stays as it is.
LEMMA DoneStays ==
  ASSUME pc = "done", Next
  PROVE  UNCHANGED <<pc, raised, opened, forgotten>>
<1>1. CASE SshOpens \/ SshUnreachable \/ SshRejected \/ SerialOpens \/ TelnetOpens \/ OpenFails
  BY <1>1 DEF SshOpens, SshUnreachable, SshRejected, SshRefused, SerialOpens, TelnetOpens,
              OpenFails, Opens
<1>2. CASE SshConnect \/ SerialConnect \/ TelnetConnect
  BY <1>2 DEF SshConnect, SerialConnect, TelnetConnect, Hello, SendUsername, SendPassword,
              PromptEstablished, Returns
<1>3. CASE SshAttemptFails \/ TelnetConnectFails \/ SerialConnectFails
  BY <1>3 DEF SshAttemptFails, TelnetConnectFails, SerialConnectFails
<1>4. CASE SshReadUntilReady \/ SerialReadUntilReady \/ TelnetReadUntilReady
  BY <1>4 DEF SshReadUntilReady, SerialReadUntilReady, TelnetReadUntilReady, Loop, Chunk,
              ContinuePager, PagerUnfinished, DeadlinePasses, ChannelClosed, KeepReading, Returns
<1>5. CASE SshRunCommand \/ SerialRunCommand \/ TelnetRunCommand
  BY <1>5 DEF SshRunCommand, SerialRunCommand, TelnetRunCommand, RunCommand, SendCommand,
              Confirm, Answered, Returns
<1>6. CASE SshRunCommands \/ SerialRunCommands \/ TelnetRunCommands
  BY <1>6 DEF SshRunCommands, SerialRunCommands, TelnetRunCommands, SshReconnects, Finally
<1>7. CASE SshClose \/ SerialClose \/ TelnetClose
  BY <1>7 DEF SshClose, SerialClose, TelnetClose, Closes
<1>8. CASE LoseConnection
  BY <1>8 DEF LoseConnection, client
<1> QED BY <1>1, <1>2, <1>3, <1>4, <1>5, <1>6, <1>7, <1>8 DEF Next

LEMMA NextVerdictInv == VerdictInv /\ [SmokeNext]_smokeVars => VerdictInv'
<1> SUFFICES ASSUME VerdictInv, [SmokeNext]_smokeVars PROVE VerdictInv'
  OBVIOUS
<1>1. CASE Resolve \/ ResolveTarget \/ ResolvePassword \/ LoadDriver \/ CommandSpec
  <2>1. stage' \notin Concluded \cup {"library"} /\ (code' = code \/ code' = 1)
    BY <1>1 DEF Resolve, ResolveTarget, ResolvePassword, LoadDriver, CommandSpec, Stops,
                Advances, Concluded
  <2>2. UNCHANGED <<pc, raised>>
    BY <1>1 DEF Resolve, ResolveTarget, ResolvePassword, LoadDriver, CommandSpec, Stops,
                Advances, vars, client, handles
  <2> QED BY <2>1, <2>2 DEF VerdictInv
<1>2. CASE Session
  BY <1>2, DoneStays DEF Session, smoke, VerdictInv, Concluded
<1>3. CASE SessionFailed \/ Verify \/ BuildReport \/ WriteReport
  <2>1. (pc = "done" /\ ~raised) \/ (code' = 1 /\ stage' = "exit")
    BY <1>3 DEF SessionFailed, Stops, Verify, Succeeded, BuildReport, WriteReport, VerdictInv,
                Concluded
  <2>2. UNCHANGED <<pc, raised>>
    BY <1>3 DEF SessionFailed, Verify, BuildReport, WriteReport, Stops, Advances, vars,
                client, handles
  <2>3. stage' # "library"
    BY <1>3 DEF SessionFailed, Verify, BuildReport, WriteReport, Stops, Advances
  <2> QED BY <2>1, <2>2, <2>3 DEF VerdictInv, Concluded
<1>4. CASE UNCHANGED smokeVars
  BY <1>4 DEF smokeVars, smoke, VerdictInv, Concluded, vars, client, handles
<1> QED BY <1>1, <1>2, <1>3, <1>4 DEF SmokeNext

\* With exit code 0 the tool has closed its session, the logout included: the
\* one client that may be left is one that a reconnect replaced (run_smoke,
\* run_commands and close of the three transports).
THEOREM PassedHasClosed ==
  SmokeSpec => [](NothingLeftOpen /\ (code = 0 => opened = forgotten))
<1>1. SmokeSpec => []VerdictInv
  BY InitVerdictInv, NextVerdictInv, PTL DEF SmokeSpec
<1>2. SmokeSpec => []NothingLeftOpen
  BY SmokeUsesSession, NothingIsLeft, PTL
<1>3. VerdictInv /\ NothingLeftOpen => (code = 0 => opened = forgotten)
  BY SmokeAssumption DEF VerdictInv, NothingLeftOpen
<1> QED BY <1>1, <1>2, <1>3, PTL

\* And it has had at most one password refused (connect of the transports).
THEOREM SmokeRefusedOnce == SmokeSpec => []RefusedOnce
  BY SmokeUsesSession, OneRefusal, PTL

----------------------------------------------------------------------------
(* A verdict rests on the outputs. *)

\* verify.py found nothing wrong with any output, and the outputs still stand.
Verified ==
    /\ pc = "done" /\ Len(results) = Commands
    /\ \A c \in 1 .. Commands : VerifyOutput(spec, c)

\* The verdict of result.passed is the one the report and the exit code give.
ShownInv ==
    /\ stage \in Concluded => passed \in BOOLEAN /\ (passed => Verified)
    /\ stage # "exit" => code = None
    /\ code = 0 => Verified

LEMMA InitShownInv == SmokeInit => ShownInv
  BY SmokeAssumption DEF SmokeInit, ShownInv, Concluded

\* What verify.py looked at.
LEMMA VerifiedKept ==
  ASSUME UNCHANGED <<pc, results, spec>>, Verified
  PROVE  Verified'
  BY DEF Verified, VerifyOutput, Missing

LEMMA NextShownInv == ShownInv /\ [SmokeNext]_smokeVars => ShownInv'
<1> SUFFICES ASSUME ShownInv, [SmokeNext]_smokeVars PROVE ShownInv'
  OBVIOUS
<1>1. CASE Resolve \/ ResolveTarget \/ ResolvePassword \/ LoadDriver \/ CommandSpec
  <2>1. stage # "exit" /\ stage' \notin Concluded
    BY <1>1 DEF Resolve, ResolveTarget, ResolvePassword, LoadDriver, CommandSpec, Stops,
                Advances, Concluded
  <2>2. (code' = 1 /\ stage' = "exit") \/ code' = code
    BY <1>1 DEF Resolve, ResolveTarget, ResolvePassword, LoadDriver, CommandSpec, Stops,
                Advances
  <2> QED BY <2>1, <2>2, SmokeAssumption DEF ShownInv
<1>2. CASE Session
  BY <1>2, SmokeAssumption DEF Session, smoke, ShownInv, Concluded
<1>3. CASE SessionFailed
  BY <1>3 DEF SessionFailed, Stops, ShownInv, Concluded
<1>4. CASE Verify
  <2>1. /\ stage' = "report" /\ stage = "run" /\ code' = code
        /\ UNCHANGED <<pc, results>> /\ pc = "done" /\ Len(results) = Commands
    BY <1>4 DEF Verify, Succeeded, vars, client, session
  <2>2. PICK s \in Specs : spec' = s /\ passed' = \A c \in 1 .. Commands : VerifyOutput(s, c)
    BY <1>4 DEF Verify
  <2>3. passed' \in BOOLEAN
    BY <2>2
  <2>4. ASSUME passed' PROVE Verified'
    <3>1. \A c \in 1 .. Commands : VerifyOutput(s, c)
      BY <2>2, <2>4
    <3> QED BY <2>1, <2>2, <3>1 DEF Verified, VerifyOutput, Missing
  <2> QED BY <2>1, <2>3, <2>4, SmokeAssumption DEF ShownInv
<1>5. CASE BuildReport \/ WriteReport
  <2>1. stage \in Concluded /\ UNCHANGED <<pc, results, spec, passed>>
    BY <1>5 DEF BuildReport, WriteReport, Stops, Advances, Concluded, vars, client, session
  <2>2. passed \in BOOLEAN /\ (passed => Verified') /\ code = None
    BY <2>1, VerifiedKept DEF ShownInv, Concluded
  <2>3. \/ stage' = "exit" /\ code' = 1
        \/ stage' = "write" /\ code' = code
        \/ stage' = "exit" /\ code' = IF passed THEN 0 ELSE 1
    BY <1>5 DEF BuildReport, WriteReport, Stops, Advances
  <2> QED BY <2>1, <2>2, <2>3, SmokeAssumption DEF ShownInv, Concluded
<1>6. CASE UNCHANGED smokeVars
  <2>1. UNCHANGED <<pc, results, spec, passed, stage, code>>
    BY <1>6 DEF smokeVars, smoke, vars, client, session
  <2> QED BY <2>1, VerifiedKept DEF ShownInv, Concluded
<1> QED BY <1>1, <1>2, <1>3, <1>4, <1>5, <1>6 DEF SmokeNext

\* If every output is its command's own, a token that was found in one was
\* printed for that command.
LEMMA VerdictIsShown ==
  ASSUME StraightInv, ShownInv
  PROVE  PassedIsShown
<1> SUFFICES ASSUME Honest, code = 0, NEW c \in 1 .. Commands
             PROVE  /\ script[c] # <<>>
                    /\ \A i \in DOMAIN script[c] : Line(script[c][i], c) \in Range(results[c])
                    /\ spec.expected => c \in spec.holders /\ "text" \in Range(script[c])
  BY DEF PassedIsShown
<1>1. /\ Len(results) = Commands /\ \A d \in 1 .. Commands : results[d] # <<>>
      /\ ~Missing(spec, results[c])
  BY DEF ShownInv, Verified, VerifyOutput
<1>2. results \in Seq(Seq(Tokens)) /\ DOMAIN results = 1 .. Commands
  BY <1>1, LenType, CliAssumption DEF StraightInv, TypeInv, TypeOK
<1>3. Straight
  BY <1>1, <1>2 DEF Straight
<1>4. results[c] = [i \in DOMAIN script[c] |-> Line(script[c][i], c)]
  BY <1>2, <1>3 DEF StraightInv, OutputInv, OwnResults
<1>5. DOMAIN results[c] = DOMAIN script[c]
  BY <1>4
<1>6. \A i \in DOMAIN script[c] : results[c][i] = Line(script[c][i], c)
  BY <1>4
<1>7. script[c] # <<>>
  <2>1. results[c] \in Seq(Tokens) /\ results[c] # <<>>
    BY <1>1, <1>2
  <2>2. 1 \in DOMAIN results[c]
    BY <2>1, EmptySeq
  <2> QED BY <1>5, <2>2
<1>8. \A i \in DOMAIN script[c] : Line(script[c][i], c) \in Range(results[c])
  BY <1>5, <1>6 DEF Range
<1>9. ASSUME spec.expected PROVE c \in spec.holders /\ "text" \in Range(script[c])
  <2>1. PICK i \in DOMAIN results[c] : results[c][i].k = "text" /\ results[c][i].of \in spec.holders
    BY <1>1, <1>9 DEF Missing
  <2>2. i \in DOMAIN script[c] /\ results[c][i] = Line(script[c][i], c)
    BY <1>5, <1>6, <2>1
  <2>3. script[c][i] = "text" /\ c \in spec.holders
    BY <2>1, <2>2 DEF Line
  <2> QED BY <2>2, <2>3 DEF Range
<1> QED BY <1>7, <1>8, <1>9

\* Exit code 0 is evidence, for any commands, outputs and expected tokens, and
\* whether or not a prompt of the shell's own comes before the first command
\* (run_smoke, verify_cli_outputs): an output that belongs to another command
\* would have been preceded by an empty one, and that fails.
THEOREM PassedShown == SmokeSpec => []PassedIsShown
<1>1. SmokeSpec => []ShownInv
  BY InitShownInv, NextShownInv, PTL DEF SmokeSpec
<1>2. SmokeSpec => []StraightInv
  BY SmokeUsesSession, StraightAlways, PTL
<1> QED BY <1>1, <1>2, VerdictIsShown, PTL

----------------------------------------------------------------------------
(* TelnetProtocol: how one turn of the loop sees a longer input. *)

\* The places of an IAC SE.
EndsAt(d) == {i \in 3 .. Len(d) - 1 : d[i] = "IAC" /\ d[i + 1] = "SE"}

LEMMA FirstStop ==
  ASSUME NEW d \in Seq(Bytes)
  PROVE  \/ EndsAt(d) = {} /\ FindSubnegotiationEnd(d) = 0
         \/ \E m \in EndsAt(d) : /\ FindSubnegotiationEnd(d) = 1 + m
                                /\ \A j \in EndsAt(d) : m <= j
<1>1. CASE EndsAt(d) = {}
  BY <1>1 DEF EndsAt, FindSubnegotiationEnd
<1>2. CASE EndsAt(d) # {}
  <2> DEFINE m == CHOOSE i \in EndsAt(d) : \A j \in EndsAt(d) : i <= j
  <2>1. EndsAt(d) \subseteq Nat
    BY LenType DEF EndsAt
  <2>2. \E i \in EndsAt(d) : \A j \in EndsAt(d) : i <= j
    BY <1>2, <2>1, LeastNat
  <2>3. m \in EndsAt(d) /\ \A j \in EndsAt(d) : m <= j
    BY <2>2
  <2>4. FindSubnegotiationEnd(d) = 1 + m
    BY <1>2 DEF EndsAt, FindSubnegotiationEnd
  <2> QED BY <2>3, <2>4
<1> QED BY <1>1, <1>2

LEMMA TwoAtLeast == ASSUME NEW n \in Nat, n # 0, n # 1 PROVE n >= 2
OBVIOUS

LEMMA TakenType ==
  ASSUME NEW d \in Seq(Bytes), d # <<>>
  PROVE  Taken(d) \in 0 .. Len(d)
<1>1. Len(d) \in Nat /\ Len(d) # 0
  BY EmptySeq
<1>2. FindSubnegotiationEnd(d) \in 0 .. Len(d)
  <2>1. ASSUME NEW m \in EndsAt(d) PROVE 1 + m \in 0 .. Len(d)
    BY <1>1, <2>1 DEF EndsAt
  <2> QED BY <1>1, <2>1, FirstStop
<1>3. CASE d[1] # "IAC"
  BY <1>1, <1>3 DEF Taken
<1>4. CASE d[1] = "IAC" /\ Len(d) = 1
  BY <1>1, <1>4 DEF Taken
<1>5. CASE d[1] = "IAC" /\ Len(d) # 1
  <2>1. Len(d) >= 2
    BY <1>1, <1>5, TwoAtLeast
  <2>2. CASE d[2] \in {"DO", "WILL", "WONT"}
    <3>1. Taken(d) = IF Len(d) >= 3 THEN 3 ELSE 0
      BY <1>5, <2>2 DEF Taken
    <3> QED BY <1>1, <3>1
  <2>3. CASE d[2] = "SB"
    BY <1>1, <1>2, <1>5, <2>3 DEF Taken
  <2>4. CASE d[2] \notin {"DO", "WILL", "WONT", "SB"}
    BY <1>1, <1>5, <2>1, <2>4 DEF Taken
  <2> QED BY <2>2, <2>3, <2>4
<1> QED BY <1>3, <1>4, <1>5

\* Bytes that come later do not change a subnegotiation that is complete.
LEMMA StopStays ==
  ASSUME NEW s \in Seq(Bytes), NEW t \in Seq(Bytes), NEW u, Joins(u, s, t),
         FindSubnegotiationEnd(s) # 0
  PROVE  FindSubnegotiationEnd(u) = FindSubnegotiationEnd(s)
<1>1. /\ u \in Seq(Bytes) /\ Len(u) = Len(s) + Len(t) /\ Len(s) \in Nat /\ Len(t) \in Nat
      /\ \A i \in 1 .. Len(s) : u[i] = s[i]
  BY JoinShape
<1>2. PICK m \in EndsAt(s) : FindSubnegotiationEnd(s) = 1 + m /\ \A j \in EndsAt(s) : m <= j
  BY FirstStop
<1>3. ASSUME NEW i \in 3 .. Len(s) - 1 PROVE i \in EndsAt(u) <=> i \in EndsAt(s)
  <2>1. i \in 1 .. Len(s) /\ i + 1 \in 1 .. Len(s) /\ i \in 3 .. Len(u) - 1
    BY <1>1
  <2>2. u[i] = s[i] /\ u[i + 1] = s[i + 1]
    BY <1>1, <2>1
  <2> QED BY <2>1, <2>2 DEF EndsAt
<1>4. m \in 3 .. Len(s) - 1 /\ m \in Nat
  BY <1>1 DEF EndsAt
<1>5. m \in EndsAt(u)
  BY <1>3, <1>4
<1>6. PICK k \in EndsAt(u) : FindSubnegotiationEnd(u) = 1 + k /\ \A j \in EndsAt(u) : k <= j
  BY <1>1, <1>5, FirstStop
<1>7. k <= m /\ k \in Nat /\ 3 <= k
  BY <1>1, <1>5, <1>6 DEF EndsAt
<1>8. k \in 3 .. Len(s) - 1
  BY <1>1, <1>4, <1>7
<1>9. m <= k
  BY <1>2, <1>3, <1>6, <1>8
<1> QED BY <1>2, <1>4, <1>6, <1>7, <1>9

\* Nor what the loop takes, shows and answers when it has all it needs.
LEMMA TurnStays ==
  ASSUME NEW s \in Seq(Bytes), NEW t \in Seq(Bytes), NEW u, Joins(u, s, t),
         s # <<>>, Taken(s) # 0
  PROVE  Taken(u) = Taken(s) /\ Visible(u) = Visible(s) /\ Response(u) = Response(s)
<1>1. /\ u \in Seq(Bytes) /\ Len(u) = Len(s) + Len(t) /\ Len(s) \in Nat /\ Len(t) \in Nat
      /\ \A i \in 1 .. Len(s) : u[i] = s[i]
  BY JoinShape
<1>2. Len(s) # 0
  BY EmptySeq
<1>3. u[1] = s[1]
  BY <1>1, <1>2
<1>4. CASE s[1] # "IAC"
  BY <1>3, <1>4 DEF Taken, Visible, Response
<1>5. CASE s[1] = "IAC"
  <2>1. Len(s) # 1
    BY <1>5 DEF Taken
  <2>2. Len(s) >= 2
    BY <1>1, <1>2, <2>1, TwoAtLeast
  <2>3. Len(u) >= 2
    BY <1>1, <2>2
  <2>4. u[2] = s[2]
    BY <1>1, <2>2, <2>3
  <2>5. Visible(u) = Visible(s)
    BY <1>3, <2>4 DEF Visible
  <2>6. CASE s[2] \in {"DO", "WILL", "WONT"}
    <3>1. Len(s) >= 3 /\ Taken(s) = 3
      BY <1>5, <2>2, <2>3, <2>6 DEF Taken
    <3>2. Taken(u) = 3
      BY <1>1, <1>3, <1>5, <2>2, <2>3, <2>4, <2>6, <3>1 DEF Taken
    <3>3. u[3] = s[3]
      BY <1>1, <3>1
    <3>4. Response(u) = Response(s)
      BY <1>3, <2>4, <3>3, Zenon DEF Response
    <3> QED BY <2>5, <3>1, <3>2, <3>4
  <2>7. CASE s[2] \notin {"DO", "WILL", "WONT"}
    <3>1. Response(u) = <<>> /\ Response(s) = <<>>
      BY <2>4, <2>7 DEF Response, Refusal
    <3>2. CASE s[2] = "SB"
      <4>1. Taken(s) = FindSubnegotiationEnd(s) /\ Taken(u) = FindSubnegotiationEnd(u)
        BY <1>3, <1>5, <2>2, <2>3, <2>4, <3>2 DEF Taken
      <4> QED BY <2>5, <3>1, <4>1, StopStays
    <3>3. CASE s[2] # "SB"
      <4>1. Taken(s) = 2 /\ Taken(u) = 2
        BY <1>3, <1>5, <2>2, <2>3, <2>4, <2>7, <3>3 DEF Taken
      <4> QED BY <2>5, <3>1, <4>1
    <3> QED BY <3>2, <3>3
  <2> QED BY <2>6, <2>7
<1> QED BY <1>4, <1>5

LEMMA RestOfJoin ==
  ASSUME NEW S, NEW s \in Seq(S), NEW t \in Seq(S), NEW u, Joins(u, s, t),
         NEW k \in Nat, k <= Len(s)
  PROVE  Joins(Rest(u, k), Rest(s, k), t)
<1> DEFINE a == Rest(u, k)
           b == Rest(s, k)
           c == b \o t
<1>1. /\ u \in Seq(S) /\ Len(u) = Len(s) + Len(t) /\ Len(s) \in Nat /\ Len(t) \in Nat
      /\ \A i \in 1 .. Len(s) : u[i] = s[i]
      /\ \A j \in 1 .. Len(t) : u[Len(s) + j] = t[j]
  BY JoinShape
<1>2. k <= Len(u) /\ Len(u) \in Nat
  BY <1>1
<1>3. a \in Seq(S) /\ Len(a) = Len(u) - k /\ \A i \in 1 .. Len(u) - k : a[i] = u[k + i]
  <2>1. u \in Seq(S)
    BY <1>1
  <2> QED BY <1>2, <2>1, RestShape
<1>4. b \in Seq(S) /\ Len(b) = Len(s) - k /\ \A i \in 1 .. Len(s) - k : b[i] = s[k + i]
  BY RestShape
<1> HIDE DEF a, b
<1>5. Joins(c, b, t)
  BY DEF Joins
<1> HIDE DEF c
<1>6. /\ c \in Seq(S) /\ Len(c) = Len(b) + Len(t)
      /\ \A i \in 1 .. Len(b) : c[i] = b[i]
      /\ \A j \in 1 .. Len(t) : c[Len(b) + j] = t[j]
  <2>1. b \in Seq(S)
    BY <1>4
  <2> QED BY <1>5, <2>1, JoinShape
<1>7. Len(a) = Len(c)
  BY <1>1, <1>3, <1>4, <1>6
<1>8. ASSUME NEW i \in 1 .. Len(a) PROVE a[i] = c[i]
  <2>1. CASE i <= Len(s) - k
    <3>1. i \in 1 .. Len(u) - k /\ i \in 1 .. Len(s) - k /\ k + i \in 1 .. Len(s)
          /\ i \in 1 .. Len(b)
      BY <1>1, <1>3, <1>4, <2>1
    <3> QED BY <1>1, <1>3, <1>4, <1>6, <3>1
  <2>2. CASE i > Len(s) - k
    <3> DEFINE j == i - (Len(s) - k)
    <3>1. /\ i \in 1 .. Len(u) - k /\ j \in 1 .. Len(t)
          /\ k + i = Len(s) + j /\ i = Len(b) + j
      BY <1>1, <1>3, <1>4, <2>2
    <3> HIDE DEF j
    <3>2. a[i] = u[k + i] /\ u[Len(s) + j] = t[j] /\ c[Len(b) + j] = t[j]
      BY <1>1, <1>3, <1>6, <3>1
    <3> QED BY <3>1, <3>2
  <2> QED BY <1>1, <1>3, <1>8, <2>1, <2>2
<1>9. a = c
  BY <1>3, <1>6, <1>7, <1>8, SeqEqual
<1> QED BY <1>5, <1>9 DEF a, b

(* The loop is defined on every input: each turn leaves fewer bytes. *)

\* The loop on data, if parse does what comes after its next turn.
Turn(parse, data) ==
    IF data = <<>> \/ Taken(data) = 0 THEN End(data)
    ELSE LET next == parse[Without(data, Taken(data))]
         IN  [visible   |-> Visible(data) \o next.visible,
              responses |-> Response(data) \o next.responses,
              remaining |-> next.remaining]

Short(n) == {d \in Seq(Bytes) : Len(d) <= n}
Parses(f, n) == f = [d \in Short(n) |-> Turn(f, d)]

LEMMA TurnTakes ==
  ASSUME NEW d \in Seq(Bytes), d # <<>>, Taken(d) # 0
  PROVE  /\ Without(d, Taken(d)) = Rest(d, Taken(d))
         /\ Without(d, Taken(d)) \in Seq(Bytes)
         /\ Len(Without(d, Taken(d))) < Len(d)
         /\ Len(Without(d, Taken(d))) \in Nat
<1>1. Taken(d) \in Nat /\ Taken(d) <= Len(d) /\ Len(d) \in Nat
  BY TakenType
<1>2. Without(d, Taken(d)) = Rest(d, Taken(d))
  BY DEF Without, Rest
<1>3. Rest(d, Taken(d)) \in Seq(Bytes) /\ Len(Rest(d, Taken(d))) = Len(d) - Taken(d)
  BY <1>1, RestShape
<1> QED BY <1>1, <1>2, <1>3

LEMMA TurnLooks ==
  ASSUME NEW f, NEW g, NEW d \in Seq(Bytes),
         d # <<>> /\ Taken(d) # 0 => f[Without(d, Taken(d))] = g[Without(d, Taken(d))]
  PROVE  Turn(f, d) = Turn(g, d)
BY Zenon DEF Turn

LEMMA ShortGrows == ASSUME NEW n \in Nat, NEW d \in Short(n) PROVE d \in Short(n + 1)
<1>1. Len(d) \in Nat
  BY LenType DEF Short
<1> QED BY <1>1 DEF Short

LEMMA ParserGrows ==
  ASSUME NEW n \in Nat, NEW f, Parses(f, n)
  PROVE  \E g : Parses(g, n + 1)
<1> DEFINE g == [d \in Short(n + 1) |-> Turn(f, d)]
<1>1. ASSUME NEW d \in Short(n) PROVE g[d] = f[d]
  <2>1. f[d] = Turn(f, d)
    BY Zenon DEF Parses
  <2> QED BY <2>1, ShortGrows
<1>2. ASSUME NEW d \in Short(n + 1) PROVE Turn(f, d) = Turn(g, d)
  <2>1. d \in Seq(Bytes) /\ Len(d) <= n + 1 /\ Len(d) \in Nat
    BY LenType DEF Short
  <2>2. ASSUME d # <<>>, Taken(d) # 0
        PROVE  Without(d, Taken(d)) \in Short(n)
    <3>1. Without(d, Taken(d)) \in Seq(Bytes) /\ Len(Without(d, Taken(d))) < Len(d)
          /\ Len(Without(d, Taken(d))) \in Nat
      BY <2>1, <2>2, TurnTakes
    <3>2. Len(Without(d, Taken(d))) <= n
      BY <2>1, <3>1
    <3> QED BY <3>1, <3>2 DEF Short
  <2> HIDE DEF g
  <2> QED BY <1>1, <2>1, <2>2, TurnLooks
<1>3. g = [d \in Short(n + 1) |-> Turn(g, d)]
  BY <1>2
<1> HIDE DEF g
<1> QED BY <1>3 DEF Parses

LEMMA ParserStarts == \E f : Parses(f, 0)
<1> DEFINE f == [d \in Short(0) |-> End(d)]
<1>1. ASSUME NEW d \in Short(0) PROVE d = <<>>
  BY EmptySeq DEF Short
<1>2. ASSUME NEW d \in Short(0) PROVE Turn(f, d) = End(d)
  BY <1>1 DEF Turn
<1>3. f = [d \in Short(0) |-> Turn(f, d)]
  BY <1>2
<1> HIDE DEF f
<1> QED BY <1>3 DEF Parses

LEMMA ParserOfAny == ASSUME NEW n \in Nat PROVE \E f : Parses(f, n)
<1> DEFINE T == {m \in Nat : ~\E f : Parses(f, m)}
<1>1. SUFFICES ASSUME T # {} PROVE FALSE
  OBVIOUS
<1>2. PICK w \in T : \A v \in T : w <= v
  BY <1>1, LeastNat
<1>3. w \in Nat /\ w # 0
  BY ParserStarts
<1>4. w - 1 \in Nat /\ w - 1 + 1 = w
  BY <1>3
<1>5. w - 1 \notin T
  BY <1>2, <1>3, <1>4
<1>6. \E f : Parses(f, w - 1)
  BY <1>4, <1>5
<1> DEFINE v == w - 1
<1>7. v \in Nat /\ v + 1 = w /\ \E f : Parses(f, v)
  BY <1>4, <1>6
<1> HIDE DEF v
<1>8. \E f : Parses(f, v + 1)
  BY <1>7, ParserGrows
<1> QED BY <1>2, <1>7, <1>8

LEMMA ParsersAgree ==
  ASSUME NEW m \in Nat, NEW n \in Nat, NEW f, NEW g, Parses(f, m), Parses(g, n),
         NEW d \in Seq(Bytes), Len(d) <= m, Len(d) <= n
  PROVE  f[d] = g[d]
<1> DEFINE Bad == {e \in Seq(Bytes) : Len(e) <= m /\ Len(e) <= n /\ f[e] # g[e]}
           T == {Len(e) : e \in Bad}
<1>1. SUFFICES ASSUME Bad # {} PROVE FALSE
  OBVIOUS
<1>2. T \in SUBSET Nat /\ T # {}
  BY <1>1, LenType
<1>3. PICK w \in T : \A v \in T : w <= v
  BY <1>2, LeastNat
<1>4. PICK e \in Bad : w = Len(e)
  BY <1>3
<1>5. e \in Seq(Bytes) /\ Len(e) <= m /\ Len(e) <= n /\ f[e] # g[e] /\ Len(e) \in Nat
  BY <1>4, LenType
<1>6. e \in Short(m) /\ e \in Short(n)
  BY <1>5 DEF Short
<1>7. f[e] = Turn(f, e) /\ g[e] = Turn(g, e)
  BY <1>6, Zenon DEF Parses
<1>8. ASSUME e # <<>>, Taken(e) # 0
      PROVE  f[Without(e, Taken(e))] = g[Without(e, Taken(e))]
  <2> DEFINE r == Without(e, Taken(e))
  <2>1. r \in Seq(Bytes) /\ Len(r) < Len(e) /\ Len(r) \in Nat
    BY <1>5, <1>8, TurnTakes
  <2> HIDE DEF r
  <2>2. Len(r) <= m /\ Len(r) <= n
    BY <1>5, <2>1
  <2>3. r \notin Bad
    BY <1>3, <1>4, <1>5, <2>1
  <2>4. f[r] = g[r]
    BY <2>1, <2>2, <2>3
  <2> QED BY <2>4 DEF r
<1>9. Turn(f, e) = Turn(g, e)
  BY <1>5, <1>8, TurnLooks
<1> QED BY <1>5, <1>7, <1>9

\* So consume_telnet_bytes is one turn of its loop and then the rest.
LEMMA ConsumeTurns == ASSUME NEW d \in Seq(Bytes) PROVE Consume[d] = Turn(Consume, d)
<1> DEFINE p(n) == CHOOSE f : Parses(f, n)
           g == [e \in Seq(Bytes) |-> p(Len(e))[e]]
<1>1. ASSUME NEW n \in Nat PROVE Parses(p(n), n)
  BY ParserOfAny
<1> HIDE DEF p
<1>2. ASSUME NEW e \in Seq(Bytes) PROVE g[e] = Turn(g, e)
  <2>1. Len(e) \in Nat /\ e \in Short(Len(e))
    BY LenType DEF Short
  <2>2. Parses(p(Len(e)), Len(e))
    BY <1>1, <2>1
  <2>3. p(Len(e))[e] = Turn(p(Len(e)), e)
    BY <2>1, <2>2, Zenon DEF Parses
  <2>4. ASSUME e # <<>>, Taken(e) # 0
        PROVE  p(Len(e))[Without(e, Taken(e))] = g[Without(e, Taken(e))]
    <3> DEFINE r == Without(e, Taken(e))
    <3>1. r \in Seq(Bytes) /\ Len(r) < Len(e) /\ Len(r) \in Nat
      BY <2>4, TurnTakes
    <3> HIDE DEF r
    <3>2. Parses(p(Len(r)), Len(r)) /\ Len(r) <= Len(e) /\ Len(r) <= Len(r)
      BY <1>1, <2>1, <3>1
    <3>3. p(Len(e))[r] = p(Len(r))[r]
      BY <2>1, <2>2, <3>1, <3>2, ParsersAgree
    <3>4. g[r] = p(Len(r))[r]
      BY <3>1
    <3> QED BY <3>3, <3>4 DEF r
  <2>5. g[e] = p(Len(e))[e]
    OBVIOUS
  <2> HIDE DEF g
  <2>6. Turn(p(Len(e)), e) = Turn(g, e)
    BY <2>4, TurnLooks
  <2> QED BY <2>3, <2>5, <2>6
<1>3. g = [e \in Seq(Bytes) |-> Turn(g, e)]
  BY <1>2
<1> HIDE DEF g
<1>4. Consume = CHOOSE f : f = [e \in Seq(Bytes) |-> Turn(f, e)]
  BY Zenon DEF Consume, Turn
<1>5. Consume = [e \in Seq(Bytes) |-> Turn(Consume, e)]
  BY <1>3, <1>4, Zenon
<1> QED BY <1>5, Zenon

(* What the loop returns. *)

Octets == Bytes \cup {"DONT"}
Parsings == [visible : Seq(Octets), responses : Seq(Octets), remaining : Seq(Bytes)]

LEMMA HeadType ==
  ASSUME NEW d \in Seq(Bytes), d # <<>>, Taken(d) # 0
  PROVE  Visible(d) \in Seq(Octets) /\ Response(d) \in Seq(Octets)
<1>1. Len(d) \in Nat /\ Len(d) # 0 /\ \A i \in 1 .. Len(d) : d[i] \in Octets
  BY EmptySeq DEF Octets
<1>2. d[1] \in Octets
  BY <1>1
<1>3. Visible(d) \in Seq(Octets)
  BY <1>2 DEF Visible
<1>4. Response(d) \in Seq(Octets)
  <2>1. CASE d[1] = "IAC" /\ d[2] \in DOMAIN Refusal
    <3>1. Len(d) # 1 /\ d[2] \in {"DO", "WILL"}
      BY <2>1 DEF Taken, Refusal
    <3>2. Len(d) >= 3
      BY <1>1, <2>1, <3>1 DEF Taken
    <3>3. d[3] \in Octets
      BY <1>1, <3>2
    <3>4. Refusal[d[2]] \in Octets /\ "IAC" \in Octets
      BY <3>1 DEF Refusal, Octets, Bytes
    <3>5. Response(d) = <<"IAC", Refusal[d[2]], d[3]>>
      BY <2>1 DEF Response
    <3> QED BY <3>3, <3>4, <3>5
  <2>2. CASE ~(d[1] = "IAC" /\ d[2] \in DOMAIN Refusal)
    BY <2>2 DEF Response
  <2> QED BY <2>1, <2>2
<1> QED BY <1>3, <1>4

LEMMA TurnType ==
  ASSUME NEW f, NEW d \in Seq(Bytes),
         d # <<>> /\ Taken(d) # 0 => f[Without(d, Taken(d))] \in Parsings
  PROVE  Turn(f, d) \in Parsings
<1>1. <<>> \in Seq(Octets)
  OBVIOUS
<1>2. CASE d = <<>> \/ Taken(d) = 0
  BY <1>1, <1>2 DEF Turn, End, Parsings
<1>3. CASE d # <<>> /\ Taken(d) # 0
  <2> DEFINE r == f[Without(d, Taken(d))]
  <2>1. r \in Parsings
    BY <1>3
  <2>2. Turn(f, d) = [visible   |-> Visible(d) \o r.visible,
                      responses |-> Response(d) \o r.responses,
                      remaining |-> r.remaining]
    BY <1>3 DEF Turn
  <2> HIDE DEF r
  <2>3. Visible(d) \in Seq(Octets) /\ Response(d) \in Seq(Octets)
    BY <1>3, HeadType
  <2>4. /\ r.visible \in Seq(Octets) /\ r.responses \in Seq(Octets)
        /\ r.remaining \in Seq(Bytes)
    BY <2>1 DEF Parsings
  <2>5. Visible(d) \o r.visible \in Seq(Octets) /\ Response(d) \o r.responses \in Seq(Octets)
    BY <2>3, <2>4, ConcatProperties
  <2> QED BY <2>2, <2>4, <2>5 DEF Parsings
<1> QED BY <1>2, <1>3

LEMMA ConsumeType == ASSUME NEW d \in Seq(Bytes) PROVE Consume[d] \in Parsings
<1> DEFINE Bad == {e \in Seq(Bytes) : Consume[e] \notin Parsings}
           T == {Len(e) : e \in Bad}
<1>1. SUFFICES ASSUME Bad # {} PROVE FALSE
  OBVIOUS
<1>2. T \in SUBSET Nat /\ T # {}
  BY <1>1, LenType
<1>3. PICK w \in T : \A v \in T : w <= v
  BY <1>2, LeastNat
<1>4. PICK e \in Bad : w = Len(e)
  BY <1>3
<1>5. e \in Seq(Bytes) /\ Consume[e] \notin Parsings /\ Len(e) \in Nat
  BY <1>4, LenType
<1>6. ASSUME e # <<>>, Taken(e) # 0
      PROVE  Consume[Without(e, Taken(e))] \in Parsings
  <2> DEFINE r == Without(e, Taken(e))
  <2>1. r \in Seq(Bytes) /\ Len(r) < Len(e) /\ Len(r) \in Nat
    BY <1>5, <1>6, TurnTakes
  <2> HIDE DEF r
  <2>2. r \notin Bad
    BY <1>3, <1>4, <1>5, <2>1
  <2>3. Consume[r] \in Parsings
    BY <2>1, <2>2
  <2> QED BY <2>3 DEF r
<1>7. Turn(Consume, e) \in Parsings
  BY <1>5, <1>6, TurnType
<1> QED BY <1>5, <1>7, ConsumeTurns

----------------------------------------------------------------------------
(* Reads of any length are read alike. *)

\* At the end of the loop the rest is what the next read begins with.
LEMMA EndReadsAlike ==
  ASSUME NEW s \in Seq(Bytes), NEW t \in Seq(Bytes), s = <<>> \/ Taken(s) = 0
  PROVE  ReadAlike(s, t)
<1>1. s \o t \in Seq(Bytes) /\ <<>> \o (s \o t) = s \o t /\ <<>> \o s = s
  BY ConcatProperties, ConcatEmptySeq
<1>2. Consume[s] = End(s)
  BY ConsumeTurns DEF Turn
<1>3. Consume[s \o t] \in Parsings
  BY <1>1, ConsumeType
<1> DEFINE whole == Consume[s \o t]
<1>4. <<>> \o whole.visible = whole.visible /\ <<>> \o whole.responses = whole.responses
  BY <1>3, ConcatEmptySeq DEF Parsings
<1>5. /\ ConsumeProtocol(<<>>, s \o t) = whole /\ ConsumeProtocol(<<>>, s) = End(s)
      /\ End(s).remaining = s /\ End(s).visible = <<>> /\ End(s).responses = <<>>
      /\ ConsumeProtocol(s, t) = whole
  BY <1>1, <1>2 DEF ConsumeProtocol, End
<1> HIDE DEF whole
<1> QED BY <1>4, <1>5, Zenon DEF ReadAlike

LEMMA Regroup ==
  ASSUME NEW a \in Seq(Octets), NEW b \in Seq(Octets), NEW c \in Seq(Octets)
  PROVE  a \o (b \o c) = (a \o b) \o c
BY ConcatAssociative

LEMMA ConsumeOn ==
  ASSUME NEW d \in Seq(Bytes), d # <<>>, Taken(d) # 0, NEW r, r = Without(d, Taken(d))
  PROVE  /\ Consume[d].visible = Visible(d) \o Consume[r].visible
         /\ Consume[d].responses = Response(d) \o Consume[r].responses
         /\ Consume[d].remaining = Consume[r].remaining
<1>1. Consume[d] = [visible   |-> Visible(d) \o Consume[r].visible,
                    responses |-> Response(d) \o Consume[r].responses,
                    remaining |-> Consume[r].remaining]
  BY ConsumeTurns DEF Turn
<1> QED BY <1>1

\* A turn of the loop that can be taken is the same with what comes later.
LEMMA TurnReadsAlike ==
  ASSUME NEW s \in Seq(Bytes), NEW t \in Seq(Bytes), s # <<>>, Taken(s) # 0,
         ReadAlike(Without(s, Taken(s)), t)
  PROVE  ReadAlike(s, t)
<1> DEFINE u == s \o t
           q == Without(s, Taken(s))
           v == q \o t
<1>1. /\ u \in Seq(Bytes) /\ Len(u) = Len(s) + Len(t) /\ Len(s) \in Nat /\ Len(t) \in Nat
      /\ Joins(u, s, t)
  BY ConcatProperties DEF Joins
<1>2. Len(s) # 0 /\ Taken(s) \in Nat /\ Taken(s) <= Len(s)
  BY TakenType, EmptySeq
<1>3. u # <<>>
  BY <1>1, <1>2
<1>4. Taken(u) = Taken(s) /\ Visible(u) = Visible(s) /\ Response(u) = Response(s)
  BY <1>1, TurnStays
<1>5. q \in Seq(Bytes) /\ q = Rest(s, Taken(s))
  BY TurnTakes
<1>6. Without(u, Taken(u)) = v
  <2>1. Joins(Rest(u, Taken(s)), Rest(s, Taken(s)), t)
    BY <1>1, <1>2, RestOfJoin
  <2> QED BY <1>4, <1>5, <2>1 DEF Joins, Without, Rest
<1>7. v \in Seq(Bytes) /\ <<>> \o v = v /\ <<>> \o q = q /\ <<>> \o u = u /\ <<>> \o s = s
  BY <1>1, <1>5, ConcatProperties, ConcatEmptySeq
<1> DEFINE whole == Consume[u]
           later == Consume[v]
           before == Consume[s]
           rest == Consume[q]
           after == Consume[rest.remaining \o t]
<1>8. /\ later \in Parsings /\ rest \in Parsings /\ after \in Parsings
  <2>1. later \in Parsings /\ rest \in Parsings
    BY <1>5, <1>7, ConsumeType
  <2>2. rest.remaining \in Seq(Bytes)
    BY <2>1 DEF Parsings
  <2> HIDE DEF rest
  <2>3. rest.remaining \o t \in Seq(Bytes)
    BY <2>2, ConcatProperties
  <2> QED BY <2>1, <2>3, ConsumeType
<1>9. /\ later.visible = rest.visible \o after.visible
      /\ later.responses = rest.responses \o after.responses
      /\ later.remaining = after.remaining
  BY <1>7 DEF ReadAlike, ConsumeProtocol
<1>10. /\ whole.visible = Visible(s) \o later.visible
       /\ whole.responses = Response(s) \o later.responses
       /\ whole.remaining = later.remaining
  <2>1. Taken(u) # 0
    BY <1>4
  <2>2. u \in Seq(Bytes) /\ v = Without(u, Taken(u))
    BY <1>1, <1>6
  <2> HIDE DEF u, v, q
  <2>3. /\ Consume[u].visible = Visible(u) \o Consume[v].visible
        /\ Consume[u].responses = Response(u) \o Consume[v].responses
        /\ Consume[u].remaining = Consume[v].remaining
    BY <1>3, <2>1, <2>2, ConsumeOn
  <2> QED BY <1>4, <2>3
<1>11. /\ before.visible = Visible(s) \o rest.visible
       /\ before.responses = Response(s) \o rest.responses
       /\ before.remaining = rest.remaining
  BY ConsumeOn
<1>12. Visible(s) \in Seq(Octets) /\ Response(s) \in Seq(Octets)
  BY HeadType
<1>13. /\ ConsumeProtocol(<<>>, s \o t) = whole /\ ConsumeProtocol(<<>>, s) = before
       /\ ConsumeProtocol(before.remaining, t) = after
  BY <1>7, <1>11 DEF ConsumeProtocol
<1> HIDE DEF whole, later, before, rest, after, u, v, q
<1>14. /\ Visible(s) \o (rest.visible \o after.visible)
            = (Visible(s) \o rest.visible) \o after.visible
       /\ Response(s) \o (rest.responses \o after.responses)
            = (Response(s) \o rest.responses) \o after.responses
  <2>1. /\ rest.visible \in Seq(Octets) /\ rest.responses \in Seq(Octets)
        /\ after.visible \in Seq(Octets) /\ after.responses \in Seq(Octets)
    BY <1>8 DEF Parsings
  <2>2. Visible(s) \o (rest.visible \o after.visible)
          = (Visible(s) \o rest.visible) \o after.visible
    BY <1>12, <2>1, Regroup
  <2>3. Response(s) \o (rest.responses \o after.responses)
          = (Response(s) \o rest.responses) \o after.responses
    BY <1>12, <2>1, Regroup
  <2> QED BY <2>2, <2>3
<1>15. /\ whole.visible = before.visible \o after.visible
       /\ whole.responses = before.responses \o after.responses
       /\ whole.remaining = after.remaining
  BY <1>9, <1>10, <1>11, <1>14, Zenon
<1> QED BY <1>13, <1>15, Zenon DEF ReadAlike

\* A Telnet stream shows the same text, is given the same answers and leaves the
\* same unfinished command when it is read in two portions as when it is read in
\* one, whatever it holds and wherever it is cut (consume_telnet_bytes and
\* _consume_protocol).
THEOREM AnyReadsAlike == \A first, second \in Seq(Bytes) : ReadAlike(first, second)
<1> SUFFICES ASSUME NEW t \in Seq(Bytes) PROVE \A s \in Seq(Bytes) : ReadAlike(s, t)
  OBVIOUS
<1> DEFINE Bad == {s \in Seq(Bytes) : ~ReadAlike(s, t)}
           T == {Len(s) : s \in Bad}
<1>1. SUFFICES ASSUME Bad # {} PROVE FALSE
  OBVIOUS
<1>2. T \in SUBSET Nat /\ T # {}
  BY <1>1, LenType
<1>3. PICK w \in T : \A v \in T : w <= v
  BY <1>2, LeastNat
<1>4. PICK s \in Bad : w = Len(s)
  BY <1>3
<1>5. s \in Seq(Bytes) /\ ~ReadAlike(s, t) /\ Len(s) \in Nat
  BY <1>4, LenType
<1>6. s # <<>> /\ Taken(s) # 0
  BY <1>5, EndReadsAlike
<1> DEFINE r == Without(s, Taken(s))
<1>7. r \in Seq(Bytes) /\ Len(r) < Len(s) /\ Len(r) \in Nat
  BY <1>5, <1>6, TurnTakes
<1>8. ~ReadAlike(r, t)
  BY <1>5, <1>6, TurnReadsAlike
<1> HIDE DEF r
<1>9. r \in Bad
  BY <1>7, <1>8
<1> QED BY <1>3, <1>4, <1>7, <1>9

LEMMA CutsNeverMatter == CutsDoNotMatter
<1> SUFFICES ASSUME NEW n \in 0 .. MaxBytes, NEW data \in [1 .. n -> Bytes], NEW cut \in 0 .. n
             PROVE  ReadAlike(SubSeq(data, 1, cut), SubSeq(data, cut + 1, n))
  BY DEF CutsDoNotMatter
<1>1. n \in Nat /\ cut \in Nat /\ cut <= n /\ \A i \in 1 .. n : data[i] \in Bytes
  BY TelnetAssumption
<1>2. SubSeq(data, 1, cut) \in Seq(Bytes)
  BY <1>1, SubSeqProperties
<1>3. SubSeq(data, cut + 1, n) \in Seq(Bytes)
  BY <1>1, SubSeqProperties
<1> QED BY <1>2, <1>3, AnyReadsAlike

\* What a session has shown, answered and kept after each of n reads.
ReadInTurn(n, chunk, all, shown, answered, kept) ==
    /\ all[0] = <<>> /\ shown[0] = <<>> /\ answered[0] = <<>> /\ kept[0] = <<>>
    /\ \A k \in 1 .. n :
          /\ all[k] = all[k - 1] \o chunk[k]
          /\ shown[k] = shown[k - 1] \o ConsumeProtocol(kept[k - 1], chunk[k]).visible
          /\ answered[k] = answered[k - 1] \o ConsumeProtocol(kept[k - 1], chunk[k]).responses
          /\ kept[k] = ConsumeProtocol(kept[k - 1], chunk[k]).remaining

ReadSoFar(all, shown, answered, kept, k) ==
    /\ all[k] \in Seq(Bytes)
    /\ shown[k] = Consume[all[k]].visible
    /\ answered[k] = Consume[all[k]].responses
    /\ kept[k] = Consume[all[k]].remaining

LEMMA ReadsStart ==
  ASSUME NEW n, NEW chunk, NEW all, NEW shown, NEW answered, NEW kept,
         ReadInTurn(n, chunk, all, shown, answered, kept)
  PROVE  ReadSoFar(all, shown, answered, kept, 0)
<1>1. <<>> \in Seq(Bytes)
  OBVIOUS
<1>2. Consume[<<>>] = End(<<>>)
  BY <1>1, ConsumeTurns DEF Turn
<1> QED BY <1>1, <1>2 DEF ReadInTurn, ReadSoFar, End

\* A read of c, with b kept from a, adds to what a has given what is missing.
AddsUp(a, b, c) ==
    /\ Consume[a].visible \o ConsumeProtocol(b, c).visible = Consume[a \o c].visible
    /\ Consume[a].responses \o ConsumeProtocol(b, c).responses = Consume[a \o c].responses
    /\ ConsumeProtocol(b, c).remaining = Consume[a \o c].remaining

LEMMA NextRead ==
  ASSUME NEW a \in Seq(Bytes), NEW c \in Seq(Bytes)
  PROVE  a \o c \in Seq(Bytes) /\ AddsUp(a, Consume[a].remaining, c)
<1>1. a \o c \in Seq(Bytes) /\ <<>> \o (a \o c) = a \o c /\ <<>> \o a = a
  BY ConcatProperties, ConcatEmptySeq
<1>2. ConsumeProtocol(<<>>, a \o c) = Consume[a \o c] /\ ConsumeProtocol(<<>>, a) = Consume[a]
  BY <1>1 DEF ConsumeProtocol
<1>3. ReadAlike(a, c)
  BY AnyReadsAlike
<1> QED BY <1>1, <1>2, <1>3, Zenon DEF ReadAlike, AddsUp

\* The same for any number of reads, one after the other: after each of them the
\* session has shown, answered and kept what one read of everything would have
\* (_consume_protocol keeps the unfinished command between its calls).
THEOREM ManyReadsAlike ==
  ASSUME NEW n \in Nat, NEW chunk \in [1 .. n -> Seq(Bytes)],
         NEW all, NEW shown, NEW answered, NEW kept,
         ReadInTurn(n, chunk, all, shown, answered, kept)
  PROVE  \A k \in 0 .. n : ReadSoFar(all, shown, answered, kept, k)
<1> DEFINE T == {k \in 0 .. n : ~ReadSoFar(all, shown, answered, kept, k)}
<1>1. SUFFICES ASSUME T # {} PROVE FALSE
  OBVIOUS
<1>2. T \in SUBSET Nat
  OBVIOUS
<1>3. PICK w \in T : \A v \in T : w <= v
  BY <1>1, <1>2, LeastNat
<1>4. w \in 1 .. n /\ ~ReadSoFar(all, shown, answered, kept, w)
  <2>1. w # 0
    BY ReadsStart
  <2> QED BY <2>1
<1>5. w - 1 \in 0 .. n /\ w - 1 \notin T
  BY <1>3, <1>4
<1>6. ReadSoFar(all, shown, answered, kept, w - 1)
  BY <1>5
<1>7. chunk[w] \in Seq(Bytes)
  BY <1>4
<1> DEFINE a == all[w - 1]
           b == kept[w - 1]
           c == chunk[w]
<1>8. /\ a \in Seq(Bytes) /\ b = Consume[a].remaining
      /\ shown[w - 1] = Consume[a].visible /\ answered[w - 1] = Consume[a].responses
  BY <1>6 DEF ReadSoFar
<1>9. /\ all[w] = a \o c
      /\ shown[w] = shown[w - 1] \o ConsumeProtocol(b, c).visible
      /\ answered[w] = answered[w - 1] \o ConsumeProtocol(b, c).responses
      /\ kept[w] = ConsumeProtocol(b, c).remaining
  BY <1>4, Zenon DEF ReadInTurn
<1>10. c \in Seq(Bytes)
  BY <1>7
<1> HIDE DEF a, b, c
<1>11. a \o c \in Seq(Bytes) /\ AddsUp(a, b, c)
  BY <1>8, <1>10, NextRead
<1>12. ReadSoFar(all, shown, answered, kept, w)
  <2>1. all[w] = a \o c /\ all[w] \in Seq(Bytes)
    BY <1>9, <1>11, Zenon
  <2>2. shown[w] = Consume[all[w]].visible
    BY <1>8, <1>9, <1>11, <2>1, Zenon DEF AddsUp
  <2>3. answered[w] = Consume[all[w]].responses
    BY <1>8, <1>9, <1>11, <2>1, Zenon DEF AddsUp
  <2>4. kept[w] = Consume[all[w]].remaining
    BY <1>9, <1>11, <2>1, Zenon DEF AddsUp
  <2> QED BY <2>1, <2>2, <2>3, <2>4 DEF ReadSoFar
<1> QED BY <1>4, <1>12

\* And so in every state of a Telnet session.
THEOREM TelnetAlike == SmokeSpec => []TelnetReadsAlike
<1>1. TelnetReadsAlike
  BY CutsNeverMatter DEF TelnetReadsAlike
<1> QED BY <1>1, PTL

============================================================================
