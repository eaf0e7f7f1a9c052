------------------------- MODULE CliSession_proofs -------------------------
(***************************************************************************)
(* Proofs about CliSession: what a run may leave open, how often it may    *)
(* have a password refused, and that every command gets its own output and *)
(* everything typed is what the device asks for, for any number of         *)
(* commands and attempts, any scripts and any way of cutting the output    *)
(* into chunks.                                                            *)
(***************************************************************************)
EXTENDS CliSession, SequenceTheorems, FiniteSetTheorems, WellFoundedInduction, TLAPS

\* Where the client has a connection that it uses.
Using == {"hello", "read", "judge", "ready"}

Idle   == opened = forgotten /\ channel = FALSE
Active == opened = 1 + forgotten /\ channel = TRUE

\* What is open at each place of the client.
OpenInv ==
    /\ opened \in Nat /\ forgotten \in {0, 1}
    /\ forgotten = 1 => kind = "ssh"
    /\ pc \in Using \cup {"connect", "except", "close", "done"}
    /\ pc = "connect" => opened = forgotten /\ Connecting /\ (~Ssh => channel = FALSE)
    /\ pc \in Using => Active
    /\ pc = "except" => IF Ssh /\ Connecting THEN opened = 1 + forgotten ELSE Idle \/ Active
    /\ pc = "close" => Idle \/ Active
    /\ pc = "done" => /\ opened <= 1 + forgotten
                      /\ opened = forgotten \/ (Ssh /\ raised)

LEMMA OpenInit == Init => OpenInv
BY DEF Init, OpenInv, Using, Connecting, Ssh, Idle, Active

\* Steps that neither open nor close anything and stay in Using.
LEMMA OpenUsing ==
    ASSUME OpenInv, pc \in Using, pc' \in Using, UNCHANGED <<kind, handles>>
    PROVE  OpenInv'
BY DEF OpenInv, Using, Active, Idle, handles, Ssh

LEMMA OpenRaise ==
    ASSUME OpenInv, pc \in Using, NEW e, Raise(e)
    PROVE  OpenInv'
BY DEF OpenInv, Using, Active, Idle, Raise, handles, env, Ssh

LEMMA OpenLoop == ASSUME OpenInv, Loop PROVE OpenInv'
<1>1. CASE Chunk
  <2>1. pc \in Using /\ pc' \in Using /\ UNCHANGED <<kind, handles>>
    BY <1>1 DEF Chunk, Using, env
  <2> QED BY <2>1, OpenUsing
<1>2. CASE ContinuePager
  <2>1. pc \in Using /\ pc' \in Using /\ UNCHANGED <<kind, handles>>
    BY <1>2 DEF ContinuePager, Using, env, client
  <2> QED BY <2>1, OpenUsing
<1>3. CASE KeepReading
  <2>1. pc \in Using /\ pc' \in Using /\ UNCHANGED <<kind, handles>>
    BY <1>3 DEF KeepReading, Returns, Using, env
  <2> QED BY <2>1, OpenUsing
<1>4. CASE PagerUnfinished
  BY <1>4, OpenRaise DEF PagerUnfinished, Using
<1>5. CASE DeadlinePasses
  BY <1>5, OpenRaise DEF DeadlinePasses, Using
<1>6. CASE ChannelClosed
  BY <1>6, OpenRaise DEF ChannelClosed, Using
<1> QED BY <1>1, <1>2, <1>3, <1>4, <1>5, <1>6 DEF Loop

LEMMA OpenConnect ==
    ASSUME OpenInv, SshConnect \/ SerialConnect \/ TelnetConnect
    PROVE  OpenInv'
<1>1. pc \in Using /\ pc' \in Using /\ UNCHANGED <<kind, handles>>
  <2>1. CASE Hello
    BY <2>1 DEF Hello, StartReading, Using, env
  <2>2. CASE SendUsername
    BY <2>2 DEF SendUsername, Returns, StartReading, Using, env
  <2>3. CASE SendPassword
    BY <2>3 DEF SendPassword, Returns, StartReading, Using, env
  <2>4. CASE PromptEstablished
    BY <2>4 DEF PromptEstablished, Returns, Using, env
  <2> QED BY <2>1, <2>2, <2>3, <2>4 DEF SshConnect, SerialConnect, TelnetConnect
<1> QED BY <1>1, OpenUsing

LEMMA OpenRunCommand == ASSUME OpenInv, RunCommand PROVE OpenInv'
<1>1. pc \in Using /\ pc' \in Using /\ UNCHANGED <<kind, handles>>
  <2>1. CASE SendCommand
    BY <2>1 DEF SendCommand, StartReading, Using, env
  <2>2. CASE Confirm
    BY <2>2 DEF Confirm, Returns, StartReading, Using, env
  <2>3. CASE Answered
    BY <2>3 DEF Answered, Returns, Using, env
  <2> QED BY <2>1, <2>2, <2>3 DEF RunCommand
<1> QED BY <1>1, OpenUsing

LEMMA OpenStep == ASSUME OpenInv, Next PROVE OpenInv'
<1>1. CASE SshOpens
  <2>1. pc = "connect" /\ pc' = "hello" /\ opened' = opened + 1 /\ channel' = TRUE
    BY <1>1 DEF SshOpens, Opens
  <2>2. UNCHANGED <<kind, forgotten>>
    BY <1>1 DEF SshOpens, Opens, env
  <2> QED BY <2>1, <2>2 DEF OpenInv, Using, Active
<1>2. CASE SshUnreachable \/ SshRejected
  <2>1. pc = "connect" /\ Ssh /\ opened' = opened + 1 /\ pc' = "except" /\ goal' = goal
    BY <1>2 DEF SshUnreachable, SshRejected, SshRefused
  <2>2. UNCHANGED <<kind, forgotten>>
    BY <1>2 DEF SshUnreachable, SshRejected, SshRefused, env
  <2> QED BY <2>1, <2>2 DEF OpenInv, Using, Connecting, Ssh
<1>3. CASE SerialOpens
  BY <1>3 DEF SerialOpens, Opens, OpenInv, Using, Active, Idle, env, Ssh
<1>4. CASE TelnetOpens
  BY <1>4 DEF TelnetOpens, Opens, StartReading, OpenInv, Using, Active, Idle, env, Ssh
<1>5. CASE OpenFails
  BY <1>5 DEF OpenFails, Raise, OpenInv, Using, Active, Idle, env, handles, Ssh
<1>6. CASE SshConnect \/ SerialConnect \/ TelnetConnect
  BY <1>6, OpenConnect
<1>7. CASE SshAttemptFails
  BY <1>7 DEF SshAttemptFails, OpenInv, Using, Active, Idle, env, Connecting, Ssh
<1>8. CASE TelnetConnectFails
  BY <1>8 DEF TelnetConnectFails, OpenInv, Using, Active, Idle, env, Ssh
<1>9. CASE SerialConnectFails
  BY <1>9 DEF SerialConnectFails, OpenInv, Using, Active, Idle, env, handles, Ssh
<1>10. CASE SshReadUntilReady \/ SerialReadUntilReady \/ TelnetReadUntilReady
  BY <1>10, OpenLoop DEF SshReadUntilReady, SerialReadUntilReady, TelnetReadUntilReady
<1>11. CASE SshRunCommand \/ SerialRunCommand \/ TelnetRunCommand
  BY <1>11, OpenRunCommand DEF SshRunCommand, SerialRunCommand, TelnetRunCommand
<1>12. CASE SshReconnects
  BY <1>12 DEF SshReconnects, OpenInv, Using, Active, Idle, env, Connecting, Ssh
<1>13. CASE Finally
  BY <1>13 DEF Finally, OpenInv, Using, Active, Idle, env, handles, Ssh
<1>14. CASE SshClose
  BY <1>14 DEF SshClose, Closes, OpenInv, Using, Active, Idle, env, Ssh
<1>15. CASE SerialClose
  BY <1>15 DEF SerialClose, Closes, OpenInv, Using, Active, Idle, env, Ssh
<1>16. CASE TelnetClose
  BY <1>16 DEF TelnetClose, Closes, OpenInv, Using, Active, Idle, env, Ssh
<1>17. CASE LoseConnection
  BY <1>17 DEF LoseConnection, OpenInv, Using, Active, Idle, env, client, Ssh, Connecting
<1> QED
  BY <1>1, <1>2, <1>3, <1>4, <1>5, <1>6, <1>7, <1>8, <1>9, <1>10, <1>11, <1>12, <1>13,
     <1>14, <1>15, <1>16, <1>17
     DEF Next, SshRunCommands, SerialRunCommands, TelnetRunCommands

LEMMA OpenStutter == ASSUME OpenInv, UNCHANGED vars PROVE OpenInv'
BY DEF OpenInv, vars, env, client, handles, Using, Active, Idle, Ssh, Connecting

\* Whatever fails, a run holds one connection at a time and none at its end;
\* only a logout that raises and a client lost before the first command leave
\* theirs open (connect, run_commands and close of the three transports).
THEOREM NothingIsLeft == Spec => []NothingLeftOpen
<1>1. OpenInv => NothingLeftOpen
  BY DEF OpenInv, NothingLeftOpen, Using, Active, Idle
<1> QED BY <1>1, OpenInit, OpenStep, OpenStutter, PTL DEF Spec

----------------------------------------------------------------------------
(* Refused passwords *)

\* Where a password may have been refused: over SSH, only behind an error that
\* is not retried; elsewhere, only behind the one password of the login.
RefusedInv ==
    /\ refused \in {0, 1}
    /\ Ssh /\ refused = 1 =>
           \/ pc = "except" /\ goal = "banner" /\ error = "fatal"
           \/ pc \in {"close", "done"}
    /\ ~Ssh /\ goal \in {"banner", "username"} => refused = 0
    /\ pc \in {"connect", "hello"} => goal = "banner"
    /\ ~Ssh \/ goal \notin {"username", "password"}

LEMMA RefusedInit == Init => RefusedInv
BY DEF Init, RefusedInv, Ssh

\* Only a password can be refused.
LEMMA TypedNoPassword ==
    ASSUME NEW what, what # "password", Type(what), refused \in {0, 1}
    PROVE  refused' = refused
BY DEF Type

LEMMA TypedPassword ==
    ASSUME refused = 0, Type("password")
    PROVE  refused' \in {0, 1}
BY DEF Type

\* Steps behind which nothing that RefusedInv speaks of is different.
LEMMA RefusedSame ==
    ASSUME RefusedInv, UNCHANGED <<kind, refused, goal>>,
           pc \in Using, pc' \notin {"connect", "hello"}
    PROVE  RefusedInv'
BY DEF RefusedInv, Using, Ssh

LEMMA RefusedLoop == ASSUME RefusedInv, Loop PROVE RefusedInv'
<1>1. UNCHANGED <<kind, refused, goal>> /\ pc \in Using /\ pc' \notin {"connect", "hello"}
  <2>1. CASE Chunk
    BY <2>1 DEF Chunk, Using, env
  <2>2. CASE ContinuePager
    <3>1. Type("c") /\ refused \in {0, 1}
      BY <2>2 DEF ContinuePager, RefusedInv
    <3>2. refused' = refused
      BY <3>1, TypedNoPassword
    <3> QED BY <2>2, <3>2 DEF ContinuePager, Using, env, client
  <2>3. CASE KeepReading
    BY <2>3 DEF KeepReading, Returns, Using, env, device
  <2>4. CASE PagerUnfinished \/ DeadlinePasses \/ ChannelClosed
    BY <2>4 DEF PagerUnfinished, DeadlinePasses, ChannelClosed, Raise, Using, env, device
  <2> QED BY <2>1, <2>2, <2>3, <2>4 DEF Loop
<1> QED BY <1>1, RefusedSame

LEMMA RefusedHello == ASSUME RefusedInv, Hello PROVE RefusedInv'
<1>1. refused' = refused
  BY TypedNoPassword DEF Hello, RefusedInv
<1>2. goal' = goal /\ pc' = "read" /\ pc = "hello" /\ kind' = kind
  BY DEF Hello, StartReading, RefusedInv, env
<1> QED BY <1>1, <1>2 DEF RefusedInv, Ssh

LEMMA RefusedUsername == ASSUME RefusedInv, ~Ssh, SendUsername PROVE RefusedInv'
<1>1. refused' = refused
  BY TypedNoPassword DEF SendUsername, RefusedInv
<1>2. goal' = "username" /\ pc' = "read" /\ kind' = kind
  BY DEF SendUsername, StartReading, env
<1>3. goal = "banner"
  BY DEF SendUsername, Returns, StopSeen
<1> QED BY <1>1, <1>2, <1>3 DEF RefusedInv, Ssh

LEMMA RefusedPassword == ASSUME RefusedInv, ~Ssh, SendPassword PROVE RefusedInv'
<1>1. goal \in {"banner", "username"}
  BY DEF SendPassword, Returns, StopSeen
<1>2. refused = 0
  BY <1>1 DEF RefusedInv
<1>3. refused' \in {0, 1}
  BY <1>2, TypedPassword DEF SendPassword
<1>4. goal' = "password" /\ pc' = "read" /\ kind' = kind
  BY DEF SendPassword, StartReading, env
<1> QED BY <1>3, <1>4 DEF RefusedInv, Ssh

LEMMA RefusedPrompt == ASSUME RefusedInv, PromptEstablished PROVE RefusedInv'
BY RefusedSame DEF PromptEstablished, Returns, Using, env, device

LEMMA RefusedRunCommand == ASSUME RefusedInv, RunCommand PROVE RefusedInv'
<1>1. refused' = refused
  <2>1. CASE SendCommand
    BY <2>1, TypedNoPassword DEF SendCommand, RefusedInv
  <2>2. CASE Confirm
    BY <2>2, TypedNoPassword DEF Confirm, RefusedInv
  <2>3. CASE Answered
    BY <2>3 DEF Answered, device
  <2> QED BY <2>1, <2>2, <2>3 DEF RunCommand
<1>2. kind' = kind /\ pc \in Using /\ pc' \in {"read", "ready"}
  BY DEF RunCommand, SendCommand, Confirm, Answered, Returns, StartReading, Using, env
<1>3. goal' \in {"command", "confirmed"} \/ goal' = goal
  BY DEF RunCommand, SendCommand, Confirm, Answered, StartReading
<1> QED BY <1>1, <1>2, <1>3 DEF RefusedInv, Using, Ssh

LEMMA RefusedOpens ==
    ASSUME RefusedInv, SshOpens \/ SerialOpens \/ TelnetOpens
    PROVE  RefusedInv'
<1>1. refused' = refused /\ kind' = kind /\ pc = "connect" /\ pc' \in {"hello", "read"}
  BY DEF SshOpens, SerialOpens, TelnetOpens, Opens, Greets, StartReading, env
<1>2. goal' = "banner" /\ goal = "banner"
  BY DEF SshOpens, SerialOpens, TelnetOpens, Opens, StartReading, RefusedInv
<1> QED BY <1>1, <1>2 DEF RefusedInv, Ssh

LEMMA RefusedStep == ASSUME RefusedInv, Next PROVE RefusedInv'
<1>1. CASE SshOpens \/ SerialOpens \/ TelnetOpens
  BY <1>1, RefusedOpens
<1>2. CASE SshUnreachable
  BY <1>2 DEF SshUnreachable, SshRefused, RefusedInv, env, Ssh
<1>3. CASE SshRejected
  <2>1. refused' = refused + 1 /\ pc = "connect" /\ Ssh /\ kind' = kind
    BY <1>3 DEF SshRejected, SshRefused, env
  <2>2. pc' = "except" /\ error' = "fatal" /\ goal' = goal
    BY <1>3 DEF SshRejected, SshRefused
  <2> QED BY <2>1, <2>2 DEF RefusedInv, Ssh
<1>4. CASE OpenFails
  BY <1>4 DEF OpenFails, Raise, RefusedInv, env, device, Ssh
<1>5. CASE SshConnect \/ SerialConnect \/ TelnetConnect
  BY <1>5, RefusedHello, RefusedUsername, RefusedPassword, RefusedPrompt
     DEF SshConnect, SerialConnect, TelnetConnect, Ssh
<1>6. CASE SshAttemptFails
  <2>1. pc = "except" /\ Ssh /\ kind' = kind /\ refused' = refused /\ goal' = "banner"
    BY <1>6 DEF SshAttemptFails, env, device
  <2>2. pc' = "close" \/ (pc' = "connect" /\ error = "retryable")
    BY <1>6 DEF SshAttemptFails
  <2> QED BY <2>1, <2>2 DEF RefusedInv, Ssh
<1>7. CASE TelnetConnectFails \/ SerialConnectFails
  BY <1>7 DEF TelnetConnectFails, SerialConnectFails, RefusedInv, env, device, Ssh
<1>8. CASE SshReadUntilReady \/ SerialReadUntilReady \/ TelnetReadUntilReady
  BY <1>8, RefusedLoop DEF SshReadUntilReady, SerialReadUntilReady, TelnetReadUntilReady
<1>9. CASE SshRunCommand \/ SerialRunCommand \/ TelnetRunCommand
  BY <1>9, RefusedRunCommand DEF SshRunCommand, SerialRunCommand, TelnetRunCommand
<1>10. CASE SshReconnects
  BY <1>10 DEF SshReconnects, RefusedInv, Connecting, env, device, Ssh
<1>11. CASE Finally
  BY <1>11 DEF Finally, RefusedInv, env, device, Ssh
<1>12. CASE SshClose \/ SerialClose \/ TelnetClose
  BY <1>12 DEF SshClose, SerialClose, TelnetClose, Closes, RefusedInv, env, device, Ssh
<1>13. CASE LoseConnection
  BY <1>13 DEF LoseConnection, RefusedInv, env, client, device, Ssh
<1> QED
  BY <1>1, <1>2, <1>3, <1>4, <1>5, <1>6, <1>7, <1>8, <1>9, <1>10, <1>11, <1>12, <1>13
     DEF Next, SshRunCommands, SerialRunCommands, TelnetRunCommands

LEMMA RefusedStutter == ASSUME RefusedInv, UNCHANGED vars PROVE RefusedInv'
BY DEF RefusedInv, vars, env, client, device, Ssh

\* A run has at most one password refused: an SSH connect does not retry an
\* authentication error, and the login dialogues of serial and Telnet type the
\* password once (connect of the three transports).
THEOREM OneRefusal == Spec => []RefusedOnce
<1>1. RefusedInv => RefusedOnce
  BY DEF RefusedInv, RefusedOnce
<1> QED BY <1>1, RefusedInit, RefusedStep, RefusedStutter, PTL DEF Spec

----------------------------------------------------------------------------
(* Types *)

\* What a script is made of.
Chars == {"text", "pager", "confirm", "lookalike", "mention"}

LEMMA ScriptTypes ==
  ASSUME TypeOK
  PROVE  /\ \A c \in 1 .. Commands : script[c] \in Seq(Chars)
         /\ left \in Seq(Chars)
  BY CliAssumption DEF TypeOK, Chars

LEMMA LineType ==
  ASSUME NEW c \in 0 .. Commands + 1, NEW k \in Chars \cup {"echo"}
  PROVE  Line(k, c) \in Tokens /\ Line(k, c).k = k /\ Line(k, c).of = c
  BY DEF Line, Tokens, Chars

LEMMA PromptType == Token("prompt") \in Tokens /\ Token("prompt").k = "prompt"
  BY CliAssumption DEF Token, Tokens

LEMMA LeastNat ==
  ASSUME NEW T \in SUBSET Nat, T # {}
  PROVE  \E w \in T : \A v \in T : w <= v
<1>1. PICK w \in T : \A v \in T : <<v, w>> \notin OpToRel(<, Nat)
  BY WFMin, NatLessThanWellFounded
<1>2. \A v \in T : ~(v < w)
  BY <1>1 DEF OpToRel
<1> QED BY <1>2

\* What the device prints of a script: all of it and its prompt, or the part
\* up to and including the first place where it waits.
LEMMA PrintsShape ==
  ASSUME NEW s \in Seq(Chars), NEW c \in 0 .. Commands + 1
  PROVE  /\ Prints(s, c) \in Seq(Tokens)
         /\ Waits(s) = {} =>
              /\ Len(Prints(s, c)) = Len(s) + 1
              /\ \A i \in 1 .. Len(s) : Prints(s, c)[i] = Line(s[i], c)
              /\ Prints(s, c)[Len(s) + 1] = Token("prompt")
         /\ Waits(s) # {} =>
              /\ Len(Prints(s, c)) \in Waits(s)
              /\ \A v \in Waits(s) : Len(Prints(s, c)) <= v
              /\ \A i \in 1 .. Len(Prints(s, c)) : Prints(s, c)[i] = Line(s[i], c)
<1>1. CASE Waits(s) = {}
  <2> DEFINE t == [i \in DOMAIN s |-> Line(s[i], c)]
  <2>1. /\ t \in Seq(Tokens) /\ Len(t) = Len(s)
        /\ \A i \in 1 .. Len(s) : t[i] = Line(s[i], c)
    BY LineType DEF Chars
  <2>2. /\ <<Token("prompt")>> \in Seq(Tokens) /\ Len(<<Token("prompt")>>) = 1
        /\ <<Token("prompt")>>[1] = Token("prompt")
    BY PromptType
  <2>3. Prints(s, c) = t \o <<Token("prompt")>>
    BY <1>1 DEF Prints
  <2> HIDE DEF t
  <2> QED BY <1>1, <2>1, <2>2, <2>3, ConcatProperties
<1>2. CASE Waits(s) # {}
  <2> DEFINE w == CHOOSE w \in Waits(s) : \A v \in Waits(s) : w <= v
  <2>1. w \in Waits(s) /\ \A v \in Waits(s) : w <= v
    <3>1. Waits(s) \in SUBSET Nat
      BY DEF Waits
    <3> QED BY <1>2, <3>1, LeastNat
  <2>2. Prints(s, c) = [i \in 1 .. w |-> Line(s[i], c)]
    BY <1>2 DEF Prints
  <2> HIDE DEF w
  <2>3. w \in 1 .. Len(s)
    BY <2>1 DEF Waits
  <2>4. \A i \in 1 .. w : Line(s[i], c) \in Tokens
    BY <2>3, LineType
  <2>5. Prints(s, c) \in Seq(Tokens) /\ Len(Prints(s, c)) = w
    BY <2>2, <2>3, <2>4
  <2> QED BY <1>2, <2>1, <2>2, <2>5
<1> QED BY <1>1, <1>2

\* The commands that are run are those of the list.
TypeInv ==
    /\ TypeOK
    /\ pc \in {"read", "judge"} /\ ~Connecting => Current <= Commands

LEMMA TypeInit == Init => TypeInv
<1> SUFFICES ASSUME Init PROVE TypeInv
  OBVIOUS
<1>1. /\ script \in [1 .. Commands -> Scripts] /\ kind \in Kinds /\ banner \in Banners
      /\ early \in BOOLEAN /\ accepts \in BOOLEAN
  BY CliAssumption DEF Init
<1>2. /\ <<>> \in Seq(Tokens) /\ <<>> \in Seq(Seq(Tokens)) /\ <<>> \in Seq(Chars)
      /\ Len(<<>>) = 0 /\ 0 <= Commands /\ 1 \in 1 .. Attempts /\ 0 \in 0 .. MaxPagers
  BY CliAssumption
<1> QED BY <1>1, <1>2 DEF Init, TypeInv, TypeOK, Goals, Connecting, Chars

\* The device's part of a step in which something is typed.
DeviceTyped ==
    /\ wire' \in Seq(Tokens)
    /\ mode' \in {"off", "login", "password", "cli", "pager", "confirm"}
    /\ left' \in Seq(Chars)
    /\ refused' \in Nat

LEMMA PlayTypes ==
  ASSUME NEW s \in Seq(Chars), NEW c \in 0 .. Commands + 1,
         NEW before \in Seq(Tokens), wire \in Seq(Tokens), Play(s, c, before)
  PROVE  /\ wire' \in Seq(Tokens) /\ left' \in Seq(Chars)
         /\ mode' \in {"cli", "pager", "confirm"}
<1>1. wire' \in Seq(Tokens)
  <2>1. wire' = (wire \o before) \o Prints(s, c)
    BY DEF Play
  <2> QED BY <2>1, PrintsShape
<1>2. CASE Waits(s) = {}
  BY <1>1, <1>2 DEF Play
<1>3. CASE Waits(s) # {}
  <2>1. Len(Prints(s, c)) \in Waits(s)
    BY <1>3, PrintsShape
  <2>2. left' = SubSeq(s, Len(Prints(s, c)) + 1, Len(s)) /\ mode' = s[Len(Prints(s, c))]
    BY <1>3 DEF Play
  <2>3. Len(Prints(s, c)) \in 1 .. Len(s) /\ s[Len(Prints(s, c))] \in {"pager", "confirm"}
    BY <2>1 DEF Waits
  <2> QED BY <1>1, <2>2, <2>3
<1> QED BY <1>2, <1>3

LEMMA DialogueTypes ==
  ASSUME NEW k \in {"prompt", "login", "password"}, NEW next \in {"login", "password", "cli"},
         wire \in Seq(Tokens), Dialogue(k, next)
  PROVE  /\ wire' \in Seq(Tokens) /\ left' \in Seq(Chars)
         /\ mode' \in {"login", "password", "cli"}
<1>1. Token(k) \in Tokens
  BY CliAssumption DEF Token, Tokens
<1> QED BY <1>1 DEF Dialogue

LEMMA TypeTypes ==
  ASSUME TypeOK, NEW what, Type(what), what = "command" => Current <= Commands
  PROVE  DeviceTyped
<1> USE DEF DeviceTyped
<1>1. refused' \in Nat
  BY DEF Type, TypeOK
<1>2. Current \in 0 .. Commands + 1 /\ (Current <= Commands => Current \in 1 .. Commands)
  BY CliAssumption DEF Current, TypeOK
<1>3. wire \in Seq(Tokens) /\ left \in Seq(Chars) /\ <<>> \in Seq(Chars) /\ <<>> \in Seq(Tokens)
  BY ScriptTypes DEF TypeOK
<1>4. 0 \in 0 .. Commands + 1
  BY CliAssumption
<1>5. CASE lost
  BY <1>1, <1>5, <1>3 DEF Type, TypeOK
<1>6. ASSUME NEW k \in {"prompt", "login", "password"}, NEW next \in {"login", "password", "cli"},
             Dialogue(k, next)
      PROVE  DeviceTyped
  BY <1>1, <1>3, <1>6, DialogueTypes
<1>7. ASSUME Play(<<>>, 0, <<>>) \/ Play(left, Current, <<>>)
      PROVE  DeviceTyped
  <2>1. CASE Play(<<>>, 0, <<>>)
    BY <1>1, <1>3, <1>4, <2>1, PlayTypes
  <2>2. CASE Play(left, Current, <<>>)
    BY <1>1, <1>2, <1>3, <2>2, PlayTypes
  <2> QED BY <1>7, <2>1, <2>2
<1>8. ASSUME what = "command", Play(script[Current], Current, <<Line("echo", Current)>>)
      PROVE  DeviceTyped
  <2>1. script[Current] \in Seq(Chars)
    BY <1>2, <1>8, ScriptTypes
  <2>2. <<Line("echo", Current)>> \in Seq(Tokens)
    BY <1>2, LineType
  <2> QED BY <1>1, <1>2, <1>3, <1>8, <2>1, <2>2, PlayTypes
<1> QED BY <1>5, <1>6, <1>7, <1>8 DEF Type

\* A chunk is what the client reads now, the rest stays.
LEMMA CutTypes ==
  ASSUME NEW S, NEW s \in Seq(S), NEW n \in 1 .. Len(s)
  PROVE  /\ SubSeq(s, 1, n) \in Seq(S) /\ SubSeq(s, n + 1, Len(s)) \in Seq(S)
         /\ SubSeq(s, 1, n) \o SubSeq(s, n + 1, Len(s)) = s
         /\ Len(SubSeq(s, 1, n)) = n
<1>1. \A i \in 1 .. Len(s) : s[i] \in S
  OBVIOUS
<1>2. Len(s) \in Nat /\ n \in Nat /\ n <= Len(s)
  OBVIOUS
<1>3. SubSeq(s, 1, n) \in Seq(S) /\ Len(SubSeq(s, 1, n)) = n
  <2>1. \A i \in 1 .. n : s[i] \in S
    BY <1>1, <1>2
  <2> QED BY <1>2, <2>1, SubSeqProperties
<1>4. SubSeq(s, n + 1, Len(s)) \in Seq(S)
  <2>1. \A i \in n + 1 .. Len(s) : s[i] \in S
    BY <1>1, <1>2
  <2> QED BY <1>2, <2>1, SubSeqProperties
<1>5. SubSeq(s, 1, n) \o SubSeq(s, n + 1, Len(s)) = SubSeq(s, 1, Len(s))
  BY <1>2, ConcatAdjacentSubSeq
<1> QED BY <1>3, <1>4, <1>5, SubSeqFull

LEMMA TypeLoop == ASSUME TypeInv, OpenInv', Loop PROVE TypeInv'
<1>1. CASE Chunk
  <2>1. PICK n \in 1 .. Len(wire) : /\ out' = out \o SubSeq(wire, 1, n)
                                    /\ wire' = SubSeq(wire, n + 1, Len(wire))
    BY <1>1 DEF Chunk
  <2>2. out' \in Seq(Tokens) /\ wire' \in Seq(Tokens)
    BY <2>1, CutTypes DEF TypeInv, TypeOK
  <2> QED
    BY <1>1, <2>2 DEF Chunk, TypeInv, TypeOK, OpenInv, env, session, handles, Connecting, Current
<1>2. CASE ContinuePager
  <2>1. DeviceTyped
    BY <1>2, TypeTypes DEF ContinuePager, TypeInv
  <2>2. handled' \in 0 .. MaxPagers
    BY <1>2, CliAssumption DEF ContinuePager, TypeInv, TypeOK
  <2> QED
    BY <1>2, <2>1, <2>2 DEF ContinuePager, DeviceTyped, TypeInv, TypeOK, OpenInv, env, session,
                            client, handles, Connecting, Current, Chars
<1>3. CASE KeepReading
  BY <1>3 DEF KeepReading, Returns, TypeInv, TypeOK, env, reader, session, handles, device,
              Connecting, Current
<1>4. ASSUME NEW e \in {"retryable", "fatal"}, Raise(e) PROVE TypeInv'
  BY <1>4 DEF Raise, TypeInv, TypeOK, env, reader, session, handles, device, Connecting, Current
<1> QED BY <1>1, <1>2, <1>3, <1>4 DEF Loop, PagerUnfinished, DeadlinePasses, ChannelClosed

LEMMA TypeConnect ==
  ASSUME TypeInv, OpenInv', SshConnect \/ SerialConnect \/ TelnetConnect
  PROVE  TypeInv'
<1>1. ASSUME NEW what, what # "command", Type(what), NEW g \in {"banner", "username", "password"},
             StartReading(g), UNCHANGED <<env, attempt, error, session, handles>>
      PROVE  TypeInv'
  <2>1. DeviceTyped
    BY <1>1, TypeTypes DEF TypeInv
  <2>2. 0 \in 0 .. MaxPagers /\ <<>> \in Seq(Tokens)
    BY CliAssumption
  <2> QED
    BY <1>1, <2>1, <2>2 DEF StartReading, DeviceTyped, TypeInv, TypeOK, Goals, env, session,
                            handles, Connecting, Current, Chars
<1>2. CASE Hello
  BY <1>1, <1>2 DEF Hello
<1>3. CASE SendUsername
  BY <1>1, <1>3 DEF SendUsername
<1>4. CASE SendPassword
  BY <1>1, <1>4 DEF SendPassword
<1>5. CASE PromptEstablished
  BY <1>5 DEF PromptEstablished, Detected, TypeInv, TypeOK, env, reader, handles, device,
              Connecting, Current
<1> QED BY <1>2, <1>3, <1>4, <1>5 DEF SshConnect, SerialConnect, TelnetConnect

LEMMA StrippedType ==
  ASSUME NEW o \in Seq(Tokens)
  PROVE  Stripped(o) \in Seq(Tokens)
<1>1. \A m \in 1 .. 3 : SubSeq(o, m, Len(o) - 1) \in Seq(Tokens)
  <2> TAKE m \in 1 .. 3
  <2>1. Len(o) \in Nat
    OBVIOUS
  <2>2. \A i \in m .. Len(o) - 1 : o[i] \in Tokens
    BY <2>1
  <2> QED BY <2>1, <2>2, SubSeqProperties
<1> QED BY <1>1 DEF Stripped

LEMMA TypeRunCommand == ASSUME TypeInv, OpenInv', RunCommand PROVE TypeInv'
<1>1. ASSUME NEW what, Type(what), what = "command" => Current <= Commands,
             NEW g \in {"command", "confirmed"}, Current <= Commands,
             StartReading(g), held' \in Seq(Tokens),
             UNCHANGED <<env, attempt, error, prompt, results, handles>>
      PROVE  TypeInv'
  <2>1. DeviceTyped
    BY <1>1, TypeTypes DEF TypeInv
  <2>2. 0 \in 0 .. MaxPagers /\ <<>> \in Seq(Tokens)
    BY CliAssumption
  <2> QED
    BY <1>1, <2>1, <2>2 DEF StartReading, DeviceTyped, TypeInv, TypeOK, Goals, env, session,
                            handles, Connecting, Current, Chars
<1>2. CASE SendCommand
  BY <1>1, <1>2 DEF SendCommand
<1>3. CASE Confirm
  <2>1. Current <= Commands /\ out \in Seq(Tokens)
    BY <1>3 DEF Confirm, Returns, TypeInv, TypeOK, Connecting
  <2> QED BY <1>1, <1>3, <2>1 DEF Confirm
<1>4. CASE Answered
  <2>1. held \o out \in Seq(Tokens) /\ Current <= Commands
    BY <1>4 DEF Answered, Returns, TypeInv, TypeOK
  <2>2. results' = Append(results, Stripped(held \o out)) /\ results \in Seq(Seq(Tokens))
    BY <1>4 DEF Answered, TypeInv, TypeOK
  <2>3. results' \in Seq(Seq(Tokens)) /\ Len(results') = Len(results) + 1
    <3>1. Stripped(held \o out) \in Seq(Tokens)
      BY <2>1, StrippedType
    <3> QED BY <2>2, <3>1, AppendProperties
  <2>4. Len(results') <= Commands
    BY <2>1, <2>2, <2>3 DEF Current
  <2>5. /\ pc' = "ready"
        /\ UNCHANGED <<env, goal, attempt, error, reader, prompt, held, handles, device>>
    BY <1>4 DEF Answered
  <2> QED
    BY <2>3, <2>4, <2>5 DEF TypeInv, TypeOK, env, reader, handles, device
<1> QED BY <1>2, <1>3, <1>4 DEF RunCommand

LEMMA TypeOpens ==
  ASSUME TypeInv, OpenInv', SshOpens \/ SerialOpens \/ TelnetOpens
  PROVE  TypeInv'
<1>1. /\ wire' \in Seq(Tokens) /\ left' = <<>> /\ UNCHANGED <<typed, refused>>
      /\ mode' \in {"login", "password", "cli", "pager", "confirm"}
  <2> DEFINE shown == [i \in DOMAIN banner |-> Token(banner[i])]
  <2>1. banner \in Seq({"text", "hash", "welcome"})
    BY CliAssumption DEF TypeInv, TypeOK
  <2>2. shown \in Seq(Tokens)
    <3>1. \A i \in DOMAIN banner : Token(banner[i]) \in Tokens
      BY <2>1, CliAssumption DEF Token, Tokens
    <3> QED BY <2>1, <3>1
  <2>3. \A k \in {"prompt", "login", "password"} : Token(k) \in Tokens
    BY CliAssumption DEF Token, Tokens
  <2>4. Greets
    BY DEF SshOpens, SerialOpens, TelnetOpens, Opens
  <2>5. ASSUME Ssh
        PROVE  /\ mode' = "cli"
               /\ wire' = shown \o (IF early THEN <<Token("prompt")>> ELSE <<>>)
    BY <2>4, <2>5 DEF Greets, Ssh
  <2>6. ASSUME ~Ssh, kind = "telnet"
        PROVE  \E k \in {"login", "password", "prompt"} :
                  mode' = (IF k = "prompt" THEN "cli" ELSE k) /\ wire' = Append(shown, Token(k))
    BY <2>4, <2>6 DEF Greets, Ssh
  <2> HIDE DEF shown
  <2>7. CASE Ssh
    <3>1. <<Token("prompt")>> \in Seq(Tokens) /\ <<>> \in Seq(Tokens)
      BY <2>3
    <3>2. wire' \in Seq(Tokens)
      BY <2>2, <2>5, <2>7, <3>1
    <3> QED BY <2>4, <2>5, <2>7, <3>2 DEF Greets
  <2>8. CASE ~Ssh /\ kind = "telnet"
    <3>1. PICK k \in {"login", "password", "prompt"} :
             mode' = (IF k = "prompt" THEN "cli" ELSE k) /\ wire' = Append(shown, Token(k))
      BY <2>6, <2>8
    <3>2. wire' \in Seq(Tokens)
      BY <2>2, <2>3, <3>1
    <3> QED BY <2>4, <3>1, <3>2 DEF Greets
  <2>9. CASE ~Ssh /\ kind # "telnet"
    BY <2>4, <2>9 DEF Greets
  <2> QED BY <2>7, <2>8, <2>9
<1>2. /\ channel' = TRUE /\ lost' = FALSE
      /\ UNCHANGED <<env, attempt, error, session, raised>>
      /\ \/ pc' = "hello" /\ UNCHANGED <<goal, reader>>
         \/ StartReading("banner")
  BY DEF SshOpens, SerialOpens, TelnetOpens, Opens
<1>3. 0 \in 0 .. MaxPagers /\ <<>> \in Seq(Tokens) /\ <<>> \in Seq(Chars)
  BY CliAssumption
<1>4. /\ pc' \in {"hello", "read"} /\ goal' \in Goals /\ (pc' = "read" => goal' = "banner")
      /\ out' \in Seq(Tokens) /\ handled' \in 0 .. MaxPagers
  BY <1>2, <1>3 DEF TypeInv, TypeOK, StartReading, reader, Goals
<1> QED
  BY <1>1, <1>2, <1>3, <1>4 DEF TypeInv, TypeOK, OpenInv, env, session, Connecting, Chars

LEMMA TypeStep == ASSUME TypeInv, OpenInv', Next PROVE TypeInv'
<1> USE DEF TypeInv, TypeOK, OpenInv
<1>1. CASE SshOpens \/ SerialOpens \/ TelnetOpens
  BY <1>1, TypeOpens
<1>2. CASE SshUnreachable \/ SshRejected
  BY <1>2 DEF SshUnreachable, SshRejected, SshRefused, env, reader, session
<1>3. CASE OpenFails
  BY <1>3 DEF OpenFails, Raise, env, reader, session, handles, device
<1>4. CASE SshConnect \/ SerialConnect \/ TelnetConnect
  BY <1>4, TypeConnect
<1>5. CASE SshAttemptFails
  <2>1. attempt' \in 1 .. Attempts /\ pc' \in {"connect", "close"}
    BY <1>5, CliAssumption DEF SshAttemptFails
  <2>2. /\ channel' = FALSE /\ error' = "none" /\ goal' = "banner"
        /\ UNCHANGED <<env, reader, session, forgotten, lost, raised, device>>
    BY <1>5 DEF SshAttemptFails
  <2> QED BY <2>1, <2>2 DEF env, reader, session, device, Goals
<1>6. CASE TelnetConnectFails \/ SerialConnectFails
  BY <1>6 DEF TelnetConnectFails, SerialConnectFails, env, reader, session, handles, device
<1>7. CASE SshReadUntilReady \/ SerialReadUntilReady \/ TelnetReadUntilReady
  BY <1>7, TypeLoop DEF SshReadUntilReady, SerialReadUntilReady, TelnetReadUntilReady
<1>8. CASE SshRunCommand \/ SerialRunCommand \/ TelnetRunCommand
  BY <1>8, TypeRunCommand DEF SshRunCommand, SerialRunCommand, TelnetRunCommand
<1>9. CASE SshReconnects
  BY <1>9, CliAssumption DEF SshReconnects, env, reader, session, device
<1>10. CASE Finally
  BY <1>10 DEF Finally, env, reader, session, handles, device
<1>11. CASE SshClose \/ SerialClose \/ TelnetClose
  <2>1. PICK raises \in BOOLEAN : Closes(raises)
    BY <1>11 DEF SshClose, SerialClose, TelnetClose
  <2> QED BY <2>1 DEF Closes, env, reader, session, device
<1>12. CASE LoseConnection
  BY <1>12 DEF LoseConnection, env, client, reader, session, device, Connecting, Current
<1> QED
  BY <1>1, <1>2, <1>3, <1>4, <1>5, <1>6, <1>7, <1>8, <1>9, <1>10, <1>11, <1>12
     DEF Next, SshRunCommands, SerialRunCommands, TelnetRunCommands

\* Everything the client and the device hold is of its kind, whatever the
\* scripts; no command beyond the list is run.
THEOREM TypeCorrect == Spec => []TypeOK
<1>1. TypeInv /\ OpenInv /\ [Next]_vars => TypeInv' /\ OpenInv'
  <2>1. CASE UNCHANGED vars
    BY <2>1, OpenStutter DEF vars, env, client, reader, session, handles, device, TypeInv, TypeOK,
                             Connecting, Current
  <2> QED BY <2>1, OpenStep, TypeStep
<1>2. TypeInv => TypeOK
  BY DEF TypeInv
<1> QED BY <1>1, <1>2, TypeInit, OpenInit, PTL DEF Spec

----------------------------------------------------------------------------
(* What a script makes the device print *)

Prompt == Token("prompt")

\* Concatenation, kept as a predicate: its facts are those of JoinShape.
Joins(u, s, t) == u = s \o t

LEMMA JoinShape ==
  ASSUME NEW S, NEW s \in Seq(S), NEW t \in Seq(S), NEW u, Joins(u, s, t)
  PROVE  /\ u \in Seq(S) /\ Len(u) = Len(s) + Len(t) /\ Len(s) \in Nat /\ Len(t) \in Nat
         /\ \A i \in 1 .. Len(s) : u[i] = s[i]
         /\ \A j \in 1 .. Len(t) : u[Len(s) + j] = t[j]
<1>1. /\ u \in Seq(S) /\ Len(u) = Len(s) + Len(t)
      /\ \A i \in 1 .. Len(s) + Len(t) : u[i] = IF i <= Len(s) THEN s[i] ELSE t[i - Len(s)]
  BY ConcatProperties DEF Joins
<1>2. Len(s) \in Nat /\ Len(t) \in Nat
  OBVIOUS
<1>3. ASSUME NEW i \in 1 .. Len(s) PROVE u[i] = s[i]
  BY <1>1, <1>2
<1>4. ASSUME NEW j \in 1 .. Len(t) PROVE u[Len(s) + j] = t[j]
  <2>1. Len(s) + j \in 1 .. Len(s) + Len(t) /\ ~(Len(s) + j <= Len(s)) /\ Len(s) + j - Len(s) = j
    BY <1>2
  <2> QED BY <1>1, <2>1
<1> QED BY <1>1, <1>2, <1>3, <1>4

\* What follows the first k members of a sequence.
Rest(s, k) == SubSeq(s, k + 1, Len(s))

LEMMA LenType == ASSUME NEW S, NEW s \in Seq(S) PROVE Len(s) \in Nat
OBVIOUS

LEMMA RestShape ==
  ASSUME NEW S, NEW s \in Seq(S), NEW k \in Nat, k <= Len(s)
  PROVE  /\ Rest(s, k) \in Seq(S) /\ Len(Rest(s, k)) = Len(s) - k
         /\ \A i \in 1 .. Len(s) - k : Rest(s, k)[i] = s[k + i]
<1> DEFINE n == Len(s)
           m == k + 1
           r == Rest(s, k)
<1>1. n \in Nat /\ m \in Nat /\ m = k + 1 /\ k <= n
  BY LenType
<1>2. \A i \in m .. n : s[i] \in S
  OBVIOUS
<1>3. r = SubSeq(s, m, n)
  BY DEF Rest
<1> HIDE DEF m, n
<1>4. m \in Int /\ n \in Int
  BY <1>1
<1>5. /\ SubSeq(s, m, n) \in Seq(S)
      /\ Len(SubSeq(s, m, n)) = IF m <= n THEN n - m + 1 ELSE 0
      /\ \A i \in 1 .. n - m + 1 : SubSeq(s, m, n)[i] = s[m + i - 1]
  BY <1>2, <1>4, SubSeqProperties
<1>6. /\ r \in Seq(S) /\ Len(r) = (IF m <= n THEN n - m + 1 ELSE 0)
      /\ \A i \in 1 .. n - m + 1 : r[i] = s[m + i - 1]
  BY <1>3, <1>5, Zenon
<1> HIDE DEF r
<1>7. Len(r) = n - k
  BY <1>1, <1>6
<1>8. ASSUME NEW i \in 1 .. n - k PROVE r[i] = s[k + i]
  <2>1. i \in 1 .. n - m + 1 /\ m + i - 1 = k + i
    BY <1>1
  <2> QED BY <1>6, <2>1
<1> QED BY <1>6, <1>7, <1>8 DEF r, n

LEMMA RestOfRest ==
  ASSUME NEW S, NEW s \in Seq(S), NEW k \in Nat, NEW m \in Nat, k + m <= Len(s)
  PROVE  Rest(Rest(s, k), m) = Rest(s, k + m)
<1> DEFINE r == Rest(s, k)
           a == Rest(r, m)
           b == Rest(s, k + m)
<1>1. Len(s) \in Nat /\ k <= Len(s) /\ k + m \in Nat
  BY LenType
<1>2. r \in Seq(S) /\ Len(r) = Len(s) - k /\ \A i \in 1 .. Len(s) - k : r[i] = s[k + i]
  BY <1>1, RestShape
<1>3. /\ b \in Seq(S) /\ Len(b) = Len(s) - (k + m)
      /\ \A i \in 1 .. Len(s) - (k + m) : b[i] = s[k + m + i]
  BY <1>1, RestShape
<1> HIDE DEF r
<1>4. m <= Len(r)
  BY <1>1, <1>2
<1>5. a \in Seq(S) /\ Len(a) = Len(r) - m /\ \A i \in 1 .. Len(r) - m : a[i] = r[m + i]
  BY <1>2, <1>4, RestShape
<1> HIDE DEF a, b
<1>6. Len(a) = Len(b)
  BY <1>1, <1>2, <1>3, <1>5
<1>7. ASSUME NEW i \in 1 .. Len(a) PROVE a[i] = b[i]
  <2>1. m + i \in 1 .. Len(s) - k /\ i \in 1 .. Len(r) - m /\ k + (m + i) = k + m + i
    BY <1>1, <1>2, <1>5
  <2> QED BY <1>2, <1>3, <1>5, <1>6, <2>1
<1>8. a = b
  BY <1>3, <1>5, <1>6, <1>7, SeqEqual
<1> QED BY <1>8 DEF a, b, r

\* What is read of command c, whose script is f, begins with p prompts from
\* before it, its echo and n tokens of its script.
Tells(t, f, c, p, n) ==
    /\ Len(t) >= p + 1 + n
    /\ \A i \in 1 .. p : t[i] = Prompt
    /\ t[p + 1] = Line("echo", c)
    /\ \A j \in 1 .. n : t[p + 1 + j] = Line(f[j], c)

\* It is all told, up to the device's prompt.
AllTold(t, f, c, p) ==
    /\ Tells(t, f, c, p, Len(f))
    /\ Len(t) = p + 1 + Len(f) + 1
    /\ t[p + 1 + Len(f) + 1] = Prompt

\* It is told so far, and no more.
Heard(t, f, c, p, n) == Tells(t, f, c, p, n) /\ Len(t) = p + 1 + n

\* Does the device wait after the i-th token of a script.
WaitsAt(f, i) == f[i] \in {"pager", "confirm"}

\* How the story u goes on when P is printed of the rest s of the script.
StoryNext(f, c, p, n, s, P, u) ==
    /\ s \in Seq(Chars) /\ P \in Seq(Tokens) /\ u \in Seq(Tokens)
    /\ Waits(s) = {} =>
         /\ AllTold(u, f, c, p)
         /\ \A j \in n + 1 .. Len(f) : ~WaitsAt(f, j)
    /\ Waits(s) # {} =>
         /\ Len(P) \in 1 .. Len(s) /\ n + Len(P) \in 1 .. Len(f)
         /\ s[Len(P)] = f[n + Len(P)] /\ WaitsAt(f, n + Len(P))
         /\ Heard(u, f, c, p, n + Len(P))
         /\ Rest(s, Len(P)) = Rest(f, n + Len(P))
         /\ \A j \in n + 1 .. n + Len(P) - 1 : ~WaitsAt(f, j)

LEMMA Behind ==
  ASSUME NEW n \in Nat, NEW k \in Nat, NEW j \in n + 1 .. n + k
  PROVE  j - n \in 1 .. k /\ n + (j - n) = j
OBVIOUS

\* Printing on after n tokens goes on with the story, to its end or to the next
\* place where the device waits.
LEMMA StoryGoesOn ==
  ASSUME NEW f \in Seq(Chars), NEW c \in 0 .. Commands + 1, NEW p \in Nat,
         NEW n \in Nat, n <= Len(f),
         NEW s, s = Rest(f, n),
         NEW t \in Seq(Tokens), Heard(t, f, c, p, n),
         NEW P, P = Prints(s, c), NEW u, Joins(u, t, P)
  PROVE  StoryNext(f, c, p, n, s, P, u)
<1> USE DEF StoryNext
<1>1. Len(f) \in Nat
  OBVIOUS
<1>2. s \in Seq(Chars) /\ Len(s) = Len(f) - n /\ \A i \in 1 .. Len(f) - n : s[i] = f[n + i]
  BY RestShape
<1>3. /\ P \in Seq(Tokens) /\ Len(P) \in Nat
      /\ Waits(s) = {} => /\ Len(P) = Len(s) + 1 /\ P[Len(s) + 1] = Prompt
                          /\ \A i \in 1 .. Len(s) : P[i] = Line(s[i], c)
      /\ Waits(s) # {} => /\ Len(P) \in Waits(s) /\ \A v \in Waits(s) : Len(P) <= v
                          /\ \A i \in 1 .. Len(P) : P[i] = Line(s[i], c)
  <2>1. P \in Seq(Tokens)
    BY <1>2, PrintsShape
  <2>2. Len(P) \in Nat
    BY <2>1, LenType
  <2>3. Waits(s) = {} => /\ Len(P) = Len(s) + 1 /\ P[Len(s) + 1] = Prompt
                         /\ \A i \in 1 .. Len(s) : P[i] = Line(s[i], c)
    BY <1>2, PrintsShape, Zenon DEF Prompt
  <2>4. Waits(s) # {} => /\ Len(P) \in Waits(s) /\ \A v \in Waits(s) : Len(P) <= v
                         /\ \A i \in 1 .. Len(P) : P[i] = Line(s[i], c)
    BY <1>2, PrintsShape, Zenon
  <2> QED BY <2>1, <2>2, <2>3, <2>4
<1>4. /\ u \in Seq(Tokens) /\ Len(u) = Len(t) + Len(P)
      /\ \A i \in 1 .. Len(t) : u[i] = t[i]
      /\ \A j \in 1 .. Len(P) : u[Len(t) + j] = P[j]
  <2>1. P \in Seq(Tokens)
    BY <1>3
  <2> QED BY <2>1, JoinShape
<1>5. Len(s) \in Nat /\ Len(s) + n = Len(f) /\ n + Len(s) = Len(f)
  BY <1>1, <1>2
<1>0. Tells(t, f, c, p, n) /\ Len(t) = p + 1 + n
  BY DEF Heard
<1>6. ASSUME NEW k \in Nat, k <= Len(s), k <= Len(P), \A i \in 1 .. k : P[i] = Line(s[i], c)
      PROVE  Tells(u, f, c, p, n + k)
  <2>1. Len(u) >= p + 1 + (n + k)
    BY <1>0, <1>3, <1>4, <1>6
  <2>2. ASSUME NEW i \in 1 .. p + 1 + n PROVE u[i] = t[i]
    BY <1>0, <1>4
  <2>3. (\A i \in 1 .. p : u[i] = Prompt) /\ u[p + 1] = Line("echo", c)
    <3>1. p + 1 \in 1 .. p + 1 + n /\ \A i \in 1 .. p : i \in 1 .. p + 1 + n
      OBVIOUS
    <3> QED BY <1>0, <2>2, <3>1 DEF Tells
  <2>4. ASSUME NEW j \in 1 .. n + k PROVE u[p + 1 + j] = Line(f[j], c)
    <3>1. CASE j <= n
      <4>1. p + 1 + j \in 1 .. p + 1 + n /\ j \in 1 .. n
        BY <3>1
      <4> QED BY <1>0, <2>2, <4>1 DEF Tells
    <3>2. CASE j > n
      <4>1. PICK i \in 1 .. k : j = n + i
        <5>1. j \in n + 1 .. n + k
          BY <3>2
        <5>2. j - n \in 1 .. k /\ j = n + (j - n)
          BY <5>1, Behind
        <5> QED BY <5>2
      <4>2. i \in 1 .. Len(P) /\ i \in 1 .. Len(f) - n /\ p + 1 + j = p + 1 + n + i
        BY <1>3, <1>5, <1>6, <4>1
      <4>3. u[p + 1 + n + i] = P[i] /\ P[i] = Line(f[n + i], c)
        BY <1>0, <1>2, <1>4, <1>6, <4>1, <4>2
      <4> QED BY <4>1, <4>2, <4>3
    <3> QED BY <3>1, <3>2
  <2> QED BY <2>1, <2>3, <2>4 DEF Tells
<1>7. ASSUME NEW j \in n + 1 .. Len(f) PROVE j - n \in 1 .. Len(s) /\ f[j] = s[j - n]
  <2>1. j - n \in 1 .. Len(s) /\ n + (j - n) = j
    <3>1. j \in n + 1 .. n + Len(s)
      BY <1>5, Zenon
    <3> QED BY <1>5, <3>1, Behind
  <2> QED BY <1>2, <1>5, <2>1
<1>8. \A i \in 1 .. Len(s) : i \in Waits(s) <=> s[i] \in {"pager", "confirm"}
  BY <1>2 DEF Waits
<1>9. ASSUME Waits(s) = {}
      PROVE  AllTold(u, f, c, p) /\ \A j \in n + 1 .. Len(f) : ~WaitsAt(f, j)
  <2>1. Tells(u, f, c, p, n + Len(s))
    BY <1>3, <1>5, <1>6, <1>9
  <2>2. Len(P) = Len(s) + 1 /\ Len(P) \in 1 .. Len(P)
    BY <1>3, <1>5, <1>9
  <2>3. Len(u) = p + 1 + Len(f) + 1 /\ Len(t) + Len(P) = p + 1 + Len(f) + 1
    <3>1. Len(P) = (Len(f) - n) + 1 /\ Len(f) \in Nat
      BY <1>1, <1>2, <2>2
    <3>2. Len(u) = (p + 1 + n) + Len(P) /\ Len(t) + Len(P) = (p + 1 + n) + Len(P)
      BY <1>0, <1>4
    <3> QED BY <3>1, <3>2
  <2>4. u[p + 1 + Len(f) + 1] = Prompt
    BY <1>3, <1>4, <1>9, <2>2, <2>3
  <2>5. n + Len(s) = Len(f)
    BY <1>5
  <2>6. AllTold(u, f, c, p)
    BY <2>1, <2>3, <2>4, <2>5 DEF AllTold
  <2> QED BY <1>7, <1>8, <1>9, <2>6 DEF WaitsAt
<1>10. ASSUME Waits(s) # {}
       PROVE  /\ Len(P) \in 1 .. Len(s) /\ n + Len(P) \in 1 .. Len(f)
              /\ s[Len(P)] = f[n + Len(P)] /\ WaitsAt(f, n + Len(P))
              /\ Heard(u, f, c, p, n + Len(P))
              /\ Rest(s, Len(P)) = Rest(f, n + Len(P))
              /\ \A j \in n + 1 .. n + Len(P) - 1 : ~WaitsAt(f, j)
  <2>1. Len(P) \in 1 .. Len(s) /\ s[Len(P)] \in {"pager", "confirm"}
    <3>1. Len(P) \in Waits(s)
      BY <1>3, <1>10
    <3> QED BY <1>2, <3>1 DEF Waits
  <2>2. n + Len(P) \in 1 .. Len(f) /\ n + Len(P) <= Len(f) /\ Len(P) \in 1 .. Len(f) - n
    BY <1>1, <1>3, <1>5, <2>1
  <2>3. s[Len(P)] = f[n + Len(P)] /\ WaitsAt(f, n + Len(P))
    BY <1>2, <2>1, <2>2 DEF WaitsAt
  <2>4. Tells(u, f, c, p, n + Len(P))
    BY <1>3, <1>6, <1>10, <2>1
  <2>5. Heard(u, f, c, p, n + Len(P))
    BY <1>0, <1>3, <1>4, <2>4 DEF Heard
  <2>6. Rest(s, Len(P)) = Rest(f, n + Len(P))
    BY <1>3, <2>2, RestOfRest
  <2>7. ASSUME NEW j \in n + 1 .. n + Len(P) - 1 PROVE ~WaitsAt(f, j)
    <3>1. j \in n + 1 .. Len(f) /\ ~(Len(P) <= j - n)
      BY <1>1, <1>3, <2>2
    <3> QED BY <1>3, <1>7, <1>8, <1>10, <3>1 DEF WaitsAt
  <2> QED BY <2>1, <2>2, <2>3, <2>4, <2>5, <2>6, <2>7
<1> QED BY <1>2, <1>3, <1>4, <1>9, <1>10

\* Where a sequence of tokens holds a pager.
PagersIn(s) == {i \in DOMAIN s : s[i].k = "pager"}

LEMMA PagersFinite ==
  ASSUME NEW s \in Seq(Tokens)
  PROVE  /\ IsFiniteSet(PagersIn(s)) /\ Cardinality(PagersIn(s)) \in Nat
         /\ PagersIn(s) = {i \in 1 .. Len(s) : s[i].k = "pager"}
<1>1. PagersIn(s) \subseteq 1 .. Len(s) /\ Len(s) \in Nat
  BY LenType DEF PagersIn
<1>2. IsFiniteSet(1 .. Len(s))
  BY <1>1, FS_Interval
<1>3. IsFiniteSet(PagersIn(s))
  BY <1>1, <1>2, FS_Subset
<1> QED BY <1>3, FS_CardinalityType DEF PagersIn

\* What is read first has no more pagers than the whole, and the rest has none
\* when it has as many.
LEMMA PagersPart ==
  ASSUME NEW s \in Seq(Tokens), NEW t \in Seq(Tokens), NEW u, Joins(u, s, t)
  PROVE  /\ Cardinality(PagersIn(s)) <= Cardinality(PagersIn(u))
         /\ Cardinality(PagersIn(s)) = Cardinality(PagersIn(u)) => PagersIn(t) = {}
<1>1. /\ u \in Seq(Tokens) /\ Len(u) = Len(s) + Len(t) /\ Len(s) \in Nat /\ Len(t) \in Nat
      /\ \A i \in 1 .. Len(s) : u[i] = s[i]
      /\ \A j \in 1 .. Len(t) : u[Len(s) + j] = t[j]
  BY JoinShape
<1> DEFINE A == PagersIn(s)
           B == PagersIn(u)
<1>2. /\ A = {i \in 1 .. Len(s) : s[i].k = "pager"} /\ B = {i \in 1 .. Len(u) : u[i].k = "pager"}
      /\ PagersIn(t) = {i \in 1 .. Len(t) : t[i].k = "pager"} /\ IsFiniteSet(B)
  BY <1>1, PagersFinite
<1>3. A \subseteq B
  BY <1>1, <1>2
<1>4. Cardinality(A) <= Cardinality(B) /\ (Cardinality(A) = Cardinality(B) => A = B)
  BY <1>2, <1>3, FS_Subset
<1>5. ASSUME A = B, NEW j \in PagersIn(t) PROVE FALSE
  <2>1. j \in 1 .. Len(t) /\ t[j].k = "pager"
    BY <1>2, <1>5
  <2>2. Len(s) + j \in 1 .. Len(u) /\ u[Len(s) + j].k = "pager" /\ Len(s) + j \notin 1 .. Len(s)
    BY <1>1, <2>1
  <2> QED BY <1>2, <1>5, <2>2
<1> QED BY <1>4, <1>5

LEMMA PagersGrow ==
  ASSUME NEW s \in Seq(Tokens), NEW t \in Seq(Tokens), NEW u, Joins(u, s, t), NEW last,
         \A i \in 1 .. Len(t) : t[i].k = "pager" => i = Len(t) /\ last
  PROVE  \/ Cardinality(PagersIn(u)) = Cardinality(PagersIn(s))
         \/ last /\ Cardinality(PagersIn(u)) = Cardinality(PagersIn(s)) + 1
<1>1. /\ u \in Seq(Tokens) /\ Len(u) = Len(s) + Len(t) /\ Len(s) \in Nat /\ Len(t) \in Nat
      /\ \A i \in 1 .. Len(s) : u[i] = s[i]
      /\ \A j \in 1 .. Len(t) : u[Len(s) + j] = t[j]
  BY JoinShape
<1> DEFINE A == PagersIn(s)
           B == PagersIn(u)
<1>2. /\ A = {i \in 1 .. Len(s) : s[i].k = "pager"} /\ B = {i \in 1 .. Len(u) : u[i].k = "pager"}
      /\ IsFiniteSet(A)
  BY <1>1, PagersFinite
<1>3. ASSUME NEW i \in B, i \notin A PROVE i = Len(u) /\ last /\ i > Len(s)
  <2>1. i \in 1 .. Len(u) /\ u[i].k = "pager" /\ i \notin 1 .. Len(s)
    BY <1>1, <1>2, <1>3
  <2>2. i - Len(s) \in 1 .. Len(t) /\ i = Len(s) + (i - Len(s))
    BY <1>1, <2>1
  <2>3. t[i - Len(s)].k = "pager"
    BY <1>1, <2>1, <2>2
  <2>4. i - Len(s) = Len(t) /\ last
    BY <2>2, <2>3
  <2> QED BY <1>1, <2>2, <2>4
<1>4. A \subseteq B
  BY <1>1, <1>2
<1>5. CASE B \subseteq A
  <2>1. B = A
    BY <1>4, <1>5
  <2> QED BY <2>1
<1>6. CASE ~(B \subseteq A)
  <2>1. PICK i \in B : i \notin A
    BY <1>6
  <2>2. B = A \cup {Len(u)} /\ Len(u) \notin A /\ last
    BY <1>3, <1>4, <2>1
  <2>3. Cardinality(A \cup {Len(u)}) = Cardinality(A) + 1
    BY <1>2, <2>2, FS_AddElement
  <2> QED BY <2>2, <2>3
<1> QED BY <1>5, <1>6

\* The result of a command is what it printed between its echo and the prompt.
LEMMA StrippedTold ==
  ASSUME NEW o \in Seq(Tokens), NEW f \in Seq(Chars), NEW p \in {0, 1},
         Current \in 0 .. Commands + 1, AllTold(o, f, Current, p)
  PROVE  Stripped(o) = [i \in DOMAIN f |-> Line(f[i], Current)]
<1> DEFINE c == Current
           echo == Line("echo", c)
           e == Len(o) - 1
           r == SubSeq(o, p + 2, e)
           g == [i \in DOMAIN f |-> Line(f[i], c)]
<1>1. Prompt # echo
  BY LineType, PromptType DEF Prompt
<1>2. Len(f) \in Nat /\ Len(o) \in Nat
  BY LenType
<1>3. /\ Len(o) = p + 1 + Len(f) + 1 /\ o[p + 1] = echo /\ \A i \in 1 .. p : o[i] = Prompt
      /\ \A j \in 1 .. Len(f) : o[p + 1 + j] = Line(f[j], c)
  BY DEF AllTold, Tells
<1>4. Stripped(o) = r
  <2>1. CASE p = 0
    <3>1. o[1] = echo /\ p + 2 = 2
      BY <1>3, <2>1
    <3>2. Stripped(o) = SubSeq(o, 2, Len(o) - 1)
      BY <1>1, <3>1 DEF Stripped, Prompt
    <3> QED BY <3>1, <3>2
  <2>2. CASE p = 1
    <3>1. o[1] = Prompt /\ o[1] # echo /\ o[2] = echo /\ Len(o) > 1
      BY <1>1, <1>2, <1>3, <2>2
    <3> QED BY <2>2, <3>1 DEF Stripped, Prompt
  <2> QED BY <2>1, <2>2
<1> HIDE DEF e, c, echo
<1>5. e = p + 1 + Len(f) /\ e \in Int /\ p + 2 \in Int
  BY <1>2, <1>3 DEF e
<1>6. \A i \in p + 2 .. e : o[i] \in Tokens
  BY <1>2, <1>3 DEF e
<1>7. /\ r \in Seq(Tokens) /\ Len(r) = (IF p + 2 <= e THEN e - (p + 2) + 1 ELSE 0)
      /\ \A i \in 1 .. e - (p + 2) + 1 : r[i] = o[p + 2 + i - 1]
  BY <1>5, <1>6, SubSeqProperties
<1> HIDE DEF r
<1>8. Len(r) = Len(f)
  <2>1. Len(f) \in Nat
    BY <1>2
  <2> QED BY <1>5, <1>7, <2>1
<1>9. ASSUME NEW i \in 1 .. Len(f) PROVE r[i] = Line(f[i], c)
  <2>1. i \in 1 .. e - (p + 2) + 1 /\ p + 2 + i - 1 = p + 1 + i
    BY <1>2, <1>5
  <2> QED BY <1>3, <1>7, <2>1
<1>10. g \in Seq(Tokens) /\ Len(g) = Len(f) /\ \A i \in 1 .. Len(f) : g[i] = Line(f[i], c)
  <2>1. c \in 0 .. Commands + 1
    BY DEF c
  <2>2. \A i \in 1 .. Len(f) : Line(f[i], c) \in Tokens
    BY <2>1, LineType
  <2> QED BY <2>2
<1> HIDE DEF g
<1>11. r = g
  <2>1. r \in Seq(Tokens) /\ g \in Seq(Tokens)
    BY <1>7, <1>10
  <2>2. Len(r) = Len(g) /\ \A i \in 1 .. Len(r) : r[i] = g[i]
    BY <1>8, <1>9, <1>10
  <2> QED BY <2>1, <2>2, SeqEqual
<1> QED BY <1>4, <1>11 DEF g, c

LEMMA StrippedPrompt ==
  ASSUME NEW o \in Seq(Tokens), Len(o) = 1, o[1] = Prompt, Current \in 0 .. Commands + 1
  PROVE  Stripped(o) = <<>>
<1>1. Prompt # Line("echo", Current)
  BY LineType, PromptType DEF Prompt
<1>2. Stripped(o) = SubSeq(o, 1, 0)
  BY <1>1 DEF Stripped
<1>3. SubSeq(o, 1, 0) = <<>>
  BY SubSeqEmpty
<1> QED BY <1>2, <1>3

\* At the end of a script the device shows its prompt.
LEMMA PrintsNothing ==
  ASSUME NEW c \in 0 .. Commands + 1
  PROVE  Waits(<<>>) = {} /\ Prints(<<>>, c) = <<Prompt>>
<1> DEFINE P == Prints(<<>>, c)
<1>1. Waits(<<>>) = {}
  BY DEF Waits
<1>2. <<>> \in Seq(Chars) /\ Len(<<>>) = 0
  OBVIOUS
<1>3. P \in Seq(Tokens) /\ Len(P) = 1 /\ P[1] = Prompt
  <2>1. /\ P \in Seq(Tokens) /\ Len(P) = Len(<<>>) + 1
        /\ P[Len(<<>>) + 1] = Prompt
    BY <1>1, <1>2, PrintsShape, Zenon DEF Prompt
  <2> HIDE DEF P
  <2> QED BY <1>2, <2>1
<1> HIDE DEF P
<1>4. <<Prompt>> \in Seq(Tokens) /\ Len(<<Prompt>>) = 1 /\ <<Prompt>>[1] = Prompt
  BY PromptType DEF Prompt
<1>5. P = <<Prompt>>
  BY <1>3, <1>4, SeqEqual
<1> QED BY <1>1, <1>5 DEF P

----------------------------------------------------------------------------
(* What a device without lookalikes has told, in every state *)

\* What this call has read or will read, and with it what the command has told.
Talk == out \o wire
Story == held \o Talk

AllPrompts(t, p) == Len(t) = p /\ \A i \in 1 .. p : t[i] = Prompt

\* Only the first command can find a prompt from before it.
Preludes == {p \in {0, 1} : p = 1 => early /\ results = <<>>}

Script == script[Current]

\* Before its first confirmation a command has had none of them asked.
Unasked(n) == goal = "command" => \A j \in 1 .. n : Script[j] # "confirm"

\* A command that got lost, one that is done, and one that waits after n tokens.
Cut(p) == lost /\ mode = "cli" /\ AllPrompts(Story, p)
Told(p) ==
    /\ mode = "cli"
    /\ AllTold(Story, Script, Current, p)
    /\ Unasked(Len(Script))
Asking(p, n) ==
    /\ mode = Script[n] /\ WaitsAt(Script, n)
    /\ left = Rest(Script, n)
    /\ Heard(Story, Script, Current, p, n)
    /\ Unasked(n - 1)

\* Every pager is continued, or it is the one the device waits at.
PagerInv ==
    \/ Cardinality(PagersIn(Talk)) = handled
    \/ Cardinality(PagersIn(Talk)) = handled + 1 /\ mode = "pager"

Underway == \E p \in Preludes : \/ Cut(p) \/ Told(p)
                                \/ \E n \in 1 .. Len(Script) : Asking(p, n)

\* What holds while a command is read.
CommandInv ==
    /\ prompt = "cli"
    /\ goal = "command" => held = <<>>
    /\ Underway
    /\ PagerInv

\* A request of the login is the last thing printed, and the device waits there.
LoginToken(t, i) ==
    \/ t[i].k = "text"
    \/ t[i].k \in {"login", "password"} /\ mode = t[i].k /\ i = Len(t)
    \/ /\ t[i] = Prompt /\ mode = "cli"
       /\ i = Len(t) \/ (early /\ i = Len(t) - 1 /\ t[i + 1] = Prompt)
LoginTalk(t) == \A i \in 1 .. Len(t) : LoginToken(t, i)

ConnectInv == handled = 0 /\ LoginTalk(Talk)

\* A connection before anything is typed, and a session between two commands.
HelloInv ==
    IF Ssh THEN /\ mode = "cli"
                /\ \A i \in 1 .. Len(wire) : \/ wire[i].k = "text"
                                             \/ early /\ wire[i] = Prompt /\ i = Len(wire)
    ELSE wire = <<>> /\ left = <<>>

ReadyInv == mode = "cli" /\ prompt = "cli" /\ \E p \in Preludes : AllPrompts(wire, p)

\* The two properties, for a device that is straight.
OwnResults ==
    \A c \in DOMAIN results : results[c] = [i \in DOMAIN script[c] |-> Line(script[c][i], c)]
TypedRight == \A e \in typed : e.what \in DOMAIN Asks => e.at = Asks[e.what]

\* What has been told and typed at each place of the client.
OutputInv ==
    /\ OwnResults
    /\ TypedRight
    /\ Connecting => results = <<>>
    /\ pc \in {"connect", "hello"} => Connecting
    /\ pc = "hello" => HelloInv
    /\ pc = "judge" => out # <<>>
    /\ pc \in {"read", "judge"} => IF Connecting THEN ConnectInv ELSE CommandInv
    /\ pc = "ready" => ReadyInv

\* No output that only looks like something else, and no result that shows that
\* a prompt of the shell's own was taken for an answer.
Straight == Honest /\ (early => \A c \in DOMAIN results : results[c] # <<>>)

LEMMA StoryParts ==
  ASSUME TypeInv
  PROVE  /\ Talk \in Seq(Tokens) /\ Story \in Seq(Tokens)
         /\ Len(out) \in Nat /\ Len(wire) \in Nat /\ Len(held) \in Nat
         /\ Len(Talk) = Len(out) + Len(wire)
         /\ Len(Story) = Len(held) + Len(out) + Len(wire)
         /\ \A i \in 1 .. Len(out) : Talk[i] = out[i] /\ Story[Len(held) + i] = out[i]
         /\ wire = <<>> => Talk = out /\ Story = held \o out
         /\ wire # <<>> => Len(wire) >= 1
         /\ held = <<>> => Story = Talk
         /\ out = <<>> => Talk = wire
<1>1. out \in Seq(Tokens) /\ wire \in Seq(Tokens) /\ held \in Seq(Tokens)
  BY DEF TypeInv, TypeOK
<1>2. /\ Len(out) \in Nat /\ Len(wire) \in Nat /\ Len(held) \in Nat
      /\ wire # <<>> => Len(wire) >= 1
  <2>1. Len(out) \in Nat /\ Len(wire) \in Nat /\ Len(held) \in Nat
    BY <1>1, LenType
  <2>2. wire # <<>> => Len(wire) # 0
    BY <1>1, EmptySeq
  <2> QED BY <2>1, <2>2
<1>3. Joins(Talk, out, wire) /\ Joins(Story, held, Talk)
  BY DEF Joins, Talk, Story
<1>4. /\ Talk \in Seq(Tokens) /\ Len(Talk) = Len(out) + Len(wire)
      /\ \A i \in 1 .. Len(out) : Talk[i] = out[i]
  BY <1>1, <1>3, JoinShape
<1>5. /\ Story \in Seq(Tokens) /\ Len(Story) = Len(held) + Len(Talk)
      /\ \A i \in 1 .. Len(Talk) : Story[Len(held) + i] = Talk[i]
  <2>1. Talk \in Seq(Tokens)
    BY <1>4
  <2> QED BY <1>1, <1>3, <2>1, JoinShape
<1>6. \A i \in 1 .. Len(out) : Talk[i] = out[i] /\ Story[Len(held) + i] = out[i]
  BY <1>2, <1>4, <1>5
<1>7. wire = <<>> => Talk = out /\ Story = held \o out
  BY <1>1, ConcatEmptySeq DEF Talk, Story
<1>8. held = <<>> => Story = Talk
  BY <1>4, ConcatEmptySeq DEF Story
<1>9. out = <<>> => Talk = wire
  BY <1>1, ConcatEmptySeq DEF Talk
<1> QED BY <1>2, <1>4, <1>5, <1>6, <1>7, <1>8, <1>9

\* What a chunk takes from the wire stays in the talk; what is printed is added
\* to its end.
LEMMA TalkCut ==
  ASSUME TypeInv, Chunk
  PROVE  Talk' = Talk /\ Story' = Story /\ out' # <<>>
<1>1. PICK n \in 1 .. Len(wire) : /\ out' = out \o SubSeq(wire, 1, n)
                                  /\ wire' = SubSeq(wire, n + 1, Len(wire))
  BY DEF Chunk
<1> DEFINE a == SubSeq(wire, 1, n)
           b == SubSeq(wire, n + 1, Len(wire))
<1>2. out \in Seq(Tokens) /\ wire \in Seq(Tokens)
  BY DEF TypeInv, TypeOK
<1>3. a \in Seq(Tokens) /\ b \in Seq(Tokens) /\ a \o b = wire /\ Len(a) = n
  BY <1>2, CutTypes
<1>4. out' = out \o a /\ wire' = b
  BY <1>1
<1> HIDE DEF a, b
<1>5. (out \o a) \o b = out \o (a \o b)
  <2>1. out \in Seq(Tokens) /\ a \in Seq(Tokens) /\ b \in Seq(Tokens)
    BY <1>2, <1>3
  <2> QED BY <2>1, ConcatAssociative
<1>6. Talk' = Talk
  BY <1>3, <1>4, <1>5 DEF Talk
<1>7. held' = held
  BY DEF Chunk, session
<1>8. Len(out') = Len(out) + n /\ Len(out) \in Nat /\ out' \in Seq(Tokens)
  <2>1. Joins(out', out, a) /\ out \in Seq(Tokens) /\ a \in Seq(Tokens)
    BY <1>2, <1>3, <1>4 DEF Joins
  <2> QED BY <1>3, <2>1, JoinShape
<1>9. out' # <<>>
  <2>1. Len(out') > 0
    BY <1>8
  <2> QED BY <2>1
<1> QED BY <1>6, <1>7, <1>9 DEF Story

LEMMA TalkOn ==
  ASSUME TypeInv, NEW P \in Seq(Tokens), Joins(wire', wire, P),
         \/ out' = out /\ held' = held
         \/ out' = <<>> /\ held = <<>> /\ held' = out
  PROVE  Joins(Story', Story, P) /\ (out' = out => Joins(Talk', Talk, P))
<1>1. out \in Seq(Tokens) /\ wire \in Seq(Tokens) /\ held \in Seq(Tokens) /\ Talk \in Seq(Tokens)
  BY StoryParts DEF TypeInv, TypeOK
<1>2. wire \o P \in Seq(Tokens)
  BY <1>1
<1>3. out \o (wire \o P) = Talk \o P
  BY <1>1, ConcatAssociative DEF Talk
<1>4. held \o (Talk \o P) = Story \o P
  <2>1. held \in Seq(Tokens) /\ Talk \in Seq(Tokens)
    BY <1>1
  <2>2. (held \o Talk) \o P = held \o (Talk \o P)
    BY <2>1, ConcatAssociative
  <2> QED BY <2>2 DEF Story
<1>5. CASE out' = out /\ held' = held
  <2>1. Talk' = Talk \o P
    BY <1>3, <1>5 DEF Talk, Joins
  <2>2. Story' = Story \o P
    BY <1>4, <1>5, <2>1 DEF Story
  <2> QED BY <2>1, <2>2 DEF Joins
<1>6. CASE out' = <<>> /\ held = <<>> /\ held' = out
  <2>1. Talk' = wire \o P
    BY <1>2, <1>6, ConcatEmptySeq DEF Talk, Joins
  <2>2. Story' = Talk \o P
    BY <1>3, <1>6, <2>1 DEF Story
  <2>3. Story = Talk
    BY <1>6, StoryParts
  <2>4. out' = out => Talk' = Talk \o P
    BY <1>6, <2>1, <1>1, StoryParts
  <2> QED BY <2>2, <2>3, <2>4 DEF Joins
<1> QED BY <1>5, <1>6

\* The device plays on after n tokens.
LEMMA PlaysOn ==
  ASSUME NEW f \in Seq(Chars), NEW c \in 0 .. Commands + 1, NEW p \in Nat,
         NEW n \in Nat, n <= Len(f),
         NEW t \in Seq(Tokens), Heard(t, f, c, p, n),
         NEW s, s = Rest(f, n), NEW before, Play(s, c, before),
         NEW P, P = Prints(s, c), NEW u, Joins(u, t, P)
  PROVE  /\ P \in Seq(Tokens)
         /\ \/ /\ mode' = "cli" /\ AllTold(u, f, c, p)
               /\ \A j \in n + 1 .. Len(f) : ~WaitsAt(f, j)
            \/ \E m \in n + 1 .. Len(f) :
                  /\ mode' = f[m] /\ WaitsAt(f, m) /\ left' = Rest(f, m)
                  /\ Heard(u, f, c, p, m)
                  /\ \A j \in n + 1 .. m - 1 : ~WaitsAt(f, j)
         /\ \A i \in 1 .. Len(P) : P[i].k = "pager" => i = Len(P) /\ mode' = "pager"
<1>1. /\ s \in Seq(Chars) /\ P \in Seq(Tokens) /\ u \in Seq(Tokens)
      /\ Waits(s) = {} =>
           /\ AllTold(u, f, c, p)
           /\ \A j \in n + 1 .. Len(f) : ~WaitsAt(f, j)
      /\ Waits(s) # {} =>
           /\ Len(P) \in 1 .. Len(s) /\ n + Len(P) \in 1 .. Len(f)
           /\ s[Len(P)] = f[n + Len(P)] /\ WaitsAt(f, n + Len(P))
           /\ Heard(u, f, c, p, n + Len(P))
           /\ Rest(s, Len(P)) = Rest(f, n + Len(P))
           /\ \A j \in n + 1 .. n + Len(P) - 1 : ~WaitsAt(f, j)
  <2>1. StoryNext(f, c, p, n, s, P, u)
    BY StoryGoesOn
  <2> QED BY <2>1 DEF StoryNext
<1>2. /\ Waits(s) = {} => mode' = "cli"
      /\ Waits(s) # {} => mode' = s[Len(P)] /\ left' = Rest(s, Len(P))
  BY DEF Play, Rest
<1>3. /\ Waits(s) = {} => /\ Len(P) = Len(s) + 1 /\ P[Len(s) + 1] = Prompt
                          /\ \A i \in 1 .. Len(s) : P[i] = Line(s[i], c)
      /\ Waits(s) # {} => /\ Len(P) \in Waits(s) /\ \A v \in Waits(s) : Len(P) <= v
                          /\ \A i \in 1 .. Len(P) : P[i] = Line(s[i], c)
  BY <1>1, PrintsShape DEF Prompt
<1>4. Len(s) \in Nat /\ Len(P) \in Nat /\ Len(f) \in Nat
  BY <1>1, LenType
<1>5. \A i \in 1 .. Len(s) : Line(s[i], c).k = s[i] /\ (s[i] = "pager" => i \in Waits(s))
  BY <1>1, LineType DEF Waits
<1>6. CASE Waits(s) = {}
  <2>1. ASSUME NEW i \in 1 .. Len(P) PROVE P[i].k # "pager"
    <3>1. CASE i \in 1 .. Len(s)
      BY <1>3, <1>5, <1>6, <3>1
    <3>2. CASE i = Len(s) + 1
      BY <1>3, <1>6, <3>2, PromptType DEF Prompt
    <3> QED BY <1>3, <1>4, <1>6, <3>1, <3>2
  <2> QED BY <1>1, <1>2, <1>6, <2>1
<1>7. CASE Waits(s) # {}
  <2>1. ASSUME NEW i \in 1 .. Len(P), P[i].k = "pager" PROVE i = Len(P) /\ mode' = "pager"
    <3>1. i \in 1 .. Len(s)
      BY <1>1, <1>4, <1>7
    <3>2. s[i] = "pager"
      BY <1>3, <1>5, <1>7, <2>1, <3>1
    <3>3. Len(P) <= i
      BY <1>3, <1>5, <1>7, <3>1, <3>2
    <3>4. i = Len(P)
      BY <1>4, <3>3
    <3> QED BY <1>2, <1>7, <3>2, <3>4
  <2>2. /\ n + Len(P) \in n + 1 .. Len(f)
        /\ mode' = f[n + Len(P)] /\ left' = Rest(f, n + Len(P))
        /\ WaitsAt(f, n + Len(P)) /\ Heard(u, f, c, p, n + Len(P))
        /\ \A j \in n + 1 .. n + Len(P) - 1 : ~WaitsAt(f, j)
    BY <1>1, <1>2, <1>4, <1>7
  <2> DEFINE m == n + Len(P)
  <2>3. /\ m \in n + 1 .. Len(f)
        /\ mode' = f[m] /\ WaitsAt(f, m) /\ left' = Rest(f, m)
        /\ Heard(u, f, c, p, m)
        /\ \A j \in n + 1 .. m - 1 : ~WaitsAt(f, j)
    BY <2>2
  <2> HIDE DEF m
  <2>4. P \in Seq(Tokens)
    BY <1>1
  <2> QED BY <2>1, <2>3, <2>4
<1> QED BY <1>6, <1>7

LEMMA ScriptShape ==
  ASSUME TypeInv, Current <= Commands
  PROVE  /\ Script \in Seq(Chars) /\ Len(Script) \in Nat
         /\ Current \in 1 .. Commands /\ Current \in 0 .. Commands + 1
<1>1. Current \in 1 .. Commands /\ Commands \in Nat
  BY CliAssumption DEF Current, TypeInv, TypeOK
<1>2. Script \in Seq(Chars)
  BY <1>1, ScriptTypes DEF Script, TypeInv
<1> QED BY <1>1, <1>2, LenType

\* What the token at i of a story is.
TokenAt(t, f, p, n, i) ==
    \/ i <= p /\ t[i].k = "prompt"
    \/ t[i].k = "echo"
    \/ \E j \in 1 .. n : t[i].k = f[j]

LEMMA TokenOf ==
  ASSUME NEW f \in Seq(Chars), NEW c \in 0 .. Commands + 1, NEW p \in Nat, NEW n \in Nat,
         n <= Len(f), NEW t, Tells(t, f, c, p, n), NEW i \in 1 .. p + 1 + n
  PROVE  TokenAt(t, f, p, n, i)
<1>1. CASE i <= p
  <2>1. t[i] = Prompt
    BY <1>1 DEF Tells
  <2> QED BY <1>1, <2>1, PromptType DEF Prompt, TokenAt
<1>2. CASE i = p + 1
  BY <1>2, LineType DEF Tells, TokenAt
<1>3. CASE i > p + 1
  <2>1. i \in p + 1 + 1 .. p + 1 + n /\ p + 1 \in Nat
    BY <1>3
  <2>2. i - (p + 1) \in 1 .. n /\ p + 1 + (i - (p + 1)) = i
    BY <2>1, Behind
  <2>3. PICK j \in 1 .. n : i = p + 1 + j
    BY <2>2
  <2>4. t[i] = Line(f[j], c)
    BY <2>3 DEF Tells
  <2>5. Len(f) \in Nat
    BY LenType
  <2>6. j \in 1 .. Len(f)
    BY <2>5
  <2>7. f[j] \in Chars
    BY <2>6
  <2>8. t[i].k = f[j]
    BY <2>4, <2>7, LineType
  <2> QED BY <2>3, <2>8 DEF TokenAt
<1> QED BY <1>1, <1>2, <1>3

\* So a token that a story tells is a prompt, an echo or from the script.
LEMMA KindOf ==
  ASSUME NEW f \in Seq(Chars), NEW c \in 0 .. Commands + 1, NEW p \in Nat, NEW n \in Nat,
         n <= Len(f), NEW t, Tells(t, f, c, p, n), NEW i \in 1 .. p + 1 + n,
         t[i].k \notin {"prompt", "echo"}
  PROVE  \E j \in 1 .. n : t[i].k = f[j]
<1>1. TokenAt(t, f, p, n, i)
  BY TokenOf
<1> QED BY <1>1 DEF TokenAt

\* What is printed is the end of the wire.
LEMMA Printed ==
  ASSUME TypeInv, NEW s, NEW c, NEW before \in Seq(Tokens), Play(s, c, before),
         NEW P \in Seq(Tokens), P = Prints(s, c), NEW v, Joins(v, wire, before)
  PROVE  Joins(wire', v, P)
<1>1. wire' = (wire \o before) \o P
  BY DEF Play
<1> QED BY <1>1 DEF Joins

LEMMA PlayLeft ==
  ASSUME TypeInv, Current <= Commands, NEW p \in Nat, NEW n \in 1 .. Len(Script),
         Asking(p, n), Play(left, Current, <<>>),
         \/ out' = out /\ held' = held
         \/ out' = <<>> /\ held = <<>> /\ held' = out,
         goal' = "command" => goal = "command" /\ mode = "pager",
         UNCHANGED <<script, results>>
  PROVE  /\ Told(p)' \/ \E m \in 1 .. Len(Script') : Asking(p, m)'
         /\ \E P \in Seq(Tokens) :
               /\ Joins(wire', wire, P) /\ (out' = out => Joins(Talk', Talk, P))
               /\ \A i \in 1 .. Len(P) : P[i].k = "pager" => i = Len(P) /\ mode' = "pager"
<1> DEFINE P == Prints(left, Current)
           f == Script
<1>1. /\ f \in Seq(Chars) /\ Len(f) \in Nat /\ n \in Nat /\ n <= Len(f)
      /\ Current \in 0 .. Commands + 1 /\ left \in Seq(Chars)
  BY ScriptShape, ScriptTypes DEF TypeInv
<1>2. Story \in Seq(Tokens) /\ wire \in Seq(Tokens)
  BY StoryParts DEF TypeInv, TypeOK
<1>3. P \in Seq(Tokens)
  BY <1>1, PrintsShape
<1>4. Joins(wire', wire, P)
  <2>1. Joins(wire, wire, <<>>) /\ <<>> \in Seq(Tokens)
    BY <1>2, ConcatEmptySeq DEF Joins
  <2> QED BY <1>3, <2>1, Printed
<1>5. Joins(Story', Story, P) /\ (out' = out => Joins(Talk', Talk, P))
  <2> HIDE DEF P
  <2> QED BY <1>3, <1>4, TalkOn
<1>6. left = Rest(f, n) /\ Heard(Story, f, Current, p, n) /\ Unasked(n - 1) /\ mode = f[n]
  BY DEF Asking
<1>7. f' = f /\ Current' = Current
  BY DEF Script, Current
<1>8. P = Prints(left, Current)
  OBVIOUS
<1> HIDE DEF P, f
<1>9. /\ \/ /\ mode' = "cli" /\ AllTold(Story', f, Current, p)
            /\ \A j \in n + 1 .. Len(f) : ~WaitsAt(f, j)
         \/ \E m \in n + 1 .. Len(f) :
               /\ mode' = f[m] /\ WaitsAt(f, m) /\ left' = Rest(f, m)
               /\ Heard(Story', f, Current, p, m)
               /\ \A j \in n + 1 .. m - 1 : ~WaitsAt(f, j)
      /\ \A i \in 1 .. Len(P) : P[i].k = "pager" => i = Len(P) /\ mode' = "pager"
  BY <1>1, <1>2, <1>5, <1>6, <1>8, PlaysOn
<1>10. ASSUME NEW m \in Nat, m >= n, \A j \in n + 1 .. m : ~WaitsAt(f, j)
       PROVE  goal' = "command" => \A j \in 1 .. m : f[j] # "confirm"
  <2> SUFFICES ASSUME goal' = "command", NEW j \in 1 .. m PROVE f[j] # "confirm"
    OBVIOUS
  <2>1. f[n] # "confirm" /\ \A i \in 1 .. n - 1 : f[i] # "confirm"
    BY <1>6 DEF Unasked, f
  <2>2. j \in 1 .. n - 1 \/ j = n \/ j \in n + 1 .. m
    BY <1>1
  <2> QED BY <1>10, <2>1, <2>2 DEF WaitsAt
<1>11. ASSUME mode' = "cli", AllTold(Story', f, Current, p), \A j \in n + 1 .. Len(f) : ~WaitsAt(f, j)
       PROVE  Told(p)'
  <2>1. goal' = "command" => \A j \in 1 .. Len(f) : f[j] # "confirm"
    BY <1>1, <1>10, <1>11
  <2> QED BY <1>7, <1>11, <2>1 DEF Told, Unasked, f
<1>12. ASSUME NEW m \in n + 1 .. Len(f),
              mode' = f[m], WaitsAt(f, m), left' = Rest(f, m), Heard(Story', f, Current, p, m),
              \A j \in n + 1 .. m - 1 : ~WaitsAt(f, j)
       PROVE  m \in 1 .. Len(f) /\ Asking(p, m)'
  <2>1. m - 1 \in Nat /\ m - 1 >= n /\ m \in 1 .. Len(f)
    BY <1>1
  <2>2. goal' = "command" => \A j \in 1 .. m - 1 : f[j] # "confirm"
    BY <1>10, <1>12, <2>1
  <2> QED BY <1>7, <1>12, <2>1, <2>2 DEF Asking, Unasked, f
<1>13. Told(p)' \/ \E m \in 1 .. Len(f) : Asking(p, m)'
  BY <1>9, <1>11, <1>12
<1> QED BY <1>3, <1>4, <1>5, <1>7, <1>9, <1>13 DEF f

LEMMA PlayFirst ==
  ASSUME TypeInv, Current <= Commands, NEW p \in Nat, AllPrompts(wire, p),
         Play(script[Current], Current, <<Line("echo", Current)>>),
         out' = <<>>, held' = <<>>, UNCHANGED <<script, results>>
  PROVE  /\ Told(p)' \/ \E m \in 1 .. Len(Script') : Asking(p, m)'
         /\ \/ Cardinality(PagersIn(Talk')) = 0
            \/ Cardinality(PagersIn(Talk')) = 1 /\ mode' = "pager"
<1> DEFINE f == Script
           P == Prints(f, Current)
           echo == <<Line("echo", Current)>>
           t == wire \o echo
<1>1. /\ f \in Seq(Chars) /\ Len(f) \in Nat /\ Current \in 0 .. Commands + 1
  BY ScriptShape
<1>2. wire \in Seq(Tokens) /\ echo \in Seq(Tokens)
  BY <1>1, LineType DEF TypeInv, TypeOK
<1>3. P \in Seq(Tokens)
  BY <1>1, PrintsShape
<1>4. Len(echo) = 1 /\ echo[1] = Line("echo", Current)
  OBVIOUS
<1>5. Joins(t, wire, echo) /\ Play(f, Current, echo) /\ P = Prints(f, Current)
  BY DEF Joins, Script
<1> HIDE DEF echo, t, P
<1>6. Joins(wire', t, P)
  BY <1>2, <1>3, <1>5, Printed
<1>7. /\ t \in Seq(Tokens) /\ Len(t) = Len(wire) + 1
      /\ \A i \in 1 .. Len(wire) : t[i] = wire[i]
      /\ t[Len(wire) + 1] = Line("echo", Current)
  <2>1. /\ t \in Seq(Tokens) /\ Len(t) = Len(wire) + Len(echo)
        /\ \A i \in 1 .. Len(wire) : t[i] = wire[i]
        /\ \A j \in 1 .. Len(echo) : t[Len(wire) + j] = echo[j]
    BY <1>2, <1>5, JoinShape
  <2> QED BY <1>4, <2>1
<1>8. Heard(t, f, Current, p, 0)
  <2>1. Len(wire) = p /\ \A i \in 1 .. p : wire[i] = Prompt
    BY DEF AllPrompts
  <2> QED BY <1>7, <2>1 DEF Heard, Tells
<1>9. f = Rest(f, 0)
  BY <1>1, SubSeqFull DEF Rest
<1>10. f' = f /\ Current' = Current
  BY DEF Script, Current
<1>11. wire' \in Seq(Tokens) /\ Talk' = wire' /\ Story' = wire'
  <2>1. wire' \in Seq(Tokens)
    BY <1>3, <1>6, <1>7, JoinShape
  <2>2. Talk' = wire'
    BY <2>1, ConcatEmptySeq DEF Talk
  <2> QED BY <2>1, <2>2, ConcatEmptySeq DEF Story
<1> HIDE DEF f
<1> DEFINE z == 0
<1>12. z \in Nat /\ z + 1 = 1 /\ z <= Len(f) /\ f = Rest(f, z) /\ Heard(t, f, Current, p, z)
  BY <1>1, <1>8, <1>9
<1> HIDE DEF z
<1>13. /\ \/ /\ mode' = "cli" /\ AllTold(wire', f, Current, p)
             /\ \A j \in z + 1 .. Len(f) : ~WaitsAt(f, j)
          \/ \E m \in z + 1 .. Len(f) :
                /\ mode' = f[m] /\ WaitsAt(f, m) /\ left' = Rest(f, m)
                /\ Heard(wire', f, Current, p, m)
                /\ \A j \in z + 1 .. m - 1 : ~WaitsAt(f, j)
       /\ \A i \in 1 .. Len(P) : P[i].k = "pager" => i = Len(P) /\ mode' = "pager"
  <2>1. t \in Seq(Tokens)
    BY <1>7
  <2> QED BY <1>1, <1>5, <1>6, <1>12, <2>1, PlaysOn
<1>14. ASSUME mode' = "cli", AllTold(wire', f, Current, p), \A j \in 1 .. Len(f) : ~WaitsAt(f, j)
       PROVE  Told(p)'
  <2>1. \A j \in 1 .. Len(f) : f[j] # "confirm"
    BY <1>14 DEF WaitsAt
  <2> QED BY <1>10, <1>11, <1>14, <2>1 DEF Told, Unasked, f
<1>15. ASSUME NEW m \in 1 .. Len(f),
              mode' = f[m], WaitsAt(f, m), left' = Rest(f, m), Heard(wire', f, Current, p, m),
              \A j \in 1 .. m - 1 : ~WaitsAt(f, j)
       PROVE  Asking(p, m)'
  <2>1. \A j \in 1 .. m - 1 : f[j] # "confirm"
    BY <1>15 DEF WaitsAt
  <2> QED BY <1>10, <1>11, <1>15, <2>1 DEF Asking, Unasked, f
<1>16. Told(p)' \/ \E m \in 1 .. Len(f) : Asking(p, m)'
  BY <1>12, <1>14, <1>15, <1>13
<1>17. Cardinality(PagersIn(t)) = 0
  <2>1. \A i \in 1 .. Len(t) : t[i].k # "pager"
    <3>1. Len(wire) = p /\ \A i \in 1 .. p : wire[i] = Prompt
      BY DEF AllPrompts
    <3>2. ASSUME NEW i \in 1 .. p + 1 PROVE t[i].k # "pager"
      <4>1. CASE i \in 1 .. p
        BY <1>7, <3>1, <4>1, PromptType DEF Prompt
      <4>2. CASE i = p + 1
        BY <1>1, <1>7, <3>1, <4>2, LineType
      <4> QED BY <4>1, <4>2
    <3> QED BY <1>7, <3>1, <3>2
  <2>2. PagersIn(t) = {}
    BY <1>7, <2>1, PagersFinite
  <2> QED BY <2>2, FS_EmptySet
<1>18. \/ Cardinality(PagersIn(wire')) = Cardinality(PagersIn(t))
       \/ mode' = "pager" /\ Cardinality(PagersIn(wire')) = Cardinality(PagersIn(t)) + 1
  <2>1. t \in Seq(Tokens)
    BY <1>7
  <2>2. \A i \in 1 .. Len(P) : P[i].k = "pager" => i = Len(P) /\ mode' = "pager"
    BY <1>13
  <2> QED BY <1>3, <1>6, <2>1, <2>2, PagersGrow
<1> QED BY <1>10, <1>11, <1>16, <1>17, <1>18 DEF f

----------------------------------------------------------------------------
(* The commands *)

LEMMA TypedOn ==
  ASSUME TypedRight, NEW what, Type(what), what \in DOMAIN Asks => mode = Asks[what]
  PROVE  TypedRight'
<1>1. typed' = typed \cup {[what |-> what, at |-> mode]}
  BY DEF Type
<1> QED BY <1>1 DEF TypedRight

LEMMA AsksOf ==
  /\ DOMAIN Asks = {"username", "password", "command", "y", "c"}
  /\ Asks["username"] = "login" /\ Asks["password"] = "password"
  /\ Asks["command"] = "cli" /\ Asks["y"] = "confirm" /\ Asks["c"] = "pager"
BY DEF Asks

\* What holds while a command is read, from the state it is in.
LEMMA CommandKeeps ==
  ASSUME OutputInv, ~Connecting', pc' = "read" \/ (pc' = "judge" /\ out' # <<>>),
         CommandInv', TypedRight', UNCHANGED <<results, script>>
  PROVE  OutputInv'
BY DEF OutputInv, OwnResults

LEMMA SendKeeps ==
  ASSUME TypeInv, OutputInv, SendCommand
  PROVE  OutputInv'
<1>1. /\ pc = "ready" /\ Current <= Commands /\ Type("command") /\ held' = <<>>
      /\ pc' = "read" /\ goal' = "command" /\ out' = <<>> /\ handled' = 0
      /\ UNCHANGED <<script, early, prompt, results, lost>>
  BY DEF SendCommand, StartReading, env, handles
<1>2. mode = "cli" /\ prompt = "cli"
  BY <1>1 DEF OutputInv, ReadyInv
<1>3. PICK p \in Preludes : AllPrompts(wire, p)
  BY <1>1 DEF OutputInv, ReadyInv
<1>4. TypedRight'
  BY <1>1, <1>2, AsksOf, TypedOn DEF OutputInv
<1>5. p \in Nat /\ p \in Preludes'
  BY <1>1 DEF Preludes
<1>6. Underway' /\ PagerInv'
  <2>1. CASE lost
    <3>1. UNCHANGED <<mode, left, wire>>
      BY <1>1, <2>1 DEF Type
    <3>2. wire \in Seq(Tokens)
      BY DEF TypeInv, TypeOK
    <3>3. Talk' = wire /\ Story' = wire
      <4>1. Talk' = wire
        BY <1>1, <3>1, <3>2, ConcatEmptySeq DEF Talk
      <4> QED BY <1>1, <3>2, <4>1, ConcatEmptySeq DEF Story
    <3>4. Cut(p)'
      BY <1>1, <1>2, <1>3, <2>1, <3>1, <3>3 DEF Cut
    <3>5. PagersIn(wire) = {}
      <4>1. \A i \in 1 .. Len(wire) : wire[i].k # "pager"
        BY <1>3, PromptType DEF AllPrompts, Prompt
      <4> QED BY <3>2, <4>1, PagersFinite
    <3>6. Cardinality(PagersIn(Talk')) = handled'
      BY <1>1, <3>3, <3>5, FS_EmptySet
    <3> QED BY <1>5, <3>4, <3>6 DEF Underway, PagerInv
  <2>2. CASE ~lost
    <3>1. Play(script[Current], Current, <<Line("echo", Current)>>)
      BY <1>1, <1>2, <2>2 DEF Type
    <3>2. /\ Told(p)' \/ \E m \in 1 .. Len(Script') : Asking(p, m)'
          /\ \/ Cardinality(PagersIn(Talk')) = 0
             \/ Cardinality(PagersIn(Talk')) = 1 /\ mode' = "pager"
      BY <1>1, <1>3, <1>5, <3>1, PlayFirst
    <3>3. Underway'
      BY <1>5, <3>2 DEF Underway
    <3>4. PagerInv'
      BY <1>1, <3>2 DEF PagerInv
    <3> QED BY <3>3, <3>4
  <2> QED BY <2>1, <2>2
<1>7. CommandInv'
  BY <1>1, <1>2, <1>6 DEF CommandInv
<1> QED BY <1>1, <1>4, <1>7, CommandKeeps DEF Connecting

LEMMA TalkJoins == Joins(Talk, out, wire)
BY DEF Joins, Talk

LEMMA PagersRead == ASSUME TypeInv PROVE Pagers = Cardinality(PagersIn(out)) /\ Pagers \in Nat
<1>1. Pagers = Cardinality(PagersIn(out))
  BY DEF Pagers, PagersIn
<1>2. out \in Seq(Tokens)
  BY DEF TypeInv, TypeOK
<1> QED BY <1>1, <1>2, PagersFinite

\* The device waits at every pager that is read and not yet continued.
LEMMA PagerAsked ==
  ASSUME TypeInv, PagerInv, handled < Pagers
  PROVE  mode = "pager" /\ Cardinality(PagersIn(Talk)) = handled + 1
<1>1. out \in Seq(Tokens) /\ wire \in Seq(Tokens)
  BY DEF TypeInv, TypeOK
<1>2. Cardinality(PagersIn(out)) <= Cardinality(PagersIn(Talk))
  BY <1>1, TalkJoins, PagersPart
<1>3. Cardinality(PagersIn(Talk)) \in Nat /\ handled \in Nat
  BY StoryParts, PagersFinite DEF TypeInv, TypeOK
<1>4. handled < Cardinality(PagersIn(Talk))
  BY <1>2, <1>3, PagersRead
<1> QED BY <1>3, <1>4 DEF PagerInv

LEMMA PagerKeeps ==
  ASSUME TypeInv, OutputInv, ContinuePager, ~Connecting
  PROVE  OutputInv'
<1>1. /\ pc = "judge" /\ pc' = "judge" /\ handled < Pagers /\ handled' = handled + 1 /\ Type("c")
      /\ UNCHANGED <<script, early, prompt, results, lost, out, held, goal>>
  BY DEF ContinuePager, env, client, session, handles
<1>2. CommandInv /\ out # <<>> /\ Current <= Commands
  BY <1>1 DEF OutputInv, TypeInv
<1>3. mode = "pager" /\ Cardinality(PagersIn(Talk)) = handled + 1
  BY <1>1, <1>2, PagerAsked DEF CommandInv
<1>4. TypedRight'
  BY <1>1, <1>3, AsksOf, TypedOn DEF OutputInv
<1>5. PICK p \in Preludes : Cut(p) \/ Told(p) \/ \E n \in 1 .. Len(Script) : Asking(p, n)
  BY <1>2 DEF CommandInv, Underway
<1>6. PICK n \in 1 .. Len(Script) : Asking(p, n)
  BY <1>3, <1>5 DEF Cut, Told
<1>7. p \in Nat /\ p \in Preludes'
  BY <1>1 DEF Preludes
<1>8. Underway' /\ PagerInv'
  <2>1. CASE lost
    <3>1. UNCHANGED <<mode, left, wire>>
      BY <1>1, <2>1 DEF Type
    <3>2. UNCHANGED <<Talk, Story, Script, Current, mode, left, goal>>
      BY <1>1, <3>1 DEF Talk, Story, Script, Current
    <3>3. Asking(p, n)' /\ n \in 1 .. Len(Script')
      BY <1>6, <3>2 DEF Asking, Unasked
    <3>4. Cardinality(PagersIn(Talk')) = handled'
      BY <1>1, <1>3, <3>2
    <3> QED BY <1>7, <3>3, <3>4 DEF Underway, PagerInv
  <2>2. CASE ~lost
    <3>1. Play(left, Current, <<>>)
      BY <1>1, <1>3, <2>2 DEF Type
    <3>2. /\ Told(p)' \/ \E m \in 1 .. Len(Script') : Asking(p, m)'
          /\ \E P \in Seq(Tokens) :
               /\ Joins(wire', wire, P) /\ (out' = out => Joins(Talk', Talk, P))
               /\ \A i \in 1 .. Len(P) : P[i].k = "pager" => i = Len(P) /\ mode' = "pager"
      BY <1>1, <1>2, <1>3, <1>6, <1>7, <3>1, PlayLeft
    <3>3. PICK P \in Seq(Tokens) :
               /\ Joins(Talk', Talk, P)
               /\ \A i \in 1 .. Len(P) : P[i].k = "pager" => i = Len(P) /\ mode' = "pager"
      BY <1>1, <3>2
    <3>4. Talk \in Seq(Tokens)
      BY StoryParts
    <3>5. \/ Cardinality(PagersIn(Talk')) = Cardinality(PagersIn(Talk))
          \/ mode' = "pager" /\ Cardinality(PagersIn(Talk')) = Cardinality(PagersIn(Talk)) + 1
      BY <3>3, <3>4, PagersGrow
    <3>6. PagerInv'
      BY <1>1, <1>3, <3>5 DEF PagerInv
    <3> QED BY <1>7, <3>2, <3>6 DEF Underway
  <2> QED BY <2>1, <2>2
<1>9. CommandInv'
  BY <1>1, <1>2, <1>8 DEF CommandInv
<1> QED BY <1>1, <1>2, <1>4, <1>9, CommandKeeps DEF Connecting

\* A confirmation that is read is one the device waits at.
LEMMA ConfirmAsked ==
  ASSUME TypeInv, Honest, CommandInv, Current <= Commands, goal = "command",
         NEW i \in 1 .. Len(out), out[i].k \in {"confirm", "mention"},
         NEW p \in Preludes,
         Cut(p) \/ Told(p) \/ \E n \in 1 .. Len(Script) : Asking(p, n)
  PROVE  mode = "confirm" /\ held = <<>> /\ \E n \in 1 .. Len(Script) : Asking(p, n)
<1>1. held = <<>> /\ Len(held) = 0
  BY DEF CommandInv
<1>2. /\ Len(Story) = Len(out) + Len(wire) /\ Len(out) \in Nat /\ Len(wire) \in Nat
      /\ Story[0 + i] = out[i]
  BY <1>1, StoryParts
<1>3. i \in 1 .. Len(Story) /\ Story[i].k \in {"confirm", "mention"} /\ p \in Nat
  BY <1>2 DEF Preludes
<1>4. Script \in Seq(Chars) /\ Len(Script) \in Nat /\ Current \in 0 .. Commands + 1
  BY ScriptShape
<1>5. \A j \in 1 .. Len(Script) : Script[j] # "mention"
  <2>1. Current \in 1 .. Commands /\ DOMAIN Script = 1 .. Len(Script)
    BY <1>4, ScriptShape
  <2> QED BY <2>1 DEF Honest, Script
<1>6. ASSUME NEW n \in Nat, n <= Len(Script), Tells(Story, Script, Current, p, n), i <= p + 1 + n
      PROVE  \E j \in 1 .. n : Script[j] = "confirm"
  <2>1. i \in 1 .. p + 1 + n
    BY <1>3, <1>6
  <2>2. Story[i].k \notin {"prompt", "echo"}
    BY <1>3
  <2>3. Script \in Seq(Chars) /\ Current \in 0 .. Commands + 1 /\ p \in Nat
    BY <1>3, <1>4
  <2>4. PICK j \in 1 .. n : Story[i].k = Script[j]
    <3>1. n \in Nat /\ n <= Len(Script) /\ Tells(Story, Script, Current, p, n)
      BY <1>6
    <3>2. \E j \in 1 .. n : Story[i].k = Script[j]
      BY <2>1, <2>2, <2>3, <3>1, KindOf
    <3> QED BY <3>2
  <2>5. j \in 1 .. Len(Script)
    BY <1>4, <1>6
  <2> QED BY <1>3, <1>5, <2>4, <2>5
<1>7. ~Cut(p)
  BY <1>3, PromptType DEF Cut, AllPrompts, Prompt
<1>8. ~Told(p)
  <2> SUFFICES ASSUME Told(p) PROVE FALSE
    OBVIOUS
  <2>1. /\ Tells(Story, Script, Current, p, Len(Script))
        /\ Len(Story) = p + 1 + Len(Script) + 1
        /\ Story[p + 1 + Len(Script) + 1] = Prompt
        /\ \A j \in 1 .. Len(Script) : Script[j] # "confirm"
    BY DEF Told, AllTold, Unasked
  <2>2. i # p + 1 + Len(Script) + 1
    BY <1>3, <2>1, PromptType DEF Prompt
  <2>3. i <= p + 1 + Len(Script)
    BY <1>3, <1>4, <2>1, <2>2
  <2> QED BY <1>4, <1>6, <2>1, <2>3
<1>9. PICK n \in 1 .. Len(Script) : Asking(p, n)
  BY <1>7, <1>8
<1>10. /\ Tells(Story, Script, Current, p, n) /\ Len(Story) = p + 1 + n
       /\ mode = Script[n] /\ \A j \in 1 .. n - 1 : Script[j] # "confirm"
  BY <1>9 DEF Asking, Heard, Unasked
<1>11. PICK j \in 1 .. n : Script[j] = "confirm"
  BY <1>3, <1>4, <1>6, <1>10
<1>12. j = n
  BY <1>10, <1>11
<1> QED BY <1>1, <1>9, <1>10, <1>11, <1>12

LEMMA ConfirmKeeps ==
  ASSUME TypeInv, Honest, OutputInv, Confirm
  PROVE  OutputInv'
<1>1. /\ pc = "judge" /\ handled = Pagers /\ StopSeen = "confirmation"
      /\ goal = "command" /\ goal' = "confirmed" /\ pc' = "read" /\ handled' = 0
      /\ Type("y") /\ out' = <<>> /\ held' = out
      /\ UNCHANGED <<script, early, prompt, results, lost>>
  BY DEF Confirm, Returns, StartReading, env, handles
<1>2. CommandInv /\ Current <= Commands
  BY <1>1 DEF OutputInv, TypeInv, Connecting
<1>3. PICK i \in 1 .. Len(out) : out[i].k \in {"confirm", "mention"}
  <2>1. Reads({"confirm", "mention"})
    BY <1>1 DEF StopSeen
  <2>2. DOMAIN out = 1 .. Len(out)
    BY DEF TypeInv, TypeOK
  <2> QED BY <2>1, <2>2 DEF Reads
<1>4. PICK p \in Preludes : Cut(p) \/ Told(p) \/ \E n \in 1 .. Len(Script) : Asking(p, n)
  BY <1>2 DEF CommandInv, Underway
<1>5. mode = "confirm" /\ held = <<>> /\ \E n \in 1 .. Len(Script) : Asking(p, n)
  BY <1>1, <1>2, <1>3, <1>4, ConfirmAsked
<1>6. PICK n \in 1 .. Len(Script) : Asking(p, n)
  BY <1>5
<1>7. TypedRight'
  BY <1>1, <1>5, AsksOf, TypedOn DEF OutputInv
<1>8. p \in Nat /\ p \in Preludes'
  BY <1>1 DEF Preludes
<1>9. out \in Seq(Tokens) /\ wire \in Seq(Tokens)
  BY DEF TypeInv, TypeOK
<1>10. Cardinality(PagersIn(wire)) = 0
  <2>1. Cardinality(PagersIn(Talk)) = handled
    BY <1>2, <1>5 DEF CommandInv, PagerInv
  <2>2. Cardinality(PagersIn(out)) = Cardinality(PagersIn(Talk))
    BY <1>1, <2>1, PagersRead
  <2>3. PagersIn(wire) = {}
    BY <1>9, <2>2, TalkJoins, PagersPart
  <2> QED BY <2>3, FS_EmptySet
<1>11. ASSUME wire' \in Seq(Tokens) PROVE Talk' = wire'
  BY <1>1, <1>11, ConcatEmptySeq DEF Talk
<1>12. Underway' /\ PagerInv'
  <2>1. CASE lost
    <3>1. UNCHANGED <<mode, left, wire>>
      BY <1>1, <2>1 DEF Type
    <3>2. Talk' = wire
      BY <1>9, <1>11, <3>1
    <3>3. Story' = Story
      <4>1. Story' = Talk
        BY <1>1, <3>2 DEF Story, Talk
      <4> QED BY <1>5, <4>1, StoryParts
    <3>4. UNCHANGED <<Story, Script, Current, mode, left>>
      BY <1>1, <3>1, <3>3 DEF Script, Current
    <3>5. Asking(p, n)' /\ n \in 1 .. Len(Script')
      BY <1>1, <1>6, <3>4 DEF Asking, Unasked
    <3>6. Cardinality(PagersIn(Talk')) = handled'
      BY <1>1, <1>10, <3>2
    <3> QED BY <1>8, <3>5, <3>6 DEF Underway, PagerInv
  <2>2. CASE ~lost
    <3>1. Play(left, Current, <<>>)
      BY <1>1, <1>5, <2>2 DEF Type
    <3>2. /\ Told(p)' \/ \E m \in 1 .. Len(Script') : Asking(p, m)'
          /\ \E P \in Seq(Tokens) :
               /\ Joins(wire', wire, P) /\ (out' = out => Joins(Talk', Talk, P))
               /\ \A i_1 \in 1 .. Len(P) : P[i_1].k = "pager" => i_1 = Len(P) /\ mode' = "pager"
      BY <1>1, <1>2, <1>5, <1>6, <1>8, <3>1, PlayLeft
    <3>3. PICK P \in Seq(Tokens) :
               /\ Joins(wire', wire, P)
               /\ \A i_1 \in 1 .. Len(P) : P[i_1].k = "pager" => i_1 = Len(P) /\ mode' = "pager"
      BY <3>2
    <3>4. \/ Cardinality(PagersIn(wire')) = Cardinality(PagersIn(wire))
          \/ mode' = "pager" /\ Cardinality(PagersIn(wire')) = Cardinality(PagersIn(wire)) + 1
      BY <1>9, <3>3, PagersGrow
    <3>5. wire' \in Seq(Tokens)
      BY <1>9, <3>3, JoinShape
    <3>6. PagerInv'
      BY <1>1, <1>10, <1>11, <3>4, <3>5 DEF PagerInv
    <3> QED BY <1>8, <3>2, <3>6 DEF Underway
  <2> QED BY <2>1, <2>2
<1>13. CommandInv'
  BY <1>1, <1>2, <1>12 DEF CommandInv
<1> QED BY <1>1, <1>7, <1>13, CommandKeeps DEF Connecting

\* What ends like a prompt is a prompt from before the command, or the one at
\* its end.
LEMMA PromptEnds ==
  ASSUME TypeInv, Honest, Current <= Commands,
         NEW i \in 1 .. Len(Story), Story[i].k \in {"prompt", "lookalike"},
         NEW p \in Preludes,
         Cut(p) \/ Told(p) \/ \E n \in 1 .. Len(Script) : Asking(p, n)
  PROVE  i <= p \/ (Told(p) /\ i = Len(Story))
<1>1. /\ Script \in Seq(Chars) /\ Len(Script) \in Nat /\ Current \in 0 .. Commands + 1
      /\ p \in Nat /\ Len(Story) \in Nat
  BY ScriptShape, StoryParts, LenType DEF Preludes
<1>2. \A j \in 1 .. Len(Script) : Script[j] \notin {"prompt", "lookalike"}
  <2>1. Current \in 1 .. Commands /\ DOMAIN Script = 1 .. Len(Script)
    BY <1>1, ScriptShape
  <2>2. \A j \in 1 .. Len(Script) : Script[j] \in Chars
    BY <1>1
  <2> QED BY <2>1, <2>2 DEF Honest, Script, Chars
<1>3. ASSUME NEW n \in Nat, n <= Len(Script), Tells(Story, Script, Current, p, n), i <= p + 1 + n
      PROVE  i <= p
  <2>1. i \in 1 .. p + 1 + n
    BY <1>1, <1>3
  <2>2. TokenAt(Story, Script, p, n, i)
    BY <1>1, <1>3, <2>1, TokenOf
  <2>3. i <= p \/ \E j \in 1 .. n : Script[j] \in {"prompt", "lookalike"}
    BY <2>2 DEF TokenAt
  <2> QED BY <1>1, <1>2, <1>3, <2>3
<1>4. CASE Cut(p)
  BY <1>1, <1>4 DEF Cut, AllPrompts
<1>5. CASE Told(p)
  <2>1. /\ Tells(Story, Script, Current, p, Len(Script))
        /\ Len(Story) = p + 1 + Len(Script) + 1
    BY <1>5 DEF Told, AllTold
  <2>2. i = Len(Story) \/ i <= p + 1 + Len(Script)
    BY <1>1, <2>1
  <2> QED BY <1>1, <1>3, <1>5, <2>1, <2>2
<1>6. CASE \E n \in 1 .. Len(Script) : Asking(p, n)
  <2>1. PICK n \in 1 .. Len(Script) : Asking(p, n)
    BY <1>6
  <2>2. /\ Tells(Story, Script, Current, p, n) /\ Len(Story) = p + 1 + n
        /\ n \in Nat /\ n <= Len(Script)
    BY <1>1, <2>1 DEF Asking, Heard
  <2>3. i <= p + 1 + n
    BY <2>2
  <2> QED BY <1>3, <2>2, <2>3
<1> QED BY <1>4, <1>5, <1>6

LEMMA AnsweredKeeps ==
  ASSUME TypeInv, Honest, OutputInv, Straight', Answered
  PROVE  OutputInv'
<1>1. /\ pc = "judge" /\ ~Connecting /\ pc' = "ready" /\ PromptSeen
      /\ results' = Append(results, Stripped(held \o out))
      /\ UNCHANGED <<script, early, prompt, goal, mode, wire, typed>>
  BY DEF Answered, Returns, env, device, StopSeen
<1>2. CommandInv /\ Current <= Commands /\ out # <<>> /\ prompt = "cli"
  BY <1>1 DEF OutputInv, TypeInv, CommandInv
<1>3. out[Len(out)].k \in {"prompt", "lookalike"}
  BY <1>1, <1>2 DEF PromptSeen, EndsWithPrompt, Detected, Last
<1>4. PICK p \in Preludes : Cut(p) \/ Told(p) \/ \E n \in 1 .. Len(Script) : Asking(p, n)
  BY <1>2 DEF CommandInv, Underway
<1>5. out \in Seq(Tokens) /\ held \in Seq(Tokens) /\ results \in Seq(Seq(Tokens))
  BY DEF TypeInv, TypeOK
<1>6. Len(out) \in Nat /\ Len(out) >= 1 /\ Len(held) \in Nat
  BY <1>2, <1>5, EmptySeq, LenType
<1> DEFINE i == Len(held) + Len(out)
<1>7. /\ Len(Story) = i + Len(wire) /\ Len(wire) \in Nat /\ (wire # <<>> => Len(wire) >= 1)
      /\ Story[i] = out[Len(out)] /\ i \in 1 .. Len(Story)
  <2>1. Len(out) \in 1 .. Len(out)
    BY <1>6
  <2> QED BY <1>6, <2>1, StoryParts
<1> HIDE DEF i
<1>8. i <= p \/ (Told(p) /\ i = Len(Story))
  BY <1>2, <1>3, <1>4, <1>7, PromptEnds
<1>9. Current \in 0 .. Commands + 1 /\ Script \in Seq(Chars)
  BY <1>2, ScriptShape
<1>10. ~(i <= p)
  <2> SUFFICES ASSUME i <= p PROVE FALSE
    OBVIOUS
  <2>1. p = 1 /\ early /\ results = <<>> /\ Len(out) = 1 /\ Len(held) = 0
    BY <1>6 DEF Preludes, i
  <2>2. held = <<>>
    BY <1>5, <2>1, EmptySeq
  <2>3. held \o out = out
    BY <1>5, <2>2, ConcatEmptySeq
  <2>4. out[1] = Prompt
    <3>1. Story[1] = Prompt
      <4>1. CASE Cut(p)
        BY <2>1, <4>1 DEF Cut, AllPrompts
      <4>2. CASE Told(p)
        BY <2>1, <4>2 DEF Told, AllTold, Tells
      <4>3. CASE \E n \in 1 .. Len(Script) : Asking(p, n)
        BY <2>1, <4>3 DEF Asking, Heard, Tells
      <4> QED BY <1>4, <4>1, <4>2, <4>3
    <3> QED BY <1>7, <2>1, <3>1 DEF i
  <2>5. results' = <<<<>>>>
    <3>1. Stripped(out) = <<>>
      BY <1>5, <1>9, <2>1, <2>4, StrippedPrompt
    <3>2. results' = Append(<<>>, <<>>)
      BY <1>1, <2>1, <2>3, <3>1
    <3> QED BY <3>2
  <2>6. 1 \in DOMAIN results' /\ results'[1] = <<>>
    BY <2>5
  <2> QED BY <1>1, <2>1, <2>6 DEF Straight
<1>11. Told(p) /\ wire = <<>>
  BY <1>7, <1>8, <1>10
<1>12. Story = held \o out /\ Story \in Seq(Tokens)
  BY <1>11, StoryParts
<1>13. Stripped(held \o out) = [j \in DOMAIN Script |-> Line(Script[j], Current)]
  <2>1. AllTold(Story, Script, Current, p) /\ p \in {0, 1}
    BY <1>11 DEF Told, Preludes
  <2> QED BY <1>9, <1>12, <2>1, StrippedTold
<1>14. OwnResults'
  <2> DEFINE r == Stripped(held \o out)
  <2>1. r \in Seq(Tokens)
    BY <1>12, StrippedType
  <2>2. results' = Append(results, r)
    BY <1>1
  <2>3. r = [j \in DOMAIN script[Current] |-> Line(script[Current][j], Current)]
    BY <1>13, Zenon DEF Script
  <2> HIDE DEF r
  <2>4. /\ Len(results') = Len(results) + 1 /\ Len(results) \in Nat
        /\ DOMAIN results' = 1 .. Len(results) + 1 /\ DOMAIN results = 1 .. Len(results)
        /\ \A c \in 1 .. Len(results) : results'[c] = results[c]
        /\ results'[Len(results) + 1] = r
    BY <1>5, <2>1, <2>2
  <2>5. ASSUME NEW c \in DOMAIN results'
        PROVE  results'[c] = [j \in DOMAIN script[c] |-> Line(script[c][j], c)]
    <3>1. CASE c = Len(results) + 1
      <4>1. c = Current
        BY <3>1 DEF Current
      <4>2. results'[c] = r
        BY <2>4, <3>1
      <4> QED BY <2>3, <4>1, <4>2
    <3>2. CASE c \in 1 .. Len(results)
      BY <2>4, <3>2 DEF OutputInv, OwnResults
    <3> QED BY <2>4, <3>1, <3>2
  <2> QED BY <1>1, <2>5 DEF OwnResults
<1>15. ReadyInv'
  <2>1. AllPrompts(wire', 0)
    BY <1>1, <1>11 DEF AllPrompts
  <2>2. 0 \in Preludes'
    BY DEF Preludes
  <2>3. mode = "cli"
    BY <1>11 DEF Told
  <2> QED BY <1>1, <1>2, <2>1, <2>2, <2>3 DEF ReadyInv
<1> QED BY <1>1, <1>14, <1>15 DEF OutputInv, TypedRight, Connecting

----------------------------------------------------------------------------
(* Connecting *)

\* What the client reads while it connects, it reads at the request.
LEMMA OneMore ==
  ASSUME NEW a \in Nat, NEW b \in Nat, NEW l, l = a + b, NEW i, i = a, i = l - 1
  PROVE  b = 1
OBVIOUS

LEMMA LoginRead ==
  ASSUME TypeInv, ConnectInv, NEW i \in 1 .. Len(out)
  PROVE  /\ out[i].k \in {"text", "login", "password", "prompt"}
         /\ out[i].k \in {"login", "password"} => mode = out[i].k /\ wire = <<>>
         /\ out[i].k = "prompt" =>
               /\ mode = "cli"
               /\ i = Len(out) => \/ AllPrompts(wire, 0)
                                  \/ early /\ AllPrompts(wire, 1)
<1>1. /\ Len(Talk) = Len(out) + Len(wire) /\ Len(out) \in Nat /\ Len(wire) \in Nat
      /\ Talk[i] = out[i] /\ (wire # <<>> => Len(wire) >= 1)
  BY StoryParts
<1>2. LoginToken(Talk, i)
  BY <1>1 DEF ConnectInv, LoginTalk
<1>3. i = Len(Talk) => Len(wire) = 0 /\ wire = <<>>
  BY <1>1
<1>4. i = Len(out) /\ i = Len(Talk) - 1 => Len(wire) = 1 /\ wire[1] = Talk[i + 1]
  <2>1. out \in Seq(Tokens) /\ wire \in Seq(Tokens)
    BY DEF TypeInv, TypeOK
  <2>2. \A j \in 1 .. Len(wire) : Talk[Len(out) + j] = wire[j]
    BY <2>1, TalkJoins, JoinShape
  <2>3. ASSUME i = Len(out), i = Len(Talk) - 1 PROVE Len(wire) = 1
    BY <1>1, <2>3, OneMore
  <2>4. Len(wire) = 1 => wire[1] = Talk[Len(out) + 1]
    BY <2>2
  <2> QED BY <2>3, <2>4
<1>5. CASE out[i].k = "text"
  BY <1>5
<1>6. CASE out[i].k \in {"login", "password"}
  BY <1>1, <1>2, <1>3, <1>6, PromptType DEF LoginToken, Prompt
<1>7. CASE out[i].k \notin {"text", "login", "password"}
  <2>1. /\ Talk[i] = Prompt /\ mode = "cli"
        /\ i = Len(Talk) \/ (early /\ i = Len(Talk) - 1 /\ Talk[i + 1] = Prompt)
    BY <1>1, <1>2, <1>7 DEF LoginToken
  <2>2. out[i].k = "prompt"
    BY <1>1, <2>1, PromptType DEF Prompt
  <2>3. i = Len(out) => AllPrompts(wire, 0) \/ (early /\ AllPrompts(wire, 1))
    BY <1>3, <1>4, <2>1 DEF AllPrompts
  <2> QED BY <2>1, <2>2, <2>3
<1> QED BY <1>5, <1>6, <1>7

LEMMA ConnectKeeps ==
  ASSUME OutputInv, Connecting, Connecting', pc' = "read" \/ (pc' = "judge" /\ out' # <<>>),
         ConnectInv', TypedRight', UNCHANGED <<results, script>>
  PROVE  OutputInv'
BY DEF OutputInv, OwnResults

\* An empty wire, and one that holds only what the device asks.
LEMMA EmptyLogin ==
  ASSUME out' = <<>>, wire' = <<>>, handled' = 0
  PROVE  ConnectInv'
<1>1. Talk' = <<>>
  <2>1. <<>> \in Seq(Tokens)
    OBVIOUS
  <2> QED BY <2>1, ConcatEmptySeq DEF Talk
<1>2. Len(Talk') = 0
  BY <1>1
<1> QED BY <1>2 DEF ConnectInv, LoginTalk

LEMMA OneLogin ==
  ASSUME out' = <<>>, handled' = 0, NEW k \in {"login", "password", "prompt"},
         wire' = <<Token(k)>>, mode' = IF k = "prompt" THEN "cli" ELSE k
  PROVE  ConnectInv'
<1>1. Token(k) \in Tokens /\ Token(k).k = k
  BY CliAssumption DEF Token, Tokens
<1>2. Talk' = wire'
  <2>1. wire' \in Seq(Tokens)
    BY <1>1
  <2> QED BY <2>1, ConcatEmptySeq DEF Talk
<1>3. Len(Talk') = 1 /\ Talk'[1] = Token(k)
  BY <1>2
<1>4. LoginToken(Talk, 1)'
  BY <1>1, <1>3 DEF LoginToken, Prompt
<1> QED BY <1>3, <1>4 DEF ConnectInv, LoginTalk

LEMMA DialogueShows ==
  ASSUME NEW k, NEW next, Dialogue(k, next), wire = <<>>
  PROVE  wire' = <<Token(k)>> /\ mode' = next
BY DEF Dialogue

LEMMA UsernameKeeps ==
  ASSUME TypeInv, OutputInv, SendUsername
  PROVE  OutputInv'
<1>1. /\ pc = "judge" /\ StopSeen = "login" /\ Type("username")
      /\ pc' = "read" /\ goal' = "username" /\ out' = <<>> /\ handled' = 0
      /\ UNCHANGED <<results, script, lost>>
  BY DEF SendUsername, Returns, StartReading, env, session, handles
<1>2. goal = "banner" /\ Reads({"login", "welcome"})
  BY <1>1 DEF StopSeen
<1>3. Connecting /\ Connecting' /\ ConnectInv
  BY <1>1, <1>2 DEF Connecting, OutputInv
<1>4. mode = "login" /\ wire = <<>>
  <2>1. PICK i \in 1 .. Len(out) : out[i].k \in {"login", "welcome"}
    BY <1>2 DEF Reads, TypeInv, TypeOK
  <2> QED BY <1>3, <2>1, LoginRead
<1>5. TypedRight'
  BY <1>1, <1>4, AsksOf, TypedOn DEF OutputInv
<1>6. ConnectInv'
  <2>1. CASE lost
    BY <1>1, <1>4, <2>1, EmptyLogin DEF Type
  <2>2. CASE ~lost
    <3>1. Dialogue("password", "password")
      BY <1>1, <1>4, <2>2 DEF Type
    <3> QED BY <1>1, <1>4, <3>1, DialogueShows, OneLogin
  <2> QED BY <2>1, <2>2
<1> QED BY <1>1, <1>3, <1>5, <1>6, ConnectKeeps

LEMMA PasswordKeeps ==
  ASSUME TypeInv, OutputInv, SendPassword
  PROVE  OutputInv'
<1>1. /\ pc = "judge" /\ StopSeen = "password" /\ Type("password")
      /\ pc' = "read" /\ goal' = "password" /\ out' = <<>> /\ handled' = 0
      /\ UNCHANGED <<results, script, lost>>
  BY DEF SendPassword, Returns, StartReading, env, session, handles
<1>2. goal \in {"banner", "username"} /\ Reads({"password"})
  BY <1>1 DEF StopSeen
<1>3. Connecting /\ Connecting' /\ ConnectInv
  BY <1>1, <1>2 DEF Connecting, OutputInv
<1>4. mode = "password" /\ wire = <<>>
  <2>1. PICK i \in 1 .. Len(out) : out[i].k = "password"
    BY <1>2 DEF Reads, TypeInv, TypeOK
  <2> QED BY <1>3, <2>1, LoginRead
<1>5. TypedRight'
  BY <1>1, <1>4, AsksOf, TypedOn DEF OutputInv
<1>6. ConnectInv'
  <2>1. CASE lost
    BY <1>1, <1>4, <2>1, EmptyLogin DEF Type
  <2>2. CASE ~lost
    <3>1. Dialogue("prompt", "cli") \/ Dialogue("login", "login")
      BY <1>1, <1>4, <2>2 DEF Type
    <3> QED BY <1>1, <1>4, <3>1, DialogueShows, OneLogin
  <2> QED BY <2>1, <2>2
<1> QED BY <1>1, <1>3, <1>5, <1>6, ConnectKeeps

\* At the end of a script the device shows its prompt behind what it printed.
LEMMA PromptShown ==
  ASSUME NEW c \in 0 .. Commands + 1, Play(<<>>, c, <<>>), wire \in Seq(Tokens)
  PROVE  mode' = "cli" /\ Joins(wire', wire, <<Prompt>>)
<1>1. Waits(<<>>) = {} /\ Prints(<<>>, c) = <<Prompt>>
  BY PrintsNothing
<1>2. mode' = "cli" /\ wire' = (wire \o <<>>) \o <<Prompt>>
  BY <1>1 DEF Play
<1> QED BY <1>2, ConcatEmptySeq DEF Joins

LEMMA HelloKeeps ==
  ASSUME TypeInv, OutputInv, Hello
  PROVE  OutputInv'
<1>1. /\ pc = "hello" /\ Type("newline")
      /\ pc' = "read" /\ goal' = "banner" /\ out' = <<>> /\ handled' = 0
      /\ UNCHANGED <<results, script, lost, early, kind>>
  BY DEF Hello, StartReading, env, session, handles
<1>2. Connecting /\ Connecting' /\ HelloInv
  BY <1>1 DEF Connecting, OutputInv
<1>3. wire \in Seq(Tokens) /\ Current \in 0 .. Commands + 1 /\ 0 \in 0 .. Commands + 1
  BY CliAssumption DEF TypeInv, TypeOK, Current
<1>4. TypedRight'
  BY <1>1, AsksOf, TypedOn DEF OutputInv
<1>5. ConnectInv'
  <2>1. CASE lost /\ ~Ssh
    BY <1>1, <1>2, <2>1, EmptyLogin DEF Type, HelloInv
  <2>2. CASE lost /\ Ssh
    <3>1. UNCHANGED <<mode, wire>> /\ mode = "cli"
      BY <1>1, <1>2, <2>2 DEF Type, HelloInv
    <3>2. Talk' = wire
      BY <1>1, <1>3, <3>1, ConcatEmptySeq DEF Talk
    <3>3. \A i \in 1 .. Len(wire) : LoginToken(Talk, i)'
      BY <1>1, <1>2, <2>2, <3>1, <3>2 DEF HelloInv, LoginToken
    <3> QED BY <1>1, <3>2, <3>3 DEF ConnectInv, LoginTalk
  <2>3. CASE ~lost /\ ~Ssh
    <3>1. wire = <<>> /\ left = <<>>
      BY <1>2, <2>3 DEF HelloInv
    <3>2. \/ Dialogue("login", "login")
          \/ Play(<<>>, 0, <<>>) \/ Play(<<>>, Current, <<>>)
      BY <1>1, <2>3, <3>1 DEF Type
    <3>3. CASE Dialogue("login", "login")
      BY <1>1, <3>1, <3>3, DialogueShows, OneLogin
    <3>4. CASE Play(<<>>, 0, <<>>) \/ Play(<<>>, Current, <<>>)
      <4>1. mode' = "cli" /\ Joins(wire', wire, <<Prompt>>)
        BY <1>3, <3>4, PromptShown
      <4>2. wire' = <<Prompt>>
        BY <3>1, <4>1 DEF Joins
      <4> QED BY <1>1, <4>1, <4>2, OneLogin DEF Prompt
    <3> QED BY <3>2, <3>3, <3>4
  <2>4. CASE ~lost /\ Ssh
    <3>1. mode = "cli"
      BY <1>2, <2>4 DEF HelloInv
    <3>2. Play(<<>>, 0, <<>>)
      BY <1>1, <2>4, <3>1 DEF Type
    <3>3. mode' = "cli" /\ Joins(wire', wire, <<Prompt>>)
      BY <1>3, <3>2, PromptShown
    <3> DEFINE last == <<Prompt>>
    <3>4. last \in Seq(Tokens) /\ Len(last) = 1 /\ last[1] = Prompt
      BY PromptType DEF Prompt
    <3>5. Joins(wire', wire, last)
      BY <3>3
    <3> HIDE DEF last
    <3>6. /\ wire' \in Seq(Tokens) /\ Len(wire') = Len(wire) + Len(last) /\ Len(wire) \in Nat
          /\ \A i \in 1 .. Len(wire) : wire'[i] = wire[i]
          /\ \A j \in 1 .. Len(last) : wire'[Len(wire) + j] = last[j]
      BY <1>3, <3>4, <3>5, JoinShape
    <3>7. Talk' = wire'
      BY <1>1, <3>6, ConcatEmptySeq DEF Talk
    <3>8. Len(wire') = Len(wire) + 1 /\ wire'[Len(wire) + 1] = Prompt
      BY <3>4, <3>6
    <3>9. ASSUME NEW i \in 1 .. Len(wire) + 1 PROVE LoginToken(Talk, i)'
      <4>1. CASE i \in 1 .. Len(wire)
        <5>1. wire[i].k = "text" \/ (early /\ wire[i] = Prompt /\ i = Len(wire))
          BY <1>2, <2>4, <4>1 DEF HelloInv
        <5>2. wire'[i] = wire[i]
          BY <3>6, <4>1
        <5> QED BY <1>1, <3>3, <3>6, <3>7, <3>8, <5>1, <5>2 DEF LoginToken
      <4>2. CASE i = Len(wire) + 1
        BY <3>3, <3>7, <3>8, <4>2 DEF LoginToken
      <4> QED BY <3>6, <4>1, <4>2
    <3> QED BY <1>1, <3>7, <3>8, <3>9 DEF ConnectInv, LoginTalk
  <2> QED BY <2>1, <2>2, <2>3, <2>4
<1> QED BY <1>1, <1>2, <1>4, <1>5, ConnectKeeps

LEMMA PromptKeeps ==
  ASSUME TypeInv, OutputInv, PromptEstablished
  PROVE  OutputInv'
<1>1. /\ pc = "judge" /\ Connecting /\ pc' = "ready" /\ PromptSeen /\ prompt' = Detected
      /\ UNCHANGED <<script, early, goal, mode, wire, typed, results>>
  BY DEF PromptEstablished, Returns, env, device, StopSeen
<1>2. ConnectInv /\ out # <<>> /\ results = <<>>
  BY <1>1 DEF OutputInv
<1>3. Len(out) \in 1 .. Len(out)
  <2>1. out \in Seq(Tokens)
    BY DEF TypeInv, TypeOK
  <2>2. Len(out) \in Nat \ {0}
    BY <1>2, <2>1, EmptySeq
  <2> QED BY <2>2
<1>4. Last \in {"prompt", "lookalike", "hash"}
  BY <1>1 DEF PromptSeen, Detected
<1>5. out[Len(out)].k = "prompt"
  BY <1>2, <1>3, <1>4, LoginRead DEF Last
<1>6. mode = "cli" /\ (AllPrompts(wire, 0) \/ (early /\ AllPrompts(wire, 1)))
  BY <1>2, <1>3, <1>5, LoginRead
<1>7. Detected = "cli"
  BY <1>5 DEF Detected, Last
<1>8. ReadyInv'
  <2>1. 0 \in Preludes' /\ (early => 1 \in Preludes')
    BY <1>1, <1>2 DEF Preludes
  <2>2. \E p \in Preludes' : AllPrompts(wire', p)
    BY <1>1, <1>6, <2>1
  <2> QED BY <1>1, <1>6, <1>7, <2>2 DEF ReadyInv
<1> QED BY <1>1, <1>8 DEF OutputInv, OwnResults, TypedRight, Connecting

\* A new connection, as the device greets it.
LEMMA GreetsShape ==
  ASSUME TypeInv, Honest, Greets, UNCHANGED <<kind, early>>
  PROVE  /\ left' = <<>> /\ typed' = typed
         /\ (Ssh \/ kind = "serial") => HelloInv'
         /\ kind = "telnet" /\ out' = <<>> => LoginTalk(Talk)'
<1> DEFINE shown == [i \in DOMAIN banner |-> Token(banner[i])]
<1>1. banner \in Seq({"text", "hash", "welcome"}) /\ \A i \in DOMAIN banner : banner[i] = "text"
  BY CliAssumption DEF TypeInv, TypeOK, Honest
<1>2. /\ shown \in Seq(Tokens) /\ Len(shown) \in Nat
      /\ \A i \in 1 .. Len(shown) : shown[i].k = "text"
  <2>1. Token("text") \in Tokens /\ Token("text").k = "text"
    BY CliAssumption DEF Token, Tokens
  <2>2. \A i \in DOMAIN banner : shown[i] = Token("text")
    BY <1>1
  <2>3. shown \in Seq(Tokens) /\ Len(shown) = Len(banner) /\ DOMAIN banner = 1 .. Len(banner)
    BY <1>1, <2>1, <2>2
  <2> QED BY <2>1, <2>2, <2>3, LenType
<1>3. left' = <<>> /\ typed' = typed
  BY DEF Greets
<1>4. ASSUME Ssh
      PROVE  /\ mode' = "cli"
             /\ wire' = shown \o (IF early THEN <<Prompt>> ELSE <<>>)
  BY <1>4 DEF Greets, Ssh, Prompt
<1>5. ASSUME ~Ssh, kind = "telnet"
      PROVE  \E k \in {"login", "password", "prompt"} :
                mode' = (IF k = "prompt" THEN "cli" ELSE k) /\ wire' = shown \o <<Token(k)>>
  <2>1. PICK k \in {"login", "password", "prompt"} :
                mode' = (IF k = "prompt" THEN "cli" ELSE k) /\ wire' = Append(shown, Token(k))
    BY <1>5 DEF Greets, Ssh
  <2> HIDE DEF shown
  <2>2. Token(k) \in Tokens
    BY CliAssumption DEF Token, Tokens
  <2>3. Append(shown, Token(k)) = shown \o <<Token(k)>>
    BY <1>2, <2>2, AppendIsConcat
  <2> QED BY <2>1, <2>3
<1>6. ASSUME ~Ssh, kind # "telnet" PROVE wire' = <<>>
  BY <1>6 DEF Greets
<1> HIDE DEF shown
<1>7. Ssh => HelloInv'
  <2> SUFFICES ASSUME Ssh PROVE HelloInv'
    OBVIOUS
  <2> DEFINE end == IF early THEN <<Prompt>> ELSE <<>>
  <2>1. end \in Seq(Tokens) /\ Joins(wire', shown, end)
    BY <1>4, PromptType DEF Joins, Prompt
  <2>2. /\ Len(end) \in Nat
        /\ \A j \in 1 .. Len(end) : early /\ end[j] = Prompt /\ j = Len(end)
    <3>1. CASE early
      BY <3>1
    <3>2. CASE ~early
      BY <3>2
    <3> QED BY <3>1, <3>2
  <2> HIDE DEF end
  <2>3. /\ Len(wire') = Len(shown) + Len(end)
        /\ \A i \in 1 .. Len(shown) : wire'[i] = shown[i]
        /\ \A j \in 1 .. Len(end) : wire'[Len(shown) + j] = end[j]
    <3>1. shown \in Seq(Tokens) /\ end \in Seq(Tokens) /\ Joins(wire', shown, end)
      BY <1>2, <2>1
    <3> QED BY <3>1, JoinShape
  <2>4. ASSUME NEW i \in 1 .. Len(wire')
        PROVE  wire'[i].k = "text" \/ (early /\ wire'[i] = Prompt /\ i = Len(wire'))
    <3>1. CASE i \in 1 .. Len(shown)
      BY <1>2, <2>3, <3>1
    <3>2. CASE i \notin 1 .. Len(shown)
      <4>1. i \in Len(shown) + 1 .. Len(shown) + Len(end)
        BY <1>2, <2>2, <2>3, <3>2
      <4>2. i - Len(shown) \in 1 .. Len(end) /\ Len(shown) + (i - Len(shown)) = i
        BY <1>2, <2>2, <4>1, Behind
      <4>3. wire'[i] = end[i - Len(shown)]
        BY <2>3, <4>2
      <4>4. early /\ end[i - Len(shown)] = Prompt /\ i - Len(shown) = Len(end)
        BY <2>2, <4>2
      <4> QED BY <2>3, <4>2, <4>3, <4>4
    <3> QED BY <3>1, <3>2
  <2> QED BY <1>4, <2>4 DEF HelloInv, Ssh
<1>8. kind = "serial" => HelloInv'
  BY <1>3, <1>6 DEF HelloInv, Ssh
<1>9. kind = "telnet" /\ out' = <<>> => LoginTalk(Talk)'
  <2> SUFFICES ASSUME kind = "telnet", out' = <<>> PROVE LoginTalk(Talk)'
    OBVIOUS
  <2>1. PICK k \in {"login", "password", "prompt"} :
                mode' = (IF k = "prompt" THEN "cli" ELSE k) /\ wire' = shown \o <<Token(k)>>
    BY <1>5 DEF Ssh
  <2> DEFINE end == <<Token(k)>>
  <2>2. Token(k) \in Tokens /\ Token(k).k = k
    BY CliAssumption DEF Token, Tokens
  <2>3. end \in Seq(Tokens) /\ Joins(wire', shown, end) /\ Len(end) = 1 /\ end[1] = Token(k)
    BY <2>1, <2>2 DEF Joins
  <2> HIDE DEF end
  <2>4. /\ wire' \in Seq(Tokens) /\ Len(wire') = Len(shown) + Len(end)
        /\ \A i \in 1 .. Len(shown) : wire'[i] = shown[i]
        /\ \A j \in 1 .. Len(end) : wire'[Len(shown) + j] = end[j]
    <3>1. shown \in Seq(Tokens) /\ end \in Seq(Tokens) /\ Joins(wire', shown, end)
      BY <1>2, <2>3
    <3> QED BY <3>1, JoinShape
  <2>5. Talk' = wire'
    BY <2>4, ConcatEmptySeq DEF Talk
  <2>6. Len(wire') = Len(shown) + 1 /\ wire'[Len(shown) + 1] = Token(k)
    BY <2>3, <2>4
  <2>7. ASSUME NEW i \in 1 .. Len(shown) + 1 PROVE LoginToken(Talk, i)'
    <3>1. CASE i \in 1 .. Len(shown)
      BY <1>2, <2>4, <2>5, <3>1 DEF LoginToken
    <3>2. CASE i = Len(shown) + 1
      BY <2>1, <2>2, <2>5, <2>6, <3>2 DEF LoginToken, Prompt
    <3> QED BY <1>2, <3>1, <3>2
  <2> QED BY <2>5, <2>6, <2>7 DEF LoginTalk
<1> QED BY <1>3, <1>7, <1>8, <1>9

LEMMA OpensKeeps ==
  ASSUME TypeInv, Honest, OutputInv, SshOpens \/ SerialOpens \/ TelnetOpens
  PROVE  OutputInv'
<1>1. /\ pc = "connect" /\ Connecting /\ results = <<>> /\ Greets
      /\ UNCHANGED <<kind, early, script, results>>
  BY DEF SshOpens, SerialOpens, TelnetOpens, Opens, env, session, OutputInv
<1>2. typed' = typed
  BY <1>1 DEF Greets
<1>3. CASE SshOpens \/ SerialOpens
  <2>1. pc' = "hello" /\ goal' = goal /\ (Ssh \/ kind = "serial")
    BY <1>3 DEF SshOpens, SerialOpens
  <2>2. HelloInv'
    BY <1>1, <2>1, GreetsShape
  <2> QED BY <1>1, <1>2, <2>1, <2>2 DEF OutputInv, OwnResults, TypedRight, Connecting
<1>4. CASE TelnetOpens
  <2>1. pc' = "read" /\ goal' = "banner" /\ out' = <<>> /\ handled' = 0 /\ kind = "telnet"
    BY <1>4 DEF TelnetOpens, StartReading
  <2>2. LoginTalk(Talk)'
    BY <1>1, <2>1, GreetsShape
  <2>3. ConnectInv'
    BY <2>1, <2>2 DEF ConnectInv
  <2> QED BY <1>1, <1>2, <2>1, <2>3 DEF OutputInv, OwnResults, TypedRight, Connecting
<1> QED BY <1>3, <1>4

\* Steps that read nothing and print nothing.
LEMMA QuietKeeps ==
  ASSUME OutputInv,
         UNCHANGED <<kind, early, script, reader, prompt, held, results, lost, device, goal>>,
         pc' = pc \/ (pc = "judge" /\ pc' = "read") \/ pc' \in {"except", "close", "done"}
  PROVE  OutputInv'
<1>1. UNCHANGED <<Talk, Story, Script, Current>>
  BY DEF Talk, Story, Script, Current, reader, device
<1>2. UNCHANGED <<mode, left, wire, typed, out, handled>>
  BY DEF device, reader
<1>3. OwnResults' = OwnResults /\ TypedRight' = TypedRight /\ Connecting' = Connecting
  BY <1>2 DEF OwnResults, TypedRight, Connecting
<1>4. HelloInv => HelloInv'
  BY <1>2 DEF HelloInv, Ssh
<1>5. ConnectInv => ConnectInv'
  BY <1>1, <1>2 DEF ConnectInv, LoginTalk, LoginToken
<1>6. CommandInv => CommandInv'
  <2>1. Preludes' = Preludes
    BY DEF Preludes
  <2>2. Underway => Underway'
    BY <1>1, <1>2, <2>1 DEF Underway, Cut, Told, Asking, Unasked, AllPrompts
  <2>3. PagerInv => PagerInv'
    BY <1>1, <1>2 DEF PagerInv
  <2> QED BY <2>2, <2>3 DEF CommandInv
<1>7. ReadyInv => ReadyInv'
  BY <1>2 DEF ReadyInv, Preludes
<1> QED BY <1>2, <1>3, <1>4, <1>5, <1>6, <1>7 DEF OutputInv

----------------------------------------------------------------------------
(* Every step *)

LEMMA ChunkKeeps ==
  ASSUME TypeInv, OutputInv, Chunk
  PROVE  OutputInv'
<1>1. /\ pc = "read" /\ pc' = "judge" /\ out' # <<>>
      /\ UNCHANGED <<Talk, Story, kind, early, script, handled, prompt, held, results, lost,
                     mode, left, typed, goal>>
  BY TalkCut DEF Chunk, env, session, handles
<1>2. UNCHANGED <<Script, Current>>
  BY <1>1 DEF Script, Current
<1>3. OwnResults' = OwnResults /\ TypedRight' = TypedRight /\ Connecting' = Connecting
  BY <1>1 DEF OwnResults, TypedRight, Connecting
<1>4. ConnectInv => ConnectInv'
  BY <1>1 DEF ConnectInv, LoginTalk, LoginToken
<1>5. CommandInv => CommandInv'
  <2>1. Preludes' = Preludes
    BY <1>1 DEF Preludes
  <2>2. Underway => Underway'
    BY <1>1, <1>2, <2>1 DEF Underway, Cut, Told, Asking, Unasked
  <2>3. PagerInv => PagerInv'
    BY <1>1 DEF PagerInv
  <2> QED BY <1>1, <2>2, <2>3 DEF CommandInv
<1> QED BY <1>1, <1>3, <1>4, <1>5 DEF OutputInv

\* While it connects, the client sees no pager.
LEMMA NoLoginPager == ASSUME TypeInv, ConnectInv PROVE ~(handled < Pagers)
<1>1. out \in Seq(Tokens)
  BY DEF TypeInv, TypeOK
<1>2. PagersIn(out) = {}
  <2>1. \A i \in 1 .. Len(out) : out[i].k # "pager"
    BY LoginRead
  <2> QED BY <1>1, <2>1, PagersFinite
<1>3. Pagers = 0
  BY <1>2, PagersRead, FS_EmptySet
<1> QED BY <1>3 DEF ConnectInv

LEMMA LoopKeeps ==
  ASSUME TypeInv, OutputInv, Loop
  PROVE  OutputInv'
<1>1. CASE Chunk
  BY <1>1, ChunkKeeps
<1>2. CASE ContinuePager
  <2>1. pc = "judge" /\ handled < Pagers
    BY <1>2 DEF ContinuePager
  <2>2. ~Connecting
    BY <2>1, NoLoginPager DEF OutputInv
  <2> QED BY <1>2, <2>2, PagerKeeps
<1>3. CASE KeepReading
  BY <1>3, QuietKeeps DEF KeepReading, Returns, env, session, handles
<1>4. CASE PagerUnfinished \/ DeadlinePasses \/ ChannelClosed
  BY <1>4, QuietKeeps
     DEF PagerUnfinished, DeadlinePasses, ChannelClosed, Raise, env, session, handles
<1> QED BY <1>1, <1>2, <1>3, <1>4 DEF Loop

\* Steps with which the client leaves the session, whatever the device does.
LEMMA OutsideKeeps ==
  ASSUME OutputInv, UNCHANGED <<script, results, typed>>,
         pc' \in {"connect", "except", "close", "done"},
         Connecting' => Connecting, pc' = "connect" => Connecting'
  PROVE  OutputInv'
BY DEF OutputInv, OwnResults, TypedRight

LEMMA LoseKeeps ==
  ASSUME OutputInv, LoseConnection
  PROVE  OutputInv'
<1>1. UNCHANGED <<kind, early, script, pc, goal, out, handled, prompt, held, results,
                  mode, left, wire, typed>> /\ lost'
  BY DEF LoseConnection, env, client, reader, session, device
<1>2. UNCHANGED <<Talk, Story, Script, Current, Preludes>>
  BY <1>1 DEF Talk, Story, Script, Current, Preludes
<1>3. OwnResults' = OwnResults /\ TypedRight' = TypedRight /\ Connecting' = Connecting
  BY <1>1 DEF OwnResults, TypedRight, Connecting
<1>4. HelloInv => HelloInv'
  BY <1>1 DEF HelloInv, Ssh
<1>5. ConnectInv => ConnectInv'
  BY <1>1, <1>2 DEF ConnectInv, LoginTalk, LoginToken
<1>6. CommandInv => CommandInv'
  <2>1. Underway => Underway'
    BY <1>1, <1>2 DEF Underway, Cut, Told, Asking, Unasked
  <2>2. PagerInv => PagerInv'
    BY <1>1, <1>2 DEF PagerInv
  <2> QED BY <1>1, <2>1, <2>2 DEF CommandInv
<1>7. ReadyInv => ReadyInv'
  BY <1>1, <1>2 DEF ReadyInv
<1> QED BY <1>1, <1>3, <1>4, <1>5, <1>6, <1>7 DEF OutputInv

\* A device that is straight behind a step was so before it.
LEMMA StraightBefore ==
  ASSUME TypeInv, Next, Straight'
  PROVE  Straight /\ Honest
<1>1. UNCHANGED <<script, banner, early>>
  BY DEF Next, SshOpens, SshUnreachable, SshRejected, SerialOpens, TelnetOpens, OpenFails,
         SshRefused, Raise, SshConnect, SerialConnect, TelnetConnect, Hello, SendUsername,
         SendPassword, PromptEstablished, SshAttemptFails, TelnetConnectFails,
         SerialConnectFails, SshReadUntilReady, SerialReadUntilReady, TelnetReadUntilReady,
         Loop, Chunk, ContinuePager, PagerUnfinished, DeadlinePasses, ChannelClosed,
         KeepReading, SshRunCommand, SerialRunCommand, TelnetRunCommand, RunCommand,
         SendCommand, Confirm, Answered, SshRunCommands, SerialRunCommands,
         TelnetRunCommands, SshReconnects, Finally, SshClose, SerialClose, TelnetClose,
         Closes, LoseConnection, env
<1>2. Honest
  BY <1>1 DEF Straight, Honest
<1>3. \/ results' = results
      \/ results' = Append(results, Stripped(held \o out))
  BY DEF Next, SshOpens, SshUnreachable, SshRejected, SerialOpens, TelnetOpens, OpenFails,
         SshRefused, Raise, SshConnect, SerialConnect, TelnetConnect, Hello, SendUsername,
         SendPassword, PromptEstablished, SshAttemptFails, TelnetConnectFails,
         SerialConnectFails, SshReadUntilReady, SerialReadUntilReady, TelnetReadUntilReady,
         Loop, Chunk, ContinuePager, PagerUnfinished, DeadlinePasses, ChannelClosed,
         KeepReading, SshRunCommand, SerialRunCommand, TelnetRunCommand, RunCommand,
         SendCommand, Confirm, Answered, SshRunCommands, SerialRunCommands,
         TelnetRunCommands, SshReconnects, Finally, SshClose, SerialClose, TelnetClose,
         Closes, LoseConnection, session
<1>4. ASSUME NEW c \in DOMAIN results PROVE c \in DOMAIN results' /\ results'[c] = results[c]
  <2>1. results \in Seq(Seq(Tokens)) /\ held \o out \in Seq(Tokens)
    BY DEF TypeInv, TypeOK
  <2> DEFINE r == Stripped(held \o out)
  <2>2. r \in Seq(Tokens)
    BY <2>1, StrippedType
  <2>3. results' = results \/ results' = Append(results, r)
    BY <1>3
  <2> HIDE DEF r
  <2>4. results \in Seq(Seq(Tokens)) /\ c \in 1 .. Len(results)
    BY <2>1
  <2>5. CASE results' = results
    BY <2>5
  <2>6. CASE results' = Append(results, r)
    BY <2>2, <2>4, <2>6
  <2> QED BY <2>3, <2>5, <2>6
<1>5. early => \A c \in DOMAIN results : results[c] # <<>>
  BY <1>1, <1>4 DEF Straight
<1> QED BY <1>2, <1>5 DEF Straight

LEMMA OutputStep ==
  ASSUME TypeInv, Honest, OutputInv, Straight', Next
  PROVE  OutputInv'
<1>1. CASE SshOpens \/ SerialOpens \/ TelnetOpens
  BY <1>1, OpensKeeps
<1>2. CASE SshUnreachable \/ SshRejected
  <2>1. /\ pc = "connect" /\ pc' = "except" /\ goal' = goal
        /\ UNCHANGED <<script, results, typed>>
    BY <1>2 DEF SshUnreachable, SshRejected, SshRefused, env, session
  <2> QED BY <2>1, OutsideKeeps DEF Connecting
<1>3. CASE OpenFails
  <2>1. pc' = "except" /\ goal' = goal /\ UNCHANGED <<script, results, typed>>
    BY <1>3 DEF OpenFails, Raise, env, session, device
  <2> QED BY <2>1, OutsideKeeps DEF Connecting
<1>4. CASE SshConnect \/ SerialConnect \/ TelnetConnect
  BY <1>4, HelloKeeps, UsernameKeeps, PasswordKeeps, PromptKeeps
     DEF SshConnect, SerialConnect, TelnetConnect
<1>5. CASE SshAttemptFails
  <2>1. /\ Connecting /\ goal' = "banner" /\ pc' \in {"connect", "close"}
        /\ UNCHANGED <<script, results, typed>>
    BY <1>5 DEF SshAttemptFails, env, session, device
  <2> QED BY <2>1, OutsideKeeps DEF Connecting
<1>6. CASE TelnetConnectFails \/ SerialConnectFails
  <2>1. pc' = "close" /\ goal' = goal /\ UNCHANGED <<script, results, typed>>
    BY <1>6 DEF TelnetConnectFails, SerialConnectFails, env, session, device
  <2> QED BY <2>1, OutsideKeeps DEF Connecting
<1>7. CASE SshReadUntilReady \/ SerialReadUntilReady \/ TelnetReadUntilReady
  BY <1>7, LoopKeeps DEF SshReadUntilReady, SerialReadUntilReady, TelnetReadUntilReady
<1>8. CASE SshRunCommand \/ SerialRunCommand \/ TelnetRunCommand
  BY <1>8, SendKeeps, ConfirmKeeps, AnsweredKeeps
     DEF SshRunCommand, SerialRunCommand, TelnetRunCommand, RunCommand
<1>9. CASE SshReconnects
  <2>1. /\ Connecting /\ pc' = "connect" /\ goal' = goal
        /\ UNCHANGED <<script, results, typed>>
    BY <1>9 DEF SshReconnects, env, session, device
  <2> QED BY <2>1, OutsideKeeps DEF Connecting
<1>10. CASE Finally
  <2>1. pc' = "close" /\ goal' = goal /\ UNCHANGED <<script, results, typed>>
    BY <1>10 DEF Finally, env, session, device
  <2> QED BY <2>1, OutsideKeeps DEF Connecting
<1>11. CASE SshClose \/ SerialClose \/ TelnetClose
  <2>1. pc' = "done" /\ goal' = goal /\ UNCHANGED <<script, results, typed>>
    BY <1>11 DEF SshClose, SerialClose, TelnetClose, Closes, env, session, device
  <2> QED BY <2>1, OutsideKeeps DEF Connecting
<1>12. CASE LoseConnection
  BY <1>12, LoseKeeps
<1> QED
  BY <1>1, <1>2, <1>3, <1>4, <1>5, <1>6, <1>7, <1>8, <1>9, <1>10, <1>11, <1>12
     DEF Next, SshRunCommands, SerialRunCommands, TelnetRunCommands

\* What a straight device has told and what was typed to it, in every state.
StraightInv == TypeInv /\ OpenInv /\ (Straight => OutputInv)

LEMMA StraightInit == Init => StraightInv
<1> SUFFICES ASSUME Init PROVE OutputInv
  BY TypeInit, OpenInit DEF StraightInv
<1>1. results = <<>> /\ typed = {} /\ pc = "connect" /\ goal = "banner"
  BY DEF Init
<1> QED BY <1>1 DEF OutputInv, OwnResults, TypedRight, Connecting

LEMMA StraightStep == ASSUME StraightInv, [Next]_vars PROVE StraightInv'
<1>1. CASE Next
  <2>1. OpenInv' /\ TypeInv'
    BY <1>1, OpenStep, TypeStep DEF StraightInv
  <2>2. Straight' => OutputInv'
    BY <1>1, StraightBefore, OutputStep DEF StraightInv
  <2> QED BY <2>1, <2>2 DEF StraightInv
<1>2. CASE UNCHANGED vars
  <2>1. OpenInv' /\ TypeInv'
    BY <1>2, OpenStutter
       DEF StraightInv, vars, env, client, reader, session, handles, device, TypeInv, TypeOK,
           Connecting, Current
  <2>2. Straight' => Straight
    BY <1>2 DEF Straight, Honest, vars, env, session
  <2>3. OutputInv => OutputInv'
    BY <1>2, QuietKeeps DEF vars, env, client, reader, session, handles, device
  <2> QED BY <2>1, <2>2, <2>3 DEF StraightInv
<1> QED BY <1>1, <1>2

LEMMA StraightAlways == Spec => []StraightInv
BY StraightInit, StraightStep, PTL DEF Spec

\* The result of every command is all of that command's output and nothing
\* else, for any scripts, any number of commands and any way the output falls
\* into chunks, with the connection lost or not (run_commands, the read loops
\* and strip_command_envelope of the three transports).
THEOREM OutputsMatch == Spec => []AnswersMatch
<1>1. StraightInv => AnswersMatch
  BY DEF StraightInv, Straight, OutputInv, OwnResults, AnswersMatch, Waiting
<1> QED BY <1>1, StraightAlways, PTL

\* And every line and key goes to the request it answers (connect and
\* run_command of the three transports).
THEOREM TypedToAsker == Spec => []TypedWhenAsked
<1>1. StraightInv => TypedWhenAsked
  BY DEF StraightInv, Straight, OutputInv, TypedRight, TypedWhenAsked, Waiting
<1> QED BY <1>1, StraightAlways, PTL

=============================================================================
