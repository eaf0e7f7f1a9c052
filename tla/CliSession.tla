---------------------------- MODULE CliSession ----------------------------
(***************************************************************************)
(* One run of a list of commands on a device's command line, over SSH, a   *)
(* serial console or Telnet: SshCliClient and SshCliSession of ssh.py,     *)
(* SerialCliTransport and SerialCliSession of serial.py, and               *)
(* TelnetCliTransport and TelnetCliSession of telnet.py, all under         *)
(* cli_tool/transport, with the prompt rules of readiness.py.              *)
(*                                                                         *)
(* There are no messages here: the device prints tokens, the client reads  *)
(* them in chunks that end anywhere, and has to guess from what a chunk    *)
(* ends with whether the device is done.  A token is a line, or the part   *)
(* of a line, that the client's patterns tell apart; `of` names the typed  *)
(* command it answers, which the client cannot see.  The device reacts at  *)
(* once to what is typed; its delays are those of reading its tokens late. *)
(***************************************************************************)
EXTENDS Integers, Sequences, FiniteSets

CONSTANTS
    Kinds,        \* the transports to model
    Commands,     \* number of commands of the run
    Scripts,      \* what a command may make the device print and ask
    Banners,      \* what the device may print before its first prompt
    ShellPrompts, \* may a new shell print a prompt before anything is typed
    Attempts,     \* connect_attempts of the SSH session
    MaxPagers     \* max_pager_continuations

ASSUME CliAssumption ==
    \* "ssh" is SshCliClient, "pooled" a lease of an SshSessionPool that does
    \* not keep its sessions.
    /\ Kinds \subseteq {"ssh", "pooled", "serial", "telnet"}
    /\ Commands \in Nat
    /\ Attempts \in Nat \ {0}
    /\ MaxPagers \in Nat
    \* "pager" and "confirm" wait for a key and a line.  A "lookalike" is a
    \* line of output that reads like the prompt, a "mention" one that holds
    \* the text of the confirmation, a "hash" one that ends like a prompt, and
    \* "welcome" one that holds the text of the login prompt ("Last login:").
    /\ Scripts \subseteq Seq({"text", "pager", "confirm", "lookalike", "mention"})
    /\ Banners \subseteq Seq({"text", "hash", "welcome"})
    /\ ShellPrompts \subseteq BOOLEAN

VARIABLES
    kind, script, banner, accepts, early, \* the transport and the device: fixed in a run
    pc,       \* where the client is
    goal,     \* which call of _read_until_ready it is in
    attempt,  \* connect_attempts_used
    out,      \* what this call has read
    handled,  \* handled_pagers
    prompt,   \* self.prompt: "none", "cli" or "hash"
    held,     \* the output before a confirmation
    results,  \* the outputs of the finished commands
    channel,  \* is the channel (SSH), port or socket open
    opened,   \* transports that were opened and not closed
    forgotten, \* those of them that a second connect() replaced
    lost,     \* has the connection gone down
    error,    \* the exception on its way up: "none", "retryable", "fatal"
    raised,   \* did the logout raise
    mode,     \* what the device waits for
    left,     \* what is left of the script it runs
    wire,     \* what it printed and nobody has read
    typed,    \* everything typed, with what the device waited for
    refused   \* passwords the device has refused

env     == <<kind, script, banner, accepts, early>>
reader  == <<out, handled>>
session == <<prompt, held, results>>
handles == <<channel, opened, forgotten, lost, raised>>
device  == <<mode, left, wire, typed, refused>>
client  == <<pc, goal, attempt, error>>
vars    == <<env, client, reader, session, handles, device>>

Goals == {"banner", "username", "password", "command", "confirmed"}
Connecting == goal \in {"banner", "username", "password"}
Ssh == kind \in {"ssh", "pooled"}
Current == Len(results) + 1

Token(k) == [k |-> k, of |-> 0]
Line(k, c) == [k |-> k, of |-> c]

----------------------------------------------------------------------------
(* The device *)

Waits(s) == {i \in DOMAIN s : s[i] \in {"pager", "confirm"}}

\* What the device prints of the rest s of a script for command c, up to the
\* first place where it waits.
Prints(s, c) ==
    IF Waits(s) = {} THEN [i \in DOMAIN s |-> Line(s[i], c)] \o <<Token("prompt")>>
    ELSE [i \in 1 .. (CHOOSE w \in Waits(s) : \A v \in Waits(s) : w <= v) |-> Line(s[i], c)]

Play(s, c, before) ==
    LET shown == Len(Prints(s, c))
    IN  /\ mode' = IF Waits(s) = {} THEN "cli" ELSE s[shown]
        /\ left' = IF Waits(s) = {} THEN <<>> ELSE SubSeq(s, shown + 1, Len(s))
        /\ wire' = wire \o before \o Prints(s, c)

Dialogue(k, next) ==
    /\ mode' = next
    /\ left' = <<>>
    /\ wire' = Append(wire, Token(k))

\* The device gets a line, or the key "c".  A lost connection drops it.
Type(what) ==
    /\ typed' = typed \cup {[what |-> what, at |-> mode]}
    /\ refused' = refused + (IF mode = "password" /\ what = "password" /\ ~accepts THEN 1 ELSE 0)
    /\ IF lost THEN UNCHANGED <<mode, left, wire>>
       ELSE CASE mode = "login" /\ what = "newline" -> Dialogue("login", "login")
              [] mode = "login" /\ what # "newline" -> Dialogue("password", "password")
              [] mode = "password" /\ what = "password" /\ accepts -> Dialogue("prompt", "cli")
              [] mode = "password" /\ ~(what = "password" /\ accepts) -> Dialogue("login", "login")
              [] mode = "cli" /\ what = "command" ->
                     Play(script[Current], Current, <<Line("echo", Current)>>)
              [] mode = "cli" /\ what # "command" -> Play(<<>>, 0, <<>>)
              [] mode = "confirm" /\ what # "y" -> Play(<<>>, 0, <<>>)
              [] OTHER -> Play(left, Current, <<>>)

\* What a new connection finds: SSH has checked the password and starts a
\* shell, a Telnet server asks for a login, a console is as it was left.
Greets ==
    /\ left' = <<>>
    /\ UNCHANGED <<typed, refused>>
    /\ LET shown == [i \in DOMAIN banner |-> Token(banner[i])]
       IN  CASE Ssh -> /\ mode' = "cli"
                       /\ wire' = shown \o (IF early THEN <<Token("prompt")>> ELSE <<>>)
             [] kind = "telnet" -> \E k \in {"login", "password", "prompt"} :
                                      /\ mode' = IF k = "prompt" THEN "cli" ELSE k
                                      /\ wire' = Append(shown, Token(k))
             [] OTHER -> mode' \in {"login", "password", "cli", "pager", "confirm"} /\ wire' = <<>>

Init ==
    /\ kind \in Kinds
    /\ script \in [1 .. Commands -> Scripts]
    /\ banner \in Banners
    /\ accepts \in BOOLEAN
    /\ early \in {e \in ShellPrompts : e => Ssh}
    /\ pc = "connect" /\ goal = "banner" /\ attempt = 1 /\ error = "none"
    /\ out = <<>> /\ handled = 0
    /\ prompt = "none" /\ held = <<>> /\ results = <<>>
    /\ channel = FALSE /\ opened = 0 /\ forgotten = 0 /\ lost = FALSE /\ raised = FALSE
    /\ mode = "off" /\ left = <<>> /\ wire = <<>> /\ typed = {} /\ refused = 0

\* The connection goes down, with what was printed still to be read.
LoseConnection ==
    /\ channel /\ ~lost
    /\ lost' = TRUE
    /\ UNCHANGED <<env, client, reader, session, channel, opened, forgotten, raised, device>>

----------------------------------------------------------------------------
(* _read_until_ready, the same loop in the three transports *)

\* A call starts with nothing read.
StartReading(g) ==
    /\ pc' = "read"
    /\ goal' = g
    /\ out' = <<>>
    /\ handled' = 0

\* A chunk: some of what the device has printed, from the front.
Chunk ==
    /\ pc = "read"
    /\ \E n \in 1 .. Len(wire) :
          /\ out' = out \o SubSeq(wire, 1, n)
          /\ wire' = SubSeq(wire, n + 1, Len(wire))
    /\ pc' = "judge"
    /\ UNCHANGED <<env, goal, attempt, error, handled, session, handles, mode, left, typed, refused>>

Pagers == Cardinality({i \in DOMAIN out : out[i].k = "pager"})

ContinuePager ==
    /\ pc = "judge"
    /\ handled < Pagers /\ handled < MaxPagers
    /\ handled' = handled + 1
    /\ Type("c")
    /\ UNCHANGED <<env, client, out, session, handles>>

Raise(e) ==
    /\ pc' = "except"
    /\ error' = e
    /\ UNCHANGED <<env, goal, attempt, reader, session, handles, device>>

PagerUnfinished == pc = "judge" /\ handled < Pagers /\ handled >= MaxPagers /\ Raise("fatal")
DeadlinePasses  == pc = "read" /\ Raise("retryable")
ChannelClosed   == pc = "read" /\ lost /\ wire = <<>> /\ Raise("retryable")

Last == out[Len(out)].k

\* detect_prompt: does the output end like any prompt, and like which.
Detected ==
    CASE Last \in {"prompt", "lookalike"} -> "cli"
      [] Last = "hash" -> "hash"
      [] OTHER -> "none"

\* ends_with_prompt: it has to be the prompt that connect() saw.
EndsWithPrompt == Detected = prompt

PromptSeen == IF Connecting THEN Detected # "none" ELSE EndsWithPrompt

Reads(kinds) == \E i \in DOMAIN out : out[i].k \in kinds

\* The stop pattern of this call that the output holds, anywhere in it.
StopSeen ==
    CASE goal = "banner" /\ ~Ssh /\ Reads({"login", "welcome"}) -> "login"
      [] goal \in {"banner", "username"} /\ ~Ssh /\ Reads({"password"}) -> "password"
      [] goal = "command" /\ Reads({"confirm", "mention"}) -> "confirmation"
      [] OTHER -> "none"

\* The verdict on a chunk whose pagers are answered: the prompt comes first.
Returns(verdict) ==
    /\ pc = "judge"
    /\ handled = Pagers
    /\ verdict = IF PromptSeen THEN "prompt" ELSE StopSeen

KeepReading ==
    /\ Returns("none")
    /\ pc' = "read"
    /\ UNCHANGED <<env, goal, attempt, error, reader, session, handles, device>>

Loop == Chunk \/ ContinuePager \/ PagerUnfinished \/ DeadlinePasses \/ ChannelClosed \/ KeepReading

SshReadUntilReady    == Ssh /\ Loop
SerialReadUntilReady == kind = "serial" /\ Loop
TelnetReadUntilReady == kind = "telnet" /\ Loop

----------------------------------------------------------------------------
(* connect *)

Opens ==
    /\ pc = "connect"
    /\ opened' = opened + 1
    /\ channel' = TRUE
    /\ lost' = FALSE
    /\ Greets

\* The client is made before it connects, so a failed attempt has one too.
SshOpens ==
    /\ Ssh /\ accepts
    /\ Opens
    /\ pc' = "hello"
    /\ UNCHANGED <<env, goal, attempt, error, reader, session, forgotten, raised>>

SshRefused(e) ==
    /\ Ssh /\ pc = "connect"
    /\ opened' = opened + 1
    /\ pc' = "except"
    /\ error' = e
    /\ UNCHANGED <<env, goal, attempt, reader, session, channel, forgotten, lost, raised,
                   mode, left, wire, typed>>

SshUnreachable == SshRefused("retryable") /\ UNCHANGED refused

\* Mutant: AuthenticationException is an SSHException and counts as one.
SshRejectedRetried == ~accepts /\ SshRefused("retryable") /\ refused' = refused + 1

\* _is_retryable_connect_error: an authentication error is not.
SshRejected == ~accepts /\ SshRefused("fatal") /\ refused' = refused + 1

SerialOpens ==
    /\ kind = "serial"
    /\ Opens
    /\ pc' = "hello"
    /\ UNCHANGED <<env, goal, attempt, error, reader, session, forgotten, raised>>

TelnetOpens ==
    /\ kind = "telnet"
    /\ Opens
    /\ StartReading("banner")
    /\ UNCHANGED <<env, attempt, error, session, forgotten, raised>>

OpenFails ==
    /\ kind \in {"serial", "telnet"} /\ pc = "connect"
    /\ Raise("fatal")

\* The empty line that makes the device show its prompt.
Hello ==
    /\ pc = "hello"
    /\ Type("newline")
    /\ StartReading("banner")
    /\ UNCHANGED <<env, attempt, error, session, handles>>

SendUsername ==
    /\ Returns("login")
    /\ Type("username")
    /\ StartReading("username")
    /\ UNCHANGED <<env, attempt, error, session, handles>>

SendPassword ==
    /\ Returns("password")
    /\ Type("password")
    /\ StartReading("password")
    /\ UNCHANGED <<env, attempt, error, session, handles>>

\* Mutant: connect() takes the first output for the prompt.
PromptAssumed ==
    /\ Connecting /\ (Returns("prompt") \/ Returns("none"))
    /\ prompt' = "cli"
    /\ pc' = "ready"
    /\ UNCHANGED <<env, goal, attempt, error, reader, held, results, handles, device>>

PromptEstablished ==
    /\ Connecting /\ Returns("prompt")
    /\ prompt' = Detected
    /\ pc' = "ready"
    /\ UNCHANGED <<env, goal, attempt, error, reader, held, results, handles, device>>

SshConnect    == Ssh /\ (Hello \/ PromptEstablished)
SerialConnect == kind = "serial" /\ (Hello \/ SendUsername \/ SendPassword \/ PromptEstablished)
TelnetConnect == kind = "telnet" /\ (SendUsername \/ SendPassword \/ PromptEstablished)

\* Mutant: the client of a failed attempt is not closed.
SshAttemptFailsUnclosed ==
    /\ pc = "except" /\ Ssh /\ Connecting
    /\ IF attempt < Attempts /\ error = "retryable"
       THEN pc' = "connect" /\ attempt' = attempt + 1
       ELSE pc' = "close" /\ UNCHANGED attempt
    /\ error' = "none"
    /\ goal' = "banner"
    /\ UNCHANGED <<env, reader, session, handles, device>>

\* close(logout=False), then the next attempt if there is one for this error.
SshAttemptFails ==
    /\ pc = "except" /\ Ssh /\ Connecting
    /\ channel' = FALSE
    /\ opened' = opened - 1
    /\ IF attempt < Attempts /\ error = "retryable"
       THEN pc' = "connect" /\ attempt' = attempt + 1
       ELSE pc' = "close" /\ UNCHANGED attempt
    /\ error' = "none"
    /\ goal' = "banner"
    /\ UNCHANGED <<env, reader, session, forgotten, lost, raised, device>>

TelnetConnectFails ==
    /\ pc = "except" /\ kind = "telnet" /\ Connecting
    /\ channel' = FALSE
    /\ opened' = IF channel THEN opened - 1 ELSE opened
    /\ prompt' = "none"
    /\ pc' = "close"
    /\ error' = "none"
    /\ UNCHANGED <<env, goal, attempt, reader, held, results, forgotten, lost, raised, device>>

\* The serial port stays open; only the transport's finally closes it.
SerialConnectFails ==
    /\ pc = "except" /\ kind = "serial" /\ Connecting
    /\ pc' = "close"
    /\ error' = "none"
    /\ UNCHANGED <<env, goal, attempt, reader, session, handles, device>>

----------------------------------------------------------------------------
(* run_command *)

SendCommand ==
    /\ pc = "ready" /\ Current <= Commands
    /\ Type("command")
    /\ StartReading("command")
    /\ held' = <<>>
    /\ UNCHANGED <<env, attempt, error, prompt, results, handles>>

Confirm ==
    /\ goal = "command" /\ Returns("confirmation")
    /\ Type("y")
    /\ StartReading("confirmed")
    /\ held' = out
    /\ UNCHANGED <<env, attempt, error, prompt, results, handles>>

\* strip_command_envelope: the prompt at the end goes, and the first line if
\* it is the command's echo, alone or behind the prompt.
Stripped(o) ==
    LET echo == Line("echo", Current)
        from == CASE o[1] = echo -> 2
                  [] Len(o) > 1 /\ o[1] = Token("prompt") /\ o[2] = echo -> 3
                  [] OTHER -> 1
    IN  SubSeq(o, from, Len(o) - 1)

\* Mutant: the confirmation's second read replaces the first.
AnsweredPartly ==
    /\ ~Connecting /\ Returns("prompt")
    /\ results' = Append(results, Stripped(out))
    /\ pc' = "ready"
    /\ UNCHANGED <<env, goal, attempt, error, reader, prompt, held, handles, device>>

Answered ==
    /\ ~Connecting /\ Returns("prompt")
    /\ results' = Append(results, Stripped(held \o out))
    /\ pc' = "ready"
    /\ UNCHANGED <<env, goal, attempt, error, reader, prompt, held, handles, device>>

RunCommand == SendCommand \/ Confirm \/ Answered
SshRunCommand    == Ssh /\ RunCommand
SerialRunCommand == kind = "serial" /\ RunCommand
TelnetRunCommand == kind = "telnet" /\ RunCommand

\* The list is done, or a command raised: the transport's finally closes.
Finally ==
    /\ \/ pc = "ready" /\ Current > Commands
       \/ pc = "except" /\ ~Connecting
    /\ pc' = "close"
    /\ error' = "none"
    /\ UNCHANGED <<env, goal, attempt, reader, session, handles, device>>

\* SshCliSession.run_commands connects again when the connection is down by
\* then: the new client takes the place of the old one, which nobody closes.
SshReconnects ==
    /\ kind = "ssh" /\ pc = "ready" /\ Connecting /\ lost /\ forgotten = 0
    /\ forgotten' = 1
    /\ attempt' = 1
    /\ pc' = "connect"
    /\ UNCHANGED <<env, goal, error, reader, session, channel, opened, lost, raised, device>>

SshRunCommands    == SshReconnects \/ (Ssh /\ Finally)
SerialRunCommands == kind = "serial" /\ Finally
TelnetRunCommands == kind = "telnet" /\ Finally

----------------------------------------------------------------------------
(* close *)

\* The logout says "exit", and "y" if it is asked; its answers are not used.
\* raises: sending or reading them fails.
Closes(raises) ==
    /\ pc = "close"
    /\ channel' = FALSE
    /\ raised' = raises
    /\ pc' = "done"
    /\ UNCHANGED <<env, goal, attempt, error, reader, session, forgotten, lost, device>>

\* Only the channel is closed in a finally: the client is not when the logout
\* raises.  The pool discards a session without a logout when a command failed.
SshClose ==
    /\ Ssh
    /\ \E raises \in {FALSE, channel /\ (kind = "ssh" \/ Len(results) = Commands)} :
          /\ Closes(raises)
          /\ opened' = IF channel /\ ~raises THEN opened - 1 ELSE opened

SerialClose ==
    /\ kind = "serial"
    /\ \E raises \in {FALSE, channel} : Closes(raises)
    /\ opened' = IF channel THEN opened - 1 ELSE opened

\* An OSError of the logout is ignored.
TelnetClose ==
    /\ kind = "telnet"
    /\ Closes(FALSE)
    /\ opened' = IF channel THEN opened - 1 ELSE opened

----------------------------------------------------------------------------
Next ==
    \/ SshOpens \/ SshUnreachable \/ SshRejected \/ SerialOpens \/ TelnetOpens \/ OpenFails
    \/ SshConnect \/ SerialConnect \/ TelnetConnect
    \/ SshAttemptFails \/ TelnetConnectFails \/ SerialConnectFails
    \/ SshReadUntilReady \/ SerialReadUntilReady \/ TelnetReadUntilReady
    \/ SshRunCommand \/ SerialRunCommand \/ TelnetRunCommand
    \/ SshRunCommands \/ SerialRunCommands \/ TelnetRunCommands
    \/ SshClose \/ SerialClose \/ TelnetClose
    \/ LoseConnection

Spec == Init /\ [][Next]_vars

----------------------------------------------------------------------------
(* Properties *)

Tokens == [k : {"text", "pager", "confirm", "lookalike", "mention", "hash", "welcome",
                "echo", "prompt", "login", "password"},
           of : 0 .. Commands + 1]

TypeOK ==
    /\ kind \in Kinds
    /\ script \in [1 .. Commands -> Scripts]
    /\ banner \in Banners
    /\ accepts \in BOOLEAN /\ early \in BOOLEAN
    /\ pc \in {"connect", "hello", "read", "judge", "ready", "except", "close", "done"}
    /\ goal \in Goals
    /\ attempt \in 1 .. Attempts
    /\ error \in {"none", "retryable", "fatal"}
    /\ out \in Seq(Tokens) /\ wire \in Seq(Tokens) /\ held \in Seq(Tokens)
    /\ results \in Seq(Seq(Tokens)) /\ Len(results) <= Commands
    /\ handled \in 0 .. MaxPagers
    /\ prompt \in {"none", "cli", "hash"}
    /\ channel \in BOOLEAN /\ lost \in BOOLEAN /\ raised \in BOOLEAN
    /\ opened \in Nat /\ forgotten \in {0, 1} /\ refused \in Nat
    /\ mode \in {"off", "login", "password", "cli", "pager", "confirm"}
    /\ left \in Seq({"text", "pager", "confirm", "lookalike", "mention"})

\* The device prints nothing that only looks like a request: no output line
\* reads like the prompt, no ordinary text like a question or a login.
Honest ==
    /\ \A i \in DOMAIN banner : banner[i] = "text"
    /\ \A c \in 1 .. Commands : \A i \in DOMAIN script[c] :
           script[c][i] \notin {"lookalike", "mention"}

\* It also shows no prompt before connect() has asked for one.
Waiting == Honest /\ ~early

\* However the device's output is cut into chunks, and however often it pages
\* or asks, the result of every command is all of that command's output and
\* nothing else (run_commands; the read loops stop at prompts, not at pauses).
AnswersMatch ==
    Waiting => \A c \in DOMAIN results :
                  results[c] = [i \in DOMAIN script[c] |-> Line(script[c][i], c)]

\* A command is over only when the device is done with it: nothing it printed
\* is left for the next one to read (_read_until_ready waits for the prompt).
CommandsWaitForPrompt ==
    Honest => \A c \in DOMAIN results : \A i \in DOMAIN wire : wire[i].of # c

Asks == [username |-> "login", password |-> "password", command |-> "cli",
         y |-> "confirm", c |-> "pager"]

\* Every line and key goes to the request it answers: the password only to a
\* password prompt, a command only to the command line (connect, run_command).
TypedWhenAsked ==
    Waiting => \A e \in typed : e.what \in DOMAIN Asks => e.at = Asks[e.what]

\* A run gets at most one password refused, whatever its retries: repeating it
\* could lock the account (the retry loop of SSH connect, the login dialogues).
RefusedOnce == refused <= 1

\* A run never holds two connections, and none when it is over, however it
\* ended; only an SSH logout that raises leaves its client open, and a client
\* that was lost between connect() and the first command is replaced without
\* being closed (close, the clean-up of a failed connect).
NothingLeftOpen ==
    /\ opened <= 1 + forgotten
    /\ pc = "done" => opened = forgotten \/ (Ssh /\ raised)

===========================================================================
