---------------------------- MODULE TransferTool ----------------------------
(***************************************************************************)
(* device-cli-transfer (tools/cli_tool_readonly_transfer.py) on top of     *)
(* Download: some of the calls of download are made by an invocation of    *)
(* the tool, which checks its arguments, finds its credentials, opens a    *)
(* client, makes the call, closes the client, writes a report, prints it   *)
(* and exits.  The other calls are those of programs that use the library. *)
(*                                                                         *)
(* list, stat and exists are one operation here, "read": they change no    *)
(* file and share one path through the tool.                               *)
(***************************************************************************)
EXTENDS Download

CONSTANT Tool  \* the calls that are invocations of the tool

ASSUME TransferAssumption == Tool \subseteq Calls

VARIABLES
    stage,     \* where an invocation is
    operation, \* "read" or "download"
    failed,    \* invocations with an error
    unclosed,  \* those whose error is that of the close
    printed,   \* the verdict in the report and on standard output, "none" before
    code       \* the exit code, 3 before

invocation   == <<stage, operation, failed, unclosed, printed, code>>
transferVars == <<vars, invocation>>

TransferInit ==
    /\ Init
    /\ stage = [c \in Tool |-> "validate"]
    /\ operation \in [Tool -> {"read", "download"}]
    /\ failed = {} /\ unclosed = {}
    /\ printed = [c \in Tool |-> "none"]
    /\ code = [c \in Tool |-> 3]

Advances(c, label) ==
    /\ stage' = [stage EXCEPT ![c] = label]
    /\ UNCHANGED <<vars, operation, printed, code>>

\* The process ends with a message and nothing on standard output.
Stops(c) ==
    /\ stage' = [stage EXCEPT ![c] = "exit"]
    /\ code' = [code EXCEPT ![c] = 1]
    /\ UNCHANGED <<operation, failed, unclosed, printed>>

----------------------------------------------------------------------------
\* Arguments that do not fit together are refused before anything is opened.
ValidateArgs(c) ==
    /\ stage[c] = "validate"
    /\ \/ Stops(c) /\ UNCHANGED vars
       \/ Advances(c, "auth") /\ UNCHANGED <<failed, unclosed>>

ResolveAuth(c) ==
    /\ stage[c] = "auth"
    /\ \/ Stops(c) /\ UNCHANGED vars
       \/ Advances(c, "connect") /\ UNCHANGED <<failed, unclosed>>

\* The client refuses its arguments, or cannot connect and log in.  There is
\* nothing to close then: connect() has closed what it had opened.
BuildClient(c) ==
    /\ stage[c] = "connect"
    /\ UNCHANGED unclosed
    /\ \/ Advances(c, "run") /\ UNCHANGED failed
       \/ Advances(c, "report") /\ failed' = failed \cup {c}

\* A listing or a stat.
ReadOperation(c) ==
    /\ stage[c] = "run" /\ operation[c] = "read"
    /\ Advances(c, "close")
    /\ failed' \in {failed, failed \cup {c}}
    /\ UNCHANGED unclosed

\* download(): of an invocation only while it runs.  An interrupt is no
\* Exception and ends the tool.
CallGoesOn(c) ==
    /\ c \in Tool => stage[c] = "run" /\ operation[c] = "download"
    /\ CallStep(c)
    /\ IF c \in Tool /\ pc'[c] = "interrupted" THEN Stops(c) ELSE UNCHANGED invocation

\* download() has returned or raised.
RunOperation(c) ==
    /\ stage[c] = "run" /\ pc[c] \in {"returned", "raised"}
    /\ Advances(c, "close")
    /\ failed' = IF pc[c] = "raised" THEN failed \cup {c} ELSE failed
    /\ UNCHANGED unclosed

\* Mutant: an error of the close is ignored with the one before it.
CloseSwallows(c) ==
    /\ stage[c] = "close"
    /\ Advances(c, "report")
    /\ failed' = failed \ {c}
    /\ UNCHANGED unclosed

Close(c) ==
    /\ stage[c] = "close"
    /\ Advances(c, "report")
    /\ UNCHANGED <<failed, unclosed>>

\* The exception of the close takes the place of the operation's, if any.
CloseFails(c) ==
    /\ stage[c] = "close"
    /\ Advances(c, "report")
    /\ failed' = failed \cup {c}
    /\ unclosed' = unclosed \cup {c}

Verdict(c) == IF c \in failed THEN "failed" ELSE "passed"

\* The report file, unless --no-report, then the same on standard output.
Report(c) ==
    /\ stage[c] = "report"
    /\ stage' = [stage EXCEPT ![c] = "exit"]
    /\ printed' = [printed EXCEPT ![c] = Verdict(c)]
    /\ code' = [code EXCEPT ![c] = IF c \in failed THEN 1 ELSE 0]
    /\ UNCHANGED <<vars, operation, failed, unclosed>>

\* The report cannot be written, and nobody catches that.
ReportFails(c) == stage[c] = "report" /\ Stops(c) /\ UNCHANGED vars

----------------------------------------------------------------------------
ToolStep(c) ==
    \/ ValidateArgs(c) \/ ResolveAuth(c) \/ BuildClient(c)
    \/ ReadOperation(c) \/ RunOperation(c) \/ Close(c) \/ CloseFails(c)
    \/ Report(c) \/ ReportFails(c)

Others == (Change \/ Interfere) /\ UNCHANGED invocation

TransferNext ==
    \/ Others
    \/ \E c \in Calls : CallGoesOn(c)
    \/ \E c \in Tool : ToolStep(c)

TransferSpec == TransferInit /\ [][TransferNext]_transferVars

----------------------------------------------------------------------------
(* Properties *)

\* The verdict of an invocation is what became of the destination: "passed" and
\* exit code 0 mean that a download put its file there, "failed" that it did not,
\* unless the removal of the .part file or the close is what failed; a read
\* touches nothing, and a .part file that is left was reported as an error.
VerdictIsTrue ==
    \A c \in Tool :
        /\ stage[c] = "exit" => (code[c] = 0 <=> printed[c] = "passed")
        /\ printed[c] = "passed" /\ operation[c] = "download" => c \in published \ parts
        /\ printed[c] = "failed" => c \notin published \ (littered \cup unclosed)
        /\ printed[c] # "none" /\ c \in parts => c \in littered /\ printed[c] = "failed"
        /\ operation[c] = "read" => c \notin published \cup parts

=============================================================================
