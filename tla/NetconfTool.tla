---------------------------- MODULE NetconfTool ----------------------------
(***************************************************************************)
(* device-cli-netconf-test (tools/cli_tool_netconf_test.py) on top of      *)
(* NetconfConfirmedCommit: some of the calls of execute_confirmed_commit   *)
(* are made by an invocation of the tool, which checks its arguments, asks *)
(* MutationAuthorization, makes the call, writes a report, prints a result *)
(* and exits.  The other calls are those of programs that use the library. *)
(*                                                                         *)
(* connect, get and get-config are one operation here, "read": they change *)
(* nothing on the device and share one path through the tool.              *)
(***************************************************************************)
EXTENDS NetconfConfirmedCommit, Integers

CONSTANT Tool  \* the calls that are invocations of the tool

ASSUME ToolAssumption == Tool \subseteq Calls

VARIABLES
    stage,   \* where an invocation is
    request, \* its arguments
    lacking, \* invocations that met a NetconfCapabilityError
    result,  \* the result it has found, "none" before
    printed, \* the result on its standard output
    report,  \* the result in its report file
    code     \* its exit code, None before

outcome  == <<result, printed, report, code>>
tool     == <<stage, request, lacking, outcome>>
toolVars == <<vars, tool>>

\* matches: --confirm-node and --confirm-host equal --node-key and --host.
Requests == [op : {"read", "edit"}, live : BOOLEAN, final : BOOLEAN,
             matches : BOOLEAN, report : BOOLEAN]

Executed == {"EXECUTED_FINALIZED", "EXECUTED_TRANSIENT"}
Failed   == {"FAILED", "REFUSED_MISSING_CAPABILITY"}
Results  == Executed \cup Failed \cup {"DRY_RUN_READY", "READ"}

ToolInit ==
    /\ Init
    /\ stage = [c \in Tool |-> "validate"]
    /\ request \in [Tool -> Requests]
    /\ lacking = {}
    /\ result = [c \in Tool |-> "none"]
    /\ printed = [c \in Tool |-> "none"]
    /\ report = [c \in Tool |-> "none"]
    /\ code = [c \in Tool |-> None]

----------------------------------------------------------------------------
(* Before the call *)

Advances(c, label) ==
    /\ stage' = [stage EXCEPT ![c] = label]
    /\ UNCHANGED <<vars, request, lacking, outcome>>

\* The process ends, with this on its standard output.
Exits(c, output, status) ==
    /\ stage' = [stage EXCEPT ![c] = "exit"]
    /\ printed' = [printed EXCEPT ![c] = output]
    /\ code' = [code EXCEPT ![c] = status]
    /\ UNCHANGED <<vars, request, lacking, result, report>>

\* main() catches PermissionError and ValueError, and only these: SystemExit
\* and every other exception end the process with a message and status 1.
Refuses(c) == Exits(c, "REFUSED", 2)
Stops(c)   == Exits(c, "none", 1)

\* _validate_args.  Other arguments may be wrong, too.
Arguments(c) ==
    /\ stage[c] = "validate"
    /\ \/ Stops(c)
       \/ /\ request[c].op = "read" => ~request[c].live
          /\ request[c].final => request[c].live
          /\ Advances(c, IF request[c].op = "edit" THEN "plan" ELSE "password")

\* The file, the node key, the host or the plan is no good: PermissionError and
\* ValueError, or another error of the file.
Plan(c) ==
    /\ stage[c] = "plan"
    /\ Refuses(c) \/ Stops(c) \/ Advances(c, "authorize")

\* MutationAuthorization.validate, for the dry run with run_mutating=True.
Authorized(c) == request[c].matches

\* Mutant: a live run is not asked for its confirmations.
AuthorizeDryOnly(c) ==
    /\ stage[c] = "authorize"
    /\ IF request[c].live THEN Advances(c, "password")
       ELSE IF ~Authorized(c) THEN Refuses(c)
       ELSE /\ stage' = [stage EXCEPT ![c] = "report"]
            /\ result' = [result EXCEPT ![c] = "DRY_RUN_READY"]
            /\ UNCHANGED <<vars, request, lacking, printed, report, code>>

Authorize(c) ==
    /\ stage[c] = "authorize"
    /\ IF ~Authorized(c) THEN Refuses(c)
       ELSE IF request[c].live THEN Advances(c, "password")
       ELSE /\ stage' = [stage EXCEPT ![c] = "report"]
            /\ result' = [result EXCEPT ![c] = "DRY_RUN_READY"]
            /\ UNCHANGED <<vars, request, lacking, printed, report, code>>

\* The password is not in the environment, or a filter file is unreadable.
Credentials(c) ==
    /\ stage[c] = "password"
    /\ Refuses(c) \/ Stops(c) \/ Advances(c, "call")

----------------------------------------------------------------------------
(* The call *)

\* The tool never asks for persist.
Asked(c) ==
    c \in Tool => /\ stage[c] = "call" /\ request[c].op = "edit"
                  /\ c \in finalize' <=> c \in sessions' /\ request[c].final
                  /\ c \notin persist'

CallConnects(c) ==
    /\ CannotConnect(c) \/ Connect(c)
    /\ Asked(c)
    /\ lacking' = IF c \in Tool /\ pc'[c] = "close" THEN lacking \cup {c} ELSE lacking
    /\ UNCHANGED <<stage, request, outcome>>

\* The process is gone: there will be no report and no result.
Dies(c) ==
    /\ stage' = [x \in Tool |-> IF x = c THEN "dead" ELSE stage[x]]
    /\ UNCHANGED <<request, lacking, outcome>>

\* Ctrl-C is no Exception: the tool ends with the call.
CallGoesOn(c) ==
    /\ CallStep(c)
    /\ IF pc[c] = "discard" /\ pc'[c] = "close" THEN Dies(c) ELSE UNCHANGED tool

CallCrashes(c) == Crash(c) /\ Dies(c)

Library(c) ==
    /\ ConfirmPersisted(c) \/ CancelPersisted(c) \/ SessionBreaks(c)
    /\ UNCHANGED tool

Time == ConfirmTimeout /\ UNCHANGED tool

----------------------------------------------------------------------------
(* After the call *)

Finds(c, value) ==
    /\ stage' = [stage EXCEPT ![c] = "report"]
    /\ result' = [result EXCEPT ![c] = value]
    /\ UNCHANGED <<vars, request, lacking, printed, report, code>>

Read(c) ==
    /\ stage[c] = "call" /\ request[c].op = "read"
    /\ Finds(c, "READ") \/ Finds(c, "FAILED")

Conclude(c) ==
    /\ stage[c] = "call" /\ pc[c] = "done"
    /\ Finds(c, IF c \notin raised
                THEN IF request[c].final THEN "EXECUTED_FINALIZED" ELSE "EXECUTED_TRANSIENT"
                ELSE IF c \in lacking THEN "REFUSED_MISSING_CAPABILITY" ELSE "FAILED")

Status(c) == IF result[c] \in Failed THEN 1 ELSE 0

\* _write_report, and the payload on standard output.
Report(c) ==
    /\ stage[c] = "report"
    /\ stage' = [stage EXCEPT ![c] = "exit"]
    /\ report' = [report EXCEPT ![c] = IF request[c].report THEN result[c] ELSE "none"]
    /\ printed' = [printed EXCEPT ![c] = result[c]]
    /\ code' = [code EXCEPT ![c] = Status(c)]
    /\ UNCHANGED <<vars, request, lacking, result>>

\* The report directory cannot be made or written: PermissionError, which
\* main() takes for a refusal, or another error.
ReportFails(c) ==
    /\ stage[c] = "report" /\ request[c].report
    /\ Refuses(c) \/ Stops(c)

----------------------------------------------------------------------------
ToolStep(c) ==
    \/ Arguments(c) \/ Plan(c) \/ Authorize(c) \/ Credentials(c)
    \/ Read(c) \/ Conclude(c) \/ Report(c) \/ ReportFails(c)

ToolNext ==
    \/ \E c \in Tool : ToolStep(c)
    \/ \E c \in Calls : CallConnects(c) \/ CallGoesOn(c) \/ CallCrashes(c) \/ Library(c)
    \/ Time

ToolSpec == ToolInit /\ [][ToolNext]_toolVars

ToolFairSpec == ToolSpec /\ \A c \in Calls : WF_toolVars(CallGoesOn(c))

----------------------------------------------------------------------------
(* Properties *)

\* The device undoes the candidate together with running, and on unlock.
DeviceCleans == RevertResetsCandidate /\ UnlockDiscards

\* The call of c has done something on the device.
Touched(c) == c \in sessions \cup candidate \cup tried \cup confirmed

\* What an invocation prints and reports is what happened: it touches the device
\* only in a live edit whose node and host are confirmed, makes nothing permanent
\* unasked, says "finalized" only of an edit that stays, and "dry run", "read" or
\* "missing capability" only when it touched nothing (run, main, _write_report).
ReportIsTrue ==
    \A c \in Tool :
        /\ Touched(c) =>
               request[c].op = "edit" /\ request[c].live /\ request[c].matches
        /\ c \in confirmed => request[c].final
        /\ printed[c] = "EXECUTED_FINALIZED" =>
               c \in tried \cap confirmed /\ (~RevertResetsCandidate => c \in Kept)
        /\ printed[c] = "EXECUTED_TRANSIENT" =>
               c \in tried \ confirmed /\ (DeviceCleans => c \notin running)
        /\ printed[c] \in {"DRY_RUN_READY", "READ", "REFUSED_MISSING_CAPABILITY"} => ~Touched(c)
        /\ report[c] # "none" => report[c] = printed[c]
        /\ stage[c] = "exit" =>
               (code[c] = 0 <=> printed[c] \in Executed \cup {"DRY_RUN_READY", "READ"})

\* An invocation that says REFUSED has sent nothing to the device (main).
RefusedIsUntouched ==
    \A c \in Tool : printed[c] = "REFUSED" => ~Touched(c)

===========================================================================
