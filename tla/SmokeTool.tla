----------------------------- MODULE SmokeTool -----------------------------
(***************************************************************************)
(* device-cli-smoke (tools/cli_tool_readonly_smoke.py) on top of           *)
(* CliSession: the tool resolves its settings, takes one read-only command *)
(* specification from the catalog, runs its commands over the transport,   *)
(* compares the outputs with the expected tokens (workflows/verify.py),    *)
(* reports, and exits with a code that says whether the device passed.     *)
(*                                                                         *)
(* Kind "ssh" is not a transport of the tool: there the session is used by *)
(* a program of its own.  The settings are chosen where they are read.     *)
(* The commands of a specification have different texts: of two with one   *)
(* text verify.py keeps and verifies only the last output.                 *)
(***************************************************************************)
EXTENDS CliSession, TelnetProtocol, Functions

CONSTANT None

ASSUME SmokeAssumption == None \notin {0, 1}

VARIABLES
    stage,   \* where the tool is: "library" for a session without it
    gates,   \* what the settings allow: [readonly, insecure], None before
    spec,    \* what the commands are verified against, None before
    passed,  \* result.passed, None before
    report,  \* the verdict in the report file, None without one
    code     \* the exit code, None before

smoke     == <<stage, gates, spec, passed, report, code>>
smokeVars == <<vars, smoke>>

SmokeInit ==
    /\ Init
    /\ stage = IF kind = "ssh" THEN "library" ELSE "resolve"
    /\ gates = None /\ spec = None /\ passed = None /\ report = None /\ code = None

----------------------------------------------------------------------------
(* Before the commands *)

\* SystemExit with a message, or an exception that nobody catches.
Stops ==
    /\ stage' = "exit"
    /\ code' = 1
    /\ UNCHANGED <<vars, gates, spec, passed, report>>

Advances(label) ==
    /\ stage' = label
    /\ UNCHANGED <<vars, gates, spec, passed, report, code>>

\* _resolve_smoke_config: plain Telnet has to be allowed on the command line;
\* any setting may be missing or unusable.
Resolve ==
    /\ stage = "resolve"
    /\ \/ Stops
       \/ \E g \in [readonly : BOOLEAN, insecure : BOOLEAN] :
             /\ kind = "telnet" => g.insecure
             /\ gates' = g
             /\ stage' = "password"
             /\ UNCHANGED <<vars, spec, passed, report, code>>

\* The password, the node and the host or port; then the catalog.
ResolvePassword == stage = "password" /\ (Stops \/ Advances("target"))
ResolveTarget   == stage = "target" /\ (Stops \/ Advances("catalog"))
LoadDriver      == stage = "catalog" /\ (Stops \/ Advances("spec"))

\* The specification may be unknown or lack a parameter, and must be read-only.
CommandSpec ==
    /\ stage = "spec"
    /\ Stops \/ (gates.readonly /\ Advances("run"))

----------------------------------------------------------------------------
(* The commands *)

Session ==
    /\ stage \in {"library", "run"}
    /\ Next
    /\ UNCHANGED smoke

\* run_commands of the transport returned: no command and no close raised.
Succeeded == pc = "done" /\ Len(results) = Commands /\ ~raised

\* It raised, and nobody catches that: there is no report.
SessionFailed == stage = "run" /\ pc = "done" /\ ~Succeeded /\ Stops

----------------------------------------------------------------------------
(* The verdict *)

\* expected: a token has to be shown, and the outputs of holders hold it.
Specs == [expected : BOOLEAN, holders : SUBSET (1 .. Commands)]

\* missing_tokens
Missing(s, output) ==
    s.expected /\ ~\E i \in DOMAIN output : output[i].k = "text" /\ output[i].of \in s.holders

\* Mutant: an empty output is no error.
VerifyTokensOnly(s, c) == ~Missing(s, results[c])

\* verify_output_tokens
VerifyOutput(s, c) == results[c] # <<>> /\ ~Missing(s, results[c])

Verify ==
    /\ stage = "run" /\ Succeeded
    /\ \E s \in Specs :
          /\ spec' = s
          /\ passed' = \A c \in 1 .. Commands : VerifyOutput(s, c)
    /\ stage' = "report"
    /\ UNCHANGED <<vars, gates, report, code>>

\* --max-output-chars is only looked at now, and the report may not be
\* writable: the run ends without a verdict on its output.
BuildReport ==
    /\ stage = "report"
    /\ Stops \/ Advances("write")

WriteReport ==
    /\ stage = "write"
    /\ \/ Stops
       \/ /\ report' \in {None, passed}
          /\ code' = IF passed THEN 0 ELSE 1
          /\ stage' = "exit"
          /\ UNCHANGED <<vars, gates, spec, passed>>

----------------------------------------------------------------------------
SmokeNext ==
    \/ Resolve \/ ResolvePassword \/ ResolveTarget \/ LoadDriver \/ CommandSpec
    \/ Session \/ SessionFailed
    \/ Verify \/ BuildReport \/ WriteReport

SmokeSpec == SmokeInit /\ [][SmokeNext]_smokeVars

----------------------------------------------------------------------------
(* Properties *)

\* Exit code 0 means evidence: every command has answered with something, all
\* of its own output was collected and the expected token stands in it, however
\* the chunks fell and even when the shell's first prompt shifts the outputs by
\* one command (run_smoke, verify_cli_outputs; the check for an empty output is
\* what notices the shift).
PassedIsShown ==
    Honest /\ code = 0 =>
        \A c \in 1 .. Commands :
            /\ script[c] # <<>>
            /\ \A i \in DOMAIN script[c] : Line(script[c][i], c) \in Range(results[c])
            /\ spec.expected => c \in spec.holders /\ "text" \in Range(script[c])

\* A Telnet session may read its bytes in any portions: what it shows, answers
\* and keeps does not depend on them (_consume_protocol on every input of up
\* to MaxBytes bytes and every cut).
TelnetReadsAlike == kind = "telnet" /\ pc = "read" => CutsDoNotMatter

===========================================================================
