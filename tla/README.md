# Verification of device-cli-tool

`device-cli-tool` runs CLI commands, NETCONF transactions and file transfers on network
devices. This directory holds TLA+ models of its stateful parts, the TLC configurations that
check them on small instances, and TLAPS proofs for every value of the constants.
Paths below are relative to the repository; `ssh.py` is `cli_tool/transport/ssh.py`,
`netconf.py` is `cli_tool/transport/netconf.py`.

```
tlc -workers 2 -config Pool_mishaps.cfg MCSshSessionPool     # one of the runs listed below
tlapm SshSessionPool_proofs.tla                              # the proofs of one module
```

## 1. Inventory

| Component | State | Operations | What is hard | Correct when |
|---|---|---|---|---|
| **File token semaphore** `ssh.py:343-408` | token files in a directory shared by all processes on the host | `acquire` (sweep of stale tokens, one `O_EXCL` attempt per slot, retry until the deadline), `release` | every step is a system call other processes interleave with; processes die; signals are refused across users | a token in use is not taken away, a dead one is, `acquire` ends |
| **SSH session pool** `ssh.py:411-649` | idle lists, one lock per pool, registry of pools, a token per session | `acquire`/`release`/`discard`/`close_all`, `run_commands`, `ssh_session_pool`, `close_ssh_session_pools` | threads; failure between taking a token and owning a session; sessions that die while idle; leases that outlive their pool | one user per session, no more than `max_sessions`, no lost token, no foreign output |
| **SSH CLI session** `ssh.py:81-340` | channel, prompt, buffer | connect with retries, `run_command` read loop, pager and confirmation answers, logout | output arrives in chunks; prompt look-alikes; timeouts | a command's output is all of its own and nothing else |
| **Serial and Telnet sessions** `transport/serial.py`, `transport/telnet.py`; **readiness** `transport/readiness.py` | port or socket, prompt, Telnet byte parser | login dialogue, `run_command`, IAC negotiation | as above; partial connects; a Telnet command split over reads | as above; parsing does not depend on fragmentation |
| **NETCONF client** `netconf.py` | none of its own; the device has candidate, running, lock, pending commit | `execute_confirmed_commit`, `confirm_`/`cancel_persisted_commit`, read-only RPCs, bare `edit_config` | lost replies and sessions, confirm timeouts, swallowed clean-up errors, several callers | nothing stays that was not confirmed; what was reported final stays |
| **NETCONF tool** `tools/cli_tool_netconf_test.py`, `workflows/netconf_edit.py` | report file | gates of a live edit, outcome to exit code | exceptions from five stages share two handlers; a report that fails after the edit | no live RPC without every gate; what is printed is what happened |
| **SFTP client** `transfer/sftp.py`, **FTP/FTPS client** `transfer/ftp.py` | connection, `.part` file, destination | list, stat, exists, download with commit by rename; fallbacks for old FTP servers | concurrent downloads, remote change, crash, unread control replies | the destination is a whole file of one version, and is not replaced unasked |
| **Remote paths** `transfer/paths.py` | none | normalisation and containment | `..` and separators | result under the root |
| **Mutation policy** `safety/policy.py`, **xPON workflow** `workflows/xpon_remediation.py`, `tools/cli_tool_xpon_plan.py` | plan, report file | gates, command sequence, report writer | partial failure of a sequence; fixed temporary file name | no command past a failed gate or step |
| **Verification workflows** `workflows/verify.py`, `driver_verify.py`, `line_card_preflight.py` | none | compare outputs with expectations | verdict on partial evidence | no pass without evidence |
| **Smoke tool** `tools/cli_tool_readonly_smoke.py` | report file | settings, one catalogue command, verdict, exit code | a verdict on outputs that may be cut or shifted | exit code 0 is backed by output |
| **Transfer tool** `tools/cli_tool_readonly_transfer.py` | report file | list, stat or download, verdict, exit code | a close or a report that fails after a download | the verdict is what became of the destination |
| **Catalogue, devices, parsers, redaction** | none | parsing, lookup, rewriting of text | - | - |

How they interact: `SshCliTransport.run_commands` asks `ssh_session_pool()` for the pool of its
device (a registry under a process-wide lock), enters `pool.acquire(owner)`, and runs its
commands on the leased session. A pool that has no idle session takes a token file from
`FileTokenSemaphore` - the only thing different processes share - and connects an
`SshCliSession`. The session and its token go together from then on: a healthy session is
returned to the idle list with its token, any other is closed and its token unlinked. `atexit`
closes the idle sessions. Serial and Telnet transports open, use and close a session of their own.
The NETCONF tool and the transfer tool open one connection per call and share nothing with
other programs but the device and, for downloads, the destination. The smoke tool runs the commands of a
catalogue entry over one of the three transports and verifies the outputs. Every tool
writes one JSON report, prints it and exits with a code.

`PROJECT.json` lists every component with its status and every hazard with its line and the
properties that cover it.

## 2. Modules

| Module | Models | Implements | Proofs |
|---|---|---|---|
| `FileTokenSemaphore` | the token directory, one action per system call | | `FileTokenSemaphore_proofs` |
| `SshSessionPool` | pool, sessions and registry of one process; tokens taken and freed in one step | `SessionLease` | `SshSessionPool_proofs` |
| `SessionLease` | what the pool promises its callers | | |
| `NetconfConfirmedCommit` | the confirmed-commit transaction of several callers and one device | `ConfigTrial` | `NetconfConfirmedCommit_proofs` |
| `ConfigTrial` | what a confirmed commit promises | | |
| `NetconfTool` | `device-cli-netconf-test`; EXTENDS `NetconfConfirmedCommit` | (uses it: `ToolSpec => Spec`) | `NetconfTool_proofs` |
| `Download` | SFTP and FTP downloads to one destination, the remote file and other programs | `AtomicCopy` | `Download_proofs` |
| `AtomicCopy` | what a download promises | | |
| `TransferTool` | `device-cli-transfer`; EXTENDS `Download` | (uses it: `TransferSpec => Spec`) | `Download_proofs`, last part |
| `CliSession` | one run of commands over SSH, serial or Telnet, and the device's command line | | `CliSession_proofs` |
| `TelnetProtocol` | the Telnet byte parser, as functions | | `SmokeTool_proofs`, last part |
| `SmokeTool` | `device-cli-smoke`; EXTENDS `CliSession`, `TelnetProtocol` | (uses it: `SmokeSpec => Spec`) | `SmokeTool_proofs` |
| `FtpControlChannel` | one FTP client, its control connection and its server | | `FtpControlChannel_proofs` |
| `MC...` | constants and symmetry for TLC | | |

### FileTokenSemaphore

`creator[s]`/`written` are the directory: which thread's file occupies slot `s`, and whether its
JSON has been written yet. `pc`, `at`, `seen`, `todo` are the locals of one `acquire()`: the list
of the glob still to inspect (`todo`), the path at hand (`at`), the pid that was read (`seen`).
`late` says that the deadline has passed. One action is one system call: `Glob`, `ReadToken` (the
file is read, and either needs no probe or is judged at once), `OwnerAnswers`/`OwnerGone`
(`os.kill(pid, 0)`), `RemoveStale` (unlink), `CreateToken`/`SkipSlot` (`O_EXCL` succeeds or not),
`WriteToken`/`WriteFails`, `Release`. `Crash(p)` kills all threads of a process and leaves its
files. `CanSignal` says whose processes a process may signal: `os.kill` raises for another
user's process, and the code takes that as "gone". `outdated` and `vacant` are history
variables: no guard reads them.

Left out: token files written by something else, reuse of a dead process's pid, Windows.

### SshSessionPool

`token[s]` is the session whose file occupies slot `s`, `Free`, or `Other` for another process;
`slot[x]` is the `token_path` of session `x`. `state[x]` is what `is_healthy()` and `close()`
find: `new` (not connected), `open`, `broken` (dropped by the device, or half closed by a
failed logout), `closed`. `pending` holds sessions with a command whose output has not been
read to the prompt. `idle[g]`, `lock[g]` belong to pool `g`; `current` is the pool in the registry,
and `close_ssh_session_pools` (`ForgetPools`, then `SwapIdle`, `DrainOne`...) makes the next one
current while leases of the old one go on. `pc`, `pool`, `mine`, `batch` are the locals of each
thread. The labels follow the code: `enter` - `lookup` - `token` - `connect` - `using` - `command` -
`release` - `put`, with `failed` for a lease whose session `run_commands` has discarded. What
happens inside `with self._lock` is atomic for the idle list; acquiring a lock is a step of its own.

`Faults` switches three behaviours on, so that a property can say what it excludes:
`interrupt` - a `BaseException` passes `except Exception` in `_acquire` and `run_commands`;
`logout` - `_logout` raises out of `close()`; `rerun` - a caller catches the exception of a failed
run and uses the session again, which discards it a second time.

The pool takes a token in one step; that tokens can be lost under their holders is the
subject of `FileTokenSemaphore`. `SessionsWithinLimit` is about the sessions of one process for
that reason. Left out: the key that selects a pool (it omits password and acquire timeout),
pools with different `max_sessions` on one token directory, the order of the idle list.

### NetconfConfirmedCommit

A configuration is the set of calls whose edit it holds, so `running`, `candidate` and `saved`
(what the device reverts to) are sets of calls. `lock`, `pending`, `persisted`, `sessions`
are the device's; `pc[c]` is the RPC call `c` sends next; `Caught` is the try/finally structure of
`execute_confirmed_commit`, read as "where does an exception at this RPC lead", and
`Swallowed` its `except Exception: pass`. Each RPC is one step of the device that may be refused
(`RpcFails`), partly done (`EditStops`), done with its reply in time, or done with its reply too
late (`Replied`), which raises in the client. `SessionBreaks`, `Crash` and `ConfirmTimeout` may strike
anywhere. A call whose capabilities are missing closes the session without an RPC (`Connect`).

The device is external; it is modelled from RFC 6241, which `netconf.py` and
`docs/netconf.md` refer to. Two points the RFC does not settle for every device are constants:
`RevertResetsCandidate` (does a revert of `running` also take the edit out of the
candidate?) and `UnlockDiscards` (are outstanding changes discarded when the lock goes, as RFC
6241 section 8.3.5.2 says, or does the client's own discard matter?).

What the two settings show about the code: it unlocks the candidate while its
commit is still pending and relies on the close of the session for the revert. On a device
that leaves the candidate alone then, the unconfirmed edit is still in the candidate the next
caller locks, and that caller's confirming commit makes it permanent;
`OnlyConfirmedIsKept` is therefore claimed for the other kind of device only. Conversely, when
the confirm timeout runs out before `finalize`, the bare `<commit>` is an ordinary commit
of the candidate: it restores the edit on a device that left it there (`FinalizedIsKept`), and
commits nothing, without an error, on one that did not.

Left out: the read-only RPCs (they change nothing), the bare `edit_config` RPC, the
comparison of host keys, `startup`.

### Download

`sftp.py` and `ftp.py` contain the same download, statement for statement, except that SFTP opens
the remote file before the `.part` file and FTP after it; `Fails` covers a failure at
either point. `pc[c]` follows the function: `stat` - `exists` - `open` - `read` - `restat` - `commit` -
`unlink`, where a label in `Inside` lies in the `try` block and its exceptions go to `failing`, the
`except Exception` clause. The remote file passes through versions with a size, a
modification time and a type; `data[c]` is the sequence of versions that a call's chunks
came from, so that a file mixed from two versions is visible. A server may serve a
chunk from any version since the first `stat` (`Served`), which covers files written in place and
files replaced under an open handle. `dest` names the call whose file (inode) is at the
destination. `Link` is `os.link`, atomic and refused by an existing file; a missing hard-link
support is a case of `Fails`. `Interfere` is any other program that creates, replaces or
removes the destination.

What the model shows besides the properties: the check that the remote file is unchanged is
as good as the server's metadata. `Distinguishable` (no two versions share size, time
and type) is therefore a hypothesis of `PublishedIsWhole` and `CopyImplemented`; a legacy FTP server
without `MDTM` reports no time at all, and a change that keeps the size is not seen then.
When `temporary.unlink()` fails after `os.link`, the caller gets an exception although the destination is
there (`littered` in `OutcomeIsHonest`).

Left out: the names of remote paths, the fields of a listing.

### NetconfTool

`device-cli-netconf-test` on top of `NetconfConfirmedCommit`: the calls in `Tool` are made by
an invocation, the others by programs that use the library. `stage[c]` follows the tool: `validate`
(`_validate_args`) - `plan` (`build_netconf_edit_plan`) - `authorize` (dry run or live, with
`MutationAuthorization.validate`) - `password` - `call` - `report` - `exit`; `request[c]` holds its
arguments as far as they decide anything. `Refuses` and `Stops` are the two ways in which an exception
ends the tool: `main()` catches `PermissionError` and `ValueError`, prints `REFUSED` and returns
2; everything else, `SystemExit` included, ends with a message and status 1. The steps of the call are
those of the client, composed in `CallConnects`, `CallGoesOn` and `CallCrashes`; Ctrl-C during the
call (`Dies`) ends the tool without a report. `connect`, `get` and `get-config` are one
operation, `read`. The tool never asks for `persist`.

### TransferTool

`device-cli-transfer` on top of `Download`, in the same way: `validate` - `auth` - `connect` -
`run` - `close` - `report` - `exit`. `list`, `stat` and `exists` are one operation, `read`. An
exception of the close takes the place of the operation's (`CloseFails`), so a completed
download can be reported as failed; the property names that case (`unclosed`). `ReportFails` ends the
tool without a verdict.

### CliSession

One run of a list of commands: connect, commands, close. `kind` is `ssh` (`SshCliClient`),
`pooled` (a lease of a pool with `reuse_sessions=False`, which is what the smoke tool uses),
`serial` or `telnet`. The three transports have the same read loop, so the loop is written once
(`Chunk`, `ContinuePager`, `Returns`...) and used by all; what differs - who opens, who logs in, who
retries, who closes what on which error - has an action for each transport.

There are no messages on a command line: the device prints and the client guesses from what it has
read whether the device is done. The device's output is therefore a sequence of tokens - a prompt,
a pager, a question, a login, a line of a command's output - and a chunk is any prefix of what
is printed and not read (`wire`), so every cut and every delay occurs. `of` names the
command that a token belongs to; the client cannot see it, the properties can. Lines that
only look like something else are tokens of their own: `lookalike` reads like the prompt, `mention`
holds the text of the confirmation, `hash` and `welcome` are banners that look like a prompt or a
login. The code cannot tell these from the real ones, and the properties about outputs exclude them by
`Honest`; the others hold with them.

The console is found in any state (`mode'` in `Greets`). SSH may find a shell that prints its prompt
before anything is typed (`early`): `connect()` sends a newline all the same, and the
run `cli_early_prompt` shows what follows.

Left out: timing statistics, the decoding of bytes (each SSH chunk is decoded by itself, so
that a character cut in two becomes two replacement characters), the second read of the logout,
a prompt whose text is that of a login (`Username>` is taken for the command prompt, as
`docs/telnet.md` says).

### TelnetProtocol

`Consume` is `consume_telnet_bytes` as a recursive function on byte strings over the six codes that
the parser distinguishes and one for the rest. One application is one turn of the loop:
`Taken` is by how much the index advances (0 where the loop breaks), `Visible` and `Response` what the turn
appends, `End` what is returned after the loop. `ConsumeProtocol` is the call with the
bytes that the last read left over, and `ReadAlike` compares two reads with one.

### SmokeTool

`device-cli-smoke` on top of `CliSession`: `resolve` - `password` - `target` - `catalog` - `spec` -
`run` - `report` - `write` - `exit`. Where a setting comes from is abstracted to what it decides: the two
gates (`--allow-insecure-telnet`, the read-only flag of the specification), or the end of the run.
`Verify` is `verify_cli_outputs` on what the session collected: an output must not be empty and
must hold the expected token, where `spec` says which commands' output holds it. For kind `ssh`,
which the tool does not use, the session runs alone (`stage = "library"`). The
commands of a specification are taken to have different texts: `verify.py:63` keys outputs by text.

### FtpControlChannel

One `FtpReadOnlyClient` and its server. `unread` is the queue of replies that the server has sent and
the client has not read. A reply is a code and, as a history the client cannot see, the command and the
path it is about; the client takes the first unread reply for the answer to what it has just
sent. `Start`, `Connect`, `Stat`, `SetOptions`, `SetType`, `Passive`/`Active`, `Retrieve`,
`TransferEnds` and `LegacyModifiedTime` follow the commands that the methods of `ftp.py` make ftplib
send; `TransferAborts` is a callback that raises (over the limit, disk full) or a data
connection that fails, `ControlFails` a timeout or loss of the control connection. The server has any
subset of `OPTS`, `MLSD`, `MLST`; any command may be refused for the moment (450).

What the model shows besides the properties: after `TransferAborts`, and after a transfer that started
while another's reply was read for its own, the last reply of the transfer is
still to come, and every later call reads the reply of the one before it, so that `stat` and
`exists` may answer about the path of the previous call until `close()`. `abandoned` counts such
transfers since `connect()`: each puts one more reply between a command and its answer. What that does
to a download is subtle (`PublishedIsChecked`). In passive mode it fails, or has checked
the file against metadata of its own path, because no other reply than that to `PASV` has the form ftplib
wants. In active mode the metadata from before the transfer may be another path's as soon as one transfer
was left; those from after it are its own only while fewer than six were: with six replies in between, the
150 of an older transfer can be read for that of this one, and the second `stat` then reads a
reply about another path. Six is exact: TLC finds the behaviour with 18 calls.

After a timeout `_ftp` stays set (`ftp.py:153`), so `connect()` does nothing and all calls fail until `close()`.
`_legacy_stat` takes a directory whose only entry is a file of the same name for that file
(`ftp.py:276`); a 501 of `MLSD` on a file makes `list_files` fall back to `LIST`,
although `docs/ftp_ftps.md` speaks of unsupported commands only.

Left out: TLS, the fields of a listing, what is written to disk (that is `Download`).

## 3. Runs

| Run | Instance | Checks | Shows |
|---|---|---|---|
| `semaphore_safety` | 3 threads in 2 processes, 2 slots, one process is root | `TypeOK` `LiveTokenIsHeld` `FreshVerdictIsRight` `EvictionNeedsRace` `NoSpuriousTimeout` | a live token disappears only through a verdict that is out of date or beyond the sweeper's permissions |
| `semaphore_live` | 3 threads, 1 slot, fair | `AcquireReturns` `AbandonedTokenIsSwept` | `acquire` ends; a crash costs no slot |
| `semaphore_limit` | one user, 1 slot | `HoldersWithinLimit` (violated) | see below |
| `pool_safety` | 3 threads, 3 sessions, 2 slots, 2 pools, callers that run commands again | `TypeOK` `NoStrandedToken` `IdleIsClean` `ClosedIsGone` `SessionExclusive` | one user per session; ordinary errors lose no capacity and leave no output behind |
| `pool_mishaps` | 2 threads, 3 sessions, 2 slots, interrupts and failing logouts, fair | `SessionHasToken` `SessionsWithinLimit` `ImplementsLease` `CallsReturn` | the lease contract survives them; acquire, give-back and close_all end |
| `netconf_trial` | 3 calls, all faults, a device that cleans its candidate | `TypeOK` `OnlyConfirmedIsKept` `TransientIsUndone` `PersistOutlivesSession` `ImplementsTrial` | rollback is structural there |
| `netconf_tool` | the tool and another caller, all faults, a device that never cleans its candidate, fair | `FinalizedIsKept` `NoHalfApplied` `ReportIsTrue` `LockIsReleased` | finalize is final, the client's own clean-up suffices, the tool reports what happened |
| `netconf_refused` | one invocation, no faults | `RefusedIsUntouched` (violated) | see below |
| `download_commit` | the tool and another caller, with and without overwrite, 4 versions | `VerdictIsTrue` `PublishedIsWhole` `WithinLimit` `OutcomeIsHonest` `NoLitter` `OnlyOneWins` `ImplementsCopy` | a download is an atomic copy of what its first stat saw, and the tool says so |
| `cli_smoke` | 2 commands, all four kinds, 2 attempts, 1 pager, Telnet inputs up to 6 bytes | `AnswersMatch` `TypedWhenAsked` `RefusedOnce` `NothingLeftOpen` `TelnetReadsAlike` `PassedIsShown` | outputs belong to their commands, connections are closed, a pass is backed by output |
| `cli_early_prompt` | 2 commands, SSH, a shell that prints its prompt first | `CommandsWaitForPrompt` (violated) | see below |
| `ftp_control` | 4 calls, 2 paths that look alike, every set of optional commands | `AnswersAreOwn` `PublishedIsChecked` | answers are made from replies about their own path unless a transfer was left early; downloads are checked against their own metadata |

The three violations.

`semaphore_limit` finds two holders of the only slot. Thread t1 creates the file with `O_EXCL`;
t2 lists the directory and reads the file before t1 has written its JSON, so the file
counts as stale (`ssh.py:399-400`); t1 writes and holds the token; t2 unlinks the
path and creates its own file. `EvictionNeedsRace` says that such races, and the
permission case, are the only ways to lose a token.

`cli_early_prompt`: the shell prints a prompt, `connect()` sends a newline (`ssh.py:260`) and reads
up to the first prompt; the second prompt, the answer to the newline, stays unread. The first
command's read ends at it, before the device has answered, and every later
command gets its predecessor's output. `PassedIsShown` holds nevertheless: the first
output is empty then, and `verify_output_tokens` does not accept an empty output.

`netconf_refused`: the live edit is executed, then `_write_report` raises `PermissionError` for the
report directory, and `main()` (line 39) prints `REFUSED`. `ReportIsTrue` covers
everything else the tool says.

Bounds. The hazards of the semaphore need a holder, a sweeper with an old verdict and a
third thread that takes the slot in between: three threads, of which two share a
process (own-pid tokens are never stale) and one is in another. Two slots let a sweep inspect one
file while the other changes hands. In the pool, three threads are a lessee, a thread in the
lookup and one that empties the registry; `LastPool = 1` gives leases that outlive their
pool; three sessions on two slots let one object be closed and still held while
others take its slot. For NETCONF a third call lets one wait on the lock while another's
commit is pending and persisted; beside the tool one other caller is enough for an edit that is in the
way. The four versions of `MCTransferTool` are a file of two chunks, a
rewrite of the same size, a shorter symlink and a growth past the limit of two chunks; with two chunks
a file can be mixed, and two calls are enough for a race between one's check and the
other's commit. (Two versions of the same size and time that differ in type are
not among them; `WholeVersions` covers them.) On the command line, two commands show
output that moves from one to the next; scripts with a second pager go over `MaxPagers = 1`; two
attempts are one retry; six bytes hold two Telnet commands, or a subnegotiation with
an escaped byte, and all cuts of them; the proofs cover longer ones. Four FTP calls are an aborted download, a
call that reads its
reply, a second abort, and one that reads two of them; the two paths have the same size and time, so that no
comparison of metadata helps. Six abandoned transfers take more calls than four: the bound in
`PublishedIsChecked` matters to the proof, which covers any number of them.

The instances do not show a missing NETCONF capability (the device advertises all), nor the clause of
`ReportIsTrue` about devices that clean their candidate; the theorem `ReportsAreTrue`
covers both.

Deadlock checking is off: all processes of the semaphore may be dead, a NETCONF
call or an invocation of a tool that is over takes no more steps, and in the pool and the FTP client the
bounds `LastPool` and `MaxCalls` would be the only reason for a stop.

Fairness. `FileTokenSemaphore`: weak fairness of a thread's own steps inside `acquire` (each
is a system call that returns) and of the deadline (`time.monotonic()` advances). Starting,
releasing and crashing are not fair. `SshSessionPool`: weak fairness of the steps a thread takes by
itself - `semaphore.acquire()` and `connect()` both end by timeouts - and strong
fairness of the three steps that take `self._lock`, because another thread may take it again and
again; a `threading.Lock` that is free infinitely often is got eventually on the platforms the
tool runs on. Callers are not fair. `NetconfConfirmedCommit` and `NetconfTool`: weak fairness of a call's
next step, since each RPC ends by the ncclient timeout; nothing is assumed of the device or
of the tool around the call. The other modules state no liveness: their loops end by a deadline that is
an action of its own (`DeadlinePasses`, `ControlFails`), and what could be said would be the
deadline itself.

Each property of a passing run has a mutant in `PROJECT.json`: an operator next to the definition it
replaces, marked "Mutant:", that a plausible slip in the code would produce and that violates the
property.

## 4. Proofs

All theorems hold for any number of threads, sessions, slots, processes, calls, commands and any set of
faults, from the named assumptions in the modules (`MaxTokens >= 1`, sentinels differ from
members, and the like).

*Semaphore.* `TypeCorrect` is inductive by itself. `NoStrayLiveToken` is inductive together with
the fact that a creator between `CreateToken` and `WriteToken` stands at its own slot;
`VerdictSound` adds what a prober has read: as long as nobody touched the file, the pid in `seen`
is its creator's. `EvictionsAreRaces` is a case split over the two actions that unlink.
`TimeoutsAreEarned` needs the invariant that the slots free since the round began are
not among those already tried.

*Pool.* `ExclusiveUse` is proved with the invariant that a session known to the pool is in
exactly one place. `TokensFollowSessions` adds that a session that is not closed occupies its
slot; since a slot has one occupant, `LimitKept` follows by counting.
`NoCapacityLost` and `IdleSessionsAreClean` each add the converse for their faults (every
token has a place; unread output only during a command). `PoolImplementsLease` maps every step to a step
of `SessionLease` or to a stutter, under the refinement `live <- Unclosed`,
`lessee[x] <- the thread that may use x`; it assumes that nobody reruns commands on a
discarded session.

*NETCONF.* `TrialInv` (`saved` within `running` within `candidate`; a pending commit has its session
unless it is persisted) holds on every device. On a device that cleans its candidate
(`CleanDevice`), `CandidateInv` says that only the lock holder has changes there and that one
edit is on trial; from it follow `NoUnconfirmedChange`, `TransientLeavesNothing`
and the refinement `TrialImplemented`. `NothingHalfApplied` and `PersistedSurvives` need no
assumption on the device, `FinalizedForGood` assumes that reverts leave the candidate alone.

*NETCONF tool.* `ToolUsesLibrary` maps every step of the tool to a step of the client's module or
to a stutter, so the invariants above hold of its runs. `ReportsAreTrue` adds what a stage
implies: before `call` the invocation is not on the device; in `call` the client's options are those of
its request; a result is that of how the call ended; a call that met a missing capability has
touched nothing.

*Download.* `ChunksInv` says that the versions of a call's chunks lie between that of its first stat
and the current one; when the second stat finds the same identity these two are equal, so all
chunks are of one version and, the size being right, they are its content. `OutcomeInv` ties what
is published and what is left on disk to where a call stands. `WholeVersions` and
`CopyImplemented` follow from the two, the latter under `Distinguishable`.

*Transfer tool.* `TransferUsesDownload` is the same kind of map; `VerdictsAreTrue` joins
`OutcomeInv` with `ToolInv`: an invocation has an error exactly when its call raised or its close did.

*Command line.* `NothingIsLeft` needs how many connections are open at each place of the run
(`channel` and `opened` agree except between an SSH client's creation and its shell), and
`OneRefusal` that a run which has been refused is on its way to its end: the SSH error is fatal, and
the login dialogues send a password once. `PassedHasClosed` and `SmokeRefusedOnce` carry both
over to the smoke tool by `SmokeUsesSession`.

What a session types and returns is proved with one more invariant, `StraightInv`. It is about a device
that prints nothing misleading (`Honest`), whose shell prints no prompt by itself or has not been caught at it by
an empty result (`Straight`). The invariant reads what a command has told so far, `Story` (kept from before a
confirmation, read, and still unread), against the command's script. `Tells(Story, Script, c, p, n)`: it
is `p` prompts from before the command (at most one, and only for the first command of such a shell), the echo, and
the first `n` lines of the script. One of three things holds while a command is read (`Underway`): the
connection was lost before the command arrived (`Cut`), all is told and the prompt stands at the end (`Told`), or the
device waits at line `n`, a pager or a question (`Asking`). `PagerInv` ties the number of
pagers seen to those answered - without it the client could answer one twice - and `ConnectInv` says the
same of the login dialogue, where a request is the last thing printed. Since a chunk only moves a
prefix of `wire` to `out`, `Story` does not change by reading: that is why the cuts do not matter.
`OutputsMatch` follows because a read ends only at the prompt of `Told`, and `TypedToAsker` because a pager or a
question at the end of `out` is the one the device waits at. `StraightInv` is stronger than the two properties in that it
goes on after the shell's own prompt until that has shown in a result.

*Smoke tool.* `ShownInv`: the verdict in `passed` is about the outputs as they still are, and exit code 0
comes from a verdict. `PassedShown` joins it with `StraightInv`: if no output was empty, the session was
straight, so each output is its command's own; a token found in it was printed for that
command. This is the one property that holds for a shell with a prompt of its own, too.

*Telnet.* `AnyReadsAlike` compares one read of `first \o second` with two reads. If the loop still has a
turn to take in `first`, the turn is the same with `second` behind it (`TurnStays`), and what is left
is shorter; if it has none, the rest is what the second read begins with. `ManyReadsAlike` goes
from two reads to any number of them. Both, and the fact that the recursive function is
defined at all (`ConsumeTurns`: each turn leaves fewer bytes), are proved by taking a
shortest counterexample (`LeastNat`), since the induction theorems of the library are out of reach.
`TelnetAlike` is the property that the run checks.

*FTP.* `AnswersOwn`: while no transfer has been left early, the queue holds no reply when a call
begins, and inside one only replies about its own path; what can be in the queue is
listed by place. `PublishedChecked` has to look at queues that are not empty. `QueueInv`: there are at most
`abandoned` replies in the queue, and a start of a transfer is followed by its end. `RecentInv`: between
the first `stat` of a download and its `RETR`, the last replies in the queue, one for each command since, are about the
download's own path, and none of them starts a transfer. So a 150 that is read for the answer to `RETR` is this
transfer's, or an older one's with that one's end and the three replies to this call's `stat`, `TYPE` and
`PORT` behind it: five, and the end is read when the data are over. With a sixth, a reply
about another path can be left for the second `stat`. `OwnLeft`, `FirstOwn` and `PassiveInv` say whose replies are left
when metadata are read, `FlowInv` where in a call that is. An earlier
form of the property had no bound in active mode: it held for the four calls that the run makes,
and the proof did not go through.

Only model-checked: the liveness properties `AcquireReturns`, `AbandonedTokenIsSwept`, `CallsReturn` and
`LockIsReleased` (liveness under fairness is out of the prover's reach). `HoldersWithinLimit`,
`RefusedIsUntouched` and `CommandsWaitForPrompt` are false. Every invariant and action property of a passing
run is a theorem.

## 5. Not modelled

- **xPON workflow** (`workflows/xpon_remediation.py`, `tools/cli_tool_xpon_plan.py`): builds a fixed plan
  from checked numbers, writes it, and always refuses to execute it. The one thing that could go
  wrong between processes, the fixed name of the temporary report file (line 100), is listed as a hazard.
- **`run_line_card_preflight`** and the **line-card parser**: the smoke tool's steps with column
  arithmetic on one text in place of the tokens.
- **Remote path resolution, catalogue YAML, validators of names and addresses, redaction**: pure
  functions on text, which the models abstract.
- **Host-key policy**, **TLS**: configuration of paramiko, ncclient and ftplib; these
  libraries themselves are modelled only as the code uses them.
- **Pool registry key**: it leaves out the password and the acquire timeout, so a caller with
  other credentials gets the earlier pool; the model has one key.
- **Bare `edit_config` RPC** and the read-only NETCONF RPCs: the former takes no lock and commits
  nothing, the latter change nothing.
- **Names of smoke reports** carry a timestamp of one second: two runs in the same second write one file.
- **A caller that keeps a `SerialCliSession`** and calls `connect()` again after a failed login:
  the runs are those of the transports, which make a session for each run.
