------------------------------ MODULE Download ------------------------------
(***************************************************************************)
(* Downloads of one remote file to one local destination: download and     *)
(* _commit_local_file of cli_tool/transfer/sftp.py, and their twins in     *)
(* cli_tool/transfer/ftp.py.  Several calls, of any threads or processes,  *)
(* run beside each other, beside whoever changes the remote file, and      *)
(* beside other programs that create or remove the destination.            *)
(*                                                                         *)
(* The remote file goes through versions 1, 2, ...; a chunk is a version   *)
(* number, so that a file put together from two versions shows.  The name  *)
(* of the temporary file holds a random UUID: each call has one of its own.*)
(***************************************************************************)
EXTENDS Naturals, Sequences

CONSTANTS
    Calls,        \* calls of download
    MaxVersion,   \* bound: versions of the remote file
    Size,         \* chunks of each version
    Mtime,        \* modification time of each version, as stat reports it
    Regular,      \* versions that are regular files and no symlinks
    MaxChunks,    \* max_download_bytes
    None,         \* no file at the destination; no version seen yet
    Foreign       \* a file some other program made

Versions == 1 .. MaxVersion

ASSUME DownloadAssumption ==
    /\ MaxVersion \in Nat
    /\ Size \in [Versions -> Nat]
    /\ DOMAIN Mtime = Versions
    /\ Regular \subseteq Versions
    /\ MaxChunks \in Nat
    /\ None \notin Versions \cup Calls /\ Foreign \notin Calls /\ None # Foreign

VARIABLES
    overwriting, \* calls with overwrite=True
    remote,      \* version of the remote file
    pc,          \* what a call does next
    info,        \* the version of its first stat
    data,        \* the chunks a call has written
    parts,       \* calls whose .part file exists
    dest         \* whose file is at the destination: a call's, Foreign or None

\* History variables: read by properties, never by a guard.
VARIABLES
    published, \* calls that have put their file at the destination
    littered,  \* calls for which removing the .part file failed
    removed    \* another program has removed the destination

history == <<published, littered, removed>>
env     == <<overwriting, remote>>
vars    == <<env, pc, info, data, parts, dest, history>>

\* In the try block.
Inside == {"open", "read", "restat", "commit", "unlink"}
Labels == Inside \cup {"stat", "exists", "failing", "returned", "raised", "interrupted"}

\* _file_identity of a stat.
Identity(v) == <<Size[v], Mtime[v], v \in Regular>>

\* The bytes of version v.
Content(v) == [i \in 1 .. Size[v] |-> v]
Contents   == [v \in Versions |-> Content(v)]

TypeOK ==
    /\ overwriting \subseteq Calls
    /\ remote \in Versions
    /\ pc \in [Calls -> Labels]
    /\ info \in [Calls -> Versions \cup {None}]
    /\ data \in [Calls -> Seq(Versions)]
    /\ parts \subseteq Calls
    /\ dest \in Calls \cup {None, Foreign}
    /\ published \subseteq Calls
    /\ littered \subseteq Calls
    /\ removed \in BOOLEAN
    \* the commit and the clean-up after it find the file they work on
    /\ \A c \in Calls : pc[c] \in {"read", "restat", "commit", "unlink"} => c \in parts

Init ==
    /\ overwriting \in SUBSET Calls
    /\ remote \in Versions
    /\ pc = [c \in Calls |-> "stat"]
    /\ info = [c \in Calls |-> None]
    /\ data = [c \in Calls |-> <<>>]
    /\ parts = {}
    /\ dest = None
    /\ published = {} /\ littered = {} /\ removed = FALSE

Goto(c, label) == pc' = [pc EXCEPT ![c] = label]

----------------------------------------------------------------------------
(* Before the try block: an exception leaves no trace. *)

\* The first stat and the checks of type and size.
Stat(c) ==
    /\ pc[c] = "stat"
    /\ info' = [info EXCEPT ![c] = remote]
    /\ Goto(c, IF remote \in Regular /\ Size[remote] <= MaxChunks THEN "exists" ELSE "raised")
    /\ UNCHANGED <<env, data, parts, dest, history>>

CheckDestination(c) ==
    /\ pc[c] = "exists"
    /\ Goto(c, IF dest # None /\ c \notin overwriting THEN "raised" ELSE "open")
    /\ UNCHANGED <<env, info, data, parts, dest, history>>

\* A stat that fails, or a directory that cannot be made.
NotStarted(c) ==
    /\ pc[c] \in {"stat", "exists"}
    /\ Goto(c, "raised")
    /\ UNCHANGED <<env, info, data, parts, dest, history>>

----------------------------------------------------------------------------
(* In the try block: an exception goes on to CleanUp. *)

\* temporary.open("xb")
Open(c) ==
    /\ pc[c] = "open"
    /\ parts' = parts \cup {c}
    /\ Goto(c, "read")
    /\ UNCHANGED <<env, info, data, dest, history>>

\* The file the server reads from: the one at the path, or an older one that
\* an open handle keeps.
Served(c) == {v \in Versions : info[c] <= v /\ v <= remote}

\* Mutant: the limit is checked against what was written before.
ReadMutant(c) ==
    /\ pc[c] = "read"
    /\ \E v \in Served(c) :
         /\ Len(data[c]) < Size[v]
         /\ IF Len(data[c]) > MaxChunks
            THEN Goto(c, "failing") /\ UNCHANGED data
            ELSE data' = [data EXCEPT ![c] = Append(@, v)] /\ UNCHANGED pc
    /\ UNCHANGED <<env, info, parts, dest, history>>

\* One chunk arrives and is written, unless it exceeds the limit.
Read(c) ==
    /\ pc[c] = "read"
    /\ \E v \in Served(c) :
         /\ Len(data[c]) < Size[v]
         /\ IF Len(data[c]) + 1 > MaxChunks
            THEN Goto(c, "failing") /\ UNCHANGED data
            ELSE data' = [data EXCEPT ![c] = Append(@, v)] /\ UNCHANGED pc
    /\ UNCHANGED <<env, info, parts, dest, history>>

\* End of file; the size received has to be the size announced.
EndOfFile(c) ==
    /\ pc[c] = "read"
    /\ \E v \in Served(c) : Len(data[c]) >= Size[v]
    /\ Goto(c, IF Len(data[c]) = Size[info[c]] THEN "restat" ELSE "failing")
    /\ UNCHANGED <<env, info, data, parts, dest, history>>

\* Mutant: the second stat compares the size alone.
RestatSizeMutant(c) ==
    /\ pc[c] = "restat"
    /\ Goto(c, IF Size[remote] = Size[info[c]] THEN "commit" ELSE "failing")
    /\ UNCHANGED <<env, info, data, parts, dest, history>>

\* Mutant: the changed file is reported outside the try block.
RestatMutant(c) ==
    /\ pc[c] = "restat"
    /\ Goto(c, IF Identity(remote) = Identity(info[c]) THEN "commit" ELSE "raised")
    /\ UNCHANGED <<env, info, data, parts, dest, history>>

\* The second stat and the comparison with the first.
Restat(c) ==
    /\ pc[c] = "restat"
    /\ Goto(c, IF Identity(remote) = Identity(info[c]) THEN "commit" ELSE "failing")
    /\ UNCHANGED <<env, info, data, parts, dest, history>>

\* os.replace
Replace(c) ==
    /\ pc[c] = "commit" /\ c \in overwriting
    /\ dest' = c
    /\ parts' = parts \ {c}
    /\ published' = published \cup {c}
    /\ Goto(c, "returned")
    /\ UNCHANGED <<env, info, data, littered, removed>>

\* Mutant: a rename that does not look for an existing file.
LinkMutant(c) ==
    /\ pc[c] = "commit" /\ c \notin overwriting
    /\ dest' = c
    /\ published' = published \cup {c}
    /\ Goto(c, "unlink")
    /\ UNCHANGED <<env, info, data, parts, littered, removed>>

\* os.link finds no file at the destination
Link(c) ==
    /\ pc[c] = "commit" /\ c \notin overwriting
    /\ dest = None
    /\ dest' = c
    /\ published' = published \cup {c}
    /\ Goto(c, "unlink")
    /\ UNCHANGED <<env, info, data, parts, littered, removed>>

\* temporary.unlink() after os.link
Unlink(c) ==
    /\ pc[c] = "unlink"
    /\ parts' = parts \ {c}
    /\ Goto(c, "returned")
    /\ UNCHANGED <<env, info, data, dest, history>>

\* Mutant: a commit that fails is not reported.
FailsMutant(c) ==
    /\ pc[c] \in Inside
    /\ Goto(c, IF pc[c] = "commit" THEN "returned" ELSE "failing")
    /\ littered' = IF pc[c] = "unlink" THEN littered \cup {c} ELSE littered
    /\ UNCHANGED <<env, info, data, parts, dest, published, removed>>

\* Any call in the try block raises an Exception: the connection fails, the disk
\* is full, the destination exists or the file system has no hard links.
Fails(c) ==
    /\ pc[c] \in Inside
    /\ Goto(c, "failing")
    /\ littered' = IF pc[c] = "unlink" THEN littered \cup {c} ELSE littered
    /\ UNCHANGED <<env, info, data, parts, dest, published, removed>>

\* except Exception: temporary.unlink(missing_ok=True); raise
CleanUp(c) ==
    /\ pc[c] = "failing"
    /\ parts' = parts \ {c}
    /\ Goto(c, "raised")
    /\ UNCHANGED <<env, info, data, dest, history>>

CleanUpFails(c) ==
    /\ pc[c] = "failing"
    /\ littered' = littered \cup {c}
    /\ Goto(c, "raised")
    /\ UNCHANGED <<env, info, data, parts, dest, published, removed>>

\* A BaseException passes the except clause, or the process dies.
Interrupted(c) ==
    /\ pc[c] \in Inside \cup {"stat", "exists", "failing"}
    /\ Goto(c, "interrupted")
    /\ UNCHANGED <<env, info, data, parts, dest, history>>

----------------------------------------------------------------------------
(* Others. *)

\* The remote file is written, or another takes its place.
Change ==
    /\ remote' \in Versions
    /\ remote' > remote
    /\ UNCHANGED <<overwriting, pc, info, data, parts, dest, history>>

\* Another program creates, replaces or removes the destination.
Interfere ==
    /\ dest' \in {None, Foreign} \ {dest}
    /\ removed' = (removed \/ dest' = None)
    /\ UNCHANGED <<env, pc, info, data, parts, published, littered>>

----------------------------------------------------------------------------
CallStep(c) ==
    \/ Stat(c) \/ CheckDestination(c) \/ NotStarted(c)
    \/ Open(c) \/ Read(c) \/ EndOfFile(c) \/ Restat(c)
    \/ Replace(c) \/ Link(c) \/ Unlink(c)
    \/ Fails(c) \/ CleanUp(c) \/ CleanUpFails(c) \/ Interrupted(c)

Next == Change \/ Interfere \/ \E c \in Calls : CallStep(c)

Spec == Init /\ [][Next]_vars

----------------------------------------------------------------------------
(* Properties. *)

\* stat tells any two versions of the remote file apart.
Distinguishable ==
    \A v, w \in Versions : Identity(v) = Identity(w) => v = w

\* What a call has put at the destination is one whole version of the remote
\* file, the one it saw at its first stat, though the file may change between
\* any two chunks (docs/file_transfer.md: "committed only after the complete
\* file is received ... metadata remains stable").
PublishedIsWhole ==
    Distinguishable => \A c \in published : data[c] = Content(info[c])

\* No more than max_download_bytes reaches the local disk, however the remote
\* file grows while it is read.
WithinLimit == \A c \in Calls : Len(data[c]) <= MaxChunks

\* The outcome a caller sees tells what became of the destination: a normal
\* return means that its file was put there, an exception that it was not,
\* except when the .part file could not be removed after os.link.
OutcomeIsHonest ==
    \A c \in Calls :
        /\ pc[c] = "returned" => c \in published
        /\ pc[c] = "raised" => c \notin published \ littered

\* Partial files are removed after failure (docs/file_transfer.md "Path and
\* report safety"), and after success: a .part file is left only by an
\* interrupted call or where its removal failed.
NoLitter ==
    \A c \in parts : pc[c] \in {"returned", "raised"} => c \in littered

\* Of the calls without overwrite at most one puts its file at a destination
\* that nobody removes, however their checks and commits interleave.
OnlyOneWins ==
    ~ removed => \A c, d \in published \ overwriting : c = d

\* With versions that stat tells apart, each download takes effect at one
\* instant, as a copy of the remote file of its beginning, and without
\* overwrite it replaces nothing.
Copy == INSTANCE AtomicCopy WITH
            source <- info,
            file   <- IF dest \in Calls THEN data[dest] ELSE dest,
            copied <- published

ImplementsCopy == Copy!Spec

============================================================================
