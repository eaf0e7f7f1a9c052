----------------------------- MODULE AtomicCopy -----------------------------
(***************************************************************************)
(* What a download promises, without chunks, temporary files or errors: at *)
(* one instant the destination becomes a copy of the remote file as it was *)
(* when the call began, and a call without overwrite only fills an empty   *)
(* place.                                                                  *)
(***************************************************************************)
EXTENDS Naturals

CONSTANTS Calls, Contents, None, Foreign

VARIABLES
    overwriting, \* calls that may replace a file
    remote,      \* version of the remote file
    source,      \* the version each call copies, or None
    file,        \* content of the destination, Foreign, or None
    copied       \* calls that have made their copy

copyVars == <<overwriting, remote, source, file, copied>>

Init ==
    /\ overwriting \in SUBSET Calls
    /\ remote \in DOMAIN Contents
    /\ source = [c \in Calls |-> None]
    /\ file = None
    /\ copied = {}

Begin(c) ==
    /\ source[c] = None
    /\ source' = [source EXCEPT ![c] = remote]
    /\ UNCHANGED <<overwriting, remote, file, copied>>

Copy(c) ==
    /\ c \notin copied
    /\ source[c] # None
    /\ file = None \/ c \in overwriting
    /\ file' = Contents[source[c]]
    /\ copied' = copied \cup {c}
    /\ UNCHANGED <<overwriting, remote, source>>

Change ==
    /\ remote' \in DOMAIN Contents
    /\ remote' > remote
    /\ UNCHANGED <<overwriting, source, file, copied>>

Interfere ==
    /\ file' \in {None, Foreign}
    /\ UNCHANGED <<overwriting, remote, source, copied>>

Next == Change \/ Interfere \/ \E c \in Calls : Begin(c) \/ Copy(c)

Spec == Init /\ [][Next]_copyVars

============================================================================
