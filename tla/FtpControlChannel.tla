------------------------- MODULE FtpControlChannel -------------------------
(***************************************************************************)
(* One FtpReadOnlyClient (cli_tool/transfer/ftp.py) and its server: the    *)
(* commands of list_files, stat, exists and download on the one control    *)
(* connection, and the replies that come back on it in order.  A reply     *)
(* carries nothing that tells which command it answers, so the client      *)
(* takes the next unread one for the answer to what it has just sent.      *)
(*                                                                         *)
(* The commands that ftplib sends for a call, and what it makes of the     *)
(* replies, are modelled as the calls in ftp.py need them.  What is done   *)
(* with the bytes on disk is the subject of the module Download.           *)
(***************************************************************************)
EXTENDS Integers, Sequences

CONSTANTS
    Paths,     \* remote paths
    Identity,  \* Identity[p]: size and time of p as _file_identity sees them
    Features,  \* optional commands of the servers to model, each a set of them
    MaxCalls,  \* bound: calls of the client
    None

ASSUME FtpAssumption ==
    /\ MaxCalls \in Nat
    /\ \A f \in Features : f \subseteq {"OPTS", "MLSD", "MLST"}
    /\ None \notin Paths

VARIABLES
    features, files,  \* the server: its optional commands, the type of each path
    passive, legacy,  \* passive, allow_legacy_listing
    linked,   \* is self._ftp set
    unread,   \* replies on the control connection
    broken,   \* has a read of the control connection failed
    abandoned, \* transfers left before their last reply was read, since connect()
    calls,    \* calls so far
    pc,       \* where the client is
    op, path, \* the call it is in
    cmd,      \* the transfer command it is about: RETR, LIST, MLSD, or MLSD+
              \* for an MLSD preceded by OPTS
    info,     \* the path of the reply download() took its first metadata from
    answer,   \* the result of the last call
    published \* what the last download moved into place was checked against

server  == <<features, files>>
options == <<passive, legacy>>
control == <<linked, unread, broken, abandoned>>
call    == <<calls, op, path>>
vars    == <<server, options, control, call, pc, cmd, info, answer, published>>

Ops == {"stat", "exists", "list", "download"}

\* A nested path is a directory whose one entry is a file of the same name.
Kinds == {"file", "directory", "nested", "missing"}

Init ==
    /\ features \in Features
    /\ files \in [Paths -> Kinds]
    /\ passive \in BOOLEAN /\ legacy \in BOOLEAN
    /\ linked = FALSE /\ unread = <<>> /\ broken = FALSE /\ abandoned = 0
    /\ calls = 0 /\ pc = "idle" /\ op = "stat" /\ path \in Paths
    /\ cmd = "RETR" /\ info = None /\ answer = None /\ published = None

----------------------------------------------------------------------------
(* The server, and ftplib's reading of its replies *)

\* Every command has one reply, a transfer that starts a second one at its end.
Success == [OPTS |-> 200, TYPE |-> 200, PORT |-> 200, PASV |-> 227, MLST |-> 250,
            MDTM |-> 213, MLSD |-> 150, LIST |-> 150, RETR |-> 150]

Code(c) ==
    IF c \in {"OPTS", "MLSD", "MLST"} \ features THEN 500
    ELSE IF c = "MLSD" /\ files[path] = "file" THEN 501
    ELSE IF c \in {"MLST", "MLSD", "LIST"} /\ files[path] = "missing" THEN 550
    ELSE IF c \in {"MDTM", "RETR"} /\ files[path] # "file" THEN 550
    ELSE Success[c]

Reply(c, n) == [to |-> c, path |-> path, code |-> n]
Class(r) == r.code \div 100

\* Mutant: every permanent error counts as an unsupported command.
UnsupportedOrMissing(r) == r.code \in {500, 501, 550}

\* _is_unsupported_command: 501 also says that MLSD was given a file.
Unsupported(r) == r.code \in {500, 501}

\* sendcmd(c): the queue of replies afterwards, of which the first is read.
\* The server may also refuse any command for the moment.
Sends(c) == {Append(unread, Reply(c, n)) : n \in {m \in {Code(c), 450} : ~broken}}

Handles == UNCHANGED <<server, options, linked, broken, call>>
Keeps == Handles /\ UNCHANGED abandoned

\* The call is over, with an exception.
Raises == pc' = "idle" /\ UNCHANGED <<cmd, info, answer, published>>

Goes(label) == pc' = label /\ UNCHANGED <<cmd, info, answer, published>>

Returns(value, about, method) ==
    /\ pc' = "idle"
    /\ answer' = [value |-> value, about |-> about, method |-> method]
    /\ UNCHANGED <<cmd, info, published>>

----------------------------------------------------------------------------
(* connect and close *)

Start(o, p) ==
    /\ pc = "idle" /\ calls < MaxCalls
    /\ calls' = calls + 1 /\ op' = o /\ path' = p
    /\ pc' = IF ~linked THEN "connect" ELSE IF o = "list" THEN "opts" ELSE "mlst"
    /\ cmd' = IF o = "list" THEN "MLSD+" ELSE "RETR"
    /\ info' = None /\ answer' = None /\ published' = None
    /\ UNCHANGED <<server, options, control>>

\* connect() does nothing while _ftp is set, however the connection fares.
Connect ==
    /\ pc = "connect"
    /\ linked' = TRUE
    /\ Goes(IF op = "list" THEN "opts" ELSE "mlst")
    /\ UNCHANGED <<server, options, unread, broken, abandoned, call>>

ConnectFails == pc = "connect" /\ Raises /\ Keeps /\ UNCHANGED unread

\* The unread replies go with the connection; a failed QUIT changes nothing.
Close ==
    /\ pc = "idle" /\ linked
    /\ linked' = FALSE /\ unread' = <<>> /\ broken' = FALSE /\ abandoned' = 0
    /\ answer' = None /\ published' = None
    /\ UNCHANGED <<server, options, call, pc, cmd, info>>

\* No reply within the timeout, or the connection is gone: every later read of
\* this connection fails, too.
ControlFails ==
    /\ pc \in {"mlst", "opts", "type", "pasv", "retr", "mdtm"}
    /\ broken' = TRUE
    /\ Raises
    /\ UNCHANGED <<server, options, linked, unread, abandoned, call>>

----------------------------------------------------------------------------
(* stat and exists *)

NotFound(r, method) ==
    IF op \in {"stat", "exists"} THEN Returns("missing", r.path, method) ELSE Raises

\* The type that metadata about a path give: the facts of an MLST tell a nested
\* path from a file, the one line of its LIST does not.
TypeOf(about, method) ==
    IF files[about] # "nested" THEN files[about]
    ELSE IF method = "mlst" THEN "directory" ELSE "file"

\* stat() has its metadata; download() wants a regular file at first and the
\* same identity at the end, where the local file is moved into place.
StatReturns(about, method) ==
    IF op # "download" THEN Returns(TypeOf(about, method), about, method)
    ELSE IF info = None
    THEN IF TypeOf(about, method) # "file" THEN Raises
         ELSE pc' = "type" /\ info' = about /\ cmd' = "RETR" /\ UNCHANGED <<answer, published>>
    ELSE IF TypeOf(about, method) # "file" \/ Identity[about] # Identity[info] THEN Raises
    ELSE /\ pc' = "idle"
         /\ published' = [first |-> info, last |-> about]
         /\ UNCHANGED <<cmd, info, answer>>

\* Only the reply to an MLST has facts to parse.
Stat ==
    /\ pc = "mlst"
    /\ \E q \in Sends("MLST") :
          /\ unread' = Tail(q)
          /\ LET r == Head(q)
             IN  \/ r.code = 250 /\ StatReturns(r.path, "mlst")
                 \/ /\ Unsupported(r) /\ legacy
                    /\ pc' = "type" /\ cmd' = "LIST" /\ UNCHANGED <<info, answer, published>>
                 \/ r.code = 550 /\ ~(Unsupported(r) /\ legacy) /\ NotFound(r, "mlst")
                 \/ r.code \notin {250, 550} /\ ~(Unsupported(r) /\ legacy) /\ Raises
    /\ Keeps

\* The one line of LIST names the file; MDTM may add its time.
LegacyModifiedTime ==
    /\ pc = "mdtm"
    /\ \E q \in Sends("MDTM") :
          /\ unread' = Tail(q)
          /\ LET r == Head(q)
             IN  IF r.code = 213 \/ Class(r) = 5
                 THEN StatReturns(IF r.code = 213 THEN r.path ELSE path, "legacy")
                 ELSE Raises
    /\ Keeps

----------------------------------------------------------------------------
(* retrbinary and retrlines *)

\* error_perm: list_files tries again without OPTS and then LIST, each only for
\* an unsupported command.
Refused(r) ==
    CASE Unsupported(r) /\ cmd = "MLSD+" ->
             pc' = "type" /\ cmd' = "MLSD" /\ UNCHANGED <<info, answer, published>>
      [] Unsupported(r) /\ cmd = "MLSD" /\ legacy ->
             pc' = "type" /\ cmd' = "LIST" /\ UNCHANGED <<info, answer, published>>
      [] r.code = 550 /\ cmd = "LIST" /\ op # "list" -> NotFound(r, "legacy")
      [] OTHER -> Raises

\* What ftplib does with a reply r to a command that must be answered by one of
\* the given classes.
Expects(r, classes, label) ==
    \/ Class(r) \in classes /\ Goes(label)
    \/ Class(r) = 5 /\ Refused(r)
    \/ Class(r) \notin classes \cup {5} /\ Raises

SetOptions ==
    /\ pc = "opts"
    /\ \E q \in Sends("OPTS") : unread' = Tail(q) /\ Expects(Head(q), {1, 2, 3}, "type")
    /\ Keeps

SetType ==
    /\ pc = "type"
    /\ \E q \in Sends("TYPE") :
          /\ unread' = Tail(q)
          /\ Expects(Head(q), IF cmd = "RETR" THEN {2} ELSE {1, 2, 3}, "pasv")
    /\ Keeps

\* PASV must be answered by 227, and the port in it be the server's last one.
Passive ==
    /\ pc = "pasv" /\ passive
    /\ \E q \in Sends("PASV") :
          /\ unread' = Tail(q)
          /\ \/ Head(q).code = 227 /\ Tail(q) = <<>> /\ Goes("retr")
             \/ Class(Head(q)) < 4 /\ Raises
             \/ Expects(Head(q), {1, 2, 3}, "retr") /\ Class(Head(q)) > 3
    /\ Keeps

Active ==
    /\ pc = "pasv" /\ ~passive
    /\ \E q \in Sends("PORT") : unread' = Tail(q) /\ Expects(Head(q), {2}, "retr")
    /\ Keeps

Transfer == IF cmd = "MLSD+" THEN "MLSD" ELSE cmd
LastReply(n) == Reply("end", n)

\* The command itself.  A reply of class 2 is skipped, for servers that send
\* one before the 150.  If the server has started and the client does not go
\* on, the last reply comes all the same.
Retrieve ==
    /\ pc = "retr"
    /\ \E q \in Sends(Transfer), n \in {226, 426} :
          LET rest == IF Class(Head(q)) = 2 THEN Tail(q) ELSE q
              started == q[Len(q)].code = 150
          IN  /\ rest # <<>>
              /\ Expects(Head(rest), {1}, IF started THEN "data" ELSE "nodata")
              /\ IF started /\ Class(Head(rest)) # 1
                 THEN /\ unread' = Append(Tail(rest), LastReply(n))
                      /\ abandoned' = abandoned + 1
                 ELSE unread' = Tail(rest) /\ UNCHANGED abandoned
    /\ Handles

\* Mutant: the file is moved into place without asking for its metadata again.
ReceivedUnchecked(r) ==
    IF cmd = "RETR"
    THEN /\ pc' = "idle"
         /\ published' = [first |-> info, last |-> info]
         /\ UNCHANGED <<cmd, info, answer>>
    ELSE Returns("listing", path, "mlsd")

Received(r) ==
    CASE cmd = "RETR" -> Goes("mlst")
      [] cmd \in {"MLSD", "MLSD+"} -> Returns("listing", path, "mlsd")
      [] cmd = "LIST" /\ op = "list" -> Returns("listing", path, "legacy")
      [] cmd = "LIST" /\ op # "list" ->
             IF files[path] \in {"file", "nested"} THEN Goes("mdtm") ELSE Raises

\* The data is through: voidresp() reads the transfer's last reply.
TransferEnds ==
    /\ pc = "data"
    /\ \E n \in {226, 426} :
          LET q == Append(unread, LastReply(n))
              r == Head(q)
          IN  /\ unread' = Tail(q)
              /\ \/ Class(r) = 2 /\ Received(r)
                 \/ Class(r) = 5 /\ Refused(r)
                 \/ Class(r) \notin {2, 5} /\ Raises
    /\ Keeps

\* The callback raises (over the limit, a full disk), or the data connection
\* fails or times out: retrbinary is left without reading the last reply.
TransferAborts ==
    /\ pc = "data"
    /\ \E n \in {226, 426} : unread' = Append(unread, LastReply(n))
    /\ abandoned' = abandoned + 1
    /\ Raises
    /\ Handles

\* Nobody comes to the data port.
NoData == pc = "nodata" /\ Raises /\ Keeps /\ UNCHANGED unread

----------------------------------------------------------------------------
Next ==
    \/ \E o \in Ops, p \in Paths : Start(o, p)
    \/ Connect \/ ConnectFails \/ Close \/ ControlFails
    \/ Stat \/ LegacyModifiedTime
    \/ SetOptions \/ SetType \/ Passive \/ Active \/ Retrieve
    \/ TransferEnds \/ TransferAborts \/ NoData

Spec == Init /\ [][Next]_vars

----------------------------------------------------------------------------
(* Properties *)

\* Unless a transfer was left before its last reply since connect(), the answer
\* of a call is made from a reply about its own path and gives its type, and the
\* legacy parser only answers where the server lacks the command, or where MLSD
\* was given a file (stat, exists, list_files: each reply is read by the command
\* it belongs to, whatever else goes wrong).  The one wrong type is the legacy
\* parser's, of a directory that holds one file of its own name.
AnswersAreOwn ==
    answer # None /\ abandoned = 0 =>
        /\ answer.about = path
        /\ answer.value = "missing" => files[path] = "missing"
        /\ answer.value = "directory" => files[path] \in {"directory", "nested"}
        /\ answer.value = "file" =>
               files[path] = "file" \/ (files[path] = "nested" /\ answer.method = "legacy")
        /\ answer.method = "legacy" =>
               IF op = "list" THEN "MLSD" \notin features \/ files[path] = "file"
                              ELSE "MLST" \notin features

\* The metadata a download is checked against at the end are those of its own
\* path even after transfers that left replies in the way, in active mode after
\* fewer than six: then the 150 of an older transfer can come to be read for
\* that of this one, and with it another path's metadata.  The metadata from
\* before the transfer are its own in passive mode, too, where PASV wants its
\* own port number, and in active mode if no transfer was left (download: stat,
\* retrbinary, stat).
PublishedIsChecked ==
    published # None =>
        /\ passive \/ abandoned < 6 => published.last = path
        /\ passive \/ abandoned = 0 => published.first = path

============================================================================
