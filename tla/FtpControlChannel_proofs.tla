---------------------- MODULE FtpControlChannel_proofs ----------------------
(***************************************************************************)
(* Proofs about FtpControlChannel, for any number of calls, any paths, any *)
(* files and any server: as long as no transfer is left before its last    *)
(* reply, the client never mistakes a reply for the answer to another      *)
(* command; and what a download publishes was checked against its own      *)
(* path, in active mode up to five such transfers.                         *)
(***************************************************************************)
EXTENDS FtpControlChannel, SequenceTheorems, TLAPS

\* The replies that the client tells apart.
LEMMA ReplyClasses ==
    /\ 150 \div 100 = 1
    /\ 200 \div 100 = 2 /\ 213 \div 100 = 2 /\ 226 \div 100 = 2 /\ 227 \div 100 = 2
    /\ 250 \div 100 = 2
    /\ 426 \div 100 = 4 /\ 450 \div 100 = 4
    /\ 500 \div 100 = 5 /\ 501 \div 100 = 5 /\ 550 \div 100 = 5
  BY SMT

LEMMA Codes ==
    /\ Code("OPTS") \in {500, 200}
    /\ Code("TYPE") = 200 /\ Code("PORT") = 200 /\ Code("PASV") = 227
    /\ Code("MLST") \in {250, 500, 550}
    /\ Code("MLST") # 500 => "MLST" \in features
    /\ Code("MLST") = 500 => "MLST" \notin features
    /\ Code("MLST") = 550 => files[path] = "missing"
    /\ Code("MLST") = 250 => files[path] # "missing"
    /\ Code("MDTM") \in {550, 213}
    /\ Code("MLSD") \in {500, 501, 550, 150}
    /\ Code("MLSD") = 500 => "MLSD" \notin features
    /\ Code("MLSD") = 501 => files[path] = "file"
    /\ Code("LIST") \in {550, 150}
    /\ Code("LIST") = 550 => files[path] = "missing"
    /\ Code("RETR") \in {550, 150}
  BY DEF Code, Success

\* With nothing unread, a command is answered by its own reply.
LEMMA OwnReply ==
  ASSUME unread = <<>>, NEW c, NEW q \in Sends(c)
  PROVE  /\ Len(q) = 1 /\ Tail(q) = <<>> /\ Head(q) = q[1]
         /\ Head(q).path = path
         /\ Head(q).code \in {Code(c), 450}
<1>1. PICK n \in {Code(c), 450} : q = Append(<<>>, Reply(c, n))
  BY DEF Sends
<1>2. q = <<Reply(c, n)>>
  BY <1>1
<1> QED BY <1>1, <1>2 DEF Reply

----------------------------------------------------------------------------
\* The transfer under way fits its call: a listing by the legacy parser was not
\* to be had otherwise.
Fits ==
    /\ cmd \in {"MLSD+", "MLSD"} => op = "list"
    /\ cmd = "RETR" => op = "download"
    /\ cmd = "LIST" => /\ legacy
                       /\ IF op = "list" THEN "MLSD" \notin features \/ files[path] = "file"
                          ELSE "MLST" \notin features

Transferring == {"opts", "type", "pasv", "retr", "data", "nodata", "mdtm"}

OwnInv ==
    /\ abandoned \in Nat
    /\ files \in [Paths -> Kinds] /\ path \in Paths
    /\ pc \in Transferring \cup {"idle", "connect", "mlst"}
    /\ cmd \in {"RETR", "LIST", "MLSD", "MLSD+"}
    /\ abandoned = 0 =>
           /\ unread = <<>>
           /\ pc = "connect" => cmd = IF op = "list" THEN "MLSD+" ELSE "RETR"
           /\ pc = "mlst" => op # "list"
           /\ pc = "opts" => cmd = "MLSD+"
           /\ pc \in Transferring => Fits
           /\ pc = "mdtm" => cmd = "LIST" /\ op # "list" /\ files[path] \in {"file", "nested"}
    /\ AnswersAreOwn

LEMMA InitOwnInv == Init => OwnInv
  BY DEF Init, OwnInv, AnswersAreOwn, Transferring

\* What a step within a call leaves as it is.
Carries == Handles /\ abandoned' \in Nat /\ (abandoned' = 0 => abandoned = 0)

LEMMA KeepsCarries == ASSUME OwnInv, Keeps PROVE Carries
  BY DEF OwnInv, Keeps, Carries, Handles

\* Nothing has changed but the place, and no transfer begins.
LEMMA RaisesKeeps ==
  ASSUME OwnInv, Raises, Carries, abandoned = 0 => unread' = <<>>
  PROVE  OwnInv'
  BY DEF OwnInv, Raises, Carries, Handles, AnswersAreOwn, Transferring, server, options, call

LEMMA GoesKeeps ==
  ASSUME OwnInv, NEW label \in {"type", "pasv", "retr", "data", "nodata"}, Goes(label), Carries,
         abandoned = 0 => unread' = <<>> /\ Fits
  PROVE  OwnInv'
  BY DEF OwnInv, Goes, Carries, Handles, AnswersAreOwn, Transferring, Fits, server, options, call

\* An answer that is the call's own.
Owns(value, about, method) ==
    /\ about = path
    /\ value = "missing" => files[path] = "missing"
    /\ value = "directory" => files[path] \in {"directory", "nested"}
    /\ value = "file" =>
           files[path] = "file" \/ (files[path] = "nested" /\ method = "legacy")
    /\ method = "legacy" =>
           IF op = "list" THEN "MLSD" \notin features \/ files[path] = "file"
                          ELSE "MLST" \notin features

LEMMA ReturnsKeeps ==
  ASSUME OwnInv, NEW value, NEW about, NEW method, Returns(value, about, method), Carries,
         abandoned = 0 => unread' = <<>> /\ Owns(value, about, method)
  PROVE  OwnInv'
<1>1. answer'.value = value /\ answer'.about = about /\ answer'.method = method
  BY DEF Returns
<1> QED
  BY <1>1 DEF OwnInv, Returns, Carries, Handles, AnswersAreOwn, Owns, Transferring,
              server, options, call

\* stat() returns, or download() goes on with its metadata.
LEMMA StatReturnsKeeps ==
  ASSUME OwnInv, NEW about, NEW method \in {"mlst", "legacy"},
         StatReturns(about, method), Carries,
         abandoned = 0 => /\ unread' = <<>> /\ about = path /\ op # "list"
                          /\ files[path] # "missing"
                          /\ method = "legacy" =>
                                 files[path] \in {"file", "nested"} /\ "MLST" \notin features
  PROVE  OwnInv'
<1>1. CASE op # "download"
  <2>1. Returns(TypeOf(about, method), about, method)
    BY <1>1 DEF StatReturns
  <2>2. abandoned = 0 => unread' = <<>> /\ Owns(TypeOf(about, method), about, method)
    BY DEF Owns, TypeOf, OwnInv, Kinds
  <2> QED BY <2>1, <2>2, ReturnsKeeps
<1>2. CASE op = "download" /\ Raises
  BY <1>2, RaisesKeeps
<1>3. CASE op = "download" /\ info = None /\ pc' = "type"
  BY <1>3 DEF StatReturns, OwnInv, Carries, Handles, Raises, AnswersAreOwn, Transferring, Fits,
              server, options, call
<1>4. CASE op = "download" /\ pc' = "idle" /\ answer' = answer /\ cmd' = cmd
  BY <1>4 DEF OwnInv, Carries, Handles, AnswersAreOwn, Transferring, server, options, call
<1> QED BY <1>1, <1>2, <1>3, <1>4 DEF StatReturns

LEMMA StatKeeps == ASSUME OwnInv, Stat PROVE OwnInv'
<1>1. PICK q \in Sends("MLST") :
        /\ unread' = Tail(q)
        /\ \/ Head(q).code = 250 /\ StatReturns(Head(q).path, "mlst")
           \/ /\ Unsupported(Head(q)) /\ legacy
              /\ pc' = "type" /\ cmd' = "LIST" /\ UNCHANGED <<info, answer, published>>
           \/ Head(q).code = 550 /\ NotFound(Head(q), "mlst")
           \/ Raises
  BY DEF Stat
<1>2. Carries /\ pc = "mlst"
  BY KeepsCarries DEF Stat
<1>3. abandoned = 0 => /\ unread' = <<>> /\ op # "list"
                       /\ Head(q).path = path /\ Head(q).code \in {Code("MLST"), 450}
  BY <1>1, <1>2, OwnReply DEF OwnInv
<1>4. CASE Head(q).code = 250 /\ StatReturns(Head(q).path, "mlst")
  BY <1>2, <1>3, <1>4, Codes, StatReturnsKeeps
<1>5. CASE /\ Unsupported(Head(q)) /\ legacy
           /\ pc' = "type" /\ cmd' = "LIST" /\ UNCHANGED <<info, answer, published>>
  <2>1. abandoned = 0 => "MLST" \notin features
    BY <1>3, <1>5, Codes DEF Unsupported
  <2> QED
    BY <1>2, <1>3, <1>5, <2>1 DEF OwnInv, Carries, Handles, AnswersAreOwn, Transferring, Fits,
                                  server, options, call
<1>6. CASE Head(q).code = 550 /\ NotFound(Head(q), "mlst")
  <2>1. CASE op \in {"stat", "exists"}
    <3>1. Returns("missing", Head(q).path, "mlst")
      BY <1>6, <2>1 DEF NotFound
    <3>2. abandoned = 0 => unread' = <<>> /\ Owns("missing", Head(q).path, "mlst")
      BY <1>3, <1>6, Codes DEF Owns
    <3> QED BY <1>2, <3>1, <3>2, ReturnsKeeps
  <2>2. CASE op \notin {"stat", "exists"}
    BY <1>2, <1>3, <1>6, <2>2, RaisesKeeps DEF NotFound
  <2> QED BY <2>1, <2>2
<1>7. CASE Raises
  BY <1>2, <1>3, <1>7, RaisesKeeps
<1> QED BY <1>1, <1>4, <1>5, <1>6, <1>7

LEMMA ModifiedTimeKeeps == ASSUME OwnInv, LegacyModifiedTime PROVE OwnInv'
<1>1. PICK q \in Sends("MDTM") :
        /\ unread' = Tail(q)
        /\ \/ StatReturns(IF Head(q).code = 213 THEN Head(q).path ELSE path, "legacy")
           \/ Raises
  BY DEF LegacyModifiedTime
<1>2. Carries /\ pc = "mdtm"
  BY KeepsCarries DEF LegacyModifiedTime
<1>3. abandoned = 0 => /\ unread' = <<>> /\ op # "list" /\ Head(q).path = path
                       /\ files[path] \in {"file", "nested"} /\ "MLST" \notin features
  BY <1>1, <1>2, OwnReply DEF OwnInv, Transferring, Fits
<1>4. CASE Raises
  BY <1>2, <1>3, <1>4, RaisesKeeps
<1>5. CASE StatReturns(IF Head(q).code = 213 THEN Head(q).path ELSE path, "legacy")
  BY <1>2, <1>3, <1>5, StatReturnsKeeps
<1> QED BY <1>1, <1>4, <1>5

----------------------------------------------------------------------------
(* retrbinary and retrlines *)

\* An error reply: what it says of the server is what the fallback needs.
LEMMA RefusedKeeps ==
  ASSUME OwnInv, NEW r, Refused(r), Carries,
         abandoned = 0 => /\ unread' = <<>> /\ r.path = path /\ Fits
                          /\ r.code \in {500, 501} /\ cmd = "MLSD" =>
                                 "MLSD" \notin features \/ files[path] = "file"
                          /\ r.code = 550 /\ cmd = "LIST" => files[path] = "missing"
  PROVE  OwnInv'
<1>1. CASE /\ Unsupported(r) /\ cmd = "MLSD+"
           /\ pc' = "type" /\ cmd' = "MLSD" /\ UNCHANGED <<info, answer, published>>
  BY <1>1 DEF OwnInv, Carries, Handles, AnswersAreOwn, Transferring, Fits, server, options, call
<1>2. CASE /\ Unsupported(r) /\ cmd = "MLSD" /\ legacy
           /\ pc' = "type" /\ cmd' = "LIST" /\ UNCHANGED <<info, answer, published>>
  BY <1>2 DEF OwnInv, Carries, Handles, AnswersAreOwn, Transferring, Fits, Unsupported,
              server, options, call
<1>3. CASE Raises
  BY <1>3, RaisesKeeps
<1>4. CASE /\ r.code = 550 /\ cmd = "LIST" /\ op # "list"
           /\ Returns("missing", r.path, "legacy")
  <2>1. abandoned = 0 => unread' = <<>> /\ Owns("missing", r.path, "legacy")
    BY <1>4 DEF Owns, Fits
  <2> QED BY <1>4, <2>1, ReturnsKeeps
<1> QED BY <1>1, <1>2, <1>3, <1>4 DEF Refused, NotFound

LEMMA SetOptionsKeeps == ASSUME OwnInv, SetOptions PROVE OwnInv'
<1>1. PICK q \in Sends("OPTS") : unread' = Tail(q) /\ Expects(Head(q), {1, 2, 3}, "type")
  BY DEF SetOptions
<1>2. Carries /\ pc = "opts"
  BY KeepsCarries DEF SetOptions
<1>3. abandoned = 0 => unread' = <<>> /\ Head(q).path = path /\ Fits
  BY <1>1, <1>2, OwnReply DEF OwnInv, Transferring
<1>4. CASE Goes("type")
  BY <1>2, <1>3, <1>4, GoesKeeps
<1>5. CASE Refused(Head(q))
  <2>1. abandoned = 0 => cmd = "MLSD+"
    BY <1>2 DEF OwnInv
  <2> QED BY <1>2, <1>3, <1>5, <2>1, RefusedKeeps
<1>6. CASE Raises
  BY <1>2, <1>3, <1>6, RaisesKeeps
<1> QED BY <1>1, <1>4, <1>5, <1>6 DEF Expects

\* The replies to these three are never permanent errors.
LEMMA PreparesKeeps ==
  ASSUME OwnInv, SetType \/ Passive \/ Active
  PROVE  OwnInv'
<1>1. PICK q \in Sends("TYPE") \cup Sends("PASV") \cup Sends("PORT") :
        /\ unread' = Tail(q)
        /\ Goes("pasv") \/ Goes("retr") \/ Raises \/ (Refused(Head(q)) /\ Class(Head(q)) = 5)
  BY DEF SetType, Passive, Active, Expects
<1>2. Carries /\ pc \in {"type", "pasv"}
  BY KeepsCarries DEF SetType, Passive, Active
<1>3. abandoned = 0 => unread' = <<>> /\ Fits /\ Head(q).code \in {200, 227, 450}
  <2>1. ASSUME abandoned = 0 PROVE unread = <<>> /\ Fits
    BY <1>2, <2>1 DEF OwnInv, Transferring
  <2> QED BY <1>1, <2>1, OwnReply, Codes
<1>4. CASE Goes("pasv") \/ Goes("retr")
  BY <1>2, <1>3, <1>4, GoesKeeps
<1>5. CASE Raises
  BY <1>2, <1>3, <1>5, RaisesKeeps
<1>6. CASE Refused(Head(q)) /\ Class(Head(q)) = 5
  <2>1. abandoned # 0
    BY <1>3, <1>6, ReplyClasses DEF Class
  <2> QED BY <1>2, <1>6, <2>1, RefusedKeeps
<1> QED BY <1>1, <1>4, <1>5, <1>6

LEMMA RetrieveKeeps == ASSUME OwnInv, Retrieve PROVE OwnInv'
<1>1. PICK q \in Sends(Transfer), n \in {226, 426} :
          LET rest == IF Class(Head(q)) = 2 THEN Tail(q) ELSE q
              started == q[Len(q)].code = 150
          IN  /\ rest # <<>>
              /\ Expects(Head(rest), {1}, IF started THEN "data" ELSE "nodata")
              /\ IF started /\ Class(Head(rest)) # 1
                 THEN /\ unread' = Append(Tail(rest), LastReply(n))
                      /\ abandoned' = abandoned + 1
                 ELSE unread' = Tail(rest) /\ UNCHANGED abandoned
  BY DEF Retrieve
<1>2. Carries /\ pc = "retr"
  <2>1. Handles /\ pc = "retr" /\ abandoned' \in {abandoned, abandoned + 1}
    BY DEF Retrieve
  <2> QED BY <2>1 DEF Carries, OwnInv
<1> DEFINE rest == IF Class(Head(q)) = 2 THEN Tail(q) ELSE q
<1>3. ASSUME abandoned = 0
      PROVE  /\ rest = q /\ unread' = <<>> /\ Fits
             /\ Head(rest).path = path /\ Head(rest).code \in {Code(Transfer), 450}
  <2>1. unread = <<>> /\ Fits
    BY <1>2, <1>3 DEF OwnInv, Transferring
  <2>2. /\ Len(q) = 1 /\ Tail(q) = <<>> /\ Head(q) = q[1]
        /\ Head(q).path = path /\ Head(q).code \in {Code(Transfer), 450}
    BY <2>1, OwnReply
  <2>3. rest = q
    BY <1>1, <2>2
  <2>4. q[Len(q)].code = 150 => Class(Head(q)) = 1
    BY <2>2, ReplyClasses DEF Class
  <2> QED BY <1>1, <2>1, <2>2, <2>3, <2>4
<1>4. Goes("data") \/ Goes("nodata") \/ Raises \/ Refused(Head(rest))
  BY <1>1 DEF Expects
<1> HIDE DEF rest
<1>5. CASE Goes("data") \/ Goes("nodata")
  BY <1>2, <1>3, <1>5, GoesKeeps
<1>6. CASE Raises
  BY <1>2, <1>3, <1>6, RaisesKeeps
<1>7. CASE Refused(Head(rest))
  <2>1. abandoned = 0 => /\ Head(rest).code \in {500, 501} /\ cmd = "MLSD" =>
                                "MLSD" \notin features \/ files[path] = "file"
                         /\ Head(rest).code = 550 /\ cmd = "LIST" => files[path] = "missing"
    BY <1>3, Codes DEF Transfer
  <2>2. abandoned = 0 => unread' = <<>> /\ Head(rest).path = path /\ Fits
    BY <1>3
  <2> QED BY <1>2, <1>7, <2>1, <2>2, RefusedKeeps
<1> QED BY <1>5, <1>6, <1>7, <1>4

LEMMA ReceivedKeeps ==
  ASSUME OwnInv, NEW r, Received(r), Carries, pc = "data", abandoned = 0 => unread' = <<>>
  PROVE  OwnInv'
<1>1. abandoned = 0 => Fits
  BY DEF OwnInv, Transferring
<1>2. CASE cmd = "RETR" /\ Goes("mlst")
  BY <1>1, <1>2 DEF Goes, OwnInv, Carries, Handles, AnswersAreOwn, Transferring, Fits,
                    server, options, call
<1>3. CASE cmd \in {"MLSD", "MLSD+"} /\ Returns("listing", path, "mlsd")
  <2>1. Owns("listing", path, "mlsd")
    BY DEF Owns
  <2> QED BY <1>3, <2>1, ReturnsKeeps
<1>4. CASE cmd = "LIST" /\ op = "list" /\ Returns("listing", path, "legacy")
  <2>1. abandoned = 0 => Owns("listing", path, "legacy")
    BY <1>1, <1>4 DEF Owns, Fits
  <2> QED BY <1>4, <2>1, ReturnsKeeps
<1>5. CASE /\ cmd = "LIST" /\ op # "list"
           /\ files[path] \in {"file", "nested"} /\ Goes("mdtm")
  BY <1>1, <1>5 DEF Goes, OwnInv, Carries, Handles, AnswersAreOwn, Transferring, Fits,
                    server, options, call
<1>6. CASE Raises
  BY <1>6, RaisesKeeps
<1> QED BY <1>2, <1>3, <1>4, <1>5, <1>6 DEF Received, OwnInv

LEMMA TransferEndsKeeps == ASSUME OwnInv, TransferEnds PROVE OwnInv'
<1>1. PICK n \in {226, 426} :
        /\ unread' = Tail(Append(unread, LastReply(n)))
        /\ LET r == Head(Append(unread, LastReply(n)))
           IN  Received(r) \/ (Class(r) = 5 /\ Refused(r)) \/ Raises
  BY DEF TransferEnds
<1>2. Carries /\ pc = "data"
  BY KeepsCarries DEF TransferEnds
<1> DEFINE r == Head(Append(unread, LastReply(n)))
<1>3. ASSUME abandoned = 0 PROVE unread' = <<>> /\ r.code = n
  <2>1. Append(unread, LastReply(n)) = <<LastReply(n)>>
    BY <1>3 DEF OwnInv
  <2> QED BY <1>1, <2>1 DEF LastReply, Reply
<1>4. Received(r) \/ (Class(r) = 5 /\ Refused(r)) \/ Raises
  BY <1>1
<1>5. CASE Class(r) = 5 /\ Refused(r)
  <2>1. abandoned # 0
    BY <1>3, <1>5, ReplyClasses DEF Class
  <2> HIDE DEF r
  <2> QED BY <1>2, <1>5, <2>1, RefusedKeeps
<1> HIDE DEF r
<1>6. CASE Received(r)
  BY <1>2, <1>3, <1>6, ReceivedKeeps
<1>7. CASE Raises
  BY <1>2, <1>3, <1>7, RaisesKeeps
<1> QED BY <1>4, <1>5, <1>6, <1>7

LEMMA NextOwnInv == OwnInv /\ [Next]_vars => OwnInv'
<1> SUFFICES ASSUME OwnInv, [Next]_vars PROVE OwnInv'
  OBVIOUS
<1>1. ASSUME NEW o \in Ops, NEW p \in Paths, Start(o, p) PROVE OwnInv'
  BY <1>1 DEF Start, OwnInv, AnswersAreOwn, Transferring, Fits, server, options, control
<1>2. CASE Connect
  BY <1>2 DEF Connect, Goes, OwnInv, AnswersAreOwn, Transferring, Fits, server, options, call
<1>3. CASE ConnectFails \/ NoData
  <2>1. Raises /\ Carries /\ (abandoned = 0 => unread' = <<>>)
    BY <1>3, KeepsCarries DEF ConnectFails, NoData, OwnInv
  <2> QED BY <2>1, RaisesKeeps
<1>4. CASE Close
  BY <1>4 DEF Close, OwnInv, AnswersAreOwn, Transferring, server, options, call
<1>5. CASE ControlFails
  BY <1>5 DEF ControlFails, Raises, OwnInv, AnswersAreOwn, Transferring, server, options, call
<1>6. CASE TransferAborts
  <2>1. Raises /\ Handles /\ abandoned' = abandoned + 1
    BY <1>6 DEF TransferAborts
  <2>2. Carries /\ abandoned' # 0
    BY <2>1 DEF Carries, OwnInv
  <2> QED
    BY <2>1, <2>2 DEF Handles, Raises, OwnInv, AnswersAreOwn, server, options, call
<1>7. CASE UNCHANGED vars
  BY <1>7 DEF vars, server, options, control, call, OwnInv, AnswersAreOwn, Fits
<1> QED
  BY <1>1, <1>2, <1>3, <1>4, <1>5, <1>6, <1>7, StatKeeps, ModifiedTimeKeeps, SetOptionsKeeps,
     PreparesKeeps, RetrieveKeeps, TransferEndsKeeps
     DEF Next

\* As long as no transfer has been left early since connect(), every answer of
\* stat, exists and list_files is made from a reply about its own path, and is
\* right; the legacy parser answers only where it has to.
THEOREM AnswersOwn == Spec => []AnswersAreOwn
<1>1. OwnInv => AnswersAreOwn
  BY DEF OwnInv
<1> QED BY <1>1, InitOwnInv, NextOwnInv, PTL DEF Spec

----------------------------------------------------------------------------
(* Replies that nobody has read *)

Replies == [to : {"OPTS", "TYPE", "PORT", "PASV", "MLST", "MDTM", "MLSD", "LIST", "RETR", "end"},
            path : Paths, code : Nat]

\* The reply that starts a transfer is followed by the one that ends it.
QueueInv ==
    /\ path \in Paths /\ abandoned \in Nat
    /\ unread \in Seq(Replies) /\ Len(unread) <= abandoned
    /\ \A i \in 1 .. Len(unread) : Class(unread[i]) = 1 =>
          IF i = Len(unread) THEN pc = "data" ELSE unread[i + 1].to = "end"

LEMMA TailShape ==
  ASSUME NEW S, NEW s \in Seq(S), Len(s) > 0
  PROVE  /\ Tail(s) \in Seq(S) /\ Len(Tail(s)) = Len(s) - 1
         /\ Head(s) = s[1] /\ s[1] \in S
         /\ \A i \in 1 .. Len(s) - 1 : Tail(s)[i] = s[i + 1]
<1>1. s # <<>> /\ Len(s) \in Nat
  OBVIOUS
<1>2. Tail(s) \in Seq(S) /\ Len(Tail(s)) = Len(s) - 1
  BY <1>1, HeadTailProperties
<1>3. \A i \in 1 .. Len(s) - 1 : Tail(s)[i] = s[i + 1]
  BY <1>1, <1>2, HeadTailProperties
<1>4. 1 \in 1 .. Len(s)
  BY <1>1
<1> QED BY <1>1, <1>2, <1>3, <1>4, HeadTailProperties

\* A command sends its reply to the end of the queue.
LEMMA Queued ==
  ASSUME unread \in Seq(Replies), path \in Paths,
         NEW c \in {"OPTS", "TYPE", "PORT", "PASV", "MLST", "MDTM", "MLSD", "LIST", "RETR"},
         NEW q \in Sends(c)
  PROVE  /\ q \in Seq(Replies) /\ Len(q) = Len(unread) + 1 /\ Len(unread) \in Nat
         /\ \A i \in 1 .. Len(unread) : q[i] = unread[i]
         /\ q[Len(q)].to = c /\ q[Len(q)].path = path /\ q[Len(q)].code \in {Code(c), 450}
<1>1. PICK n \in {Code(c), 450} : q = Append(unread, Reply(c, n))
  BY DEF Sends
<1>2. n \in Nat
  BY <1>1, Codes
<1>3. Reply(c, n) \in Replies
  BY <1>2 DEF Reply, Replies
<1> QED BY <1>1, <1>3, AppendProperties DEF Reply

\* What a command other than a transfer leaves in the queue when the first
\* reply is read.
LEMMA Answers ==
  ASSUME unread \in Seq(Replies), path \in Paths,
         NEW c \in {"OPTS", "TYPE", "PORT", "PASV", "MLST", "MDTM"}, NEW q \in Sends(c)
  PROVE  /\ Tail(q) \in Seq(Replies) /\ Len(Tail(q)) = Len(unread) /\ Len(unread) \in Nat
         /\ \A i \in 1 .. Len(unread) - 1 : Tail(q)[i] = unread[i + 1]
         /\ Len(unread) > 0 => /\ Head(q) = unread[1]
                               /\ Tail(q)[Len(unread)].to = c
                               /\ Tail(q)[Len(unread)].path = path
                               /\ Class(Tail(q)[Len(unread)]) # 1
         /\ Len(unread) = 0 => Head(q).path = path
<1>1. /\ q \in Seq(Replies) /\ Len(q) = Len(unread) + 1 /\ Len(unread) \in Nat
      /\ \A i \in 1 .. Len(unread) : q[i] = unread[i]
      /\ q[Len(q)].to = c /\ q[Len(q)].path = path /\ q[Len(q)].code \in {Code(c), 450}
  BY Queued
<1>2. /\ Tail(q) \in Seq(Replies) /\ Len(Tail(q)) = Len(q) - 1 /\ Head(q) = q[1]
      /\ \A i \in 1 .. Len(q) - 1 : Tail(q)[i] = q[i + 1]
  BY <1>1, TailShape
<1>3. Class(q[Len(q)]) # 1
  BY <1>1, Codes, ReplyClasses DEF Class
<1>4. ASSUME Len(unread) > 0
      PROVE  /\ Head(q) = unread[1] /\ Tail(q)[Len(unread)] = q[Len(q)]
  <2>1. 1 \in 1 .. Len(unread) /\ Len(unread) \in 1 .. Len(q) - 1 /\ Len(unread) + 1 = Len(q)
    BY <1>1, <1>4
  <2> QED BY <1>1, <1>2, <2>1
<1>5. ASSUME NEW i \in 1 .. Len(unread) - 1 PROVE Tail(q)[i] = unread[i + 1]
  <2>1. i \in 1 .. Len(q) - 1 /\ i + 1 \in 1 .. Len(unread)
    BY <1>1
  <2> QED BY <1>1, <1>2, <2>1
<1>6. Len(unread) = 0 => Len(q) = 1
  BY <1>1
<1> QED BY <1>1, <1>2, <1>3, <1>4, <1>5, <1>6

\* The replies a transfer command goes on with, the first perhaps skipped, and
\* what it makes of them.
LEMMA Retrieved ==
  ASSUME OwnInv, QueueInv, Retrieve
  PROVE  \E rest \in Seq(Replies), k \in {0, 1}, n \in {226, 426} :
           /\ Len(rest) = Len(unread) + 1 - k /\ Len(rest) > 0
           /\ \A i \in 1 .. Len(unread) - k : rest[i] = unread[i + k]
           /\ rest[Len(rest)].path = path /\ rest[Len(rest)].to # "end"
           /\ \/ /\ Class(rest[1]) = 1 /\ Goes("data")
                 /\ unread' = Tail(rest) /\ abandoned' = abandoned
              \/ /\ Class(rest[Len(rest)]) # 1
                 /\ Goes("nodata") \/ Raises \/ Refused(rest[1])
                 /\ unread' = Tail(rest) /\ abandoned' = abandoned
              \/ /\ Len(rest) > 1
                 /\ Raises \/ Refused(rest[1])
                 /\ unread' = Append(Tail(rest), LastReply(n)) /\ abandoned' = abandoned + 1
<1>1. PICK q \in Sends(Transfer), n \in {226, 426} :
          LET rest == IF Class(Head(q)) = 2 THEN Tail(q) ELSE q
              started == q[Len(q)].code = 150
          IN  /\ rest # <<>>
              /\ Expects(Head(rest), {1}, IF started THEN "data" ELSE "nodata")
              /\ IF started /\ Class(Head(rest)) # 1
                 THEN /\ unread' = Append(Tail(rest), LastReply(n))
                      /\ abandoned' = abandoned + 1
                 ELSE unread' = Tail(rest) /\ UNCHANGED abandoned
  BY DEF Retrieve
<1> DEFINE rest == IF Class(Head(q)) = 2 THEN Tail(q) ELSE q
           k == IF Class(Head(q)) = 2 THEN 1 ELSE 0
<1>2. Transfer \in {"MLSD", "LIST", "RETR"}
  BY DEF Transfer, OwnInv
<1>3. /\ q \in Seq(Replies) /\ Len(q) = Len(unread) + 1 /\ Len(unread) \in Nat
      /\ \A i \in 1 .. Len(unread) : q[i] = unread[i]
      /\ q[Len(q)].to = Transfer /\ q[Len(q)].path = path
      /\ q[Len(q)].code \in {Code(Transfer), 450}
  BY <1>2, Queued DEF QueueInv
<1>4. /\ Tail(q) \in Seq(Replies) /\ Len(Tail(q)) = Len(q) - 1 /\ Head(q) = q[1]
      /\ \A i \in 1 .. Len(q) - 1 : Tail(q)[i] = q[i + 1]
  BY <1>3, TailShape
<1>5. rest \in Seq(Replies) /\ Len(rest) = Len(unread) + 1 - k /\ k \in {0, 1}
  BY <1>3, <1>4
<1>6. rest # <<>>
  BY <1>1
<1>7. \A i \in 1 .. Len(rest) : rest[i] = q[i + k]
  BY <1>3, <1>4
<1>8. Class(q[Len(q)]) = 1 <=> q[Len(q)].code = 150
  BY <1>2, <1>3, Codes, ReplyClasses DEF Class
<1>9. /\ Expects(Head(rest), {1}, IF q[Len(q)].code = 150 THEN "data" ELSE "nodata")
      /\ IF q[Len(q)].code = 150 /\ Class(Head(rest)) # 1
         THEN /\ unread' = Append(Tail(rest), LastReply(n))
              /\ abandoned' = abandoned + 1
         ELSE unread' = Tail(rest) /\ UNCHANGED abandoned
  BY <1>1
<1> HIDE DEF rest, k
<1>10. Len(rest) > 0 /\ Head(rest) = rest[1] /\ Len(rest) \in Nat
  BY <1>5, <1>6, HeadTailProperties
<1>11. rest[Len(rest)] = q[Len(q)]
  <2>1. Len(rest) \in 1 .. Len(rest) /\ Len(rest) + k = Len(q)
    BY <1>3, <1>5, <1>10
  <2> QED BY <1>7, <2>1
<1>12. \A i \in 1 .. Len(unread) - k : rest[i] = unread[i + k]
  <2> TAKE i \in 1 .. Len(unread) - k
  <2>1. i \in 1 .. Len(rest) /\ i + k \in 1 .. Len(unread)
    BY <1>3, <1>5
  <2> QED BY <1>3, <1>7, <2>1
<1> DEFINE Outcome ==
              \/ /\ Class(rest[1]) = 1 /\ Goes("data")
                 /\ unread' = Tail(rest) /\ abandoned' = abandoned
              \/ /\ Class(rest[Len(rest)]) # 1
                 /\ Goes("nodata") \/ Raises \/ Refused(rest[1])
                 /\ unread' = Tail(rest) /\ abandoned' = abandoned
              \/ /\ Len(rest) > 1
                 /\ Raises \/ Refused(rest[1])
                 /\ unread' = Append(Tail(rest), LastReply(n)) /\ abandoned' = abandoned + 1
<1>13. ASSUME Class(rest[1]) = 1 PROVE Outcome
  <2>1. unread' = Tail(rest) /\ abandoned' = abandoned
    BY <1>9, <1>10, <1>13
  <2>2. Goes(IF q[Len(q)].code = 150 THEN "data" ELSE "nodata")
    BY <1>9, <1>10, <1>13 DEF Expects
  <2>3. Goes("data") \/ (Goes("nodata") /\ Class(rest[Len(rest)]) # 1)
    BY <1>8, <1>11, <2>2
  <2> QED BY <1>13, <2>1, <2>3
<1>14. ASSUME Class(rest[1]) # 1 PROVE Outcome
  <2>1. Raises \/ Refused(rest[1])
    BY <1>9, <1>10, <1>14 DEF Expects
  <2>2. ASSUME q[Len(q)].code = 150 PROVE Outcome
    <3>1. Len(rest) # 1
      BY <1>8, <1>11, <1>14, <2>2
    <3>2. unread' = Append(Tail(rest), LastReply(n)) /\ abandoned' = abandoned + 1
      BY <1>9, <1>10, <1>14, <2>2
    <3>3. Len(rest) > 1
      BY <1>5, <1>3, <1>10, <3>1
    <3>4. /\ Len(rest) > 1
          /\ Raises \/ Refused(rest[1])
          /\ unread' = Append(Tail(rest), LastReply(n)) /\ abandoned' = abandoned + 1
      BY <2>1, <3>2, <3>3
    <3> QED BY <3>4
  <2>3. ASSUME q[Len(q)].code # 150 PROVE Outcome
    <3>1. unread' = Tail(rest) /\ abandoned' = abandoned
      BY <1>9, <2>3
    <3> QED BY <1>8, <1>11, <2>1, <2>3, <3>1
  <2> QED BY <2>2, <2>3
<1>15. Outcome
  BY <1>13, <1>14
<1>16. rest[Len(rest)].path = path /\ rest[Len(rest)].to # "end"
  BY <1>2, <1>3, <1>11
<1> USE <1>5
<1> WITNESS rest \in Seq(Replies), k \in {0, 1}, n \in {226, 426}
<1> QED BY <1>5, <1>10, <1>12, <1>15, <1>16

LEMMA LastReplyShape ==
  ASSUME path \in Paths, NEW n \in {226, 426}
  PROVE  /\ LastReply(n) \in Replies /\ LastReply(n).path = path /\ LastReply(n).to = "end"
         /\ Class(LastReply(n)) # 1 /\ LastReply(n).code = n
  BY ReplyClasses DEF LastReply, Reply, Replies, Class

\* Of an index that is not the last.
LEMMA NextIndex ==
  ASSUME NEW m \in Nat, NEW i \in 1 .. m, i # m
  PROVE  i \in 1 .. m - 1 /\ i + 1 \in 1 .. m /\ i + 1 \in 2 .. m
  OBVIOUS

LEMMA AnswersQueue ==
  ASSUME QueueInv, pc # "data", path' = path, abandoned' = abandoned,
         NEW c \in {"OPTS", "TYPE", "PORT", "PASV", "MLST", "MDTM"}, NEW q \in Sends(c),
         unread' = Tail(q)
  PROVE  QueueInv'
<1>1. /\ unread' \in Seq(Replies) /\ Len(unread') = Len(unread) /\ Len(unread) \in Nat
      /\ \A i \in 1 .. Len(unread) - 1 : unread'[i] = unread[i + 1]
      /\ Len(unread) > 0 => Class(unread'[Len(unread)]) # 1
  BY Answers DEF QueueInv
<1>2. ASSUME NEW i \in 1 .. Len(unread'), Class(unread'[i]) = 1
      PROVE  i # Len(unread') /\ unread'[i + 1].to = "end"
  <2>1. i # Len(unread) /\ i \in 1 .. Len(unread) - 1 /\ i + 1 \in 1 .. Len(unread)
    BY <1>1, <1>2
  <2>2. i + 1 # Len(unread) /\ unread[i + 1 + 1].to = "end"
    BY <1>1, <1>2, <2>1 DEF QueueInv
  <2>3. i + 1 \in 1 .. Len(unread) - 1
    BY <1>1, <2>1, <2>2
  <2> QED BY <1>1, <2>1, <2>2, <2>3
<1>3. \A i \in 1 .. Len(unread') : Class(unread'[i]) = 1 =>
          IF i = Len(unread') THEN pc' = "data" ELSE unread'[i + 1].to = "end"
  BY <1>1, <1>2
<1>4. Len(unread') <= abandoned' /\ path' \in Paths /\ abandoned' \in Nat
  BY <1>1 DEF QueueInv
<1> QED BY <1>1, <1>3, <1>4 DEF QueueInv

\* A step that leaves the queue alone.
LEMMA SameQueue ==
  ASSUME QueueInv, pc # "data", unread' = unread, abandoned' = abandoned, path' \in Paths
  PROVE  QueueInv'
  BY DEF QueueInv

LEMMA RetrieveQueue == ASSUME OwnInv, QueueInv, Retrieve PROVE QueueInv'
<1>1. PICK rest \in Seq(Replies), k \in {0, 1}, n \in {226, 426} :
           /\ Len(rest) = Len(unread) + 1 - k /\ Len(rest) > 0
           /\ \A i \in 1 .. Len(unread) - k : rest[i] = unread[i + k]
           /\ rest[Len(rest)].path = path /\ rest[Len(rest)].to # "end"
           /\ \/ /\ Class(rest[1]) = 1 /\ Goes("data")
                 /\ unread' = Tail(rest) /\ abandoned' = abandoned
              \/ /\ Class(rest[Len(rest)]) # 1
                 /\ Goes("nodata") \/ Raises \/ Refused(rest[1])
                 /\ unread' = Tail(rest) /\ abandoned' = abandoned
              \/ /\ Len(rest) > 1
                 /\ Raises \/ Refused(rest[1])
                 /\ unread' = Append(Tail(rest), LastReply(n)) /\ abandoned' = abandoned + 1
  BY Retrieved
<1>2. /\ pc = "retr" /\ path' = path /\ path \in Paths
      /\ Len(unread) \in Nat /\ Len(unread) <= abandoned /\ abandoned \in Nat
  BY DEF Retrieve, Handles, call, QueueInv
<1>3. /\ Tail(rest) \in Seq(Replies) /\ Len(Tail(rest)) = Len(rest) - 1 /\ Len(rest) \in Nat
      /\ \A i \in 1 .. Len(rest) - 1 : Tail(rest)[i] = rest[i + 1]
  BY <1>1, TailShape
\* Before the transfer's own reply every start is followed by its end.
<1>4. ASSUME NEW i \in 2 .. Len(rest) - 1, Class(rest[i]) = 1
      PROVE  i < Len(rest) - 1 /\ rest[i + 1].to = "end"
  <2>1. i \in 1 .. Len(unread) - k /\ i + k \in 1 .. Len(unread) /\ rest[i] = unread[i + k]
    BY <1>1, <1>2, <1>3
  <2>2. i + k # Len(unread) /\ unread[i + k + 1].to = "end"
    BY <1>2, <1>4, <2>1 DEF QueueInv
  <2>3. i + 1 \in 1 .. Len(unread) - k /\ i + 1 + k = i + k + 1
    BY <1>1, <1>2, <2>1, <2>2
  <2> QED BY <1>1, <1>2, <2>2, <2>3
<1>5. ASSUME unread' = Tail(rest), abandoned' = abandoned,
             Class(rest[Len(rest)]) = 1 => pc' = "data"
      PROVE  QueueInv'
  <2>1. ASSUME NEW i \in 1 .. Len(unread'), Class(unread'[i]) = 1
        PROVE  IF i = Len(unread') THEN pc' = "data" ELSE unread'[i + 1].to = "end"
    <3>1. unread'[i] = rest[i + 1]
      BY <1>3, <1>5
    <3>2. CASE i = Len(unread')
      <4>1. i + 1 = Len(rest)
        BY <1>3, <1>5, <3>2
      <4> QED BY <1>5, <2>1, <3>1, <3>2, <4>1
    <3>3. CASE i # Len(unread')
      <4>1. i + 1 \in 2 .. Len(rest) - 1 /\ i + 1 \in 1 .. Len(rest) - 1
        <5>1. Len(rest) - 1 \in Nat /\ i \in 1 .. Len(rest) - 1 /\ i # Len(rest) - 1
          BY <1>1, <1>3, <1>5, <3>3
        <5> QED BY <5>1, NextIndex
      <4>2. rest[i + 1 + 1].to = "end"
        BY <1>4, <2>1, <3>1, <4>1
      <4> QED BY <1>3, <1>5, <3>3, <4>1, <4>2
    <3> QED BY <3>2, <3>3
  <2>2. unread' \in Seq(Replies) /\ Len(unread') <= abandoned'
    BY <1>1, <1>2, <1>3, <1>5
  <2> QED BY <1>2, <1>5, <2>1, <2>2 DEF QueueInv
<1>6. ASSUME Len(rest) > 1, unread' = Append(Tail(rest), LastReply(n)), abandoned' = abandoned + 1
      PROVE  QueueInv'
  <2>1. LastReply(n) \in Replies /\ LastReply(n).to = "end" /\ Class(LastReply(n)) # 1
    BY <1>2, LastReplyShape
  <2>2. /\ unread' \in Seq(Replies) /\ Len(unread') = Len(rest) /\ unread'[Len(rest)] = LastReply(n)
        /\ \A i \in 1 .. Len(rest) - 1 : unread'[i] = rest[i + 1]
    <3>1. /\ unread' \in Seq(Replies) /\ Len(unread') = Len(rest) - 1 + 1
          /\ \A i \in 1 .. Len(rest) - 1 : unread'[i] = Tail(rest)[i]
          /\ unread'[Len(rest) - 1 + 1] = LastReply(n)
      BY <1>3, <1>6, <2>1, AppendProperties
    <3> QED BY <1>3, <3>1
  <2>3. ASSUME NEW i \in 1 .. Len(unread'), Class(unread'[i]) = 1
        PROVE  i # Len(unread') /\ unread'[i + 1].to = "end"
    <3>1. i # Len(rest) /\ i \in 1 .. Len(rest) - 1 /\ unread'[i] = rest[i + 1]
      <4>1. i \in 1 .. Len(rest) /\ i # Len(rest)
        BY <2>1, <2>2, <2>3
      <4>2. i \in 1 .. Len(rest) - 1
        BY <1>3, <4>1, NextIndex
      <4> QED BY <2>2, <4>1, <4>2
    <3>2. CASE i + 1 = Len(rest)
      BY <2>1, <2>2, <3>1, <3>2
    <3>3. CASE i + 1 # Len(rest)
      <4>1. i + 1 \in 2 .. Len(rest) - 1 /\ i + 1 \in 1 .. Len(rest) - 1
        <5>1. Len(rest) - 1 \in Nat /\ i \in 1 .. Len(rest) - 1 /\ i # Len(rest) - 1
          BY <1>1, <1>3, <3>1, <3>3
        <5> QED BY <5>1, NextIndex
      <4>2. rest[i + 1 + 1].to = "end"
        BY <1>4, <2>3, <3>1, <4>1
      <4> QED BY <2>2, <3>1, <4>1, <4>2
    <3> QED BY <3>2, <3>3
  <2>4. Len(unread') <= abandoned' /\ abandoned' \in Nat
    BY <1>1, <1>2, <1>3, <1>6, <2>2
  <2> QED BY <1>2, <2>2, <2>3, <2>4 DEF QueueInv
<1>7. Goes("data") => pc' = "data"
  BY DEF Goes
<1> QED BY <1>1, <1>5, <1>6, <1>7

LEMMA EndQueue ==
  ASSUME QueueInv, TransferEnds \/ TransferAborts
  PROVE  QueueInv'
<1>1. PICK n \in {226, 426} :
        \/ unread' = Append(unread, LastReply(n)) /\ abandoned' = abandoned + 1
        \/ unread' = Tail(Append(unread, LastReply(n))) /\ abandoned' = abandoned
  BY DEF TransferEnds, TransferAborts, Keeps
<1>2. path' = path /\ path \in Paths /\ abandoned \in Nat /\ unread \in Seq(Replies)
      /\ Len(unread) \in Nat /\ Len(unread) <= abandoned
  BY DEF TransferEnds, TransferAborts, Keeps, Handles, call, QueueInv
<1> DEFINE q == Append(unread, LastReply(n))
<1>3. LastReply(n) \in Replies /\ LastReply(n).to = "end" /\ Class(LastReply(n)) # 1
  BY <1>2, LastReplyShape
<1>4. /\ q \in Seq(Replies) /\ Len(q) = Len(unread) + 1 /\ q[Len(q)] = LastReply(n)
      /\ \A i \in 1 .. Len(unread) : q[i] = unread[i]
  BY <1>2, <1>3, AppendProperties
<1>5. /\ Tail(q) \in Seq(Replies) /\ Len(Tail(q)) = Len(q) - 1
      /\ \A i \in 1 .. Len(q) - 1 : Tail(q)[i] = q[i + 1]
  BY <1>2, <1>4, TailShape
<1>6. \/ unread' = q /\ abandoned' = abandoned + 1
      \/ unread' = Tail(q) /\ abandoned' = abandoned
  BY <1>1
<1> HIDE DEF q
<1>7. ASSUME NEW i \in 1 .. Len(q), Class(q[i]) = 1
      PROVE  i # Len(q) /\ q[i + 1].to = "end"
  <2>1. i # Len(q) /\ i \in 1 .. Len(unread) /\ q[i] = unread[i]
    BY <1>2, <1>3, <1>4, <1>7
  <2>2. CASE i = Len(unread)
    BY <1>3, <1>4, <2>1, <2>2
  <2>3. CASE i # Len(unread)
    <3>1. i + 1 \in 1 .. Len(unread) /\ unread[i + 1].to = "end"
      BY <1>2, <1>7, <2>1, <2>3 DEF QueueInv
    <3> QED BY <1>4, <2>1, <3>1
  <2> QED BY <2>2, <2>3
<1>8. CASE unread' = q /\ abandoned' = abandoned + 1
  <2>1. Len(unread') <= abandoned' /\ abandoned' \in Nat
    BY <1>2, <1>4, <1>8
  <2> QED BY <1>2, <1>4, <1>7, <1>8, <2>1 DEF QueueInv
<1>9. CASE unread' = Tail(q) /\ abandoned' = abandoned
  <2>1. ASSUME NEW i \in 1 .. Len(unread'), Class(unread'[i]) = 1
        PROVE  i # Len(unread') /\ unread'[i + 1].to = "end"
    <3>1. i \in 1 .. Len(q) - 1 /\ i + 1 \in 1 .. Len(q) /\ unread'[i] = q[i + 1]
      BY <1>2, <1>4, <1>5, <1>9
    <3>2. i + 1 # Len(q) /\ q[i + 1 + 1].to = "end"
      BY <1>7, <2>1, <3>1
    <3>3. i + 1 \in 1 .. Len(q) - 1
      BY <1>2, <1>4, <3>1, <3>2, NextIndex
    <3>4. unread'[i + 1] = q[i + 1 + 1] /\ Len(unread') = Len(q) - 1 /\ i # Len(q) - 1
      <4>1. i # Len(q) - 1
        BY <1>2, <1>4, <3>1, <3>2
      <4> QED BY <1>5, <1>9, <3>3, <4>1
    <3> QED BY <3>2, <3>4
  <2>2. unread' \in Seq(Replies) /\ Len(unread') <= abandoned'
    BY <1>2, <1>4, <1>5, <1>9
  <2> QED BY <1>2, <1>9, <2>1, <2>2 DEF QueueInv
<1> QED BY <1>6, <1>8, <1>9

LEMMA QueueStep == ASSUME OwnInv, QueueInv, Next PROVE QueueInv'
<1>1. ASSUME NEW o \in Ops, NEW p \in Paths, Start(o, p) PROVE QueueInv'
  BY <1>1, SameQueue DEF Start, control
<1>2. CASE Connect \/ ConnectFails \/ ControlFails \/ NoData
  BY <1>2, SameQueue DEF Connect, ConnectFails, ControlFails, NoData, Keeps, Handles, call, QueueInv
<1>3. CASE Close
  BY <1>3 DEF Close, call, QueueInv
<1>4. CASE Stat \/ LegacyModifiedTime \/ SetOptions \/ SetType \/ Passive \/ Active
  <2>1. PICK c \in {"OPTS", "TYPE", "PORT", "PASV", "MLST", "MDTM"} :
           \E q \in Sends(c) : unread' = Tail(q)
    BY <1>4 DEF Stat, LegacyModifiedTime, SetOptions, SetType, Passive, Active
  <2>2. pc # "data" /\ path' = path /\ abandoned' = abandoned
    BY <1>4 DEF Stat, LegacyModifiedTime, SetOptions, SetType, Passive, Active, Keeps, Handles, call
  <2> QED BY <2>1, <2>2, AnswersQueue
<1> QED BY <1>1, <1>2, <1>3, <1>4, RetrieveQueue, EndQueue DEF Next

\* Which command comes next, and when metadata are had.
FlowInv ==
    /\ pc = "connect" => cmd = IF op = "list" THEN "MLSD+" ELSE "RETR"
    /\ pc = "opts" => cmd = "MLSD+"
    /\ pc = "mdtm" => cmd = "LIST"
    /\ pc \in {"connect", "opts"} => info = None
    /\ pc # "idle" => published = None

\* download() before its transfer and after it: the replies to the stat, TYPE
\* and PORT of this call are the last in the queue, and what is asked
\* afterwards is answered about its own path.
Preparing == cmd = "RETR" /\ pc \in {"type", "pasv", "retr"}
Since == CASE pc = "type" -> 1 [] pc = "pasv" -> 2 [] OTHER -> 3
Recent(r) == r.path = path /\ r.to # "end" /\ Class(r) # 1

Checking ==
    /\ info # None
    /\ pc \in {"mlst", "type", "pasv", "retr", "data", "mdtm"}
    /\ cmd = "RETR" => pc \in {"data", "mlst"}

RecentInv == Preparing => \A i \in 1 .. Len(unread) : i > Len(unread) - Since => Recent(unread[i])
OwnLeft ==
    Checking => /\ passive => unread = <<>>
                /\ abandoned < 6 =>
                     \A i \in 1 .. Len(unread) : i > 1 \/ pc # "data" => unread[i].path = path
FirstOwn ==
    pc # "idle" /\ info # None /\ (abandoned = 0 \/ (passive /\ unread = <<>>)) => info = path
PassiveInv == passive /\ pc = "retr" => unread = <<>>

PublishInv ==
    QueueInv /\ FlowInv /\ RecentInv /\ OwnLeft /\ FirstOwn /\ PassiveInv /\ PublishedIsChecked

LEMMA InitPublishInv == Init => PublishInv
  BY DEF Init, PublishInv, QueueInv, FlowInv, RecentInv, Preparing, OwnLeft, Checking, FirstOwn,
         PassiveInv, PublishedIsChecked

LEMMA FlowStep == ASSUME OwnInv, FlowInv, Next PROVE FlowInv'
<1> USE DEF FlowInv
<1>1. ASSUME NEW o \in Ops, NEW p \in Paths, Start(o, p) PROVE FlowInv'
  BY <1>1 DEF Start
<1>2. CASE Connect
  BY <1>2 DEF Connect, Goes
<1>3. CASE ConnectFails \/ Close \/ ControlFails \/ TransferAborts \/ NoData
  BY <1>3 DEF ConnectFails, Close, ControlFails, TransferAborts, NoData, Raises
<1>4. ASSUME pc # "idle", Raises \/ (\E v, a, m : Returns(v, a, m)) PROVE FlowInv'
  BY <1>4 DEF Raises, Returns
<1>5. ASSUME pc # "idle", NEW r, Refused(r) PROVE FlowInv'
  BY <1>4, <1>5 DEF Refused, NotFound
<1>6. ASSUME pc # "idle", NEW l \in {"type", "pasv", "retr", "data", "nodata"}, Goes(l)
      PROVE  FlowInv'
  BY <1>6 DEF Goes
<1>7. ASSUME pc # "idle", NEW a, NEW m, StatReturns(a, m) PROVE FlowInv'
  <2>1. CASE op # "download" \/ Raises
    BY <1>4, <1>7, <2>1 DEF StatReturns
  <2>2. CASE ~(op # "download" \/ Raises)
    BY <1>7, <2>2 DEF StatReturns
  <2> QED BY <2>1, <2>2
<1>8. CASE Stat
  <2>1. PICK r : \/ StatReturns(r.path, "mlst")
                 \/ pc' = "type" /\ cmd' = "LIST" /\ UNCHANGED <<info, answer, published>>
                 \/ NotFound(r, "mlst") \/ Raises
    BY <1>8 DEF Stat
  <2>2. pc = "mlst"
    BY <1>8 DEF Stat
  <2> QED BY <1>4, <1>7, <2>1, <2>2 DEF NotFound
<1>9. CASE LegacyModifiedTime
  <2>1. PICK a : StatReturns(a, "legacy") \/ Raises
    BY <1>9 DEF LegacyModifiedTime
  <2> QED BY <1>4, <1>7, <1>9, <2>1 DEF LegacyModifiedTime
<1>10. CASE SetOptions \/ SetType \/ Passive \/ Active \/ Retrieve
  <2>1. ASSUME NEW r, NEW S, NEW l \in {"type", "pasv", "retr", "data", "nodata"},
               Expects(r, S, l)
        PROVE  FlowInv'
    <3>1. pc # "idle"
      BY <1>10 DEF SetOptions, SetType, Passive, Active, Retrieve
    <3> QED BY <1>4, <1>5, <1>6, <2>1, <3>1 DEF Expects
  <2>2. CASE SetOptions
    BY <2>1, <2>2 DEF SetOptions
  <2>3. CASE SetType
    <3>1. PICK q : Expects(Head(q), IF cmd = "RETR" THEN {2} ELSE {1, 2, 3}, "pasv")
      BY <2>3 DEF SetType
    <3> QED BY <2>1, <3>1
  <2>4. CASE Passive
    <3>1. PICK q : Goes("retr") \/ Raises \/ Expects(Head(q), {1, 2, 3}, "retr")
      BY <2>4 DEF Passive
    <3>2. pc # "idle"
      BY <2>4 DEF Passive
    <3> QED BY <1>4, <1>6, <2>1, <3>1, <3>2
  <2>5. CASE Active
    BY <2>1, <2>5 DEF Active
  <2>6. CASE Retrieve
    <3>1. PICK q, n : LET rest == IF Class(Head(q)) = 2 THEN Tail(q) ELSE q
                      IN  Expects(Head(rest), {1},
                                  IF q[Len(q)].code = 150 THEN "data" ELSE "nodata")
      BY <2>6 DEF Retrieve
    <3>2. PICK r : Expects(r, {1}, IF q[Len(q)].code = 150 THEN "data" ELSE "nodata")
      BY <3>1
    <3> QED BY <2>1, <3>2
  <2> QED BY <1>10, <2>2, <2>3, <2>4, <2>5, <2>6
<1>11. CASE TransferEnds
  <2>1. PICK r : Received(r) \/ Refused(r) \/ Raises
    BY <1>11 DEF TransferEnds
  <2>2. pc = "data"
    BY <1>11 DEF TransferEnds
  <2>3. CASE Received(r)
    <3>1. \/ Goes("mlst") \/ (cmd = "LIST" /\ Goes("mdtm")) \/ Raises
          \/ \E v, a, m : Returns(v, a, m)
      BY <2>3 DEF Received, OwnInv
    <3> QED BY <1>4, <2>2, <3>1 DEF Goes
  <2> QED BY <1>4, <1>5, <2>1, <2>2, <2>3
<1> QED
  BY <1>1, <1>2, <1>3, <1>8, <1>9, <1>10, <1>11 DEF Next

\* At the end of a call nothing is left to show but what it has published.
LEMMA IdleChecks ==
  ASSUME FlowInv, pc # "idle", pc' = "idle", UNCHANGED published
  PROVE  RecentInv' /\ OwnLeft' /\ FirstOwn' /\ PassiveInv' /\ PublishedIsChecked'
  BY DEF FlowInv, RecentInv, Preparing, OwnLeft, Checking, FirstOwn, PassiveInv, PublishedIsChecked

\* An exception or a result ends the call.
LEMMA StepsDown ==
  ASSUME NEW v, NEW a, NEW m, Raises \/ Returns(v, a, m) PROVE pc' = "idle" /\ UNCHANGED published
  BY DEF Raises, Returns

\* A command's reply is read while download() checks, or before it does.
LEMMA AnswersCheck ==
  ASSUME QueueInv, OwnLeft, FirstOwn, pc \notin {"data", "idle"},
         UNCHANGED <<path, passive, abandoned, info>>, Checking' => Checking,
         NEW c \in {"OPTS", "TYPE", "PORT", "PASV", "MLST", "MDTM"}, NEW q \in Sends(c),
         unread' = Tail(q)
  PROVE  OwnLeft' /\ FirstOwn'
<1>1. /\ Len(unread') = Len(unread) /\ Len(unread) \in Nat /\ unread' \in Seq(Replies)
      /\ \A i \in 1 .. Len(unread) - 1 : unread'[i] = unread[i + 1]
      /\ Len(unread) > 0 => unread'[Len(unread)].path = path
  BY Answers DEF QueueInv
<1>2. unread = <<>> <=> unread' = <<>>
  BY <1>1 DEF QueueInv
<1>3. ASSUME \A i \in 1 .. Len(unread) : unread[i].path = path, NEW i \in 1 .. Len(unread')
      PROVE  unread'[i].path = path
  <2>1. CASE i = Len(unread)
    BY <1>1, <2>1
  <2>2. CASE i # Len(unread)
    <3>1. i \in 1 .. Len(unread) - 1 /\ i + 1 \in 1 .. Len(unread)
      BY <1>1, <2>2
    <3> QED BY <1>1, <1>3, <3>1
  <2> QED BY <2>1, <2>2
<1>4. OwnLeft'
  <2>1. ASSUME Checking'
        PROVE  /\ Checking
               /\ abandoned < 6 => \A i \in 1 .. Len(unread) : unread[i].path = path
    BY <2>1 DEF OwnLeft
  <2> QED BY <1>2, <1>3, <2>1 DEF OwnLeft
<1>5. FirstOwn'
  BY <1>2 DEF FirstOwn
<1> QED BY <1>4, <1>5

\* The next step of a preparation: one more of the last replies is its own.
LEMMA PreparesOn ==
  ASSUME QueueInv, RecentInv, path' = path, cmd' = cmd,
         \/ pc = "type" /\ pc' = "pasv"
         \/ pc = "pasv" /\ pc' = "retr",
         NEW c \in {"TYPE", "PORT", "PASV"}, NEW q \in Sends(c), unread' = Tail(q)
  PROVE  RecentInv'
<1>1. /\ Len(unread') = Len(unread) /\ Len(unread) \in Nat
      /\ \A i \in 1 .. Len(unread) - 1 : unread'[i] = unread[i + 1]
      /\ Len(unread) > 0 => /\ unread'[Len(unread)].to = c
                            /\ unread'[Len(unread)].path = path
                            /\ Class(unread'[Len(unread)]) # 1
  BY Answers DEF QueueInv
<1>2. Since \in {1, 2} /\ Since' = Since + 1
  BY DEF Since
<1>3. ASSUME Preparing', NEW i \in 1 .. Len(unread'), i > Len(unread') - Since'
      PROVE  Recent(unread[i])' 
  <2>1. Preparing
    BY <1>3 DEF Preparing
  <2>2. CASE i = Len(unread)
    BY <1>1, <2>2 DEF Recent
  <2>3. CASE i # Len(unread)
    <3>1. i \in 1 .. Len(unread) - 1 /\ i + 1 \in 1 .. Len(unread)
      BY <1>1, <2>3
    <3>2. i + 1 > Len(unread) - Since
      BY <1>1, <1>2, <1>3
    <3> QED BY <1>1, <2>1, <3>1, <3>2 DEF RecentInv, Recent
  <2> QED BY <2>2, <2>3
<1> QED BY <1>3 DEF RecentInv

\* stat() with the reply to an MLST or MDTM: it starts a download's
\* preparation, or ends its check.
LEMMA StatReturnsCheck ==
  ASSUME OwnInv, QueueInv, FlowInv, OwnLeft, FirstOwn,
         pc \in {"mlst", "mdtm"}, Keeps, NEW c \in {"MLST", "MDTM"}, NEW q \in Sends(c),
         unread' = Tail(q), NEW about \in {path, Head(q).path}, NEW method,
         StatReturns(about, method)
  PROVE  RecentInv' /\ OwnLeft' /\ FirstOwn' /\ PassiveInv' /\ PublishedIsChecked'
<1>1. /\ Len(unread') = Len(unread) /\ Len(unread) \in Nat
      /\ Len(unread) > 0 => /\ Head(q) = unread[1]
                            /\ unread'[Len(unread)].to = c
                            /\ unread'[Len(unread)].path = path
                            /\ Class(unread'[Len(unread)]) # 1
      /\ Len(unread) = 0 => Head(q).path = path
  BY Answers DEF QueueInv
<1>2. UNCHANGED <<path, passive, abandoned>>
  BY DEF Keeps, Handles, call, options
<1>3. /\ unread \in Seq(Replies) /\ unread' \in Seq(Replies)
      /\ Len(unread) <= abandoned /\ abandoned \in Nat
  <2>1. unread' \in Seq(Replies)
    BY Answers DEF QueueInv
  <2> QED BY <2>1 DEF QueueInv
<1>4. unread = <<>> <=> Len(unread) = 0
  BY <1>3
<1>5. unread = <<>> => about = path
  BY <1>1, <1>4
<1>6. CASE pc' = "idle" /\ UNCHANGED published
  BY <1>6, IdleChecks
<1>7. CASE /\ info = None /\ pc' = "type" /\ info' = about /\ cmd' = "RETR"
           /\ UNCHANGED <<answer, published>>
  <2>1. ASSUME NEW i \in 1 .. Len(unread'), i > Len(unread') - 1
        PROVE  Recent(unread[i])'
    <3>1. i = Len(unread)
      BY <1>1, <2>1
    <3> QED BY <1>1, <1>2, <3>1 DEF Recent
  <2>2. RecentInv'
    BY <1>7, <2>1 DEF RecentInv, Since
  <2>3. OwnLeft' /\ PassiveInv'
    BY <1>7 DEF OwnLeft, Checking, PassiveInv
  <2>4. FirstOwn'
    <3>1. abandoned = 0 \/ unread' = <<>> => unread = <<>>
      BY <1>1, <1>3
    <3> QED BY <1>2, <1>5, <1>7, <3>1 DEF FirstOwn
  <2>5. PublishedIsChecked'
    BY <1>7 DEF FlowInv, PublishedIsChecked
  <2> QED BY <2>2, <2>3, <2>4, <2>5
<1>8. CASE /\ info # None /\ pc' = "idle" /\ published' = [first |-> info, last |-> about]
  <2>1. Checking
    BY <1>8 DEF Checking, FlowInv
  <2>2. passive \/ abandoned < 6 => about = path
    <3>1. CASE unread = <<>>
      BY <1>5, <3>1
    <3>2. CASE unread # <<>>
      <4>1. Len(unread) > 0 /\ 1 \in 1 .. Len(unread)
        BY <1>1, <1>4, <3>2
      <4>2. abandoned < 6 => unread[1].path = path
        BY <2>1, <4>1 DEF OwnLeft
      <4>3. ~passive
        BY <2>1, <3>2 DEF OwnLeft
      <4> QED BY <1>1, <4>1, <4>2, <4>3
    <3> QED BY <3>1, <3>2
  <2>3. passive \/ abandoned = 0 => info = path
    <3>1. passive => unread = <<>>
      BY <2>1 DEF OwnLeft
    <3> QED BY <1>8, <3>1 DEF FirstOwn
  <2>4. published'.first = info /\ published'.last = about
    BY <1>8
  <2>5. PublishedIsChecked'
    BY <1>2, <2>2, <2>3, <2>4 DEF PublishedIsChecked
  <2> QED
    BY <1>8, <2>5 DEF RecentInv, Preparing, OwnLeft, Checking, FirstOwn, PassiveInv
<1>9. CASE op # "download" \/ Raises
  <2>1. pc' = "idle" /\ UNCHANGED published
    BY <1>9 DEF StatReturns, Raises, Returns
  <2> QED BY <1>6, <2>1
<1>10. CASE ~(op # "download" \/ Raises)
  BY <1>7, <1>8, <1>10 DEF StatReturns
<1> QED BY <1>9, <1>10

LEMMA StatCheck == ASSUME OwnInv, PublishInv, FlowInv', Stat \/ LegacyModifiedTime
                   PROVE  RecentInv' /\ OwnLeft' /\ FirstOwn' /\ PassiveInv' /\ PublishedIsChecked'
<1> DEFINE G == RecentInv' /\ OwnLeft' /\ FirstOwn' /\ PassiveInv' /\ PublishedIsChecked'
<1>1. pc \in {"mlst", "mdtm"} /\ Keeps /\ UNCHANGED <<path, passive, abandoned>>
  BY DEF Stat, LegacyModifiedTime, Keeps, Handles, call, options
<1>2. ASSUME Raises \/ (\E v, a, m : Returns(v, a, m)) PROVE G
  <2>1. pc' = "idle" /\ UNCHANGED published
    BY <1>2, StepsDown
  <2> QED BY <1>1, <2>1, IdleChecks DEF PublishInv
<1>3. CASE Stat
  <2>1. PICK q \in Sends("MLST") :
          /\ unread' = Tail(q)
          /\ \/ StatReturns(Head(q).path, "mlst")
             \/ pc' = "type" /\ cmd' = "LIST" /\ UNCHANGED <<info, answer, published>>
             \/ NotFound(Head(q), "mlst") \/ Raises
    BY <1>3 DEF Stat
  <2>2. CASE StatReturns(Head(q).path, "mlst")
    BY <1>1, <2>1, <2>2, StatReturnsCheck DEF PublishInv
  <2>3. CASE pc' = "type" /\ cmd' = "LIST" /\ UNCHANGED <<info, answer, published>>
    <3>1. pc = "mlst"
      BY <1>3 DEF Stat
    <3>2. Checking' => Checking
      BY <2>3, <3>1 DEF Checking
    <3>3. OwnLeft' /\ FirstOwn'
      BY <1>1, <2>1, <2>3, <3>1, <3>2, AnswersCheck DEF PublishInv
    <3>4. RecentInv' /\ PassiveInv' /\ PublishedIsChecked'
      BY <2>3, <3>1 DEF RecentInv, Preparing, PassiveInv, PublishInv, FlowInv, PublishedIsChecked
    <3> QED BY <3>3, <3>4
  <2>4. CASE NotFound(Head(q), "mlst") \/ Raises
    BY <1>2, <2>4 DEF NotFound
  <2> QED BY <2>1, <2>2, <2>3, <2>4
<1>4. CASE LegacyModifiedTime
  <2>1. PICK q \in Sends("MDTM") :
          /\ unread' = Tail(q)
          /\ \/ StatReturns(IF Head(q).code = 213 THEN Head(q).path ELSE path, "legacy")
             \/ Raises
    BY <1>4 DEF LegacyModifiedTime
  <2>2. CASE StatReturns(IF Head(q).code = 213 THEN Head(q).path ELSE path, "legacy")
    BY <1>1, <2>1, <2>2, StatReturnsCheck DEF PublishInv
  <2>3. CASE Raises
    BY <1>2, <2>3
  <2> QED BY <2>1, <2>2, <2>3
<1> QED BY <1>3, <1>4

\* The parts of the invariant about download().
Checks == RecentInv /\ OwnLeft /\ FirstOwn /\ PassiveInv /\ PublishedIsChecked

\* A refused command ends the call, or list_files tries the next one.
LEMMA RefusedGoes ==
  ASSUME NEW r, Refused(r)
  PROVE  \/ pc' = "idle" /\ UNCHANGED published
         \/ /\ cmd \in {"MLSD", "MLSD+"} /\ cmd' \in {"MLSD", "LIST"} /\ pc' = "type"
            /\ UNCHANGED <<info, answer, published>>
  BY DEF Refused, NotFound, Raises, Returns

LEMMA PrepareCheck ==
  ASSUME OwnInv, PublishInv, SetOptions \/ SetType \/ Passive \/ Active
  PROVE  Checks'
<1>1. /\ pc \in {"opts", "type", "pasv"} /\ Keeps
      /\ UNCHANGED <<path, passive, abandoned>>
  BY DEF SetOptions, SetType, Passive, Active, Keeps, Handles, call, options
<1>2. ASSUME pc' = "idle", UNCHANGED published PROVE Checks'
  BY <1>1, <1>2, IdleChecks DEF PublishInv, Checks
<1>3. ASSUME NEW c \in {"OPTS", "TYPE", "PORT", "PASV"}, NEW q \in Sends(c), unread' = Tail(q),
             UNCHANGED <<info, answer, published>>, Checking' => Checking, RecentInv', PassiveInv'
      PROVE  Checks'
  <2>1. OwnLeft' /\ FirstOwn'
    BY <1>1, <1>3, AnswersCheck DEF PublishInv
  <2>2. PublishedIsChecked'
    BY <1>1, <1>3 DEF PublishInv, FlowInv, PublishedIsChecked
  <2> QED BY <1>3, <2>1, <2>2 DEF Checks
<1>4. ASSUME NEW c \in {"OPTS", "TYPE", "PORT", "PASV"}, NEW q \in Sends(c), unread' = Tail(q),
             NEW r, Refused(r)
      PROVE  Checks'
  <2>1. CASE pc' = "idle" /\ UNCHANGED published
    BY <1>2, <2>1
  <2>2. CASE /\ cmd \in {"MLSD", "MLSD+"} /\ cmd' \in {"MLSD", "LIST"} /\ pc' = "type"
             /\ UNCHANGED <<info, answer, published>>
    <3>1. Checking' => Checking
      BY <1>1, <2>2 DEF Checking, PublishInv, FlowInv
    <3>2. RecentInv' /\ PassiveInv'
      BY <2>2 DEF RecentInv, Preparing, PassiveInv
    <3> QED BY <1>3, <1>4, <2>2, <3>1, <3>2
  <2> QED BY <1>4, <2>1, <2>2, RefusedGoes
<1>5. CASE SetOptions
  <2>1. PICK q \in Sends("OPTS") : unread' = Tail(q) /\ Expects(Head(q), {1, 2, 3}, "type")
    BY <1>5 DEF SetOptions
  <2>2. CASE Goes("type")
    <3>1. /\ pc = "opts" /\ cmd' = "MLSD+" /\ pc' = "type" /\ info' = None
          /\ UNCHANGED <<info, answer, published>>
      BY <1>5, <2>2 DEF SetOptions, Goes, PublishInv, FlowInv
    <3>2. RecentInv' /\ PassiveInv' /\ (Checking' => Checking)
      BY <3>1 DEF RecentInv, Preparing, PassiveInv, Checking
    <3> QED BY <1>3, <2>1, <3>1, <3>2
  <2>3. CASE Refused(Head(q))
    BY <1>4, <2>1, <2>3
  <2>4. CASE Raises
    BY <1>2, <2>4, StepsDown
  <2> QED BY <2>1, <2>2, <2>3, <2>4 DEF Expects
<1>6. CASE SetType
  <2>1. PICK q \in Sends("TYPE") : unread' = Tail(q) /\ (Goes("pasv") \/ Refused(Head(q)) \/ Raises)
    BY <1>6 DEF SetType, Expects
  <2>2. CASE Goes("pasv")
    <3>1. /\ pc = "type" /\ cmd' = cmd /\ pc' = "pasv"
          /\ UNCHANGED <<info, answer, published>>
      BY <1>6, <2>2 DEF SetType, Goes
    <3>2. PassiveInv' /\ (Checking' => Checking)
      BY <3>1 DEF PassiveInv, Checking
    <3>3. RecentInv'
      BY <1>1, <2>1, <3>1, PreparesOn DEF PublishInv
    <3> QED BY <1>3, <2>1, <3>1, <3>2, <3>3
  <2>3. CASE Refused(Head(q))
    BY <1>4, <2>1, <2>3
  <2>4. CASE Raises
    BY <1>2, <2>4, StepsDown
  <2> QED BY <2>1, <2>2, <2>3, <2>4
<1>7. CASE Passive \/ Active
  <2>1. PICK c \in {"PASV", "PORT"} : \E q \in Sends(c) :
           /\ unread' = Tail(q)
           /\ (Goes("retr") /\ (passive => Tail(q) = <<>>)) \/ Refused(Head(q)) \/ Raises
    <3>1. CASE Active
      BY <3>1 DEF Active, Expects
    <3>2. CASE Passive
      <4>1. PICK q \in Sends("PASV") :
               /\ unread' = Tail(q)
               /\ \/ Tail(q) = <<>> /\ Goes("retr")
                  \/ Raises
                  \/ Expects(Head(q), {1, 2, 3}, "retr") /\ Class(Head(q)) > 3
        BY <3>2 DEF Passive
      <4>2. Expects(Head(q), {1, 2, 3}, "retr") /\ Class(Head(q)) > 3 =>
              Refused(Head(q)) \/ Raises
        BY DEF Expects
      <4> QED BY <4>1, <4>2
    <3> QED BY <1>7, <3>1, <3>2
  <2>2. PICK q \in Sends(c) :
           /\ unread' = Tail(q)
           /\ (Goes("retr") /\ (passive => Tail(q) = <<>>)) \/ Refused(Head(q)) \/ Raises
    BY <2>1
  <2>3. CASE Goes("retr") /\ (passive => Tail(q) = <<>>)
    <3>1. /\ pc = "pasv" /\ cmd' = cmd /\ pc' = "retr"
          /\ UNCHANGED <<info, answer, published>>
      BY <1>7, <2>3 DEF Passive, Active, Goes
    <3>2. PassiveInv' /\ (Checking' => Checking)
      BY <1>1, <2>2, <2>3, <3>1 DEF PassiveInv, Checking
    <3>3. RecentInv'
      BY <1>1, <2>2, <3>1, PreparesOn DEF PublishInv
    <3> QED BY <1>3, <2>2, <3>1, <3>2, <3>3
  <2>4. CASE Refused(Head(q))
    BY <1>4, <2>2, <2>4
  <2>5. CASE Raises
    BY <1>2, <2>5, StepsDown
  <2> QED BY <2>2, <2>3, <2>4, <2>5
<1> QED BY <1>5, <1>6, <1>7

LEMMA RetrieveCheck == ASSUME OwnInv, PublishInv, Retrieve PROVE Checks'
<1>1. PICK rest \in Seq(Replies), k \in {0, 1}, n \in {226, 426} :
           /\ Len(rest) = Len(unread) + 1 - k /\ Len(rest) > 0
           /\ \A i \in 1 .. Len(unread) - k : rest[i] = unread[i + k]
           /\ rest[Len(rest)].path = path /\ rest[Len(rest)].to # "end"
           /\ \/ /\ Class(rest[1]) = 1 /\ Goes("data")
                 /\ unread' = Tail(rest) /\ abandoned' = abandoned
              \/ /\ Class(rest[Len(rest)]) # 1
                 /\ Goes("nodata") \/ Raises \/ Refused(rest[1])
                 /\ unread' = Tail(rest) /\ abandoned' = abandoned
              \/ /\ Len(rest) > 1
                 /\ Raises \/ Refused(rest[1])
                 /\ unread' = Append(Tail(rest), LastReply(n)) /\ abandoned' = abandoned + 1
  BY Retrieved DEF PublishInv
<1>2. /\ pc = "retr" /\ UNCHANGED <<path, passive>> /\ path \in Paths
      /\ unread \in Seq(Replies) /\ Len(unread) \in Nat /\ Len(unread) <= abandoned
      /\ abandoned \in Nat
  BY DEF Retrieve, Handles, call, options, PublishInv, QueueInv
<1>3. /\ Tail(rest) \in Seq(Replies) /\ Len(Tail(rest)) = Len(rest) - 1 /\ Len(rest) \in Nat
      /\ \A i \in 1 .. Len(rest) - 1 : Tail(rest)[i] = rest[i + 1]
  BY <1>1, TailShape
<1>4. passive => Len(rest) = 1 /\ Len(unread) = 0
  <2>1. passive => unread = <<>>
    BY <1>2 DEF PublishInv, PassiveInv
  <2>2. unread = <<>> => Len(unread) = 0
    OBVIOUS
  <2> QED BY <1>1, <1>2, <2>1, <2>2
<1>5. Len(rest) = 1 => Tail(rest) = <<>>
  <2> SUFFICES ASSUME Len(rest) = 1 PROVE Tail(rest) = <<>>
    OBVIOUS
  <2>1. Len(Tail(rest)) = 1 - 1
    BY <1>3
  <2>2. Len(Tail(rest)) \notin Nat \ {0}
    BY <2>1
  <2> QED BY <1>3, <2>2, EmptySeq
\* What is read before the transfer's own reply.
<1>6. ASSUME NEW i \in 1 .. Len(rest)
      PROVE  \/ i = Len(rest)
             \/ i + k \in 1 .. Len(unread) /\ rest[i] = unread[i + k]
  <2>1. CASE i # Len(rest)
    <3>1. i \in 1 .. Len(unread) - k /\ i + k \in 1 .. Len(unread)
      BY <1>1, <1>2, <1>3, <2>1
    <3> QED BY <1>1, <3>1
  <2> QED BY <2>1
<1>7. ASSUME \A i \in 1 .. Len(unread) : unread[i].path = path, NEW i \in 1 .. Len(rest)
      PROVE  rest[i].path = path
  BY <1>1, <1>6, <1>7
<1>8. FirstOwn /\ (abandoned' = 0 => abandoned = 0) /\ (passive => unread = <<>>)
  <2>1. abandoned' = 0 => abandoned = 0
    BY <1>1, <1>2
  <2> QED BY <1>2, <2>1 DEF PublishInv, PassiveInv
<1>9. ASSUME UNCHANGED <<info, answer, published>> PROVE FirstOwn' /\ PublishedIsChecked'
  BY <1>2, <1>8, <1>9 DEF FirstOwn, PublishInv, FlowInv, PublishedIsChecked
<1>10. ASSUME Raises PROVE Checks'
  <2>1. pc' = "idle" /\ UNCHANGED published
    BY <1>10, StepsDown
  <2> QED BY <1>2, <2>1, IdleChecks DEF PublishInv, Checks
<1>11. ASSUME Goes("data"), Class(rest[1]) = 1, unread' = Tail(rest), abandoned' = abandoned
       PROVE  Checks'
  <2>1. pc' = "data" /\ cmd' = cmd /\ UNCHANGED <<info, answer, published>>
    BY <1>11 DEF Goes
  <2>2. RecentInv' /\ PassiveInv'
    BY <2>1 DEF RecentInv, Preparing, PassiveInv
  <2>3. passive' => unread' = <<>>
    BY <1>2, <1>4, <1>5, <1>11
  <2>4. ASSUME Checking', abandoned' < 6, NEW i \in 1 .. Len(unread'), i > 1
        PROVE  unread'[i].path = path'
    <3>1. i \in 1 .. Len(rest) - 1 /\ i + 1 \in 1 .. Len(rest) /\ unread'[i] = rest[i + 1]
      BY <1>3, <1>11, <2>4
    <3>2. CASE Preparing
      <4>1. \A j \in 1 .. Len(unread) : j > Len(unread) - 3 => Recent(unread[j])
        BY <1>2, <3>2 DEF PublishInv, RecentInv, Since
      <4>2. CASE i + 1 = Len(rest)
        BY <1>1, <1>2, <3>1, <4>2
      <4>3. CASE i + 1 # Len(rest)
        <5>1. i + 1 + k \in 1 .. Len(unread) /\ rest[i + 1] = unread[i + 1 + k]
          BY <1>6, <3>1, <4>3
        <5>2. 1 + k \in 1 .. Len(unread) /\ 1 \in 1 .. Len(rest) /\ 1 # Len(rest)
          BY <1>1, <1>2, <1>3, <2>4, <3>1, <5>1
        <5>3. Class(unread[1 + k]) = 1
          BY <1>6, <1>11, <5>2
        <5>4. 1 + k # Len(unread) /\ unread[1 + k + 1].to = "end"
          BY <1>2, <5>2, <5>3 DEF PublishInv, QueueInv
        <5>5. 1 + k + 1 \in 1 .. Len(unread)
          BY <1>2, <5>2, <5>4
        <5>6. ~(1 + k + 1 > Len(unread) - 3)
          BY <4>1, <5>4, <5>5 DEF Recent
        <5>7. Len(unread) <= 5
          BY <1>2, <1>11, <2>4
        <5>8. i + 1 + k > Len(unread) - 3
          BY <1>2, <2>4, <5>6, <5>7
        <5> QED BY <1>2, <3>1, <4>1, <5>1, <5>8 DEF Recent
      <4> QED BY <4>2, <4>3
    <3>3. CASE ~Preparing
      <4>1. Checking /\ pc # "data"
        BY <1>2, <2>1, <2>4, <3>3 DEF Checking, Preparing
      <4>2. \A j \in 1 .. Len(unread) : unread[j].path = path
        BY <1>11, <2>4, <4>1 DEF PublishInv, OwnLeft
      <4> QED BY <1>2, <1>7, <3>1, <4>2
    <3> QED BY <3>2, <3>3
  <2>5. OwnLeft'
    BY <2>1, <2>3, <2>4 DEF OwnLeft
  <2> QED BY <1>9, <2>1, <2>2, <2>5 DEF Checks
<1>12. ASSUME Goes("nodata") PROVE Checks'
  <2>1. pc' = "nodata" /\ UNCHANGED <<info, answer, published>>
    BY <1>12 DEF Goes
  <2>2. RecentInv' /\ PassiveInv' /\ OwnLeft'
    BY <2>1 DEF RecentInv, Preparing, PassiveInv, OwnLeft, Checking
  <2> QED BY <1>9, <2>1, <2>2 DEF Checks
<1>13. ASSUME Refused(rest[1]),
              \/ unread' = Tail(rest) /\ abandoned' = abandoned
              \/ /\ Len(rest) > 1
                 /\ unread' = Append(Tail(rest), LastReply(n)) /\ abandoned' = abandoned + 1
       PROVE  Checks'
  <2>1. CASE pc' = "idle" /\ UNCHANGED published
    BY <1>2, <2>1, IdleChecks DEF PublishInv, Checks
  <2>2. CASE /\ cmd \in {"MLSD", "MLSD+"} /\ cmd' \in {"MLSD", "LIST"} /\ pc' = "type"
             /\ UNCHANGED <<info, answer, published>>
    <3>1. RecentInv' /\ PassiveInv' /\ (Checking' => Checking)
      BY <1>2, <2>2 DEF RecentInv, Preparing, PassiveInv, Checking
    <3>2. passive' => unread' = <<>>
      BY <1>2, <1>4, <1>5, <1>13
    <3>3. ASSUME Checking', abandoned' < 6, NEW i \in 1 .. Len(unread')
          PROVE  unread'[i].path = path'
      <4>1. abandoned < 6
        BY <1>2, <1>13, <3>3
      <4>2. \A j \in 1 .. Len(unread) : unread[j].path = path
        BY <1>2, <3>1, <3>3, <4>1 DEF PublishInv, OwnLeft
      <4>3. \A j \in 1 .. Len(rest) - 1 : Tail(rest)[j].path = path
        <5> TAKE j \in 1 .. Len(rest) - 1
        <5>1. j + 1 \in 1 .. Len(rest)
          BY <1>3
        <5> QED BY <1>3, <1>7, <4>2, <5>1
      <4>4. CASE unread' = Tail(rest)
        BY <1>2, <1>3, <4>3, <4>4
      <4>5. CASE unread' = Append(Tail(rest), LastReply(n))
        <5>1. LastReply(n) \in Replies /\ LastReply(n).path = path
          BY <1>2, LastReplyShape
        <5>2. /\ Len(unread') = Len(rest) - 1 + 1 /\ unread'[Len(rest) - 1 + 1] = LastReply(n)
              /\ \A j \in 1 .. Len(rest) - 1 : unread'[j] = Tail(rest)[j]
          BY <1>3, <4>5, <5>1, AppendProperties
        <5>3. i \in 1 .. Len(rest) - 1 \/ i = Len(rest) - 1 + 1
          <6>1. i \in 1 .. Len(rest) - 1 + 1 /\ Len(rest) - 1 \in Nat
            BY <1>1, <1>3, <3>3, <5>2
          <6> QED BY <6>1
        <5> QED BY <1>2, <4>3, <5>1, <5>2, <5>3
      <4> QED BY <1>13, <4>4, <4>5
    <3>4. OwnLeft'
      BY <3>2, <3>3 DEF OwnLeft
    <3> QED BY <1>9, <2>2, <3>1, <3>4 DEF Checks
  <2> QED BY <1>13, <2>1, <2>2, RefusedGoes
<1> QED BY <1>1, <1>10, <1>11, <1>12, <1>13

LEMMA EndCheck == ASSUME OwnInv, PublishInv, TransferEnds PROVE Checks'
<1>1. PICK n \in {226, 426} :
        /\ unread' = Tail(Append(unread, LastReply(n)))
        /\ LET r == Head(Append(unread, LastReply(n)))
           IN  Received(r) \/ Refused(r) \/ Raises
  BY DEF TransferEnds
<1>2. PICK r : Received(r) \/ Refused(r) \/ Raises
  BY <1>1
<1>3. /\ pc = "data" /\ UNCHANGED <<path, passive, abandoned>> /\ path \in Paths
      /\ unread \in Seq(Replies) /\ Len(unread) \in Nat
  BY DEF TransferEnds, Keeps, Handles, call, options, PublishInv, QueueInv
<1> DEFINE q == Append(unread, LastReply(n))
<1>4. LastReply(n) \in Replies /\ LastReply(n).path = path
  BY <1>3, LastReplyShape
<1>5. /\ q \in Seq(Replies) /\ Len(q) = Len(unread) + 1 /\ q[Len(unread) + 1] = LastReply(n)
      /\ \A i \in 1 .. Len(unread) : q[i] = unread[i]
  BY <1>3, <1>4, AppendProperties
<1>6. /\ Tail(q) \in Seq(Replies) /\ Len(Tail(q)) = Len(q) - 1
      /\ \A i \in 1 .. Len(q) - 1 : Tail(q)[i] = q[i + 1]
  BY <1>3, <1>5, TailShape
<1>7. unread' = Tail(q)
  BY <1>1
<1> HIDE DEF q
<1>8. Len(unread') = Len(unread) /\ unread' \in Seq(Replies) /\ (unread' = <<>> <=> unread = <<>>)
  <2>1. Len(unread') = Len(unread) /\ unread' \in Seq(Replies)
    BY <1>3, <1>5, <1>6, <1>7
  <2> QED BY <1>3, <2>1
<1>9. ASSUME \A i \in 1 .. Len(unread) : i > 1 => unread[i].path = path, NEW i \in 1 .. Len(unread')
      PROVE  unread'[i].path = path
  <2>1. i \in 1 .. Len(q) - 1 /\ unread'[i] = q[i + 1]
    BY <1>3, <1>5, <1>6, <1>7, <1>8
  <2>2. i + 1 = Len(unread) + 1 \/ (i + 1 \in 1 .. Len(unread) /\ i + 1 > 1)
    BY <1>3, <1>8, <2>1
  <2> QED BY <1>4, <1>5, <1>9, <2>1, <2>2
<1>10. ASSUME pc' = "idle", UNCHANGED published PROVE Checks'
  BY <1>3, <1>10, IdleChecks DEF PublishInv, Checks
<1>11. ASSUME pc' \in {"mlst", "mdtm", "type"}, pc' = "type" => cmd' # "RETR",
              pc' = "mdtm" => cmd = "LIST", UNCHANGED <<info, answer, published>>
       PROVE  Checks'
  <2>1. RecentInv' /\ PassiveInv' /\ (Checking' => Checking)
    BY <1>3, <1>11 DEF RecentInv, Preparing, PassiveInv, Checking
  <2>2. OwnLeft'
    <3>1. ASSUME Checking'
          PROVE  /\ passive => unread = <<>>
                 /\ abandoned < 6 => \A i \in 1 .. Len(unread) : i > 1 => unread[i].path = path
      BY <2>1, <3>1 DEF PublishInv, OwnLeft
    <3> QED BY <1>3, <1>8, <1>9, <3>1 DEF OwnLeft
  <2>3. FirstOwn' /\ PublishedIsChecked'
    BY <1>3, <1>8, <1>11 DEF PublishInv, FlowInv, FirstOwn, PublishedIsChecked
  <2> QED BY <2>1, <2>2, <2>3 DEF Checks
<1>12. CASE Refused(r)
  BY <1>10, <1>11, <1>12, RefusedGoes
<1>13. CASE Received(r)
  <2>1. \/ Goes("mlst") \/ (cmd = "LIST" /\ Goes("mdtm")) \/ Raises
        \/ \E v, a, m : Returns(v, a, m)
    BY <1>13 DEF Received, OwnInv
  <2>2. CASE Goes("mlst") \/ (cmd = "LIST" /\ Goes("mdtm"))
    BY <1>11, <2>2 DEF Goes
  <2> QED BY <1>10, <2>1, <2>2, StepsDown
<1>14. CASE Raises
  BY <1>10, <1>14, StepsDown
<1> QED BY <1>2, <1>12, <1>13, <1>14

LEMMA NextPublishInv == OwnInv /\ PublishInv /\ [Next]_vars => PublishInv'
<1> SUFFICES ASSUME OwnInv, PublishInv, [Next]_vars PROVE PublishInv'
  OBVIOUS
<1>1. CASE UNCHANGED vars
  BY <1>1 DEF vars, server, options, control, call, PublishInv, QueueInv, FlowInv, RecentInv,
              Preparing, Since, Recent, OwnLeft, Checking, FirstOwn, PassiveInv, PublishedIsChecked
<1>2. CASE Next
  <2>1. QueueInv' /\ FlowInv'
    BY <1>2, QueueStep, FlowStep DEF PublishInv
  <2>2. ASSUME NEW o \in Ops, NEW p \in Paths, Start(o, p) PROVE Checks'
    BY <2>2 DEF Start, Checks, RecentInv, Preparing, OwnLeft, Checking, FirstOwn, PassiveInv,
                PublishedIsChecked
  <2>3. ASSUME Connect PROVE Checks'
    BY <2>3 DEF Connect, Goes, PublishInv, FlowInv, Checks, RecentInv, Preparing, OwnLeft,
                Checking, FirstOwn, PassiveInv, PublishedIsChecked
  <2>4. ASSUME ConnectFails \/ ControlFails \/ TransferAborts \/ NoData PROVE Checks'
    <3>1. pc # "idle" /\ pc' = "idle" /\ UNCHANGED published
      BY <2>4 DEF ConnectFails, ControlFails, TransferAborts, NoData, Raises
    <3> QED BY <3>1, IdleChecks DEF PublishInv, Checks
  <2>5. ASSUME Close PROVE Checks'
    BY <2>5 DEF Close, Checks, RecentInv, Preparing, OwnLeft, Checking, FirstOwn, PassiveInv,
                PublishedIsChecked
  <2>6. Checks'
    BY <1>2, <2>1, <2>2, <2>3, <2>4, <2>5, StatCheck, PrepareCheck, RetrieveCheck, EndCheck
       DEF Next, Checks
  <2> QED BY <2>1, <2>6 DEF PublishInv, Checks
<1> QED BY <1>1, <1>2

\* In passive mode both the metadata before a download's transfer and those
\* after it are its own path's, whatever was left unread before; in active mode
\* the last ones are while fewer than six transfers were left since connect(),
\* and the first ones if none was.
THEOREM PublishedChecked == Spec => []PublishedIsChecked
<1>1. OwnInv /\ PublishInv => PublishedIsChecked
  BY DEF PublishInv
<1> QED BY <1>1, InitOwnInv, NextOwnInv, InitPublishInv, NextPublishInv, PTL DEF Spec

=============================================================================
