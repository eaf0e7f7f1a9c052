-------------------------- MODULE Download_proofs --------------------------
(***************************************************************************)
(* Machine-checked proofs about Download, for any number of calls, any     *)
(* versions of the remote file and any limit, and about TransferTool, for  *)
(* any of the calls being invocations of the tool.                         *)
(***************************************************************************)
EXTENDS TransferTool, TLAPS

LEMMA VersionsAreNumbers == Versions \subseteq Nat
  BY DownloadAssumption DEF Versions

\* Sequences of versions as functions.
LEMMA SeqFacts ==
  ASSUME NEW s \in Seq(Versions), NEW v \in Versions
  PROVE  /\ Len(s) \in Nat
         /\ \A i \in 1 .. Len(s) : s[i] \in Versions
         /\ Append(s, v) \in Seq(Versions)
         /\ Len(Append(s, v)) = Len(s) + 1
         /\ \A i \in 1 .. Len(s) : Append(s, v)[i] = s[i]
         /\ Append(s, v)[Len(s) + 1] = v
  OBVIOUS

\* Chunks that are all of one version, as many as it has, are its content.
LEMMA ContentFact ==
  ASSUME NEW s \in Seq(Versions), NEW v \in Versions,
         Len(s) = Size[v], \A i \in 1 .. Len(s) : s[i] = v
  PROVE  s = Content(v)
<1>1. Content(v) \in Seq(Versions) /\ Len(Content(v)) = Size[v]
  BY DownloadAssumption DEF Content
<1> QED
  BY <1>1 DEF Content

LEMMA InitTypeOK == Init => TypeOK
<1>1. <<>> \in Seq(Versions)
  OBVIOUS
<1>2. Init => data \in [Calls -> Seq(Versions)]
  BY <1>1 DEF Init
<1>3. Init => pc \in [Calls -> Labels] /\ info \in [Calls -> Versions \cup {None}]
  BY DEF Init, Labels
<1> QED
  BY <1>2, <1>3 DEF Init, TypeOK

LEMMA NextTypeOK == TypeOK /\ [Next]_vars => TypeOK'
<1> SUFFICES ASSUME TypeOK, [Next]_vars PROVE TypeOK'
  OBVIOUS
<1> USE DownloadAssumption DEF TypeOK
<1>1. ASSUME NEW c \in Calls, Stat(c) PROVE TypeOK'
  BY <1>1 DEF Stat, Inside, Labels, Goto, env, history
<1>2. ASSUME NEW c \in Calls, CheckDestination(c) PROVE TypeOK'
  BY <1>2 DEF CheckDestination, Inside, Labels, Goto, env, history
<1>3. ASSUME NEW c \in Calls, NotStarted(c) PROVE TypeOK'
  BY <1>3 DEF NotStarted, Inside, Labels, Goto, env, history
<1>4. ASSUME NEW c \in Calls, Open(c) PROVE TypeOK'
  BY <1>4 DEF Open, Inside, Labels, Goto, env, history
<1>5. ASSUME NEW c \in Calls, Read(c) PROVE TypeOK'
  <2>1. data' \in [Calls -> Seq(Versions)]
    <3>1. PICK v \in Versions : data' = data \/ data' = [data EXCEPT ![c] = Append(data[c], v)]
      BY <1>5 DEF Read, Served
    <3>2. Append(data[c], v) \in Seq(Versions)
      BY SeqFacts
    <3> QED
      BY <3>1, <3>2
  <2>2. /\ pc' \in [Calls -> Labels]
        /\ \A d \in Calls : pc'[d] \in {"read", "restat", "commit", "unlink"} => d \in parts
    BY <1>5 DEF Read, Goto, Labels, Inside
  <2> QED
    BY <1>5, <2>1, <2>2 DEF Read, env, history
<1>6. ASSUME NEW c \in Calls, EndOfFile(c) PROVE TypeOK'
  BY <1>6 DEF EndOfFile, Inside, Labels, Goto, env, history, Served
<1>7. ASSUME NEW c \in Calls, Restat(c) PROVE TypeOK'
  BY <1>7 DEF Restat, Inside, Labels, Goto, env, history
<1>8. ASSUME NEW c \in Calls, Replace(c) PROVE TypeOK'
  BY <1>8 DEF Replace, Inside, Labels, Goto, env, history
<1>9. ASSUME NEW c \in Calls, Link(c) PROVE TypeOK'
  BY <1>9 DEF Link, Inside, Labels, Goto, env, history
<1>10. ASSUME NEW c \in Calls, Unlink(c) PROVE TypeOK'
  BY <1>10 DEF Unlink, Inside, Labels, Goto, env, history
<1>11. ASSUME NEW c \in Calls, Fails(c) PROVE TypeOK'
  BY <1>11 DEF Fails, Inside, Labels, Goto, env, history
<1>12. ASSUME NEW c \in Calls, CleanUp(c) PROVE TypeOK'
  BY <1>12 DEF CleanUp, Inside, Labels, Goto, env, history
<1>13. ASSUME NEW c \in Calls, CleanUpFails(c) PROVE TypeOK'
  BY <1>13 DEF CleanUpFails, Inside, Labels, Goto, env, history
<1>14. ASSUME NEW c \in Calls, Interrupted(c) PROVE TypeOK'
  BY <1>14 DEF Interrupted, Inside, Labels, Goto, env, history
<1>15. CASE Change
  BY <1>15 DEF Change, env, history
<1>16. CASE Interfere
  BY <1>16 DEF Interfere, env, history
<1>17. CASE UNCHANGED vars
  BY <1>17 DEF vars, env, history
<1> QED
  BY <1>1, <1>2, <1>3, <1>4, <1>5, <1>6, <1>7, <1>8, <1>9,
     <1>10, <1>11, <1>12, <1>13, <1>14, <1>15, <1>16, <1>17
     DEF Next, CallStep

\* Type correctness; a call between open and unlink has its .part file.
THEOREM TypeCorrect == Spec => []TypeOK
  BY InitTypeOK, NextTypeOK, PTL DEF Spec

----------------------------------------------------------------------------
\* The chunks of a call are of versions between its first stat and now; once it
\* has passed the second stat they are all of the version of the first.
ChunksOf(c) ==
    /\ info[c] = None => data[c] = <<>>
    /\ pc[c] = "stat" => info[c] = None
    /\ pc[c] \in Inside \cup {"exists"} => info[c] # None
    /\ pc[c] \in {"stat", "exists", "open"} => data[c] = <<>>
    /\ info[c] # None => info[c] <= remote
    /\ \A i \in 1 .. Len(data[c]) : info[c] <= data[c][i] /\ data[c][i] <= remote
    /\ Len(data[c]) <= MaxChunks
    /\ pc[c] = "restat" => Len(data[c]) = Size[info[c]]
    /\ Distinguishable =>
         (pc[c] \in {"commit", "unlink"} \/ c \in published => data[c] = Content(info[c]))

ChunksInv == \A c \in Calls : ChunksOf(c)

\* What a call has published, and what is left of its .part file, follows from
\* where it stands.
OutcomeInv ==
    /\ \A c \in Calls :
         /\ pc[c] \in {"unlink", "returned"} => c \in published
         /\ c \in published => pc[c] \in {"unlink", "failing", "returned", "raised", "interrupted"}
         /\ pc[c] \in {"failing", "raised"} => c \notin published \ littered
         /\ c \in parts /\ pc[c] \in {"returned", "raised"} => c \in littered
         /\ c \in littered => pc[c] \in {"failing", "raised", "interrupted"}
         /\ pc[c] \in {"stat", "exists", "open"} => c \notin parts
    /\ dest \in Calls => dest \in published
    /\ ~ removed =>
         /\ published # {} => dest # None
         /\ \A c, d \in published \ overwriting : c = d

LEMMA InitInv == Init => ChunksInv /\ OutcomeInv
  BY DownloadAssumption DEF Init, ChunksInv, ChunksOf, OutcomeInv, Inside

LEMMA NextChunksInv == TypeOK /\ OutcomeInv /\ ChunksInv /\ [Next]_vars => ChunksInv'
<1> SUFFICES ASSUME TypeOK, OutcomeInv, ChunksInv, [Next]_vars,
                    NEW d \in Calls
             PROVE  ChunksOf(d)'
  BY DEF ChunksInv
<1> USE DownloadAssumption, VersionsAreNumbers DEF TypeOK, Inside
<1>a. ChunksOf(d)
  BY DEF ChunksInv
<1>b. remote \in Nat /\ (info[d] # None => info[d] \in Nat)
  OBVIOUS
<1>c. Distinguishable' = Distinguishable
  BY DEF Distinguishable
<1>1. ASSUME NEW c \in Calls, Stat(c) PROVE ChunksOf(d)'
  <2>1. CASE d = c
    <3>1. info'[d] = remote /\ data'[d] = <<>> /\ pc'[d] \in {"exists", "raised"}
      BY <1>1, <2>1, <1>a DEF Stat, Goto, ChunksOf
    <3>2. remote' = remote /\ published' = published /\ d \notin published
      BY <1>1, <2>1 DEF Stat, env, history, OutcomeInv
    <3>3. remote # None /\ remote <= remote /\ Len(<<>>) = 0
      OBVIOUS
    <3> QED
      BY <3>1, <3>2, <3>3 DEF ChunksOf
  <2>2. CASE d # c
    BY <1>1, <2>2, <1>a, <1>c DEF Stat, Goto, ChunksOf, env, history
  <2> QED
    BY <2>1, <2>2
<1>2. ASSUME NEW c \in Calls, CheckDestination(c) PROVE ChunksOf(d)'
  BY <1>a, <1>c, <1>2 DEF ChunksOf, CheckDestination, Goto, env, history
<1>3. ASSUME NEW c \in Calls, NotStarted(c) PROVE ChunksOf(d)'
  BY <1>a, <1>c, <1>3 DEF ChunksOf, NotStarted, Goto, env, history
<1>4. ASSUME NEW c \in Calls, Open(c) PROVE ChunksOf(d)'
  BY <1>a, <1>c, <1>4 DEF ChunksOf, Open, Goto, env, history
<1>5. ASSUME NEW c \in Calls, Read(c) PROVE ChunksOf(d)'
  <2>1. PICK v \in Served(c) :
          /\ Len(data[c]) < Size[v]
          /\ IF Len(data[c]) + 1 > MaxChunks
             THEN Goto(c, "failing") /\ UNCHANGED data
             ELSE data' = [data EXCEPT ![c] = Append(data[c], v)] /\ UNCHANGED pc
    BY <1>5 DEF Read
  <2>2. UNCHANGED <<remote, info, published>> /\ pc[c] = "read"
    BY <1>5 DEF Read, env, history
  <2>3. CASE d # c
    BY <2>1, <2>2, <2>3, <1>a, <1>c DEF Goto, ChunksOf
  <2>4. CASE d = c /\ Len(data[c]) + 1 > MaxChunks
    BY <2>1, <2>2, <2>4, <1>a, <1>c DEF Goto, ChunksOf
  <2>5. CASE d = c /\ ~ (Len(data[c]) + 1 > MaxChunks)
    <3>1. data'[d] = Append(data[d], v) /\ UNCHANGED pc
      BY <2>1, <2>5
    <3>2. v \in Versions /\ v \in Nat /\ info[d] <= v /\ v <= remote
      BY <2>5 DEF Served
    <3>3. pc[d] = "read" /\ d \notin published /\ info[d] # None
      BY <2>2, <2>5, <1>a DEF OutcomeInv, ChunksOf
    <3>4. /\ Len(data'[d]) = Len(data[d]) + 1 /\ Len(data[d]) \in Nat
          /\ \A i \in 1 .. Len(data[d]) : data'[d][i] = data[d][i]
          /\ data'[d][Len(data[d]) + 1] = v
      BY <3>1, <3>2, SeqFacts
    <3>5. \A i \in 1 .. Len(data'[d]) : info[d] <= data'[d][i] /\ data'[d][i] <= remote
      <4> SUFFICES ASSUME NEW i \in 1 .. Len(data'[d])
                   PROVE  info[d] <= data'[d][i] /\ data'[d][i] <= remote
        OBVIOUS
      <4>1. CASE i = Len(data[d]) + 1
        BY <4>1, <3>2, <3>4
      <4>2. CASE i # Len(data[d]) + 1
        <5>1. i \in 1 .. Len(data[d])
          BY <4>2, <3>4
        <5> QED
          BY <5>1, <3>4, <1>a DEF ChunksOf
      <4> QED
        BY <4>1, <4>2
    <3>6. Len(data'[d]) <= MaxChunks
      BY <3>4, <2>5
    <3> QED
      BY <3>1, <3>3, <3>5, <3>6, <2>2, <1>a DEF ChunksOf
  <2> QED
    BY <2>3, <2>4, <2>5
<1>6. ASSUME NEW c \in Calls, EndOfFile(c) PROVE ChunksOf(d)'
  BY <1>a, <1>c, <1>6 DEF ChunksOf, EndOfFile, Goto, env, history, Served
<1>7. ASSUME NEW c \in Calls, Restat(c) PROVE ChunksOf(d)'
  <2>1. CASE d = c /\ Identity(remote) = Identity(info[c]) /\ Distinguishable
    <3>1. info[d] \in Versions /\ Len(data[d]) = Size[info[d]]
      BY <1>7, <2>1, <1>a DEF Restat, ChunksOf
    <3>2. info[d] = remote
      BY <2>1, <3>1 DEF Distinguishable
    <3>3. \A i \in 1 .. Len(data[d]) : data[d][i] = info[d]
      <4> SUFFICES ASSUME NEW i \in 1 .. Len(data[d]) PROVE data[d][i] = info[d]
        OBVIOUS
      <4>1. data[d] \in Seq(Versions)
        OBVIOUS
      <4>2. data[d][i] \in Versions
        BY <4>1
      <4>3. info[d] <= data[d][i] /\ data[d][i] <= info[d]
        BY <3>2, <1>a DEF ChunksOf
      <4>4. data[d][i] \in Nat /\ info[d] \in Nat
        BY <4>2, <3>1
      <4> QED
        BY <4>3, <4>4
    <3>4. data[d] = Content(info[d])
      BY <3>1, <3>3, ContentFact
    <3> QED
      BY <1>7, <3>4, <1>a, <1>c, <2>1 DEF Restat, Goto, ChunksOf, env, history
  <2>2. CASE ~ (d = c /\ Identity(remote) = Identity(info[c]) /\ Distinguishable)
    BY <1>7, <2>2, <1>a, <1>c DEF Restat, Goto, ChunksOf, env, history
  <2> QED
    BY <2>1, <2>2
<1>8. ASSUME NEW c \in Calls, Replace(c) PROVE ChunksOf(d)'
  BY <1>a, <1>c, <1>8 DEF ChunksOf, Replace, Goto, env, history
<1>9. ASSUME NEW c \in Calls, Link(c) PROVE ChunksOf(d)'
  BY <1>a, <1>c, <1>9 DEF ChunksOf, Link, Goto, env, history
<1>10. ASSUME NEW c \in Calls, Unlink(c) PROVE ChunksOf(d)'
  BY <1>a, <1>c, <1>10 DEF ChunksOf, Unlink, Goto, env, history
<1>11. ASSUME NEW c \in Calls, Fails(c) PROVE ChunksOf(d)'
  BY <1>a, <1>c, <1>11 DEF ChunksOf, Fails, Goto, env, history
<1>12. ASSUME NEW c \in Calls, CleanUp(c) PROVE ChunksOf(d)'
  BY <1>a, <1>c, <1>12 DEF ChunksOf, CleanUp, Goto, env, history
<1>13. ASSUME NEW c \in Calls, CleanUpFails(c) PROVE ChunksOf(d)'
  BY <1>a, <1>c, <1>13 DEF ChunksOf, CleanUpFails, Goto, env, history
<1>14. ASSUME NEW c \in Calls, Interrupted(c) PROVE ChunksOf(d)'
  BY <1>a, <1>c, <1>14 DEF ChunksOf, Interrupted, Goto, env, history
<1>15. CASE Change
  <2>1. UNCHANGED <<pc, info, data, published>> /\ remote' > remote /\ remote' \in Versions
    BY <1>15 DEF Change, history
  <2>2. remote' \in Nat
    BY <2>1
  <2>3. info[d] # None => info[d] <= remote'
    BY <2>1, <2>2, <1>a, <1>b DEF ChunksOf
  <2>4. \A i \in 1 .. Len(data[d]) : info[d] <= data[d][i] /\ data[d][i] <= remote'
    <3> SUFFICES ASSUME NEW i \in 1 .. Len(data[d])
                 PROVE  info[d] <= data[d][i] /\ data[d][i] <= remote'
      BY <2>1
    <3>1. data[d] \in Seq(Versions)
      OBVIOUS
    <3>2. data[d][i] \in Versions
      BY <3>1
    <3>3. data[d][i] \in Nat
      BY <3>2
    <3> QED
      BY <3>3, <2>1, <2>2, <1>a, <1>b DEF ChunksOf
  <2> QED
    BY <2>1, <2>3, <2>4, <1>a, <1>c DEF ChunksOf
<1>16. CASE Interfere
  BY <1>a, <1>c, <1>16 DEF ChunksOf, Interfere, env, history
<1>17. CASE UNCHANGED vars
  BY <1>a, <1>c, <1>17 DEF ChunksOf, vars, env, history
<1> QED
  BY <1>1, <1>2, <1>3, <1>4, <1>5, <1>6, <1>7, <1>8, <1>9,
     <1>10, <1>11, <1>12, <1>13, <1>14, <1>15, <1>16, <1>17
     DEF Next, CallStep

LEMMA NextOutcomeInv == TypeOK /\ OutcomeInv /\ [Next]_vars => OutcomeInv'
<1> SUFFICES ASSUME TypeOK, OutcomeInv, [Next]_vars PROVE OutcomeInv'
  OBVIOUS
<1> USE DownloadAssumption DEF TypeOK, OutcomeInv
<1>1. ASSUME NEW c \in Calls, Stat(c) PROVE OutcomeInv'
  BY <1>1 DEF Stat, Inside, Labels, Goto, env, history
<1>2. ASSUME NEW c \in Calls, CheckDestination(c) PROVE OutcomeInv'
  BY <1>2 DEF CheckDestination, Inside, Labels, Goto, env, history
<1>3. ASSUME NEW c \in Calls, NotStarted(c) PROVE OutcomeInv'
  BY <1>3 DEF NotStarted, Inside, Labels, Goto, env, history
<1>4. ASSUME NEW c \in Calls, Open(c) PROVE OutcomeInv'
  BY <1>4 DEF Open, Inside, Labels, Goto, env, history
<1>5. ASSUME NEW c \in Calls, Read(c) PROVE OutcomeInv'
  BY <1>5 DEF Read, Inside, Labels, Goto, env, history, Served
<1>6. ASSUME NEW c \in Calls, EndOfFile(c) PROVE OutcomeInv'
  BY <1>6 DEF EndOfFile, Inside, Labels, Goto, env, history, Served
<1>7. ASSUME NEW c \in Calls, Restat(c) PROVE OutcomeInv'
  BY <1>7 DEF Restat, Inside, Labels, Goto, env, history
<1>8. ASSUME NEW c \in Calls, Replace(c) PROVE OutcomeInv'
  BY <1>8 DEF Replace, Inside, Labels, Goto, env, history
<1>9. ASSUME NEW c \in Calls, Link(c) PROVE OutcomeInv'
  BY <1>9 DEF Link, Inside, Labels, Goto, env, history
<1>10. ASSUME NEW c \in Calls, Unlink(c) PROVE OutcomeInv'
  BY <1>10 DEF Unlink, Inside, Labels, Goto, env, history
<1>11. ASSUME NEW c \in Calls, Fails(c) PROVE OutcomeInv'
  BY <1>11 DEF Fails, Inside, Labels, Goto, env, history
<1>12. ASSUME NEW c \in Calls, CleanUp(c) PROVE OutcomeInv'
  BY <1>12 DEF CleanUp, Inside, Labels, Goto, env, history
<1>13. ASSUME NEW c \in Calls, CleanUpFails(c) PROVE OutcomeInv'
  BY <1>13 DEF CleanUpFails, Inside, Labels, Goto, env, history
<1>14. ASSUME NEW c \in Calls, Interrupted(c) PROVE OutcomeInv'
  BY <1>14 DEF Interrupted, Inside, Labels, Goto, env, history
<1>15. CASE Change
  BY <1>15 DEF Change, env, history
<1>16. CASE Interfere
  BY <1>16 DEF Interfere, env, history
<1>17. CASE UNCHANGED vars
  BY <1>17 DEF vars, env, history
<1> QED
  BY <1>1, <1>2, <1>3, <1>4, <1>5, <1>6, <1>7, <1>8, <1>9,
     <1>10, <1>11, <1>12, <1>13, <1>14, <1>15, <1>16, <1>17
     DEF Next, CallStep

THEOREM InvariantHolds == Spec => [](TypeOK /\ ChunksInv /\ OutcomeInv)
<1>1. TypeOK /\ ChunksInv /\ OutcomeInv /\ [Next]_vars => (TypeOK /\ ChunksInv /\ OutcomeInv)'
  BY NextTypeOK, NextChunksInv, NextOutcomeInv
<1> QED
  BY <1>1, InitTypeOK, InitInv, PTL DEF Spec

\* What any call has put at the destination is one whole version, that of its
\* first stat, if stat tells the versions apart.
THEOREM WholeVersions == Spec => []PublishedIsWhole
<1>1. TypeOK /\ ChunksInv /\ OutcomeInv => PublishedIsWhole
  BY DEF TypeOK, ChunksInv, ChunksOf, PublishedIsWhole
<1> QED
  BY <1>1, InvariantHolds, PTL

\* No call writes more than max_download_bytes.
THEOREM LimitHolds == Spec => []WithinLimit
<1>1. TypeOK /\ ChunksInv /\ OutcomeInv => WithinLimit
  BY DEF TypeOK, ChunksInv, ChunksOf, WithinLimit
<1> QED
  BY <1>1, InvariantHolds, PTL

\* A normal return means committed, an exception means not committed, but for a
\* .part file that could not be removed.
THEOREM HonestOutcome == Spec => []OutcomeIsHonest
<1>1. TypeOK /\ ChunksInv /\ OutcomeInv => OutcomeIsHonest
  BY DEF TypeOK, OutcomeInv, OutcomeIsHonest
<1> QED
  BY <1>1, InvariantHolds, PTL

\* A finished call leaves a .part file only where its removal failed.
THEOREM NothingLeftBehind == Spec => []NoLitter
<1>1. TypeOK /\ ChunksInv /\ OutcomeInv => NoLitter
  BY DEF TypeOK, OutcomeInv, NoLitter
<1> QED
  BY <1>1, InvariantHolds, PTL

\* At most one call without overwrite commits to a destination nobody removes.
THEOREM OneWinner == Spec => []OnlyOneWins
<1>1. TypeOK /\ ChunksInv /\ OutcomeInv => OnlyOneWins
  BY DEF TypeOK, OutcomeInv, OnlyOneWins
<1> QED
  BY <1>1, InvariantHolds, PTL

----------------------------------------------------------------------------
\* The destination as AtomicCopy sees it.
File == IF dest \in Calls THEN data[dest] ELSE dest

\* Steps that leave destination, first stats and remote file alone.
Unseen == UNCHANGED <<env, info, dest, published>> /\ File' = File

LEMMA InitCopy == Init => Copy!Init
  BY DownloadAssumption DEF Init, Copy!Init, Contents

LEMMA UnseenStutters == Unseen => UNCHANGED Copy!copyVars
  BY DEF Unseen, File, env, Copy!copyVars

\* Every step of the calls, of the remote file and of other programs is a step
\* of AtomicCopy or changes nothing it sees.
LEMMA NextCopy ==
  Distinguishable /\ TypeOK /\ ChunksInv /\ OutcomeInv /\ [Next]_vars => [Copy!Next]_Copy!copyVars
<1> SUFFICES ASSUME Distinguishable, TypeOK, ChunksInv, OutcomeInv, [Next]_vars
             PROVE  Copy!Next \/ Unseen
  BY UnseenStutters
<1> USE DownloadAssumption DEF TypeOK, env, history
<1>1. ASSUME NEW c \in Calls, Stat(c) PROVE Copy!Next \/ Unseen
  <2>1. Copy!Begin(c)
    <3>1. info[c] = None
      BY <1>1 DEF Stat, ChunksInv, ChunksOf
    <3> QED
      BY <1>1, <3>1 DEF Stat, Copy!Begin
  <2> QED
    BY <2>1 DEF Copy!Next
<1>2. ASSUME NEW c \in Calls, CheckDestination(c) PROVE Copy!Next \/ Unseen
  BY <1>2 DEF CheckDestination, Unseen, File
<1>3. ASSUME NEW c \in Calls, NotStarted(c) PROVE Copy!Next \/ Unseen
  BY <1>3 DEF NotStarted, Unseen, File
<1>4. ASSUME NEW c \in Calls, Open(c) PROVE Copy!Next \/ Unseen
  BY <1>4 DEF Open, Unseen, File
<1>5. ASSUME NEW c \in Calls, Read(c) PROVE Copy!Next \/ Unseen
  <2>1. c \notin published /\ dest # c
    BY <1>5 DEF Read, OutcomeInv
  <2>2. \A d \in Calls : d # c => data'[d] = data[d]
    BY <1>5 DEF Read
  <2> QED
    BY <1>5, <2>1, <2>2 DEF Read, Unseen, File
<1>6. ASSUME NEW c \in Calls, EndOfFile(c) PROVE Copy!Next \/ Unseen
  BY <1>6 DEF EndOfFile, Unseen, File
<1>7. ASSUME NEW c \in Calls, Restat(c) PROVE Copy!Next \/ Unseen
  BY <1>7 DEF Restat, Unseen, File
<1>8. ASSUME NEW c \in Calls, Replace(c) PROVE Copy!Next \/ Unseen
  <2>1. /\ info[c] # None /\ info[c] \in Versions
        /\ data[c] = Content(info[c]) /\ c \notin published
    BY <1>8 DEF Replace, ChunksInv, ChunksOf, OutcomeInv, Inside
  <2>2. File' = Contents[info[c]]
    BY <1>8, <2>1 DEF Replace, File, Contents
  <2>3. File = None \/ c \in overwriting
    BY <1>8 DEF Replace, File
  <2>4. Copy!Copy(c)
    BY <1>8, <2>1, <2>2, <2>3 DEF Replace, File, Copy!Copy
  <2> QED
    BY <2>4 DEF Copy!Next
<1>9. ASSUME NEW c \in Calls, Link(c) PROVE Copy!Next \/ Unseen
  <2>1. /\ info[c] # None /\ info[c] \in Versions
        /\ data[c] = Content(info[c]) /\ c \notin published
    BY <1>9 DEF Link, ChunksInv, ChunksOf, OutcomeInv, Inside
  <2>2. File' = Contents[info[c]]
    BY <1>9, <2>1 DEF Link, File, Contents
  <2>3. File = None \/ c \in overwriting
    BY <1>9 DEF Link, File
  <2>4. Copy!Copy(c)
    BY <1>9, <2>1, <2>2, <2>3 DEF Link, File, Copy!Copy
  <2> QED
    BY <2>4 DEF Copy!Next
<1>10. ASSUME NEW c \in Calls, Unlink(c) PROVE Copy!Next \/ Unseen
  BY <1>10 DEF Unlink, Unseen, File
<1>11. ASSUME NEW c \in Calls, Fails(c) PROVE Copy!Next \/ Unseen
  BY <1>11 DEF Fails, Unseen, File
<1>12. ASSUME NEW c \in Calls, CleanUp(c) PROVE Copy!Next \/ Unseen
  BY <1>12 DEF CleanUp, Unseen, File
<1>13. ASSUME NEW c \in Calls, CleanUpFails(c) PROVE Copy!Next \/ Unseen
  BY <1>13 DEF CleanUpFails, Unseen, File
<1>14. ASSUME NEW c \in Calls, Interrupted(c) PROVE Copy!Next \/ Unseen
  BY <1>14 DEF Interrupted, Unseen, File
<1>15. CASE Change
  <2>1. Copy!Change
    BY <1>15 DEF Change, Copy!Change, Contents, File
  <2> QED
    BY <2>1 DEF Copy!Next
<1>16. CASE Interfere
  <2>1. Copy!Interfere
    BY <1>16 DEF Interfere, Copy!Interfere
  <2> QED
    BY <2>1 DEF Copy!Next
<1>17. CASE UNCHANGED vars
  BY <1>17 DEF vars, Unseen, File
<1> QED
  BY <1>1, <1>2, <1>3, <1>4, <1>5, <1>6, <1>7, <1>8, <1>9,
     <1>10, <1>11, <1>12, <1>13, <1>14, <1>15, <1>16, <1>17
     DEF Next, CallStep

\* For versions that stat tells apart, Download implements AtomicCopy.
THEOREM CopyImplemented ==
  ASSUME Distinguishable
  PROVE  Spec => ImplementsCopy
<1>1. TypeOK /\ ChunksInv /\ OutcomeInv /\ [Next]_vars => [Copy!Next]_Copy!copyVars
  BY NextCopy
<1> QED
  BY <1>1, InitCopy, InvariantHolds, PTL DEF Spec, ImplementsCopy, Copy!Spec

----------------------------------------------------------------------------
(* TransferTool *)

LEMMA ToolStepIsStep == [TransferNext]_transferVars => [Next]_vars
<1> SUFFICES ASSUME [TransferNext]_transferVars PROVE [Next]_vars
  OBVIOUS
<1>1. ASSUME NEW c \in Tool, ToolStep(c) PROVE UNCHANGED vars
  BY <1>1 DEF ToolStep, ValidateArgs, ResolveAuth, BuildClient, ReadOperation, RunOperation,
              Close, CloseFails, Report, ReportFails, Advances
<1>2. ASSUME NEW c \in Calls, CallGoesOn(c) PROVE Next
  BY <1>2 DEF CallGoesOn, Next
<1>3. CASE Others
  BY <1>3 DEF Others, Next
<1>4. CASE UNCHANGED transferVars
  BY <1>4 DEF transferVars
<1> QED
  BY <1>1, <1>2, <1>3, <1>4 DEF TransferNext

\* The tool uses download() as any caller does: all that is proved about
\* Download holds of its runs, too.
THEOREM TransferUsesDownload == TransferSpec => Spec
<1>1. TransferInit => Init
  BY DEF TransferInit
<1> QED
  BY <1>1, ToolStepIsStep, PTL DEF TransferSpec, Spec

\* The error that an invocation has found is that of its call or of the close.
Settled(c) ==
    /\ c \notin failed /\ operation[c] = "download" => pc[c] = "returned"
    /\ c \in failed => pc[c] \in {"stat", "raised"} \/ (c \in unclosed /\ pc[c] = "returned")

ToolTypes ==
    /\ stage \in [Tool -> {"validate", "auth", "connect", "run", "close", "report", "exit"}]
    /\ operation \in [Tool -> {"read", "download"}]
    /\ printed \in [Tool -> {"none", "passed", "failed"}]
    /\ code \in [Tool -> {0, 1, 3}]

ToolOf(c) ==
    /\ stage[c] \in {"validate", "auth", "connect"} => pc[c] = "stat"
    /\ stage[c] \in {"validate", "auth", "connect", "run"} => c \notin failed \cup unclosed
    /\ operation[c] = "read" => pc[c] = "stat"
    /\ stage[c] \in {"close", "report"} => Settled(c)
    /\ stage[c] # "exit" => printed[c] = "none" /\ code[c] = 3
    /\ stage[c] = "exit" => (code[c] = 0 <=> printed[c] = "passed")
    /\ printed[c] # "none" => Settled(c) /\ (printed[c] = "failed" <=> c \in failed)

ToolInv == ToolTypes /\ \A c \in Tool : ToolOf(c)

LEMMA InitToolInv == TransferInit => ToolInv
  BY TransferAssumption DEF TransferInit, Init, ToolInv, ToolTypes, ToolOf, Settled

\* A step of a call moves that call alone, and no call that is over.
LEMMA StepMoves ==
  ASSUME NEW c \in Calls, TypeOK, CallStep(c)
  PROVE  /\ \A d \in Calls : d # c => pc'[d] = pc[d]
         /\ pc[c] \notin {"returned", "raised", "interrupted"}
  BY DEF TypeOK, CallStep, Stat, CheckDestination, NotStarted, Open, Read, EndOfFile, Restat,
         Replace, Link, Unlink, Fails, CleanUp, CleanUpFails, Interrupted, Goto, Inside

LEMMA NextToolInv == TypeOK /\ ToolInv /\ [TransferNext]_transferVars => ToolInv'
<1> SUFFICES ASSUME TypeOK, ToolInv, [TransferNext]_transferVars PROVE ToolInv'
  OBVIOUS
<1> USE TransferAssumption DEF ToolInv, ToolTypes, ToolOf, Settled
<1>1. ASSUME NEW c \in Tool, ToolStep(c) PROVE ToolInv'
  <2> USE DEF Advances, Stops, vars, env, history
  <2>1. CASE ValidateArgs(c)
    BY <2>1 DEF ValidateArgs
  <2>2. CASE ResolveAuth(c)
    BY <2>2 DEF ResolveAuth
  <2>3. CASE BuildClient(c)
    BY <2>3 DEF BuildClient
  <2>4. CASE ReadOperation(c)
    BY <2>4 DEF ReadOperation
  <2>5. CASE RunOperation(c)
    BY <2>5 DEF RunOperation
  <2>6. CASE Close(c)
    BY <2>6 DEF Close
  <2>7. CASE CloseFails(c)
    BY <2>7 DEF CloseFails
  <2>8. CASE Report(c)
    BY <2>8 DEF Report, Verdict
  <2>9. CASE ReportFails(c)
    BY <2>9 DEF ReportFails
  <2> QED
    BY <1>1, <2>1, <2>2, <2>3, <2>4, <2>5, <2>6, <2>7, <2>8, <2>9 DEF ToolStep
<1>2. ASSUME NEW c \in Calls, CallGoesOn(c) PROVE ToolInv'
  <2>1. /\ \A d \in Tool : d # c => pc'[d] = pc[d]
        /\ pc[c] \notin {"returned", "raised", "interrupted"}
    BY <1>2, StepMoves DEF CallGoesOn
  <2>2. CASE c \in Tool /\ pc'[c] = "interrupted"
    BY <1>2, <2>1, <2>2 DEF CallGoesOn, Stops
  <2>3. CASE ~(c \in Tool /\ pc'[c] = "interrupted")
    BY <1>2, <2>1, <2>3 DEF CallGoesOn, invocation
  <2> QED
    BY <2>2, <2>3
<1>3. CASE Others
  BY <1>3 DEF Others, Change, Interfere, invocation
<1>4. CASE UNCHANGED transferVars
  BY <1>4 DEF transferVars, invocation, vars
<1> QED
  BY <1>1, <1>2, <1>3, <1>4 DEF TransferNext

\* The verdict of an invocation of the tool is what became of the destination.
THEOREM VerdictsAreTrue == TransferSpec => []VerdictIsTrue
<1>1. TypeOK /\ OutcomeInv /\ ToolInv => VerdictIsTrue
  <2> SUFFICES ASSUME TypeOK, OutcomeInv, ToolInv, NEW c \in Tool
               PROVE  /\ stage[c] = "exit" => (code[c] = 0 <=> printed[c] = "passed")
                      /\ printed[c] = "passed" /\ operation[c] = "download" => c \in published \ parts
                      /\ printed[c] = "failed" => c \notin published \ (littered \cup unclosed)
                      /\ printed[c] # "none" /\ c \in parts => c \in littered /\ printed[c] = "failed"
                      /\ operation[c] = "read" => c \notin published \cup parts
    BY DEF VerdictIsTrue
  <2>1. /\ pc[c] = "stat" => c \notin published \cup parts
        /\ pc[c] = "returned" => c \in published \ parts
        /\ pc[c] = "raised" => c \notin published \ littered /\ (c \in parts => c \in littered)
    BY TransferAssumption DEF OutcomeInv
  <2>2. ToolOf(c) /\ printed[c] \in {"none", "passed", "failed"}
        /\ operation[c] \in {"read", "download"}
    BY DEF ToolInv, ToolTypes
  <2> QED
    BY <2>1, <2>2 DEF ToolOf, Settled
<1>2. TransferSpec => [](TypeOK /\ OutcomeInv)
  BY TransferUsesDownload, InvariantHolds, PTL
<1> QED
  BY <1>1, <1>2, InitToolInv, NextToolInv, PTL DEF TransferSpec

============================================================================
