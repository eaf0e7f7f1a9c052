-------------------------- MODULE TelnetProtocol --------------------------
(***************************************************************************)
(* The byte parser of cli_tool/transport/telnet.py, which strips Telnet    *)
(* commands from what is read and refuses every option.  A read may end    *)
(* anywhere: an unfinished command is kept for the next one.  Bytes are    *)
(* abstracted to the codes the parser tells apart ("WONT" stands for DONT  *)
(* too, which is treated alike), and "x" for the rest.                     *)
(***************************************************************************)
EXTENDS Integers, Sequences

CONSTANT MaxBytes   \* bound: the longest input that is checked

ASSUME TelnetAssumption == MaxBytes \in Nat

Bytes == {"IAC", "DO", "WILL", "WONT", "SB", "SE", "x"}

\* How long the subnegotiation at the head of data is, up to the first IAC SE;
\* 0 if it has none.
FindSubnegotiationEnd(data) ==
    LET ends == {i \in 3 .. Len(data) - 1 : data[i] = "IAC" /\ data[i + 1] = "SE"}
    IN  IF ends = {} THEN 0 ELSE 1 + CHOOSE i \in ends : \A j \in ends : i <= j

\* How many bytes the next turn of the loop takes from the head of data; 0 if
\* they are the beginning of a command and the loop ends.
Taken(data) ==
    IF data[1] # "IAC" THEN 1
    ELSE IF Len(data) = 1 THEN 0
    ELSE CASE data[2] \in {"DO", "WILL", "WONT"} -> IF Len(data) >= 3 THEN 3 ELSE 0
           [] data[2] = "SB" -> FindSubnegotiationEnd(data)
           [] OTHER -> 2

\* What that turn shows, and what it answers: an offer and a request are
\* refused, DONT and WONT need no answer.
Visible(data) == IF data[1] # "IAC" \/ data[2] = "IAC" THEN <<data[1]>> ELSE <<>>

Refusal == [DO |-> "WONT", WILL |-> "DONT"]

Response(data) ==
    IF data[1] = "IAC" /\ data[2] \in DOMAIN Refusal
    THEN <<"IAC", Refusal[data[2]], data[3]>>
    ELSE <<>>

Without(data, k) == SubSeq(data, k + 1, Len(data))

\* Mutant: a command that ends with the read is dropped, not kept.
EndForgetful(data) == [visible |-> <<>>, responses |-> <<>>, remaining |-> <<>>]

\* The end of the loop: what it has not taken is kept.
End(data) == [visible |-> <<>>, responses |-> <<>>, remaining |-> data]

\* consume_telnet_bytes: the visible bytes, the answers, and the unfinished
\* command at the end.
Consume[data \in Seq(Bytes)] ==
    IF data = <<>> \/ Taken(data) = 0 THEN End(data)
    ELSE LET next == Consume[Without(data, Taken(data))]
         IN  [visible   |-> Visible(data) \o next.visible,
              responses |-> Response(data) \o next.responses,
              remaining |-> next.remaining]

\* _consume_protocol, with the buffer the reads before left.
ConsumeProtocol(buffer, data) == Consume[buffer \o data]

\* Two reads, of first and second, show the same text, give the same answers in
\* the same order and keep the same unfinished command as one read of both.
ReadAlike(first, second) ==
    LET whole  == ConsumeProtocol(<<>>, first \o second)
        before == ConsumeProtocol(<<>>, first)
        after  == ConsumeProtocol(before.remaining, second)
    IN  /\ whole.visible = before.visible \o after.visible
        /\ whole.responses = before.responses \o after.responses
        /\ whole.remaining = after.remaining

\* It does not matter where the input is cut in two; cuts in more places follow.
CutsDoNotMatter ==
    \A n \in 0 .. MaxBytes : \A data \in [1 .. n -> Bytes] : \A cut \in 0 .. n :
        ReadAlike(SubSeq(data, 1, cut), SubSeq(data, cut + 1, n))

===========================================================================
