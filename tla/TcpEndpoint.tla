---------------------------- MODULE TcpEndpoint ----------------------------
(***************************************************************************)
(* The TCP engine of the stack (src/stack/tcp.go), one socket at a time.   *)
(* A socket is a record and every handler is an operator from the socket   *)
(* and its input to the socket afterwards; the frames a handler sends are  *)
(* appended to the field "out", in the order they are sent, and whoever    *)
(* runs the handler moves them to the network.                             *)
(*                                                                         *)
(* Application bytes are numbered in the order they are written.  Since    *)
(* the rings are FIFO queues (module RingBuf), the tx ring is the interval *)
(* rel+1..wr of those numbers and the rx ring is the sequence rx.          *)
(***************************************************************************)
EXTENDS Integers, Sequences

CONSTANTS
    SeqMod,     \* 2^32, the range of sequence numbers
    Iss,        \* the initial sequence number tcpISN returns
    Mss,        \* the segment size: the peer's MSS option, at most MTU - 40
    RxBuf,      \* RxBufSize
    TxBuf,      \* TxBufSize
    MaxRetx     \* tcpMaxRetx

ASSUME EndpointAssumption ==
    /\ SeqMod \in Nat /\ SeqMod > 2 * (RxBuf + TxBuf + 2)
    /\ Iss \in 0..(SeqMod - 1)
    /\ Mss \in Nat \ {0} /\ RxBuf \in Nat \ {0} /\ TxBuf \in Nat \ {0}
    /\ MaxRetx \in Nat

SockState == {"Free", "Bound", "Connecting", "Connected", "Closing", "Closed"}
TcpState == {"Closed", "SynSent", "SynReceived", "Established", "FinWait1",
             "FinWait2", "CloseWait", "LastAck", "TimeWait"}
Flag == {"SYN", "ACK", "FIN", "RST", "PSH"}

Segment == [flags : SUBSET Flag, seq : 0..(SeqMod - 1), ack : 0..(SeqMod - 1),
            win : Nat, data : Seq(Nat)]

Lesser(a, b) == IF a < b THEN a ELSE b

\* int(a - b) of two uint32: the target's int has 32 bits.
Distance(a, b) ==
    LET d == (a - b) % SeqMod IN IF d >= SeqMod \div 2 THEN d - SeqMod ELSE d

----------------------------------------------------------------------------
\* A slot just reset.
FreeSocket ==
    [st |-> "Free", tcp |-> "Closed", seq |-> 0, ack |-> 0, una |-> 0, win |-> 0,
     armed |-> FALSE, cnt |-> 0, finSent |-> FALSE, finAcked |-> FALSE,
     finRecvd |-> FALSE, wr |-> 0, rel |-> 0, rx |-> <<>>, out |-> <<>>]

\* The socket Socket(SOCK_STREAM) returns.
BoundSocket == [FreeSocket EXCEPT !.st = "Bound"]

TxAvailable(s) == s.wr - s.rel
TxFree(s) == TxBuf - TxAvailable(s)
RxFree(s) == RxBuf - Len(s.rx)

\* tcp.state = tcpClosed; sock.state = sockClosed
Dead(s) == [s EXCEPT !.tcp = "Closed", !.st = "Closed"]

\* The control flags that take a sequence number.
Takes(flags) == (IF "SYN" \in flags THEN 1 ELSE 0) + (IF "FIN" \in flags THEN 1 ELSE 0)

\* sendTCP: the header is built from the socket, then seqNum moves past what
\* was sent.
SendTCP(s, flags, n) ==
    [s EXCEPT
        !.out = Append(@, [flags |-> flags, seq |-> s.seq, ack |-> s.ack,
                           win |-> RxFree(s), data |-> [i \in 1..n |-> s.rel + i]]),
        !.seq = (@ + n + Takes(flags)) % SeqMod]

\* sendTCPFlags: nothing is sent, and seqNum stays, when resolve fails.
SendFlags(s, flags, ok) == IF ok THEN SendTCP(s, flags, 0) ELSE s

\* Slips the runs must catch.
NotArmed(s) == s.armed

\* How much of the tx ring tcpOutput puts in the segment: always from its tail.
SendLen(s) ==
    IF s.tcp \in {"Established", "CloseWait"}
    THEN Lesser(TxAvailable(s), Lesser(s.win, Mss)) ELSE 0

OutputFlags(s) ==
    CASE s.tcp = "SynSent" -> {"SYN"}
      [] s.tcp \in {"FinWait1", "LastAck"} -> {"ACK", "FIN"}
      [] OTHER -> {"ACK"} \cup (IF SendLen(s) > 0 THEN {"PSH"} ELSE {})

\* The retransmission timer runs after tcpOutput if something was sent that
\* needs an answer.
ArmedAfter(s) == s.armed \/ SendLen(s) > 0 \/ Takes(OutputFlags(s)) > 0

\* tcpOutput: finSent is set before the address is resolved.
Output(s, ok) ==
    LET s1 == [s EXCEPT !.finSent = @ \/ s.tcp \in {"FinWait1", "LastAck"}] IN
    IF ok THEN [SendTCP(s1, OutputFlags(s1), SendLen(s1)) EXCEPT !.armed = ArmedAfter(s1)]
    ELSE s1

----------------------------------------------------------------------------
AllAcked(s, g) == TxAvailable(s)

\* The bytes an acknowledgment releases, when it is acceptable at all.
AckedBytes(s, g) == Distance(g.ack, s.una)

Acceptable(s, acked) == acked > 0 /\ acked <= TxAvailable(s)

\* tcpProcessACK
ProcessAck(s, g) ==
    LET acked == AckedBytes(s, g) IN
    IF Acceptable(s, acked)
    THEN [s EXCEPT !.rel = @ + acked, !.una = g.ack, !.cnt = 0,
                   !.armed = acked < TxAvailable(s)]
    ELSE s

AnyData(s, g) == Len(g.data) > 0
WholeSegment(s, g) == Len(g.data)

\* len(data) > 0 && seqNum == tcp.ackNum
DataInSequence(s, g) == Len(g.data) > 0 /\ g.seq = s.ack

\* n := sock.rxWrite(data)
Stored(s, g) == Lesser(Len(g.data), RxFree(s))

\* tcp.ackNum += uint32(n): only what fitted is acknowledged.
AckAdvance(s, g) == Stored(s, g)

FinAnywhere(s, g) == "FIN" \in g.flags

\* flags&tcpFIN != 0 && seqNum+uint32(len(data)) == tcp.ackNum
FinInSequence(s, g) ==
    "FIN" \in g.flags /\ (g.seq + Len(g.data)) % SeqMod = s.ack

Reset(s, g) == IF "RST" \in g.flags THEN Dead(s) ELSE s

----------------------------------------------------------------------------
(* tcpInput, one operator per state.  ok says whether resolve finds the    *)
(* peer's hardware address while the segment is processed.                 *)

InSynSent(s, g, ok) ==
    IF {"SYN", "ACK"} \subseteq g.flags
    THEN SendFlags([s EXCEPT !.ack = (g.seq + 1) % SeqMod, !.seq = g.ack, !.una = g.ack,
                             !.win = g.win, !.tcp = "Established", !.st = "Connected",
                             !.armed = FALSE], {"ACK"}, ok)
    ELSE Reset(s, g)

InEstablished(s, g, ok) ==
    LET s1 == IF "ACK" \in g.flags THEN [ProcessAck(s, g) EXCEPT !.win = g.win] ELSE s
        s2 == IF DataInSequence(s1, g)
              THEN SendFlags([s1 EXCEPT !.rx = @ \o SubSeq(g.data, 1, Stored(s1, g)),
                                        !.ack = (@ + AckAdvance(s1, g)) % SeqMod],
                             {"ACK"}, ok)
              ELSE s1
        s3 == IF FinInSequence(s2, g)
              THEN SendFlags([s2 EXCEPT !.ack = (@ + 1) % SeqMod, !.finRecvd = TRUE,
                                        !.tcp = "CloseWait"], {"ACK"}, ok)
              ELSE s2
    IN Reset(s3, g)

\* The acknowledgment of our FIN moves on; a FIN that comes with it is taken
\* without a look at its sequence number.
InFinWait1(s, g, ok) ==
    LET s1 == IF "ACK" \in g.flags THEN ProcessAck(s, g) ELSE s
        acked == "ACK" \in g.flags /\ s1.finSent /\ g.ack = s1.seq
        s2 == IF acked THEN [s1 EXCEPT !.finAcked = TRUE, !.tcp = "FinWait2"] ELSE s1
        fin == "FIN" \in g.flags /\ (acked \/ (~s2.finAcked /\ g.seq = s2.ack))
    IN IF fin
       THEN SendFlags([s2 EXCEPT !.ack = (g.seq + 1) % SeqMod, !.tcp = "TimeWait"], {"ACK"}, ok)
       ELSE s2

InFinWait2(s, g, ok) ==
    IF "FIN" \in g.flags /\ g.seq = s.ack
    THEN SendFlags([s EXCEPT !.ack = (g.seq + 1) % SeqMod, !.tcp = "TimeWait",
                             !.armed = TRUE], {"ACK"}, ok)
    ELSE s

InCloseWait(s, g) == IF "ACK" \in g.flags THEN ProcessAck(s, g) ELSE s

InLastAck(s, g) == IF "ACK" \in g.flags THEN Dead(s) ELSE s

InSynReceived(s, g) ==
    Reset(IF "ACK" \in g.flags THEN [s EXCEPT !.tcp = "Established", !.st = "Connected"]
          ELSE s, g)

\* TIME_WAIT and CLOSED have no case: the segment is dropped.
TcpInput(s, g, ok) ==
    CASE s.tcp = "SynSent"     -> InSynSent(s, g, ok)
      [] s.tcp = "Established" -> InEstablished(s, g, ok)
      [] s.tcp = "FinWait1"    -> InFinWait1(s, g, ok)
      [] s.tcp = "FinWait2"    -> InFinWait2(s, g, ok)
      [] s.tcp = "CloseWait"   -> InCloseWait(s, g)
      [] s.tcp = "LastAck"     -> InLastAck(s, g)
      [] s.tcp = "SynReceived" -> InSynReceived(s, g)
      [] OTHER                 -> s

\* handleSYNOnListener, when a slot was free: SYN|ACK is sent and no timer is
\* started.
ListenerInput(g, ok) ==
    SendFlags([FreeSocket EXCEPT !.st = "Connecting", !.tcp = "SynReceived",
                                 !.ack = (g.seq + 1) % SeqMod, !.seq = Iss, !.una = Iss,
                                 !.win = Mss], {"SYN", "ACK"}, ok)

\* sendTCPReset, for a segment no socket takes.
ResetReply(g) ==
    IF "ACK" \in g.flags
    THEN [flags |-> {"RST"}, seq |-> g.ack, ack |-> 0, win |-> 0, data |-> <<>>]
    ELSE [flags |-> {"RST", "ACK"}, seq |-> 0, ack |-> (g.seq + 1) % SeqMod,
          win |-> 0, data |-> <<>>]

----------------------------------------------------------------------------
NoRewind(s) == s.seq

\* tcp.seqNum = tcp.sndUna: a retransmission starts from the oldest byte.
Rewound(s) == s.una

\* tcpTimer when the timer of the socket has expired.
TimerExpired(s, ok) ==
    IF s.tcp = "TimeWait" \/ s.cnt >= MaxRetx THEN Dead(s)
    ELSE Output([s EXCEPT !.cnt = @ + 1, !.seq = Rewound(s), !.armed = TRUE], ok)

OnlyArmed(s) == s.tcp # "Closed" /\ s.armed

\* In TIME_WAIT the comparison with retxTime is made even if it is zero, and
\* then it holds at once.
TimerRuns(s) == s.tcp # "Closed" /\ (s.armed \/ s.tcp = "TimeWait")

----------------------------------------------------------------------------
(* The API calls that change the connection (src/stack/api.go).            *)

\* Connect up to its polling loop; the timer starts even if resolve failed.
ConnectStart(s, ok) ==
    [SendFlags([s EXCEPT !.st = "Connecting", !.tcp = "SynSent", !.seq = Iss, !.una = Iss,
                         !.ack = 0], {"SYN"}, ok) EXCEPT !.armed = TRUE]

\* One turn of Send's loop that finds room for n of the remaining bytes.
SendTurn(s, n, ok) == Output([s EXCEPT !.wr = @ + n], ok)

\* Recv with an empty ring does not wait: sock.state == sockClosed ||
\* tcp.state == tcpClosed, or tcp.state == tcpCloseWait.
EndsStream(s) == s.st = "Closed" \/ s.tcp \in {"Closed", "CloseWait"}

\* Recv with bytes in the ring.
RecvTake(s, n) == [s EXCEPT !.rx = SubSeq(@, n + 1, Len(@))]

\* Close
CloseCall(s, ok) ==
    CASE s.tcp = "Established" ->
            [SendFlags([s EXCEPT !.tcp = "FinWait1", !.st = "Closing"], {"FIN", "ACK"}, ok)
                EXCEPT !.finSent = TRUE]
      [] s.tcp = "CloseWait" ->
            [SendFlags([s EXCEPT !.tcp = "LastAck", !.st = "Closing"], {"FIN", "ACK"}, ok)
                EXCEPT !.finSent = TRUE]
      [] OTHER -> FreeSocket
=============================================================================
