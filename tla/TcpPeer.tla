------------------------------ MODULE TcpPeer ------------------------------
(***************************************************************************)
(* The other end of a connection: any TCP that follows RFC 793.  It is not *)
(* part of the repository; it is modelled from what the stack expects of   *)
(* it.  Like a socket it is a record, and "out" holds what a step sends.   *)
(* Its own stream is counted in units: unit k is byte k of its data for    *)
(* k in 1..bytes, and its FIN, if it sends one, is unit bytes + 1.         *)
(***************************************************************************)
EXTENDS TcpEndpoint

CONSTANTS
    PeerIss,    \* its initial sequence number
    PeerBuf     \* its receive buffer

ASSUME PeerAssumption ==
    PeerIss \in 0..(SeqMod - 1) /\ PeerBuf \in Nat \ {0}

\* A peer that will send so many bytes, and then perhaps a FIN.
Peer(st, bytes, closes) ==
    [st |-> st, bytes |-> bytes, closes |-> closes, rcv |-> 0, got |-> <<>>, eof |-> FALSE, unread |-> 0,
     acked |-> 0, sent |-> 0, win |-> 0, out |-> <<>>]

Larger(a, b) == IF a < b THEN b ELSE a

PeerFins(p) == IF p.closes THEN 1 ELSE 0

\* A segment with n bytes of its data behind the first start units.
PeerSegment(p, flags, start, n) ==
    [flags |-> flags, seq |-> (PeerIss + 1 + start) % SeqMod, ack |-> p.rcv,
     win |-> PeerBuf - p.unread, data |-> [i \in 1..n |-> start + i]]

PeerSends(p, g) == [p EXCEPT !.out = Append(@, g)]

PeerAcks(p) == PeerSends(p, PeerSegment(p, {"ACK"}, p.sent, 0))

PeerSynSegment == [flags |-> {"SYN"}, seq |-> PeerIss, ack |-> 0, win |-> PeerBuf,
                   data |-> <<>>]

PeerSynAckSegment(p) ==
    [flags |-> {"SYN", "ACK"}, seq |-> PeerIss, ack |-> p.rcv, win |-> PeerBuf,
     data |-> <<>>]

\* The acknowledgment and the window of a segment.
PeerTakesAck(p, g) ==
    LET units == Distance(g.ack, (PeerIss + 1) % SeqMod) IN
    IF "ACK" \in g.flags /\ p.acked <= units /\ units <= p.sent
    THEN [p EXCEPT !.acked = units, !.win = g.win] ELSE p

\* The bytes and the FIN of a segment: what is new, in order and fits.
PeerTakesData(p, g) ==
    LET off == Distance(p.rcv, g.seq)
        inOrder == 0 <= off /\ off <= Len(g.data) /\ ~p.eof
        n == IF inOrder THEN Lesser(Len(g.data) - off, PeerBuf - p.unread) ELSE 0
        fin == inOrder /\ "FIN" \in g.flags /\ off + n = Len(g.data)
        p1 == [p EXCEPT !.got = @ \o SubSeq(g.data, off + 1, off + n),
                        !.unread = @ + n, !.eof = @ \/ fin,
                        !.rcv = (@ + n + (IF fin THEN 1 ELSE 0)) % SeqMod]
        answers == Len(g.data) > 0 \/ "FIN" \in g.flags \/ off # 0
    IN IF answers THEN PeerAcks(p1) ELSE p1

PeerInEstablished(p, g) ==
    IF "RST" \in g.flags THEN (IF g.seq = p.rcv THEN [p EXCEPT !.st = "dead"] ELSE p)
    ELSE IF "SYN" \in g.flags THEN PeerAcks(p)
    ELSE PeerTakesData(PeerTakesAck(p, g), g)

PeerInSynRcvd(p, g) ==
    IF "SYN" \in g.flags THEN PeerSends(p, PeerSynAckSegment(p))
    ELSE IF "ACK" \in g.flags /\ g.ack = (PeerIss + 1) % SeqMod
    THEN PeerInEstablished([p EXCEPT !.st = "estab", !.win = g.win], g)
    ELSE IF "RST" \in g.flags THEN [p EXCEPT !.st = "dead"] ELSE p

PeerInSynSent(p, g) ==
    IF "ACK" \in g.flags /\ g.ack = (PeerIss + 1) % SeqMod
    THEN IF "RST" \in g.flags THEN [p EXCEPT !.st = "dead"]
         ELSE IF "SYN" \in g.flags
         THEN PeerAcks([p EXCEPT !.st = "estab", !.rcv = (g.seq + 1) % SeqMod,
                                 !.win = g.win])
         ELSE p
    ELSE p

PeerInListen(p, g) ==
    IF "SYN" \in g.flags
    THEN LET p1 == [p EXCEPT !.st = "synRcvd", !.rcv = (g.seq + 1) % SeqMod]
         IN PeerSends(p1, PeerSynAckSegment(p1))
    ELSE p

PeerInDead(p, g) ==
    IF "RST" \in g.flags THEN p
    ELSE PeerSends(p, [flags |-> {"RST"}, seq |-> g.ack, ack |-> 0, win |-> 0,
                       data |-> <<>>])

PeerInput(p, g) ==
    CASE p.st = "estab"   -> PeerInEstablished(p, g)
      [] p.st = "synRcvd" -> PeerInSynRcvd(p, g)
      [] p.st = "synSent" -> PeerInSynSent(p, g)
      [] p.st = "listen"  -> PeerInListen(p, g)
      [] OTHER            -> PeerInDead(p, g)

\* The segments it may send now: new data or a retransmission, inside the
\* window, or a probe of one unit when the window is closed.
PeerMaySend(p) ==
    {m \in [start : {p.acked, p.sent}, n : 0..Mss, fin : 0..PeerFins(p)] :
        /\ p.st = "estab"
        /\ m.n + m.fin > 0
        /\ m.start + m.n <= p.bytes
        /\ m.fin = 1 => m.start + m.n = p.bytes
        /\ m.start + m.n + m.fin <= p.acked + Larger(p.win, 1)}

PeerSendsData(p, m) ==
    LET p1 == [p EXCEPT !.sent = Larger(@, m.start + m.n + m.fin)]
        flags == IF m.fin = 1 THEN {"ACK", "FIN"} ELSE {"ACK"}
    IN PeerSends(p1, PeerSegment(p1, flags, m.start, m.n))

\* Its handshake segment is sent again until it is answered.
PeerRepeatsSyn(p) ==
    IF p.st = "synSent" THEN PeerSends(p, PeerSynSegment)
    ELSE PeerSends(p, PeerSynAckSegment(p))

\* Its application empties the buffer, and the new window is announced.
PeerReads(p) == PeerAcks([p EXCEPT !.unread = 0])

\* It gives the connection up.
PeerAborts(p) ==
    PeerSends([p EXCEPT !.st = "dead"],
              PeerSegment(p, {"RST", "ACK"}, p.sent, 0))
=============================================================================
