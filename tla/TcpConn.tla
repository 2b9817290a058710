------------------------------ MODULE TcpConn ------------------------------
(***************************************************************************)
(* One TCP connection: the application, the socket of the stack            *)
(* (TcpEndpoint), the network, and a peer that follows the standard        *)
(* (TcpPeer).  Every action of the stack is one call of an API function or *)
(* one thing Poll does: handing one frame to handleTCP, or running         *)
(* tcpTimer for the socket.                                                *)
(***************************************************************************)
EXTENDS TcpPeer

CONSTANTS
    Scene,      \* the circumstances a connection may meet
    MaxFlight   \* bound on the frames in flight in each direction

\* passive:    the connection comes in on a listening socket
\* out:        how many bytes the application sends
\* waits:      it sends and closes only when all it sent was acknowledged, and
\*             sends one segment at a time
\* mayClose:   it may call Close
\* bytes, closes, aborts:  what the peer sends, whether it sends a FIN after it,
\*             and whether it may reset the connection
\* resolves:   the outcomes of resolve
\* lossIn, lossOut:  the frames the network may lose, to the stack and from it
\* reach:      how far back a frame may overtake those before it; 1: none
\* patient:    a timeout is longer than any frame's way and back
Scenes == [passive : BOOLEAN, out : Nat, waits : BOOLEAN, mayClose : BOOLEAN,
           bytes : Nat, closes : BOOLEAN, aborts : BOOLEAN, resolves : SUBSET BOOLEAN,
           lossIn : Nat, lossOut : Nat, reach : Nat, patient : BOOLEAN]

ASSUME ConnAssumption == Scene \subseteq Scenes /\ MaxFlight \in Nat \ {0}

\* A stream is shorter than the range of sequence numbers.  A network that holds
\* a frame for as long as it likes could make it look new again otherwise, to
\* any TCP.
ASSUME StreamsFit == \A sc \in Scene : sc.bytes + 2 <= SeqMod

VARIABLES
    scene,      \* the circumstances of this connection
    conn,       \* the socket
    app,        \* the application: its calls and what they returned
    peer,       \* the other end
    toPeer, toUs,   \* the frames in flight
    lost        \* the frames lost so far, in each direction

vars == <<scene, conn, app, peer, toPeer, toUs, lost>>

NotClosed == ~app.closed
\* In a patient scene nobody sends again while an answer may still be on its way.
TimeoutAllowed == scene.patient => toPeer = <<>> /\ toUs = <<>>

Holds == app.open /\ ~app.closed

Without(queue, i) == SubSeq(queue, 1, i - 1) \o SubSeq(queue, i + 1, Len(queue))

\* The socket s after a step of the stack, its frames moved to the network.
StackDoes(s) ==
    /\ Len(toPeer) + Len(s.out) <= MaxFlight
    /\ conn' = [s EXCEPT !.out = <<>>]
    /\ toPeer' = toPeer \o s.out

PeerDoes(p) ==
    /\ Len(toUs) + Len(p.out) <= MaxFlight
    /\ peer' = [p EXCEPT !.out = <<>>]
    /\ toUs' = toUs \o p.out

----------------------------------------------------------------------------
Init ==
    /\ scene \in Scene
    /\ conn = IF scene.passive THEN FreeSocket ELSE BoundSocket
    /\ app = [open |-> ~scene.passive, closed |-> FALSE, asked |-> 0, pending |-> 0,
              full |-> FALSE, read |-> <<>>, eof |-> FALSE]
    /\ peer = Peer(IF scene.passive THEN "synSent" ELSE "listen", scene.bytes, scene.closes)
    /\ toPeer = <<>>
    /\ toUs = IF scene.passive THEN <<PeerSynSegment>> ELSE <<>>
    /\ lost = [in |-> 0, out |-> 0]

\* Connect; its polling loop is the actions Deliver and Timer.
Connect ==
    /\ Holds /\ conn.st = "Bound"
    /\ \E ok \in scene.resolves : StackDoes(ConnectStart(conn, ok))
    /\ UNCHANGED <<scene, app, peer, toUs, lost>>

\* Accept or TryAccept of the completed connection.  One that was reset while it
\* waited is accepted as well, and then nothing can be done with it but to close
\* it: SockTable has that case.
Accept ==
    /\ NotClosed /\ ~app.open /\ conn.st = "Connected"
    /\ app' = [app EXCEPT !.open = TRUE]
    /\ UNCHANGED <<scene, conn, peer, toPeer, toUs, lost>>

\* Send is called with n bytes on a connected socket.  One that waits
\* first lets everything sent before be acknowledged.
SendStart ==
    /\ Holds /\ conn.st = "Connected" /\ app.pending = 0
    /\ \E n \in 1..(scene.out - app.asked) :
          /\ scene.waits => TxAvailable(conn) = 0 /\ n <= Lesser(Mss, TxBuf)
          /\ app' = [app EXCEPT !.pending = n, !.asked = @ + n]
    /\ UNCHANGED <<scene, conn, peer, toPeer, toUs, lost>>

\* n := txWrite(data[total:]); total += n; tcpOutput
SendWrite ==
    /\ app.pending > 0 /\ ~app.full /\ TxFree(conn) > 0
    /\ LET n == Lesser(app.pending, TxFree(conn)) IN
          /\ app' = [app EXCEPT !.pending = @ - n]
          /\ \E ok \in scene.resolves : StackDoes(SendTurn(conn, n, ok))
    /\ UNCHANGED <<scene, peer, toUs, lost>>

\* sock.txFree() == 0: a turn of the waiting loop begins; its Poll is the actions
\* Deliver and Timer.
SendFull ==
    /\ app.pending > 0 /\ ~app.full /\ TxFree(conn) = 0
    /\ app' = [app EXCEPT !.full = TRUE]
    /\ UNCHANGED <<scene, conn, peer, toPeer, toUs, lost>>

\* tcpOutput after the Poll of that turn, whatever the Poll made room for.
SendWait ==
    /\ app.full
    /\ app' = [app EXCEPT !.full = FALSE]
    /\ \E ok \in scene.resolves : StackDoes(Output(conn, ok))
    /\ UNCHANGED <<scene, peer, toUs, lost>>

\* The deadline has passed, or the Poll failed: Send returns what it has written.
SendGivesUp ==
    /\ app.full
    /\ app' = [app EXCEPT !.full = FALSE, !.pending = 0, !.asked = @ - app.pending]
    /\ UNCHANGED <<scene, conn, peer, toPeer, toUs, lost>>

\* Recv with bytes in the rx ring and a buffer of k bytes.
RecvBytes ==
    /\ Holds /\ app.pending = 0 /\ Len(conn.rx) > 0
    /\ \E k \in 1..Len(conn.rx) :
          /\ app' = [app EXCEPT !.read = @ \o SubSeq(conn.rx, 1, k)]
          /\ conn' = RecvTake(conn, k)
    /\ UNCHANGED <<scene, peer, toPeer, toUs, lost>>

\* Recv with an empty ring: errClosed, after the peer's FIN, and also when the
\* connection was reset or given up.  The application does not call it on a socket
\* it never connected.
RecvEof ==
    /\ Holds /\ conn.st # "Bound" /\ app.pending = 0 /\ conn.rx = <<>>
    /\ EndsStream(conn)
    /\ app' = [app EXCEPT !.eof = TRUE]
    /\ UNCHANGED <<scene, conn, peer, toPeer, toUs, lost>>

Close ==
    /\ scene.mayClose /\ Holds /\ app.pending = 0
    /\ scene.waits => TxAvailable(conn) = 0
    /\ \E ok \in scene.resolves : StackDoes(CloseCall(conn, ok))
    /\ app' = [app EXCEPT !.closed = TRUE]
    /\ UNCHANGED <<scene, peer, toUs, lost>>

\* handleTCP: the socket takes the segment, or the listener does, or it is
\* answered with RST.
Dispatch(s, g, ok) ==
    IF s.st # "Free" THEN TcpInput(s, g, ok)
    ELSE IF scene.passive /\ NotClosed
    THEN IF "SYN" \in g.flags THEN ListenerInput(g, ok) ELSE s
    ELSE IF "RST" \notin g.flags /\ ok THEN [s EXCEPT !.out = <<ResetReply(g)>>] ELSE s

\* One frame is handed to the stack.
Deliver ==
    /\ \E i \in 1..Lesser(scene.reach, Len(toUs)), ok \in scene.resolves :
          /\ StackDoes(Dispatch(conn, toUs[i], ok))
          /\ toUs' = Without(toUs, i)
    /\ UNCHANGED <<scene, app, peer, lost>>

\* Poll finds the timer of the socket expired.
Timer ==
    /\ TimerRuns(conn) /\ TimeoutAllowed
    /\ \E ok \in scene.resolves : StackDoes(TimerExpired(conn, ok))
    /\ UNCHANGED <<scene, app, peer, toUs, lost>>

----------------------------------------------------------------------------
(* The network and the peer.                                               *)

LoseIn ==
    /\ lost.in < scene.lossIn
    /\ \E i \in 1..Lesser(scene.reach, Len(toUs)) : toUs' = Without(toUs, i)
    /\ lost' = [lost EXCEPT !.in = @ + 1]
    /\ UNCHANGED <<scene, conn, app, peer, toPeer>>

LoseOut ==
    /\ lost.out < scene.lossOut
    /\ \E i \in 1..Lesser(scene.reach, Len(toPeer)) : toPeer' = Without(toPeer, i)
    /\ lost' = [lost EXCEPT !.out = @ + 1]
    /\ UNCHANGED <<scene, conn, app, peer, toUs>>

PeerReceives ==
    /\ \E i \in 1..Lesser(scene.reach, Len(toPeer)) :
          /\ PeerDoes(PeerInput(peer, toPeer[i]))
          /\ toPeer' = Without(toPeer, i)
    /\ UNCHANGED <<scene, conn, app, lost>>

PeerData ==
    /\ \E m \in PeerMaySend(peer) :
          /\ m.start < peer.sent => TimeoutAllowed
          /\ PeerDoes(PeerSendsData(peer, m))
    /\ UNCHANGED <<scene, conn, app, toPeer, lost>>

PeerRepeats ==
    /\ peer.st \in {"synSent", "synRcvd"} /\ TimeoutAllowed
    /\ PeerDoes(PeerRepeatsSyn(peer))
    /\ UNCHANGED <<scene, conn, app, toPeer, lost>>

\* Its application reads, unless more came than was ever sent: that bounds the
\* copies a window that never closes would let through.
PeerRead ==
    /\ peer.st = "estab" /\ peer.unread > 0 /\ Len(peer.got) <= scene.out
    /\ PeerDoes(PeerReads(peer))
    /\ UNCHANGED <<scene, conn, app, toPeer, lost>>

PeerAbort ==
    /\ scene.aborts /\ peer.st = "estab"
    /\ PeerDoes(PeerAborts(peer))
    /\ UNCHANGED <<scene, conn, app, toPeer, lost>>

App == Connect \/ Accept \/ SendStart \/ SendWrite \/ SendFull \/ SendWait
        \/ SendGivesUp \/ RecvBytes \/ RecvEof \/ Close
Poll == Deliver \/ Timer
Net == LoseIn \/ LoseOut
Far == PeerReceives \/ PeerData \/ PeerRepeats \/ PeerRead \/ PeerAbort

Next == App \/ Poll \/ Net \/ Far

Spec == Init /\ [][Next]_vars

\* Poll is called again and again, by the background goroutine and by every
\* blocking call, so frames are handed over and timers are looked at; a Send
\* that has begun goes on; the application keeps reading; the network delivers
\* and the peer answers, retransmits and reads.  Nothing makes anybody call
\* Send or Close, and frames may be lost.
Fairness ==
    /\ WF_vars(Deliver) /\ WF_vars(Timer)
    /\ WF_vars(SendWrite) /\ WF_vars(SendFull) /\ WF_vars(SendWait)
    /\ WF_vars(RecvBytes) /\ WF_vars(RecvEof)
    /\ WF_vars(PeerReceives) /\ WF_vars(PeerData)
    /\ WF_vars(PeerRepeats) /\ WF_vars(PeerRead)

FairSpec == Spec /\ Fairness

----------------------------------------------------------------------------
(* Properties.                                                             *)

TypeOK ==
    /\ scene \in Scene
    /\ conn.st \in SockState /\ conn.tcp \in TcpState
    /\ {conn.seq, conn.ack, conn.una} \subseteq 0..(SeqMod - 1)
    /\ conn.out = <<>> /\ peer.out = <<>>
    /\ TxAvailable(conn) \in 0..TxBuf /\ RxFree(conn) \in 0..RxBuf
    /\ conn.cnt \in 0..MaxRetx
    /\ app.pending + conn.wr <= app.asked \/ conn.st = "Free"
    /\ Len(toPeer) <= MaxFlight /\ Len(toUs) <= MaxFlight

Prefix(s) == s = [i \in 1..Len(s) |-> i]

\* What the application reads, and what waits in the rx ring for it, are the
\* first bytes of the peer's stream in order, each once, whatever the network
\* reorders, repeats or loses (tcp.go:101-105).
ReceivedInOrder == Prefix(app.read \o conn.rx)

\* Recv reports the end of the stream before its last byte was read only if the
\* peer gave the connection up or our retransmissions did: a FIN that overtakes
\* data is not taken early (tcp.go:107, api.go:195-202).
EofAfterAllData ==
    app.eof /\ ~app.closed =>
        \/ Len(app.read) = peer.bytes
        \/ peer.st = "dead"
        \/ conn.st = "Closed" /\ conn.cnt = MaxRetx

\* Not kept: the end that Recv reports is the end of the stream.  It returns
\* errClosed for a reset and for a connection given up as well (api.go:197-202).
EndIsWhole == app.eof => Len(app.read) = peer.bytes

\* A byte the peer may forget, because it was acknowledged, is in the rx ring
\* or was read: nothing is acknowledged that did not fit (tcp.go:102-103).
AckedIsStored ==
    conn.st = "Connected" => Lesser(peer.acked, peer.bytes) <= Len(app.read) + Len(conn.rx)

\* The peer's application gets the bytes of the Send calls in order, each once
\* (tcp.go:238-257).
SentInOrder == Prefix(peer.got)

\* A byte that left the tx ring was received: an acknowledgment never releases
\* one that may have to be sent again (tcp.go:173-178).
ReleasedWereReceived == conn.rel <= Len(peer.got)

\* When the peer sees the end of our stream, it has all of it: a FIN never
\* overtakes bytes that still wait in the tx ring (tcp.go:217-229).
FinAfterAllData == peer.eof => Len(peer.got) = app.asked - app.pending

\* The use of a connection for which the sending half keeps its promises: it was
\* opened by Connect, no call sends or closes over unacknowledged bytes, the
\* peer's hardware address is always found, and no frame overtakes another.
Careful ==
    scene.waits /\ ~scene.passive /\ scene.resolves = {TRUE} /\ scene.reach = 1

\* With that use the three hold although frames are lost and timers run out early;
\* without any part of it one of them fails (tcp.go:173-264).
CarefulSends == Careful => SentInOrder /\ ReleasedWereReceived /\ FinAfterAllData

\* What Send put in the tx ring is acknowledged in the end, or the application
\* closes (tcp.go:189-212: the retransmission timer).
SendsAreAcked == TxAvailable(conn) > 0 ~> (TxAvailable(conn) = 0 \/ app.closed)

\* Not kept: what the peer sends is read in the end, and then the end of its stream
\* (tcp.go:96-116).
StreamRead == Len(app.read) = peer.bytes /\ (peer.closes => app.eof)
PeerStreamArrives == conn.st = "Connected" ~> (StreamRead \/ app.closed)

\* Not kept: Send returns when the connection ends under it.  Its waiting loop does
\* not look at the state of the socket, and without a deadline nothing else ends it
\* (api.go:169-178).
SendReturns == app.pending > 0 /\ conn.st = "Closed" ~> app.pending = 0

\* Not kept: a connection being closed does close (tcp.go:118-155, 196-210).
CloseCompletes == conn.st = "Closing" ~> conn.st = "Closed"

\* An acknowledgment of ours is never sent again by itself: the peer's stream
\* arrives for sure only if none of our frames is lost, whatever is lost on the
\* way in (tcp.go:101).
StreamArrivesUnlessLost ==
    conn.st = "Connected" ~> (StreamRead \/ app.closed \/ lost.out > 0)

\* Bytes of the peer that had not come when Close was called: what comes of them
\* then is dropped, and the FIN behind them is not taken.
Unheard == Len(app.read) + Len(conn.rx) < peer.bytes

\* A connection being closed does close, when the peer closes too, no frame is lost
\* and the peer's bytes had all come: neither our FIN nor our last acknowledgment is
\* sent again by itself, and FIN_WAIT_2 has no timer (tcp.go:118-155, 196-210).
ClosesUnlessLost ==
    conn.st = "Closing" /\ peer.closes ~>
        (conn.st = "Closed" \/ lost.in > 0 \/ lost.out > 0 \/ Unheard)

\* Not kept: the same although bytes of the peer come after Close.
ClosesUnheard ==
    conn.st = "Closing" /\ peer.closes ~>
        (conn.st = "Closed" \/ lost.in > 0 \/ lost.out > 0)
=============================================================================
