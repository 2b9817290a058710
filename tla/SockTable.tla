----------------------------- MODULE SockTable -----------------------------
(***************************************************************************)
(* The socket table of the stack: a fixed pool of slots, handed out as     *)
(* small integers by Socket and by Accept, demultiplexed by address and    *)
(* port, linked from a listener to its completed connection and from a     *)
(* connection back to its listener, and given back by Close                *)
(* (src/stack/api.go, src/stack/socket.go, the demultiplexing half of      *)
(* src/stack/tcp.go).  Sequence numbers and data belong to TcpEndpoint:    *)
(* here a segment is its flags, and whether it is in sequence is open.     *)
(***************************************************************************)
EXTENDS Integers, FiniteSets

CONSTANTS
    NSock,      \* MaxSockets
    Remote,     \* remote address and port pairs
    NoRemote,   \* the zero value of remoteAddr and remotePort
    BoundPort,  \* the ports the application binds
    EphBase,    \* 49152, the first ephemeral port
    EphCount,   \* how many ephemeral ports there are: 65535 - 49152
    Protocols   \* the kinds of socket the application opens

ASSUME TableAssumption ==
    /\ NSock \in Nat \ {0}
    /\ NoRemote \notin Remote
    /\ BoundPort \subseteq Nat \ {0}
    /\ EphBase \in Nat \ {0}
    /\ EphCount \in Nat /\ EphCount >= NSock
    /\ Protocols \subseteq {"tcp", "udp"}

VARIABLES
    sock,           \* st.sockets
    ephemeralPort,  \* where the next search for a port starts
    held            \* the descriptors the application has and may use

vars == <<sock, ephemeralPort, held>>

Fd == 0..(NSock - 1)
NoFd == -1

SockState == {"Free", "Bound", "Listening", "Connecting", "Connected", "Closing", "Closed"}
TcpState == {"Closed", "SynSent", "SynReceived", "Established", "FinWait1",
             "FinWait2", "CloseWait", "LastAck", "TimeWait"}

Socket == [state : SockState, protocol : {"none", "tcp", "udp"}, tcp : TcpState,
           localPort : Nat, remote : Remote \cup {NoRemote},
           auto : BOOLEAN,          \* the port came from nextEphemeralPort
           pendingConn : Fd \cup {NoFd}, listenerFD : Fd \cup {NoFd}]

\* reset
Blank == [state |-> "Free", protocol |-> "none", tcp |-> "Closed", localPort |-> 0,
          remote |-> NoRemote, auto |-> FALSE, pendingConn |-> NoFd, listenerFD |-> NoFd]

InUse(fd) == sock[fd].state # "Free"

\* The ports of the ephemeral range, and what follows it.
Dynamic == {port \in Nat : port >= EphBase}

\* The lowest index of a set: every search is a loop that stops at the first hit.
IsFirst(i, S) == i \in S /\ \A j \in S : i <= j

FreeSlots == {fd \in Fd : ~InUse(fd)}

\* Slips the runs must catch.
FreeOrClosed == {fd \in Fd : sock[fd].state \in {"Free", "Closed"}}
PortInUseByTcp(port) ==
    \E fd \in Fd : sock[fd].protocol = "tcp" /\ sock[fd].localPort = port
PendingKept(fd) == sock
CandidateOffset(i) == (ephemeralPort - EphBase + i) % EphCount

\* The slots allocSocket chooses from.
Allocatable == FreeSlots

\* The scan of nextEphemeralPort.
PortInUse(port) == \E fd \in Fd : InUse(fd) /\ sock[fd].localPort = port

Candidate(i) == EphBase + ((ephemeralPort - EphBase + i) % EphCount)

UsableSteps == {i \in 0..(EphCount - 1) : ~PortInUse(Candidate(i))}

\* nextEphemeralPort: the port it returns, which the counter then follows; when
\* all are taken it returns the one the counter stands at.
EphemeralPorts ==
    IF UsableSteps = {} THEN {ephemeralPort}
    ELSE {Candidate(i) : i \in {j \in UsableSteps : IsFirst(j, UsableSteps)}}

----------------------------------------------------------------------------
Init ==
    /\ sock = [fd \in Fd |-> Blank]
    /\ ephemeralPort = EphBase
    /\ held = {}

\* Socket
SocketCall(protocol) ==
    /\ \E fd \in Fd :
        /\ IsFirst(fd, Allocatable)
        /\ sock' = [sock EXCEPT ![fd] =
                        [Blank EXCEPT !.state = "Bound", !.protocol = protocol]]
        /\ held' = held \cup {fd}
    /\ UNCHANGED ephemeralPort

\* Bind.  The code asks only for a descriptor in use; that a socket is bound once,
\* before it is connected or listens, and connected or made to listen once, are
\* guards of the application in Bind, Connect and Listen.
Bind(fd, port) ==
    /\ fd \in held /\ sock[fd].state = "Bound" /\ sock[fd].localPort = 0
    /\ sock' = [sock EXCEPT ![fd].localPort = port]
    /\ UNCHANGED <<ephemeralPort, held>>

\* The socket after Connect was called on it.
Connecting(s, remote, port) ==
    LET called == [s EXCEPT !.remote = remote, !.localPort = port,
                            !.auto = s.localPort = 0]
    IN IF s.protocol = "udp" THEN [called EXCEPT !.state = "Connected"]
       ELSE [called EXCEPT !.state = "Connecting", !.tcp = "SynSent"]

\* Connect up to its polling loop: the handshake itself comes in as segments.
Connect(fd, remote) ==
    /\ fd \in held /\ sock[fd].state = "Bound"
    /\ \/ /\ sock[fd].localPort # 0
          /\ sock' = [sock EXCEPT ![fd] = Connecting(@, remote, @.localPort)]
          /\ UNCHANGED ephemeralPort
       \/ /\ sock[fd].localPort = 0
          /\ \E port \in EphemeralPorts :
                /\ sock' = [sock EXCEPT ![fd] = Connecting(@, remote, port)]
                /\ ephemeralPort' = port + 1
    /\ UNCHANGED held

\* Listen
Listen(fd) ==
    /\ fd \in held /\ sock[fd].state = "Bound" /\ sock[fd].protocol = "tcp"
    /\ sock[fd].localPort # 0
    /\ sock' = [sock EXCEPT ![fd] = [@ EXCEPT !.state = "Listening", !.pendingConn = NoFd]]
    /\ UNCHANGED <<ephemeralPort, held>>

\* sock.pendingConn = -1
TakePending(fd) == [sock EXCEPT ![fd].pendingConn = NoFd]

\* TryAccept, and the successful turn of Accept's loop.
TryAccept(fd) ==
    /\ fd \in held /\ sock[fd].state = "Listening" /\ sock[fd].pendingConn # NoFd
    /\ sock' = TakePending(fd)
    /\ held' = held \cup {sock[fd].pendingConn}
    /\ UNCHANGED ephemeralPort

\* What Close leaves in the slot.
Closed(s) ==
    IF s.protocol = "tcp" /\ s.tcp = "Established"
    THEN [s EXCEPT !.tcp = "FinWait1", !.state = "Closing"]
    ELSE IF s.protocol = "tcp" /\ s.tcp = "CloseWait"
    THEN [s EXCEPT !.tcp = "LastAck", !.state = "Closing"]
    ELSE Blank

\* Close
Close(fd) ==
    /\ fd \in held
    /\ sock' = [sock EXCEPT ![fd] = Closed(@)]
    /\ held' = held \ {fd}
    /\ UNCHANGED ephemeralPort

----------------------------------------------------------------------------
(* handleTCP: the connection the segment belongs to, or else the listener. *)

Flags == {{"SYN"}, {"SYN", "ACK"}, {"ACK"}, {"FIN", "ACK"}, {"RST"}, {"RST", "ACK"}}

\* findTCPSocket
Matching(remote, port) ==
    {fd \in Fd : /\ InUse(fd) /\ sock[fd].protocol = "tcp"
                 /\ sock[fd].state # "Listening"
                 /\ sock[fd].localPort = port /\ sock[fd].remote = remote}

\* findListeningSocket
ListeningOn(port) ==
    {fd \in Fd : sock[fd].state = "Listening" /\ sock[fd].localPort = port}

\* Where tcpInput takes the state machine; sequence numbers decide which.
TcpMoves(t, flags) ==
    CASE t = "SynSent" ->
            IF {"SYN", "ACK"} \subseteq flags THEN {"Established"}
            ELSE IF "RST" \in flags THEN {"Closed"} ELSE {t}
      [] t = "SynReceived" ->
            IF "RST" \in flags THEN {"Closed"}
            ELSE IF "ACK" \in flags THEN {"Established"} ELSE {t}
      [] t = "Established" ->
            IF "RST" \in flags THEN {"Closed"}
            ELSE IF "FIN" \in flags THEN {t, "CloseWait"} ELSE {t}
      [] t = "FinWait1" ->
            IF "FIN" \in flags THEN {t, "TimeWait"}
            ELSE IF "ACK" \in flags THEN {t, "FinWait2"} ELSE {t}
      [] t = "FinWait2" -> IF "FIN" \in flags THEN {t, "TimeWait"} ELSE {t}
      [] t = "LastAck" -> IF "ACK" \in flags THEN {"Closed"} ELSE {t}
      [] OTHER -> {t}

\* The socket after its state machine moved to t.
Moved(s, t) ==
    [s EXCEPT !.tcp = t,
              !.state = IF t = s.tcp THEN @
                        ELSE IF t = "Closed" THEN "Closed"
                        ELSE IF t = "Established" THEN "Connected" ELSE @]

\* The handshake of a server connection completes: the listener's slot is told,
\* whatever is in it by now.
Completes(s, flags) ==
    s.tcp = "SynReceived" /\ "ACK" \in flags /\ s.listenerFD # NoFd

\* tcpInput for the socket fd.
Input(fd, flags, t) ==
    LET moved == [sock EXCEPT ![fd] = Moved(@, t)] IN
    IF Completes(sock[fd], flags)
    THEN [moved EXCEPT ![sock[fd].listenerFD].pendingConn = fd]
    ELSE moved

\* A segment for an existing connection: the first socket with its addresses.
SegmentIn(fd, flags) ==
    /\ sock[fd].remote # NoRemote
    /\ IsFirst(fd, Matching(sock[fd].remote, sock[fd].localPort))
    /\ \E t \in TcpMoves(sock[fd].tcp, flags) : sock' = Input(fd, flags, t)
    /\ UNCHANGED <<ephemeralPort, held>>

\* handleSYNOnListener; without a free slot the peer is sent a reset.
SynIn(remote, port) ==
    /\ Matching(remote, port) = {}
    /\ \E fd, l \in Fd :
        /\ IsFirst(fd, Allocatable) /\ IsFirst(l, ListeningOn(port))
        /\ sock' = [sock EXCEPT ![fd] =
                        [Blank EXCEPT !.state = "Connecting", !.protocol = "tcp",
                                      !.tcp = "SynReceived", !.localPort = port,
                                      !.remote = remote, !.listenerFD = l]]
    /\ UNCHANGED <<ephemeralPort, held>>

\* tcpTimer gives the connection up, or TIME_WAIT is over.  The timer is never
\* started in SYN_RECEIVED.
GiveUp(fd) ==
    /\ sock[fd].tcp \notin {"Closed", "SynReceived"}
    /\ sock' = [sock EXCEPT ![fd] = Moved(@, "Closed")]
    /\ UNCHANGED <<ephemeralPort, held>>

Next ==
    \/ \E protocol \in Protocols : SocketCall(protocol)
    \/ \E fd \in Fd, port \in BoundPort : Bind(fd, port)
    \/ \E fd \in Fd, remote \in Remote : Connect(fd, remote)
    \/ \E fd \in Fd : Listen(fd)
    \/ \E fd \in Fd : TryAccept(fd)
    \/ \E fd \in Fd : Close(fd)
    \/ \E fd \in Fd, flags \in Flags : SegmentIn(fd, flags)
    \/ \E remote \in Remote, port \in BoundPort : SynIn(remote, port)
    \/ \E fd \in Fd : GiveUp(fd)

Spec == Init /\ [][Next]_vars

----------------------------------------------------------------------------
(* Properties.                                                             *)

TypeOK ==
    /\ sock \in [Fd -> Socket]
    /\ ephemeralPort \in Dynamic
    /\ held \subseteq Fd

\* A descriptor the application holds names a slot in use: neither a segment
\* nor a timer takes the slot away and gives it to another connection, only
\* the application's own Close does (api.go:217-245, socket.go:226-234).
HeldInUse == \A fd \in held : InUse(fd)

\* A connection waiting to be accepted is a slot in use that nobody holds:
\* Accept never returns a descriptor the application has already, nor a slot
\* that was given back (api.go:140-147, tcp.go:161-163).
PendingUnclaimed ==
    \A l \in Fd : LET c == sock[l].pendingConn IN
        c # NoFd => c \notin held /\ InUse(c) /\ sock[c].protocol = "tcp"

\* One connection waits in at most one place.
PendingOnce ==
    \A l, m \in Fd : sock[l].pendingConn # NoFd /\ sock[l].pendingConn = sock[m].pendingConn
                     => l = m

\* A connection whose handshake is not complete is known to nobody yet.
HalfOpenUnknown ==
    \A c \in Fd : sock[c].tcp = "SynReceived" =>
        /\ InUse(c) /\ sock[c].protocol = "tcp" /\ c \notin held
        /\ \A l \in Fd : sock[l].pendingConn # c

\* Two sockets never got the same port from nextEphemeralPort, whatever their
\* protocol and wherever the search wrapped (socket.go:249-270).
EphemeralUnique ==
    \A f, g \in Fd : /\ InUse(f) /\ InUse(g) /\ sock[f].auto /\ sock[g].auto
                     /\ sock[f].localPort = sock[g].localPort
                     => f = g

----------------------------------------------------------------------------
(* What the documentation says and the code does not keep.                 *)

\* When the application holds nothing and no connection is under way, a socket
\* can be had: closed sockets go back to the pool (DESIGN.md:181 "8 concurrent
\* sockets").
IdleStackHasSlots ==
    held = {} /\ (\A fd \in Fd : sock[fd].state \in {"Free", "Closed"}) => FreeSlots # {}

\* A server connection that completed and that nobody holds can be accepted: its
\* listener still points at it, as long as the listener is open (api.go:103
\* "Accept waits for and accepts an incoming connection").
CompletedCanBeAccepted ==
    \A c \in Fd : /\ sock[c].state = "Connected" /\ sock[c].listenerFD # NoFd
                  /\ c \notin held
                  /\ sock[sock[c].listenerFD].state = "Listening"
                  /\ sock[sock[c].listenerFD].localPort = sock[c].localPort
                  => sock[sock[c].listenerFD].pendingConn = c

\* Accept on a listener returns a connection to that listener's port
\* (socket.go:49 "For listening sockets: pending connection").
AcceptsOwnPort ==
    \A l \in Fd : /\ sock[l].state = "Listening" /\ sock[l].pendingConn # NoFd
                  => sock[sock[l].pendingConn].localPort = sock[l].localPort
=============================================================================
