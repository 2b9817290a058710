-------------------------- MODULE SockTableProofs --------------------------
(***************************************************************************)
(* Who owns a slot of the socket table, for any number of slots: the       *)
(* application's descriptors stay valid until it closes them, and Accept   *)
(* never returns a descriptor twice, and no two of them have the same port *)
(* from nextEphemeralPort.                                                 *)
(***************************************************************************)
EXTENDS SockTable, FiniteSetTheorems, TLAPS

\* The inductive invariant.  HeldInUse alone is not inductive: Accept adds the
\* pending connection to what is held, so a pending connection must be a slot
\* in use; that the same connection is not accepted again needs that it waits
\* in one place only; and that the completion of a handshake keeps both needs
\* that nobody knows a half-open connection yet.  FreeIsClosed says that the
\* timer only touches slots in use.
FreeIsClosed == \A fd \in Fd : ~InUse(fd) => sock[fd].tcp = "Closed"

Ownership ==
    /\ TypeOK
    /\ HeldInUse
    /\ PendingUnclaimed
    /\ PendingOnce
    /\ HalfOpenUnknown
    /\ FreeIsClosed

----------------------------------------------------------------------------
(* The pieces of a step.                                                   *)

LEMMA BlankSocket == Blank \in Socket
  BY DEF Blank, Socket, SockState, TcpState, NoFd

\* A half-open connection only ever starts as one: no segment and no timer
\* leads to that state.
LEMMA NoWayToHalfOpen ==
    ASSUME NEW t \in TcpState, NEW flags \in Flags, NEW u \in TcpMoves(t, flags)
    PROVE  /\ u \in TcpState
           /\ u = "SynReceived" => t = "SynReceived" /\ "ACK" \notin flags
  BY DEF TcpMoves, TcpState, Flags

\* Moving the state machine of a slot in use keeps it in use, and touches
\* nothing but the two states.
LEMMA MovedShape ==
    ASSUME NEW s \in Socket, NEW t \in TcpState, s.state # "Free"
    PROVE  /\ Moved(s, t) \in Socket
           /\ Moved(s, t).state # "Free"
           /\ Moved(s, t).tcp = t
           /\ Moved(s, t).protocol = s.protocol
           /\ Moved(s, t).pendingConn = s.pendingConn
           /\ Moved(s, t).listenerFD = s.listenerFD
  BY DEF Moved, Socket, SockState

\* Close either frees a slot or starts the closing handshake.
LEMMA ClosedShape ==
    ASSUME NEW s \in Socket
    PROVE  /\ Closed(s) \in Socket
           /\ Closed(s).tcp # "SynReceived"
           /\ Closed(s).state = "Free" => Closed(s).tcp = "Closed"
           /\ Closed(s).pendingConn \in {s.pendingConn, NoFd}
  BY ZenonT(60), BlankSocket DEF Closed, Socket, SockState, TcpState, Blank

LEMMA EphemeralPortIsPort ==
    ASSUME TypeOK, NEW port \in EphemeralPorts
    PROVE  port \in Dynamic /\ port + 1 \in Dynamic
  <1>1. CASE UsableSteps = {}
    BY <1>1, TableAssumption DEF EphemeralPorts, TypeOK, Dynamic
  <1>2. CASE UsableSteps # {}
    <2>1. PICK i \in 0..(EphCount - 1) : port = Candidate(i)
      BY <1>2 DEF EphemeralPorts, UsableSteps
    <2>2. ephemeralPort - EphBase + i \in Int /\ EphCount \in Nat \ {0} /\ EphBase \in Nat
      BY TableAssumption DEF TypeOK, Dynamic
    <2>3. (ephemeralPort - EphBase + i) % EphCount \in Nat
      BY <2>2
    <2> QED BY <2>1, <2>2, <2>3 DEF Candidate, Dynamic
  <1> QED BY <1>1, <1>2

----------------------------------------------------------------------------
(* Every step keeps the invariant.                                         *)

LEMMA InitOwnership == Init => Ownership
  <1> SUFFICES ASSUME Init PROVE Ownership
    OBVIOUS
  <1>1. /\ \A fd \in Fd : sock[fd] = Blank
        /\ sock \in [Fd -> Socket] /\ held = {} /\ ephemeralPort = EphBase
    BY BlankSocket DEF Init
  <1>2. Blank.state = "Free" /\ Blank.tcp = "Closed" /\ Blank.pendingConn = NoFd
    BY DEF Blank
  <1>3. TypeOK /\ HeldInUse
    BY <1>1, TableAssumption DEF TypeOK, Dynamic, HeldInUse
  <1>4. PendingUnclaimed /\ PendingOnce
    BY <1>1, <1>2 DEF PendingUnclaimed, PendingOnce
  <1>5. HalfOpenUnknown /\ FreeIsClosed
    BY <1>1, <1>2 DEF HalfOpenUnknown, FreeIsClosed
  <1> QED BY <1>3, <1>4, <1>5 DEF Ownership

\* A slot that was free gets a socket that nothing points at.
LEMMA AllocKeeps ==
    ASSUME Ownership, NEW fd \in Fd, ~InUse(fd),
           NEW s \in Socket, s.state # "Free", s.pendingConn = NoFd,
           s.tcp = "SynReceived" => s.protocol = "tcp" /\ fd \notin held',
           sock' = [sock EXCEPT ![fd] = s],
           held' \in {held, held \cup {fd}}, ephemeralPort' = ephemeralPort
    PROVE  Ownership'
  <1>1. TypeOK'
    BY DEF Ownership, TypeOK
  <1>2. HeldInUse'
    BY DEF Ownership, TypeOK, HeldInUse, InUse
  <1>3. \A l \in Fd : sock[l].pendingConn # fd /\ fd \notin held /\ fd # NoFd
    BY DEF Ownership, PendingUnclaimed, HeldInUse, Fd, NoFd
  <1>4. PendingUnclaimed'
    BY <1>3 DEF Ownership, TypeOK, PendingUnclaimed, InUse
  <1>5. PendingOnce'
    BY <1>3 DEF Ownership, TypeOK, PendingOnce
  <1>6. HalfOpenUnknown'
    <2>1. \A x \in Fd : sock'[x] = IF x = fd THEN s ELSE sock[x]
      BY DEF Ownership, TypeOK
    <2>2. \A l \in Fd : sock'[l].pendingConn \in {sock[l].pendingConn, NoFd}
      BY <2>1
    <2>3. ASSUME NEW c \in Fd, c # fd, sock'[c].tcp = "SynReceived"
          PROVE  /\ InUse(c)' /\ sock'[c].protocol = "tcp" /\ c \notin held'
                 /\ \A l \in Fd : sock'[l].pendingConn # c
      BY <2>1, <2>2, <2>3 DEF Ownership, HalfOpenUnknown, InUse, Fd, NoFd
    <2>4. sock'[fd].tcp = "SynReceived" =>
              /\ InUse(fd)' /\ sock'[fd].protocol = "tcp" /\ fd \notin held'
              /\ \A l \in Fd : sock'[l].pendingConn # fd
      BY <1>3, <2>1, <2>2 DEF InUse
    <2> QED BY <2>3, <2>4 DEF HalfOpenUnknown
  <1>7. FreeIsClosed'
    BY DEF Ownership, TypeOK, FreeIsClosed, InUse
  <1> QED BY <1>1, <1>2, <1>4, <1>5, <1>6, <1>7 DEF Ownership

\* A slot in use stays in use; what it is waiting for and what waits for it do
\* not change.
LEMMA UpdateKeeps ==
    ASSUME Ownership, NEW fd \in Fd, InUse(fd),
           NEW s \in Socket, s.state # "Free",
           s.pendingConn \in {sock[fd].pendingConn, NoFd},
           s.protocol = sock[fd].protocol,
           s.tcp = "SynReceived" => sock[fd].tcp = "SynReceived",
           sock' = [sock EXCEPT ![fd] = s],
           held' = held, ephemeralPort' \in Dynamic
    PROVE  Ownership'
  <1>1. TypeOK'
    BY DEF Ownership, TypeOK
  <1>2. HeldInUse'
    BY DEF Ownership, TypeOK, HeldInUse, InUse
  <1>3. PendingUnclaimed'
    BY DEF Ownership, TypeOK, PendingUnclaimed, InUse
  <1>4. PendingOnce'
    BY DEF Ownership, TypeOK, PendingOnce
  <1>5. HalfOpenUnknown'
    <2>1. \A x \in Fd : sock'[x] = IF x = fd THEN s ELSE sock[x]
      BY DEF Ownership, TypeOK
    <2>2. \A l \in Fd : sock'[l].pendingConn \in {sock[l].pendingConn, NoFd}
      BY <2>1
    <2>3. ASSUME NEW c \in Fd, sock'[c].tcp = "SynReceived"
          PROVE  sock[c].tcp = "SynReceived" /\ sock'[c].protocol = sock[c].protocol
      BY <2>1, <2>3
    <2>4. ASSUME NEW c \in Fd, InUse(c) PROVE InUse(c)'
      BY <2>1, <2>4 DEF InUse
    <2> QED BY <2>2, <2>3, <2>4 DEF Ownership, HalfOpenUnknown, Fd, NoFd
  <1>6. FreeIsClosed'
    BY DEF Ownership, TypeOK, FreeIsClosed, InUse
  <1> QED BY <1>1, <1>2, <1>3, <1>4, <1>5, <1>6 DEF Ownership

LEMMA SocketKeeps ==
    ASSUME Ownership, NEW protocol \in Protocols, SocketCall(protocol)
    PROVE  Ownership'
  <1>1. PICK fd \in Fd :
            /\ fd \in FreeSlots
            /\ sock' = [sock EXCEPT ![fd] =
                            [Blank EXCEPT !.state = "Bound", !.protocol = protocol]]
            /\ held' = held \cup {fd}
    BY DEF SocketCall, IsFirst, Allocatable
  <1> DEFINE s == [Blank EXCEPT !.state = "Bound", !.protocol = protocol]
  <1>2. s \in Socket /\ s.state # "Free" /\ s.pendingConn = NoFd /\ s.tcp # "SynReceived"
    BY BlankSocket, TableAssumption DEF Blank, Socket, SockState
  <1>3. ~InUse(fd)
    BY <1>1 DEF FreeSlots
  <1> QED BY <1>1, <1>2, <1>3, AllocKeeps DEF SocketCall

LEMMA SynKeeps ==
    ASSUME Ownership, NEW remote \in Remote, NEW port \in BoundPort, SynIn(remote, port)
    PROVE  Ownership'
  <1>1. PICK fd \in Fd, l \in Fd :
            /\ fd \in FreeSlots
            /\ sock' = [sock EXCEPT ![fd] =
                            [Blank EXCEPT !.state = "Connecting", !.protocol = "tcp",
                                          !.tcp = "SynReceived", !.localPort = port,
                                          !.remote = remote, !.listenerFD = l]]
    BY DEF SynIn, IsFirst, Allocatable
  <1> DEFINE s == [Blank EXCEPT !.state = "Connecting", !.protocol = "tcp",
                                !.tcp = "SynReceived", !.localPort = port,
                                !.remote = remote, !.listenerFD = l]
  <1>2. s \in Socket /\ s.state # "Free" /\ s.pendingConn = NoFd /\ s.protocol = "tcp"
    BY BlankSocket, TableAssumption DEF Blank, Socket, SockState, TcpState
  <1>3. ~InUse(fd) /\ fd \notin held
    BY <1>1 DEF FreeSlots, Ownership, HeldInUse
  <1> QED BY <1>1, <1>2, <1>3, AllocKeeps DEF SynIn

LEMMA BindKeeps ==
    ASSUME Ownership, NEW fd \in Fd, NEW port \in BoundPort, Bind(fd, port)
    PROVE  Ownership'
  <1> DEFINE s == [sock[fd] EXCEPT !.localPort = port]
  <1>1. sock[fd] \in Socket /\ InUse(fd)
    BY DEF Ownership, TypeOK, HeldInUse, Bind
  <1>2. /\ s \in Socket /\ s.state # "Free" /\ s.pendingConn = sock[fd].pendingConn
        /\ s.protocol = sock[fd].protocol /\ s.tcp = sock[fd].tcp
    BY <1>1, TableAssumption DEF Socket, InUse
  <1>3. sock' = [sock EXCEPT ![fd] = s]
    BY DEF Bind
  <1> QED BY <1>1, <1>2, <1>3, UpdateKeeps DEF Bind, Ownership, TypeOK

LEMMA ConnectKeeps ==
    ASSUME Ownership, NEW fd \in Fd, NEW remote \in Remote, Connect(fd, remote)
    PROVE  Ownership'
  <1>1. sock[fd] \in Socket /\ InUse(fd)
    BY DEF Ownership, TypeOK, HeldInUse, Connect
  <1>2. PICK port \in Nat :
            /\ sock' = [sock EXCEPT ![fd] = Connecting(sock[fd], remote, port)]
            /\ ephemeralPort' \in Dynamic
    <2>1. CASE sock[fd].localPort # 0
      BY <1>1, <2>1 DEF Connect, Ownership, TypeOK, Socket
    <2>2. CASE sock[fd].localPort = 0
      BY <2>2, EphemeralPortIsPort DEF Connect, Ownership, Dynamic
    <2> QED BY <2>1, <2>2
  <1> DEFINE s == Connecting(sock[fd], remote, port)
  <1>3. /\ s \in Socket /\ s.state # "Free" /\ s.pendingConn = sock[fd].pendingConn
        /\ s.protocol = sock[fd].protocol
        /\ s.tcp = "SynReceived" => sock[fd].tcp = "SynReceived"
    BY ZenonT(60), <1>1 DEF Connecting, Socket, SockState, TcpState
  <1> QED BY <1>1, <1>2, <1>3, UpdateKeeps DEF Connect

LEMMA ListenKeeps ==
    ASSUME Ownership, NEW fd \in Fd, Listen(fd)
    PROVE  Ownership'
  <1> DEFINE s == [sock[fd] EXCEPT !.state = "Listening", !.pendingConn = NoFd]
  <1>1. sock[fd] \in Socket /\ InUse(fd)
    BY DEF Ownership, TypeOK, HeldInUse, Listen
  <1>2. /\ s \in Socket /\ s.state # "Free" /\ s.pendingConn = NoFd
        /\ s.protocol = sock[fd].protocol /\ s.tcp = sock[fd].tcp
    BY <1>1 DEF Socket, SockState
  <1>3. sock' = [sock EXCEPT ![fd] = s]
    BY DEF Listen
  <1> QED BY <1>1, <1>2, <1>3, UpdateKeeps DEF Listen, Ownership, TypeOK

LEMMA GiveUpKeeps ==
    ASSUME Ownership, NEW fd \in Fd, GiveUp(fd)
    PROVE  Ownership'
  <1> DEFINE s == Moved(sock[fd], "Closed")
  <1>1. sock[fd] \in Socket /\ InUse(fd)
    BY DEF Ownership, TypeOK, FreeIsClosed, GiveUp
  <1>2. /\ s \in Socket /\ s.state # "Free" /\ s.pendingConn = sock[fd].pendingConn
        /\ s.protocol = sock[fd].protocol /\ s.tcp = "Closed"
    BY <1>1, MovedShape DEF InUse, TcpState
  <1>3. sock' = [sock EXCEPT ![fd] = s]
    BY DEF GiveUp
  <1> HIDE DEF s
  <1> QED BY <1>1, <1>2, <1>3, UpdateKeeps DEF GiveUp, Ownership, TypeOK

\* Accept moves the pending connection into the application's hands: it was
\* waiting here and nowhere else.
LEMMA TryAcceptKeeps ==
    ASSUME Ownership, NEW fd \in Fd, TryAccept(fd)
    PROVE  Ownership'
  <1> DEFINE c == sock[fd].pendingConn
  <1>1. c \in Fd /\ c # NoFd /\ c \notin held /\ InUse(c)
    BY DEF Ownership, TypeOK, Socket, PendingUnclaimed, TryAccept, NoFd, Fd
  <1>2. /\ sock' = [sock EXCEPT ![fd] = [sock[fd] EXCEPT !.pendingConn = NoFd]]
        /\ held' = held \cup {c} /\ ephemeralPort' = ephemeralPort
    BY DEF TryAccept, TakePending
  <1>3. sock \in [Fd -> Socket] /\ sock[fd] \in Socket
    BY DEF Ownership, TypeOK
  <1>4. \A x \in Fd : /\ sock'[x].state = sock[x].state
                      /\ sock'[x].tcp = sock[x].tcp
                      /\ sock'[x].protocol = sock[x].protocol
                      /\ sock'[x].pendingConn = IF x = fd THEN NoFd ELSE sock[x].pendingConn
    BY <1>2, <1>3 DEF Socket
  <1>5. TypeOK'
    BY <1>1, <1>2, <1>3 DEF Ownership, TypeOK, Socket
  <1>6. HeldInUse'
    BY <1>1, <1>2, <1>4 DEF Ownership, TypeOK, HeldInUse, InUse
  <1>7. PendingUnclaimed'
    <2>1. ASSUME NEW l \in Fd, sock'[l].pendingConn # NoFd
          PROVE  /\ sock'[l].pendingConn = sock[l].pendingConn
                 /\ sock[l].pendingConn # c
                 /\ sock[l].pendingConn \in Fd
      BY <1>1, <1>3, <1>4, <2>1 DEF Ownership, PendingOnce, Socket
    <2> QED BY <1>2, <1>4, <2>1 DEF Ownership, PendingUnclaimed, InUse
  <1>8. PendingOnce'
    BY <1>4 DEF Ownership, PendingOnce
  <1>9. HalfOpenUnknown'
    BY <1>1, <1>2, <1>4 DEF Ownership, HalfOpenUnknown, InUse, Fd, NoFd
  <1>10. FreeIsClosed'
    BY <1>4 DEF Ownership, FreeIsClosed, InUse
  <1> QED BY <1>5, <1>6, <1>7, <1>8, <1>9, <1>10 DEF Ownership

\* Close gives up the descriptor with the slot, and nobody waits for it.
LEMMA CloseKeeps ==
    ASSUME Ownership, NEW fd \in Fd, Close(fd)
    PROVE  Ownership'
  <1> DEFINE s == Closed(sock[fd])
  <1>1. /\ s \in Socket /\ s.tcp # "SynReceived"
        /\ s.pendingConn \in {sock[fd].pendingConn, NoFd}
        /\ s.state = "Free" => s.tcp = "Closed"
    BY ClosedShape DEF Ownership, TypeOK
  <1>2. sock' = [sock EXCEPT ![fd] = s] /\ held' = held \ {fd} /\ ephemeralPort' = ephemeralPort
    BY DEF Close
  <1> HIDE DEF s
  <1>3. sock \in [Fd -> Socket]
    BY DEF Ownership, TypeOK
  <1>4. \A l \in Fd : sock[l].pendingConn # fd
    BY DEF Ownership, PendingUnclaimed, Close, Fd, NoFd
  <1>5. TypeOK'
    BY <1>1, <1>2, <1>3 DEF Ownership, TypeOK
  <1>6. HeldInUse'
    BY <1>2, <1>3 DEF Ownership, TypeOK, HeldInUse, InUse
  <1>7. PendingUnclaimed'
    <2>1. ASSUME NEW l \in Fd, sock'[l].pendingConn # NoFd
          PROVE  /\ sock'[l].pendingConn = sock[l].pendingConn
                 /\ sock[l].pendingConn # fd
                 /\ sock[l].pendingConn \in Fd
      BY <1>1, <1>2, <1>3, <1>4, <2>1 DEF Socket
    <2>2. \A x \in Fd \ {fd} : sock'[x] = sock[x]
      BY <1>2, <1>3
    <2> QED BY <1>2, <2>1, <2>2 DEF Ownership, PendingUnclaimed, InUse
  <1>8. PendingOnce'
    BY <1>1, <1>2, <1>3 DEF Ownership, PendingOnce
  <1>9. HalfOpenUnknown'
    <2>1. ASSUME NEW c \in Fd, sock'[c].tcp = "SynReceived"
          PROVE  c # fd /\ sock'[c] = sock[c]
      BY <1>1, <1>2, <1>3, <2>1
    <2>2. \A l \in Fd : sock'[l].pendingConn \in {sock[l].pendingConn, NoFd}
      BY <1>1, <1>2, <1>3
    <2> QED BY <1>2, <2>1, <2>2 DEF Ownership, HalfOpenUnknown, InUse, Fd, NoFd
  <1>10. FreeIsClosed'
    BY <1>1, <1>2, <1>3 DEF Ownership, FreeIsClosed, InUse
  <1> QED BY <1>5, <1>6, <1>7, <1>8, <1>9, <1>10 DEF Ownership

\* A handshake completes and the listener's slot, whoever has it now, learns
\* the connection's descriptor, which nobody knew.
LEMMA CompletionKeeps ==
    ASSUME Ownership, NEW fd \in Fd, NEW flags \in Flags, NEW t \in TcpState,
           Completes(sock[fd], flags), t # "SynReceived",
           sock' = Input(fd, flags, t), UNCHANGED <<ephemeralPort, held>>
    PROVE  Ownership'
  <1> DEFINE lfd == sock[fd].listenerFD
             s == Moved(sock[fd], t)
             moved == [sock EXCEPT ![fd] = s]
  <1>1. /\ sock \in [Fd -> Socket] /\ sock[fd] \in Socket
        /\ sock[fd].tcp = "SynReceived" /\ lfd \in Fd
    BY DEF Ownership, TypeOK, Socket, Completes
  <1>2. /\ sock[fd].state # "Free" /\ sock[fd].protocol = "tcp" /\ fd \notin held
        /\ fd # NoFd /\ \A l \in Fd : sock[l].pendingConn # fd
    BY <1>1 DEF Ownership, HalfOpenUnknown, InUse, Fd, NoFd
  <1>3. /\ s \in Socket /\ s.state # "Free" /\ s.tcp = t
        /\ s.protocol = "tcp" /\ s.pendingConn = sock[fd].pendingConn
    BY <1>1, <1>2, MovedShape
  <1>4. sock' = [moved EXCEPT ![lfd] = [moved[lfd] EXCEPT !.pendingConn = fd]]
    BY DEF Input
  <1> HIDE DEF s, lfd
  <1>5. moved \in [Fd -> Socket]
    BY <1>1, <1>3
  <1>6. sock' \in [Fd -> Socket]
    BY <1>1, <1>4, <1>5 DEF Socket
  <1>7. \A x \in Fd : /\ sock'[x].state = moved[x].state
                      /\ sock'[x].tcp = moved[x].tcp
                      /\ sock'[x].protocol = moved[x].protocol
                      /\ sock'[x].pendingConn = IF x = lfd THEN fd ELSE moved[x].pendingConn
    BY <1>1, <1>4, <1>5 DEF Socket
  <1>8. \A x \in Fd : /\ x # fd => moved[x] = sock[x]
                      /\ x = fd => moved[x] = s
                      /\ moved[x].pendingConn = sock[x].pendingConn
    BY <1>1, <1>3
  <1> HIDE DEF moved
  <1>9. TypeOK'
    BY <1>6 DEF Ownership, TypeOK
  <1>10. HeldInUse'
    BY <1>2, <1>7, <1>8 DEF Ownership, TypeOK, HeldInUse, InUse
  <1>11. \A x \in Fd : InUse(x) => sock'[x].state # "Free" /\ sock'[x].protocol = sock[x].protocol
    BY <1>2, <1>3, <1>7, <1>8 DEF InUse
  <1>12. PendingUnclaimed'
    <2>1. ASSUME NEW l \in Fd, l # lfd, sock'[l].pendingConn # NoFd
          PROVE  /\ sock'[l].pendingConn = sock[l].pendingConn
                 /\ sock[l].pendingConn \in Fd
      BY <1>1, <1>7, <1>8, <2>1 DEF Socket
    <2>2. sock'[lfd].pendingConn = fd
      BY <1>1, <1>7
    <2> QED BY <1>2, <1>11, <2>1, <2>2 DEF Ownership, PendingUnclaimed, InUse
  <1>13. PendingOnce'
    BY <1>2, <1>7, <1>8 DEF Ownership, PendingOnce
  <1>14. HalfOpenUnknown'
    <2>1. ASSUME NEW c \in Fd, sock'[c].tcp = "SynReceived"
          PROVE  c # fd /\ sock[c].tcp = "SynReceived"
      BY <1>3, <1>7, <1>8, <2>1
    <2>2. \A l \in Fd : sock'[l].pendingConn \in {sock[l].pendingConn, fd}
      BY <1>7, <1>8
    <2> QED BY <1>11, <2>1, <2>2 DEF Ownership, HalfOpenUnknown, InUse
  <1>15. FreeIsClosed'
    BY <1>3, <1>7, <1>8 DEF Ownership, FreeIsClosed, InUse
  <1> QED BY <1>9, <1>10, <1>12, <1>13, <1>14, <1>15 DEF Ownership

LEMMA SegmentKeeps ==
    ASSUME Ownership, NEW fd \in Fd, NEW flags \in Flags, SegmentIn(fd, flags)
    PROVE  Ownership'
  <1>1. sock[fd] \in Socket /\ sock[fd].tcp \in TcpState /\ InUse(fd)
    BY DEF Ownership, TypeOK, Socket, SegmentIn, IsFirst, Matching
  <1>2. PICK t \in TcpMoves(sock[fd].tcp, flags) : sock' = Input(fd, flags, t)
    BY DEF SegmentIn
  <1>3. t \in TcpState /\ (t = "SynReceived" => sock[fd].tcp = "SynReceived" /\ "ACK" \notin flags)
    BY <1>1, <1>2, NoWayToHalfOpen
  <1>4. UNCHANGED <<ephemeralPort, held>>
    BY DEF SegmentIn
  <1>5. CASE Completes(sock[fd], flags)
    <2>1. t # "SynReceived"
      BY <1>3, <1>5 DEF Completes
    <2> QED BY <1>2, <1>3, <1>4, <1>5, <2>1, CompletionKeeps
  <1>6. CASE ~Completes(sock[fd], flags)
    <2> DEFINE s == Moved(sock[fd], t)
    <2>1. sock' = [sock EXCEPT ![fd] = s]
      BY <1>2, <1>6 DEF Input
    <2>2. /\ s \in Socket /\ s.state # "Free" /\ s.pendingConn = sock[fd].pendingConn
          /\ s.protocol = sock[fd].protocol /\ s.tcp = t
      BY <1>1, <1>3, MovedShape DEF InUse
    <2> HIDE DEF s
    <2> QED BY <1>1, <1>3, <1>4, <2>1, <2>2, UpdateKeeps DEF Ownership, TypeOK
  <1> QED BY <1>5, <1>6

LEMMA NextKeeps == Ownership /\ [Next]_vars => Ownership'
  <1> SUFFICES ASSUME Ownership, [Next]_vars PROVE Ownership'
    OBVIOUS
  <1>1. CASE UNCHANGED vars
    BY <1>1 DEF vars, Ownership, TypeOK, HeldInUse, PendingUnclaimed, PendingOnce,
                HalfOpenUnknown, FreeIsClosed, InUse
  <1>2. CASE \E protocol \in Protocols : SocketCall(protocol)
    BY <1>2, SocketKeeps
  <1>3. CASE \E fd \in Fd, port \in BoundPort : Bind(fd, port)
    BY <1>3, BindKeeps
  <1>4. CASE \E fd \in Fd, remote \in Remote : Connect(fd, remote)
    BY <1>4, ConnectKeeps
  <1>5. CASE \E fd \in Fd : Listen(fd)
    BY <1>5, ListenKeeps
  <1>6. CASE \E fd \in Fd : TryAccept(fd)
    BY <1>6, TryAcceptKeeps
  <1>7. CASE \E fd \in Fd : Close(fd)
    BY <1>7, CloseKeeps
  <1>8. CASE \E fd \in Fd, flags \in Flags : SegmentIn(fd, flags)
    BY <1>8, SegmentKeeps
  <1>9. CASE \E remote \in Remote, port \in BoundPort : SynIn(remote, port)
    BY <1>9, SynKeeps
  <1>10. CASE \E fd \in Fd : GiveUp(fd)
    BY <1>10, GiveUpKeeps
  <1> QED BY <1>1, <1>2, <1>3, <1>4, <1>5, <1>6, <1>7, <1>8, <1>9, <1>10 DEF Next

----------------------------------------------------------------------------
(* Ports from nextEphemeralPort.                                           *)

\* Unique ports are inductive together with: a port that was searched for is
\* not zero, so that Bind never writes over one.
PortsApart ==
    /\ EphemeralUnique
    /\ \A fd \in Fd : InUse(fd) /\ sock[fd].auto => sock[fd].localPort # 0

\* Two turns of the search that differ by less than the range look at two
\* different ports.
LEMMA TurnsDiffer ==
    ASSUME NEW n \in Nat \ {0}, NEW a \in Nat, NEW i \in 0..(n - 1), NEW j \in 0..(n - 1),
           (a + i) % n = (a + j) % n
    PROVE  i = j
  <1> DEFINE p == (a + i) \div n
             q == (a + j) \div n
             r == (a + i) % n
  <1>1. p \in Int /\ q \in Int /\ r \in Int /\ a + i = n * p + r /\ a + j = n * q + r
    BY Z3
  <1> HIDE DEF p, q, r
  <1>2. i - j = n * (p - q)
    BY <1>1, Z3
  <1>3. p - q = 0
    <2> DEFINE d == p - q
    <2>1. d \in Int /\ i - j = n * d /\ i - j < n /\ i - j > -n
      BY <1>1, <1>2
    <2> HIDE DEF d
    <2>2. d >= 1 => n * d >= n
      BY <2>1, Z3
    <2>3. d <= -1 => n * d <= -n
      BY <2>1, Z3
    <2>4. d = 0
      BY <2>1, <2>2, <2>3
    <2> QED BY <2>4 DEF d
  <1> QED BY <1>2, <1>3

LEMMA CountFromZero ==
    ASSUME NEW n \in Nat \ {0}
    PROVE  IsFiniteSet(0..(n - 1)) /\ Cardinality(0..(n - 1)) = n
  <1> DEFINE last == n - 1
  <1>1. last \in Int /\ ~(0 > last) /\ last - 0 + 1 = n
    OBVIOUS
  <1> HIDE DEF last
  <1>2. IsFiniteSet(0..last) /\ Cardinality(0..last) = IF 0 > last THEN 0 ELSE last - 0 + 1
    BY <1>1, FS_Interval
  <1>3. Cardinality(0..last) = n
    BY <1>1, <1>2
  <1> QED BY <1>2, <1>3 DEF last

\* The range is larger than the table: when the caller's own slot has no port
\* yet, the search ends at a port that no slot in use has, and never at the
\* port it would return if all of them were taken.
LEMMA SearchSucceeds ==
    ASSUME Ownership, NEW fd \in Fd, sock[fd].localPort = 0
    PROVE  UsableSteps # {}
  <1> SUFFICES ASSUME UsableSteps = {} PROVE FALSE
    OBVIOUS
  <1> DEFINE Turns == 0..(EphCount - 1)
             Others == Fd \ {fd}
             a == ephemeralPort - EphBase
  <1>1. /\ NSock \in Nat \ {0} /\ EphCount \in Nat \ {0} /\ EphCount >= NSock
        /\ EphBase \in Nat \ {0} /\ a \in Nat
    BY TableAssumption DEF Ownership, TypeOK, Dynamic
  <1>2. \A i \in Turns : Candidate(i) \in Nat \ {0}
    <2> TAKE i \in Turns
    <2>1. a + i \in Int
      BY <1>1
    <2>2. (a + i) % EphCount \in Nat
      BY <1>1, <2>1
    <2> QED BY <1>1, <2>2 DEF Candidate
  <1>3. \A i \in Turns : \E g \in Others : sock[g].localPort = Candidate(i)
    BY <1>2 DEF UsableSteps, PortInUse
  <1> DEFINE slot == [i \in Turns |-> CHOOSE g \in Others : sock[g].localPort = Candidate(i)]
  <1>4. slot \in [Turns -> Others] /\ \A i \in Turns : sock[slot[i]].localPort = Candidate(i)
    BY <1>3
  <1>5. IsFiniteSet(Turns) /\ Cardinality(Turns) = EphCount
    BY <1>1, CountFromZero
  <1>6. IsFiniteSet(Fd) /\ Cardinality(Fd) = NSock
    BY <1>1, CountFromZero DEF Fd
  <1>7. IsFiniteSet(Others) /\ Cardinality(Others) = NSock - 1
    BY <1>6, FS_RemoveElement
  <1> HIDE DEF slot
  <1>8. PICK i \in Turns, j \in Turns : i # j /\ slot[i] = slot[j]
    <2>1. Cardinality(Others) < Cardinality(Turns)
      BY <1>1, <1>5, <1>7
    <2> HIDE DEF Turns, Others
    <2> QED BY <1>4, <1>5, <1>7, <2>1, FS_PigeonHole
  <1>9. EphBase + ((a + i) % EphCount) = EphBase + ((a + j) % EphCount)
    BY <1>4, <1>8 DEF Candidate
  <1>10. (a + i) % EphCount = (a + j) % EphCount
    <2>1. (a + i) % EphCount \in Int /\ (a + j) % EphCount \in Int
      BY <1>1
    <2> HIDE DEF a
    <2> QED BY <1>1, <1>9, <2>1
  <1> QED BY <1>1, <1>8, <1>10, TurnsDiffer

\* A slot that has a port from the search keeps it, and gets none otherwise.
LEMMA PortsKept ==
    ASSUME PortsApart,
           \A x \in Fd : InUse(x)' /\ sock'[x].auto =>
               InUse(x) /\ sock[x].auto /\ sock'[x].localPort = sock[x].localPort
    PROVE  PortsApart'
  BY DEF PortsApart, EphemeralUnique

\* Connect takes a port that no slot in use has.
LEMMA ConnectApart ==
    ASSUME Ownership, PortsApart, NEW fd \in Fd, NEW remote \in Remote, Connect(fd, remote)
    PROVE  PortsApart'
  <1>1. sock \in [Fd -> Socket] /\ sock[fd] \in Socket
    BY DEF Ownership, TypeOK
  <1>2. CASE sock[fd].localPort # 0
    <2>1. sock' = [sock EXCEPT ![fd] = Connecting(sock[fd], remote, sock[fd].localPort)]
      BY <1>2 DEF Connect
    <2>2. ~Connecting(sock[fd], remote, sock[fd].localPort).auto
      BY <1>1, <1>2 DEF Connecting, Socket
    <2> QED BY <1>1, <2>1, <2>2, PortsKept DEF InUse
  <1>3. CASE sock[fd].localPort = 0
    <2>1. PICK port \in EphemeralPorts :
              sock' = [sock EXCEPT ![fd] = Connecting(sock[fd], remote, port)]
      BY <1>3 DEF Connect
    <2>2. port # 0
      BY <2>1, EphemeralPortIsPort, TableAssumption DEF Ownership, Dynamic
    <2>3. ~PortInUse(port)
      BY <1>3, <2>1, SearchSucceeds DEF EphemeralPorts, UsableSteps
    <2>4. Connecting(sock[fd], remote, port).localPort = port
      BY <1>1 DEF Connecting, Socket
    <2>5. \A x \in Fd : sock'[x] = IF x = fd THEN Connecting(sock[fd], remote, port) ELSE sock[x]
      BY <1>1, <2>1
    <2>6. \A x \in Fd \ {fd} : InUse(x)' => InUse(x) /\ sock'[x] = sock[x] /\ sock'[x].localPort # port
      BY <2>3, <2>5 DEF InUse, PortInUse
    <2>7. sock'[fd].localPort = port
      BY <2>4, <2>5
    <2>8. EphemeralUnique'
      BY <2>6, <2>7 DEF PortsApart, EphemeralUnique
    <2>9. \A x \in Fd : InUse(x)' /\ sock'[x].auto => sock'[x].localPort # 0
      BY <2>2, <2>6, <2>7 DEF PortsApart
    <2> QED BY <2>8, <2>9 DEF PortsApart
  <1> QED BY <1>2, <1>3

LEMMA SegmentApart ==
    ASSUME Ownership, PortsApart, NEW fd \in Fd, NEW flags \in Flags, SegmentIn(fd, flags)
    PROVE  PortsApart'
  <1>1. sock \in [Fd -> Socket] /\ InUse(fd)
    BY DEF Ownership, TypeOK, SegmentIn, IsFirst, Matching
  <1>2. PICK t : sock' = Input(fd, flags, t)
    BY DEF SegmentIn
  <1> DEFINE moved == [sock EXCEPT ![fd] = Moved(sock[fd], t)]
  <1>3. \A x \in Fd : /\ moved[x].auto = sock[x].auto /\ moved[x].localPort = sock[x].localPort
                      /\ x # fd => moved[x].state = sock[x].state
    BY <1>1 DEF Moved, Socket
  <1>4. \A x \in Fd : /\ sock'[x].auto = moved[x].auto
                      /\ sock'[x].localPort = moved[x].localPort
                      /\ sock'[x].state = moved[x].state
    <2>1. CASE Completes(sock[fd], flags)
      <3> DEFINE lfd == sock[fd].listenerFD
      <3>1. sock' = [moved EXCEPT ![lfd] = [moved[lfd] EXCEPT !.pendingConn = fd]]
        BY <1>2, <2>1 DEF Input
      <3>2. DOMAIN moved = Fd
        BY <1>1
      <3>3. \A x \in Fd : moved[x] \in [DOMAIN moved[x] -> {moved[x][k] : k \in DOMAIN moved[x]}]
        BY <1>1 DEF Moved, Socket
      <3> HIDE DEF moved, lfd
      <3> QED BY <3>1, <3>2, <3>3
    <2>2. CASE ~Completes(sock[fd], flags)
      BY <1>2, <2>2 DEF Input
    <2> QED BY <2>1, <2>2
  <1> HIDE DEF moved
  <1> QED BY <1>1, <1>3, <1>4, PortsKept DEF InUse

LEMMA NextApart == Ownership /\ PortsApart /\ [Next]_vars => PortsApart'
  <1> SUFFICES ASSUME Ownership, PortsApart, [Next]_vars PROVE PortsApart'
    OBVIOUS
  <1>1. sock \in [Fd -> Socket] /\ held \subseteq Fd
    BY DEF Ownership, TypeOK
  <1>2. ~Blank.auto /\ Blank.state = "Free"
    BY DEF Blank
  <1>3. CASE UNCHANGED vars
    BY <1>3, PortsKept DEF vars, InUse
  <1>4. ASSUME NEW protocol \in Protocols, SocketCall(protocol) PROVE PortsApart'
    <2>1. PICK fd \in Fd : sock' = [sock EXCEPT ![fd] =
                               [Blank EXCEPT !.state = "Bound", !.protocol = protocol]]
      BY <1>4 DEF SocketCall
    <2>2. ~[Blank EXCEPT !.state = "Bound", !.protocol = protocol].auto
      BY DEF Blank
    <2> QED BY <1>1, <2>1, <2>2, PortsKept DEF InUse
  <1>5. ASSUME NEW fd \in Fd, NEW port \in BoundPort, Bind(fd, port) PROVE PortsApart'
    <2>1. InUse(fd) /\ ~sock[fd].auto
      BY <1>5 DEF Bind, PortsApart, InUse
    <2>2. ~[sock[fd] EXCEPT !.localPort = port].auto
      BY <1>1, <2>1 DEF Socket
    <2> QED BY <1>1, <1>5, <2>2, PortsKept DEF Bind, InUse
  <1>6. ASSUME NEW fd \in Fd, NEW remote \in Remote, Connect(fd, remote) PROVE PortsApart'
    BY <1>6, ConnectApart
  <1>7. ASSUME NEW fd \in Fd, Listen(fd) \/ TryAccept(fd) \/ GiveUp(fd) PROVE PortsApart'
    <2> DEFINE Same(s) == /\ sock' = [sock EXCEPT ![fd] = s]
                          /\ s.auto = sock[fd].auto /\ s.localPort = sock[fd].localPort
    <2>1. \E s : Same(s)
      <3>1. CASE Listen(fd)
        <4>1. Same([sock[fd] EXCEPT !.state = "Listening", !.pendingConn = NoFd])
          BY <1>1, <3>1 DEF Listen, Socket
        <4> QED BY <4>1
      <3>2. CASE TryAccept(fd)
        <4>1. Same([sock[fd] EXCEPT !.pendingConn = NoFd])
          BY <1>1, <3>2 DEF TryAccept, TakePending, Socket
        <4> QED BY <4>1
      <3>3. CASE GiveUp(fd)
        <4>1. Same(Moved(sock[fd], "Closed"))
          BY <1>1, <3>3 DEF GiveUp, Moved, Socket
        <4> QED BY <4>1
      <3> QED BY <1>7, <3>1, <3>2, <3>3
    <2>2. InUse(fd)
      BY <1>7 DEF Listen, TryAccept, GiveUp, InUse, Ownership, FreeIsClosed
    <2> QED BY <1>1, <2>1, <2>2, PortsKept DEF InUse
  <1>8. ASSUME NEW fd \in Fd, Close(fd) PROVE PortsApart'
    <2>1. sock' = [sock EXCEPT ![fd] = Closed(sock[fd])] /\ InUse(fd)
      BY <1>8 DEF Close, Ownership, HeldInUse
    <2>2. \/ Closed(sock[fd]) = Blank
          \/ /\ Closed(sock[fd]).auto = sock[fd].auto
             /\ Closed(sock[fd]).localPort = sock[fd].localPort
      BY <1>1 DEF Closed, Socket
    <2> QED BY <1>1, <1>2, <2>1, <2>2, PortsKept DEF InUse
  <1>9. ASSUME NEW fd \in Fd, NEW flags \in Flags, SegmentIn(fd, flags) PROVE PortsApart'
    BY <1>9, SegmentApart
  <1>10. ASSUME NEW remote \in Remote, NEW port \in BoundPort, SynIn(remote, port)
         PROVE  PortsApart'
    <2>1. PICK fd \in Fd, l \in Fd :
              sock' = [sock EXCEPT ![fd] =
                          [Blank EXCEPT !.state = "Connecting", !.protocol = "tcp",
                                        !.tcp = "SynReceived", !.localPort = port,
                                        !.remote = remote, !.listenerFD = l]]
      BY <1>10 DEF SynIn
    <2>2. ~[Blank EXCEPT !.state = "Connecting", !.protocol = "tcp",
                         !.tcp = "SynReceived", !.localPort = port,
                         !.remote = remote, !.listenerFD = l].auto
      BY DEF Blank
    <2> QED BY <1>1, <2>1, <2>2, PortsKept DEF InUse
  <1> QED BY <1>3, <1>4, <1>5, <1>6, <1>7, <1>8, <1>9, <1>10 DEF Next

----------------------------------------------------------------------------
(* The theorems.                                                           *)

\* All of the invariant, for every number of slots, ports and peers.
THEOREM SlotOwnership == Spec => []Ownership
  BY InitOwnership, NextKeeps, PTL DEF Spec

\* The variables stay in their types (socket.go:26-55).
THEOREM TableTypeCorrect == Spec => []TypeOK
  <1>1. Ownership => TypeOK
    BY DEF Ownership
  <1> QED BY <1>1, SlotOwnership, PTL

\* A descriptor the application has stays valid until the application closes it
\* (api.go:217-245, socket.go:226-234).
THEOREM HandlesStayValid == Spec => []HeldInUse
  <1>1. Ownership => HeldInUse
    BY DEF Ownership
  <1> QED BY <1>1, SlotOwnership, PTL

\* What Accept will return is a live connection the application does not have
\* yet (api.go:131-148, tcp.go:161-163).
THEOREM AcceptIsFresh == Spec => []PendingUnclaimed
  <1>1. Ownership => PendingUnclaimed
    BY DEF Ownership
  <1> QED BY <1>1, SlotOwnership, PTL

\* No connection waits at two listeners (tcp.go:161-163).
THEOREM AcceptedOnce == Spec => []PendingOnce
  <1>1. Ownership => PendingOnce
    BY DEF Ownership
  <1> QED BY <1>1, SlotOwnership, PTL

\* No two sockets in use got the same port from nextEphemeralPort: the range is
\* larger than the table, so that the search never ends without one
\* (socket.go:249-270).
THEOREM PortsAreUnique == Spec => []EphemeralUnique
  <1>1. Init => PortsApart
    <2>1. Init => \A fd \in Fd : ~InUse(fd)
      BY DEF Init, InUse, Blank
    <2> QED BY <2>1 DEF PortsApart, EphemeralUnique
  <1>2. PortsApart => EphemeralUnique
    BY DEF PortsApart
  <1> QED BY <1>1, <1>2, NextApart, SlotOwnership, PTL DEF Spec
=============================================================================
