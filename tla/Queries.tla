------------------------------ MODULE Queries ------------------------------
(***************************************************************************)
(* What uses datagrams: the DNS resolver, the NTP client and ping          *)
(* (src/stack/dns.go, ntp.go, icmp.go), each with one place for an answer, *)
(* and UDP sockets (src/stack/udp.go, api.go).  They are called by several *)
(* goroutines under the mutex of NetDev (src/netdev.go), which the         *)
(* goroutine run takes too, to poll.  The network loses, repeats and       *)
(* reorders datagrams.  What one packet disturbs in another's buffer is    *)
(* the subject of module Driver.                                           *)
(***************************************************************************)
EXTENDS Integers, Sequences

CONSTANTS
    Callers,    \* goroutines of the application
    Kinds,      \* the calls they make
    IdMod,      \* the range of queryID, 2^16
    Attempts,   \* how often Resolve sends its query, 2
    MaxWork,    \* bound of the calls and of the datagrams other hosts send
    Slots,      \* UDP sockets, in the order of the table
    Ports,      \* ports they are bound to
    Senders,    \* other hosts
    PortOf,     \* the port each sends from
    Lens,       \* the lengths of their datagrams
    RxSize,     \* RxBufSize
    Reconnects, \* does an application connect a socket that has a port?
    Nobody, errClosed

ASSUME QueriesAssumption ==
    /\ Kinds \subseteq {"dns", "ntp", "ping"}
    /\ IdMod \in Nat \ {0} /\ Attempts \in Nat \ {0}
    /\ MaxWork \in Nat
    /\ Slots \subseteq Nat /\ Ports \subseteq Nat \ {0}
    /\ PortOf \in [Senders -> Nat]
    /\ Lens \subseteq Nat /\ RxSize \in Nat \ {0}
    /\ Reconnects \in BOOLEAN
    /\ Nobody \notin Callers \cup Senders /\ errClosed \notin Senders

VARIABLES
    mu,         \* who keeps NetDev.mu from one action to the next
    call,       \* the call each goroutine is in
    dns,        \* Stack.dns
    ntp,        \* Stack.ntp
    pingRecvd,
    udp,        \* the sockets
    net,        \* datagrams on their way here
    count,      \* the calls of each kind so far
    data,       \* the datagrams of other hosts so far
    heard,      \* history: the answers that came during each goroutine's call
    outcome,    \* history: how its last call ended
    read        \* history: what Recv of each socket returned, as below

stack == <<dns, ntp, pingRecvd>>
queries == <<mu, call, stack, count, heard, outcome>>
sockets == <<udp, read>>
vars == <<queries, sockets, net, data>>

dnsPort == 53
ntpPort == 123

AllKinds == {"dns", "ntp", "ping"}
NoCall == [kind |-> "none", step |-> "none", tries |-> 0, n |-> 0]
NoOutcome == [kind |-> "none", n |-> 0, ok |-> FALSE, value |-> 0]
Unused == [port |-> 0, remote |-> Nobody, rx |-> <<>>, connected |-> FALSE]

\* d.queryID of the nth query.
QueryID(n) == (4660 + n) % IdMod

\* Datagrams: an answer to the nth call of its kind; data for a socket; none.
Answer(kind, n, ok) == [type |-> kind, n |-> n, ok |-> ok]
Nothing == [type |-> "nothing", n |-> 0]
Data(from, port, len) == [type |-> "data", from |-> from, port |-> port, len |-> len]

Init ==
    /\ mu = Nobody
    /\ call = [c \in Callers |-> NoCall]
    /\ dns = [active |-> FALSE, queryID |-> QueryID(0), resolved |-> FALSE, result |-> 0]
    /\ ntp = [active |-> FALSE, synced |-> FALSE, unixSecs |-> 0]
    /\ pingRecvd = FALSE
    /\ udp = [s \in Slots |-> Unused]
    /\ net = {} /\ data = 0
    /\ count = [k \in AllKinds |-> 0]
    /\ heard = [c \in Callers |-> {}]
    /\ outcome = [c \in Callers |-> NoOutcome]
    /\ read = [s \in Slots |-> {}]

----------------------------------------------------------------------------
(***************************************************************************)
(* handleUDP and handleICMP: what one datagram changes.                    *)
(***************************************************************************)
\* The port a datagram comes from.
PortFrom(d) == CASE d.type = "dns" -> dnsPort
                 [] d.type = "ntp" -> ntpPort
                 [] d.type = "data" -> PortOf[d.from]
                 [] d.type \in {"ping", "nothing"} -> 0

ForDns(d) == dns.active /\ PortFrom(d) = dnsPort
ForNtp(d) == ntp.active /\ PortFrom(d) = ntpPort

\* Slips the runs must catch.
AnyId(d) == d.type = "dns" /\ d.ok
AnySender(s, d) == udp[s].port # 0 /\ udp[s].port = d.port
StoredWhole(rx, d) == rx \o [i \in 1..d.len |-> d.from]

\* dns.handleResponse gets past its checks: the id of the query, no error, an
\* address.
AcceptsAnswer(d) == d.type = "dns" /\ QueryID(d.n) = dns.queryID /\ d.ok

\* The socket takes d: the port is its own, and the other host is its own or
\* it has none.
Takes(s, d) ==
    /\ udp[s].port # 0 /\ udp[s].port = d.port
    /\ udp[s].remote \in {Nobody, d.from}

FirstToTake(s, d) == Takes(s, d) /\ \A t \in Slots : Takes(t, d) => s <= t

\* rxWrite: as much as there is room for.
Stored(rx, d) ==
    LET room == RxSize - Len(rx)
    IN rx \o [i \in 1..(IF d.len < room THEN d.len ELSE room) |-> d.from]

\* A socket without a remote takes the first sender for it.
Given(s, d) == [udp[s] EXCEPT !.remote = d.from, !.rx = Stored(@, d)]

\* What handling d leaves.
DnsAfter(d) == IF ForDns(d) /\ AcceptsAnswer(d)
               THEN [dns EXCEPT !.resolved = TRUE, !.result = d.n] ELSE dns
NtpAfter(d) == IF ForNtp(d) /\ d.type = "ntp"
               THEN [ntp EXCEPT !.synced = TRUE, !.unixSecs = d.n] ELSE ntp
PingAfter(d) == pingRecvd \/ d.type = "ping"
SocketAfter(s, d) ==
    IF d.type = "data" /\ ~ForDns(d) /\ ~ForNtp(d) /\ FirstToTake(s, d)
    THEN Given(s, d) ELSE udp[s]

\* One poll of Stack.Poll, with what it does besides dns and ntp.  A datagram
\* that is repeated stays on its way.
Arriving == net \cup {Nothing}
Polled(d) ==
    /\ net' \in {net, net \ {d}}
    /\ pingRecvd' = PingAfter(d)
    /\ udp' = [s \in Slots |-> SocketAfter(s, d)]
    /\ heard' = [c \in Callers |->
                   IF call[c].kind = d.type THEN heard[c] \cup {d.n} ELSE heard[c]]

----------------------------------------------------------------------------
(***************************************************************************)
(* A call sends its request: resolve, then sendIPv4.  Both may poll.       *)
(***************************************************************************)
Goes(c, step) == call' = [call EXCEPT ![c].step = step]

\* The call of c returns.
Returns(c, ok, value) ==
    /\ call' = [call EXCEPT ![c] = NoCall]
    /\ outcome' = [outcome EXCEPT ![c] = [kind |-> call[c].kind, n |-> call[c].n,
                                          ok |-> ok, value |-> value]]
    /\ mu' = Nobody

\* Slips the runs must catch.
SyncedKept == [ntp EXCEPT !.active = TRUE]
StillActive(r) == r

\* The beginnings of Resolve and of Sync, and what each of their returns does.
Asking(n) == [dns EXCEPT !.active = TRUE, !.queryID = QueryID(n), !.resolved = FALSE]
Syncing == [ntp EXCEPT !.active = TRUE, !.synced = FALSE]
Released(r) == [r EXCEPT !.active = FALSE]

Work == count["dns"] + count["ntp"] + count["ping"] + data

\* Resolve, Sync and SendPing up to the first poll.  No datagram is so late
\* that its id has come round again.
Start(c) == \E k \in Kinds :
    LET n == count[k] + 1 IN
    /\ mu = Nobody /\ call[c] = NoCall
    /\ Work < MaxWork
    /\ mu' = c
    /\ count' = [count EXCEPT ![k] = n]
    /\ call' = [call EXCEPT ![c] = [kind |-> k, step |-> "resolve", tries |-> 1, n |-> n]]
    /\ dns' = IF k = "dns" THEN Asking(n) ELSE dns
    /\ ntp' = IF k = "ntp" THEN Syncing ELSE ntp
    /\ heard' = [heard EXCEPT ![c] = {}]
    /\ outcome' = [outcome EXCEPT ![c] = NoOutcome]
    /\ net' = {d \in net : d.type = "dns" /\ k = "dns" => n < d.n + IdMod}
    /\ UNCHANGED <<pingRecvd, sockets, data>>

\* A poll of resolve, or of sendIPv4.
Nested(c) == \E d \in Arriving :
    /\ call[c].step \in {"resolve", "send"}
    /\ Polled(d)
    /\ dns' = DnsAfter(d) /\ ntp' = NtpAfter(d)
    /\ UNCHANGED <<mu, call, count, outcome, read, data>>

\* SendPing forgets earlier replies once it has resolved the address.
PingCleared == FALSE

Resolved(c) ==
    /\ call[c].step = "resolve"
    /\ Goes(c, "send")
    /\ IF call[c].kind = "ping"
       THEN pingRecvd' = PingCleared /\ heard' = [heard EXCEPT ![c] = {}]
       ELSE UNCHANGED <<pingRecvd, heard>>
    /\ UNCHANGED <<mu, dns, ntp, count, outcome, sockets, net, data>>

\* The request is sent.  Who is asked answers, perhaps with an error, or not.
Sent(c) ==
    LET k == call[c].kind IN
    /\ call[c].step = "send"
    /\ Goes(c, "wait")
    /\ net' = net \cup {Answer(k, call[c].n, ok) : ok \in {TRUE, k # "dns"}}
    /\ UNCHANGED <<mu, stack, count, heard, outcome, sockets, data>>

\* resolve or sendIPv4 fails, or a poll of theirs.
SendFails(c) ==
    /\ call[c].step \in {"resolve", "send"}
    /\ dns' = IF call[c].kind = "dns" THEN Released(dns) ELSE dns
    /\ ntp' = IF call[c].kind = "ntp" THEN Released(ntp) ELSE ntp
    /\ Returns(c, FALSE, 0)
    /\ UNCHANGED <<pingRecvd, count, heard, sockets, net, data>>

----------------------------------------------------------------------------
(***************************************************************************)
(* It waits.  Resolve and Sync keep the mutex; Ping gives it back between  *)
(* its polls (netdev.go:316-318).                                          *)
(***************************************************************************)
Waits(c) == call[c].step = "wait" /\ mu \in {c, Nobody}

\* One turn of the loop: poll, and look for the answer.
ResolveTurn(c) == \E d \in Arriving :
    /\ Waits(c) /\ call[c].kind = "dns"
    /\ Polled(d)
    /\ ntp' = NtpAfter(d)
    /\ IF DnsAfter(d).resolved
       THEN dns' = Released(DnsAfter(d)) /\ Returns(c, TRUE, DnsAfter(d).result)
       ELSE dns' = DnsAfter(d) /\ UNCHANGED <<mu, call, outcome>>
    /\ UNCHANGED <<count, read, data>>

SyncTurn(c) == \E d \in Arriving :
    /\ Waits(c) /\ call[c].kind = "ntp"
    /\ Polled(d)
    /\ dns' = DnsAfter(d)
    /\ IF NtpAfter(d).synced
       THEN ntp' = Released(NtpAfter(d)) /\ Returns(c, TRUE, NtpAfter(d).unixSecs)
       ELSE ntp' = NtpAfter(d) /\ UNCHANGED <<mu, call, outcome>>
    /\ UNCHANGED <<count, read, data>>

PingTurn(c) == \E d \in Arriving :
    /\ Waits(c) /\ call[c].kind = "ping"
    /\ Polled(d)
    /\ dns' = DnsAfter(d) /\ ntp' = NtpAfter(d)
    /\ IF PingAfter(d)
       THEN Returns(c, TRUE, 0)
       ELSE mu' = Nobody /\ UNCHANGED <<call, outcome>>
    /\ UNCHANGED <<count, read, data>>

\* The deadline has passed: Resolve sends its query again.
Retry(c) ==
    /\ Waits(c) /\ call[c].kind = "dns"
    /\ call[c].tries < Attempts
    /\ call' = [call EXCEPT ![c].step = "resolve", ![c].tries = @ + 1]
    /\ UNCHANGED <<mu, stack, count, heard, outcome, sockets, net, data>>

\* The deadline has passed for the last time, or a poll failed.
GivesUp(c) ==
    /\ Waits(c)
    /\ dns' = IF call[c].kind = "dns" THEN Released(dns) ELSE dns
    /\ ntp' = IF call[c].kind = "ntp" THEN Released(ntp) ELSE ntp
    /\ Returns(c, FALSE, 0)
    /\ UNCHANGED <<pingRecvd, count, heard, sockets, net, data>>

\* The goroutine run polls, or a call that waits or sends on a socket.
Background == \E d \in Arriving :
    /\ mu = Nobody
    /\ Polled(d)
    /\ dns' = DnsAfter(d) /\ ntp' = NtpAfter(d)
    /\ UNCHANGED <<mu, call, count, outcome, read, data>>

----------------------------------------------------------------------------
(***************************************************************************)
(* UDP sockets.  A slot without a port is free or was just allocated.      *)
(***************************************************************************)
SocketCall == mu = Nobody /\ UNCHANGED <<queries, net, data>>

Bind(s) == \E port \in Ports :
    /\ udp[s].port = 0
    /\ udp' = [udp EXCEPT ![s].port = port]
    /\ SocketCall /\ UNCHANGED read

\* nextEphemeralPort
Ephemeral == Ports \ {udp[s].port : s \in Slots}

\* The code lets a socket be connected at any time; that it is done once, before
\* a port is bound, is the application's restriction without Reconnects.
Connect(s) == \E x \in Senders : \E port \in Ports :
    /\ IF udp[s].port = 0 THEN port \in Ephemeral
       ELSE Reconnects /\ port = udp[s].port
    /\ udp' = [udp EXCEPT ![s] = [@ EXCEPT !.port = port, !.remote = x, !.connected = TRUE]]
    /\ read' = [read EXCEPT ![s] = {}]
    /\ SocketCall

\* Recv.  A UDP socket's tcp.state is tcpClosed, so it does not wait.
RecvData(s) == \E n \in 1..Len(udp[s].rx) :
    /\ udp' = [udp EXCEPT ![s].rx = SubSeq(@, n + 1, Len(@))]
    /\ read' = [read EXCEPT ![s] = @ \cup {udp[s].rx[i] : i \in 1..n}]
    /\ SocketCall

RecvNone(s) ==
    /\ udp[s].port # 0 /\ udp[s].rx = <<>>
    /\ read' = [read EXCEPT ![s] = @ \cup {errClosed}]
    /\ SocketCall /\ UNCHANGED udp

\* What reset leaves of a socket.
Reset(s) == Unused

Close(s) ==
    /\ udp[s].port # 0
    /\ udp' = [udp EXCEPT ![s] = Reset(s)]
    /\ read' = [read EXCEPT ![s] = {}]
    /\ SocketCall

\* Another host sends.
HostSends == \E x \in Senders, port \in Ports, len \in Lens :
    /\ Work < MaxWork
    /\ net' = net \cup {Data(x, port, len)}
    /\ data' = data + 1
    /\ UNCHANGED <<queries, sockets>>

CallSteps(c) ==
    \/ Start(c) \/ Nested(c) \/ Resolved(c) \/ Sent(c) \/ SendFails(c)
    \/ ResolveTurn(c) \/ SyncTurn(c) \/ PingTurn(c) \/ Retry(c) \/ GivesUp(c)

SocketSteps(s) == Bind(s) \/ Connect(s) \/ RecvData(s) \/ RecvNone(s) \/ Close(s)

Next ==
    \/ \E c \in Callers : CallSteps(c)
    \/ \E s \in Slots : SocketSteps(s)
    \/ Background
    \/ HostSends

Spec == Init /\ [][Next]_vars

----------------------------------------------------------------------------
Step == {"none", "resolve", "send", "wait"}
Kind == AllKinds \cup {"none"}
AnswerTo == [type : AllKinds, n : Nat, ok : BOOLEAN]
DataTo == [type : {"data"}, from : Senders, port : Ports, len : Lens]

\* The types.  A ring holds what it has room for, however datagrams were cut.
TypeOK ==
    /\ mu \in Callers \cup {Nobody}
    /\ call \in [Callers -> [kind : Kind, step : Step, tries : Nat, n : Nat]]
    /\ dns \in [active : BOOLEAN, queryID : 0..(IdMod - 1), resolved : BOOLEAN, result : Nat]
    /\ ntp \in [active : BOOLEAN, synced : BOOLEAN, unixSecs : Nat]
    /\ pingRecvd \in BOOLEAN
    /\ udp \in [Slots -> [port : Ports \cup {0}, remote : Senders \cup {Nobody},
                          rx : Seq(Senders), connected : BOOLEAN]]
    /\ \A s \in Slots : Len(udp[s].rx) <= RxSize
    /\ net \subseteq AnswerTo \cup DataTo
    /\ count \in [AllKinds -> Nat] /\ data \in Nat
    /\ heard \in [Callers -> SUBSET Nat]
    /\ outcome \in [Callers -> [kind : Kind, n : Nat, ok : BOOLEAN, value : Nat]]
    /\ read \in [Slots -> SUBSET (Senders \cup {errClosed})]

\* The flags that divert datagrams from the sockets are set during a call of
\* their kind and at no other time, however a call ended; and such a call keeps
\* the mutex, so there is never another to take its answer
\* (dns.go:30-66, ntp.go:31-61, udp.go:33-41).
FlagsFollowCalls ==
    /\ dns.active <=> \E c \in Callers : call[c].kind = "dns"
    /\ ntp.active <=> \E c \in Callers : call[c].kind = "ntp"
    /\ \A c \in Callers : call[c].kind \in {"dns", "ntp"} => mu = c

\* An address that Resolve returns answers this call's query, although answers
\* to earlier queries come late, answers come twice or with errors, and the
\* query is sent again (dns.go:30-89).
AnswersThisQuery ==
    \A c \in Callers : LET o == outcome[c] IN o.kind = "dns" /\ o.ok => o.value = o.n

\* A time that Sync returns came during the call, and so did an echo reply when
\* Ping returns true: nothing that an earlier call left is taken for an answer
\* (ntp.go:33, icmp.go:55, netdev.go:304-321).
HeardInThisCall ==
    \A c \in Callers : LET o == outcome[c] IN
        /\ o.kind = "ntp" /\ o.ok => o.value \in heard[c]
        /\ o.kind = "ping" /\ o.ok => heard[c] # {}

\* What the owner of a socket reads comes from one host: the one it connected
\* the socket to, or the first that sent to it; nothing is left of what the
\* slot received before (udp.go:48-65, api.go:43-61, socket.go:208-223).  It holds
\* for sockets that are connected once, before anything is received: Connect on
\* a socket with a port keeps the ring (api.go:49-53), which Reconnects = FALSE
\* leaves out and UdpReconnect.cfg shows.
OneConversation ==
    \A s \in Slots :
        /\ \A x, y \in read[s] \ {errClosed} : x = y
        /\ udp[s].connected => read[s] \subseteq {udp[s].remote, errClosed}

\* Not kept: the time that Sync returns answers this call's request
\* (ntp.go:29-30 "Returns the current time.").
TimeIsOfThisCall ==
    \A c \in Callers : LET o == outcome[c] IN o.kind = "ntp" /\ o.ok => o.value = o.n

\* Not kept: Ping returns true if its reply came within the timeout
\* (netdev.go:302-303 "Returns true if a reply was received within the
\* timeout.").
ReplyIsReported ==
    \A c \in Callers : LET o == outcome[c] IN
        o.kind = "ping" /\ ~o.ok => o.n \notin heard[c]

\* Not kept: Recv waits for data on an open UDP socket (api.go:187 "Recv reads
\* data from a connected socket.", api.go:194 "Wait for data").
RecvWaits == \A s \in Slots : errClosed \notin read[s]
=============================================================================
