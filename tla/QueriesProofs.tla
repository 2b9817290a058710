--------------------------- MODULE QueriesProofs ---------------------------
(***************************************************************************)
(* Whatever is called by whichever goroutines, however many sockets are    *)
(* open and whatever the network does: the flags follow the calls, Resolve *)
(* returns the answer to its own query, no call takes for an answer what   *)
(* came before it, and a socket hears one host.                            *)
(***************************************************************************)
EXTENDS Queries, TLAPS

ResolverState == [active : BOOLEAN, queryID : 0..(IdMod - 1), resolved : BOOLEAN, result : Nat]
ClientState == [active : BOOLEAN, synced : BOOLEAN, unixSecs : Nat]
SocketState == [port : Ports \cup {0}, remote : Senders \cup {Nobody},
                rx : Seq(Senders), connected : BOOLEAN]
CallState == [kind : Kind, step : Step, tries : Nat, n : Nat]
Outcome == [kind : Kind, n : Nat, ok : BOOLEAN, value : Nat]

LEMMA QueryIDType == \A n \in Nat : QueryID(n) \in 0..(IdMod - 1)
BY QueriesAssumption DEF QueryID

LEMMA QuotientAndRemainder ==
    ASSUME NEW m \in Nat \ {0}, NEW x \in Nat
    PROVE  x = (m * (x \div m)) + (x % m)
OBVIOUS

LEMMA SmallMultiple ==
    ASSUME NEW m \in Nat \ {0}, NEW p \in Int, NEW d \in Nat, m * p = d, d < m
    PROVE  p = 0
OBVIOUS

\* Two numbers less than IdMod apart have different ids.
LEMMA SameRemainder ==
    ASSUME NEW m \in Nat \ {0}, NEW x \in Nat, NEW y \in Nat,
           x <= y, y < x + m, x % m = y % m
    PROVE  x = y
<1> DEFINE p == x \div m
           q == y \div m
           r == x % m
<1>1. p \in Int /\ q \in Int /\ r \in Int
  OBVIOUS
<1>2. x = (m * p) + r
  BY QuotientAndRemainder
<1>3. y = (m * q) + r
  BY QuotientAndRemainder
<1> HIDE DEF p, q, r
<1>4. m * (q - p) = y - x
  BY <1>1, <1>2, <1>3
<1>5. q - p \in Int /\ y - x \in Nat /\ y - x < m
  BY <1>1
<1>6. q - p = 0
  BY <1>4, <1>5, SmallMultiple
<1> QED BY <1>1, <1>2, <1>3, <1>6

LEMMA IdsDiffer ==
    ASSUME NEW a \in Nat, NEW b \in Nat, a <= b, b < a + IdMod, QueryID(a) = QueryID(b)
    PROVE  a = b
<1>1. IdMod \in Nat \ {0}
  BY QueriesAssumption
<1>2. 4660 + a = 4660 + b
  <2> DEFINE x == 4660 + a
             y == 4660 + b
  <2>1. /\ x \in Nat /\ y \in Nat /\ x <= y /\ y < x + IdMod
        /\ x % IdMod = y % IdMod
    BY <1>1 DEF QueryID
  <2> HIDE DEF x, y
  <2>2. x = y
    BY <1>1, <2>1, SameRemainder
  <2> QED BY <2>2 DEF x, y
<1> QED BY <1>2

LEMMA KindsOfDatagram ==
    ASSUME TypeOK, NEW d \in Arriving
    PROVE  /\ d.type \in AllKinds \cup {"data", "nothing"}
           /\ d.type \in AllKinds => d \in net /\ d \in AnswerTo /\ d.n \in Nat
           /\ d.type = "data" => d \in net /\ d \in DataTo
<1>1. CASE d = Nothing
  BY <1>1 DEF Nothing, AllKinds
<1>2. CASE d \in AnswerTo /\ d \in net
  BY <1>2 DEF AnswerTo, AllKinds
<1>3. CASE d \in DataTo /\ d \in net
  BY <1>3 DEF DataTo, AllKinds
<1> QED BY <1>1, <1>2, <1>3 DEF Arriving, TypeOK

\* What came fits into the ring.
LEMMA StoredIsRing ==
    ASSUME NEW rx \in Seq(Senders), Len(rx) <= RxSize, NEW d \in DataTo
    PROVE  /\ Stored(rx, d) \in Seq(Senders) /\ Len(Stored(rx, d)) <= RxSize
           /\ \A i \in DOMAIN Stored(rx, d) :
                 Stored(rx, d)[i] = IF i <= Len(rx) THEN rx[i] ELSE d.from
<1> DEFINE n == IF d.len < RxSize - Len(rx) THEN d.len ELSE RxSize - Len(rx)
           new == [i \in 1..n |-> d.from]
<1>1. d.len \in Nat /\ RxSize \in Nat
  BY QueriesAssumption DEF DataTo
<1>2. d.from \in Senders
  BY DEF DataTo
<1>3. n \in Nat /\ Len(rx) + n <= RxSize
  BY <1>1
<1> HIDE DEF n
<1>4. new \in Seq(Senders) /\ Len(new) = n
  BY <1>2, <1>3
<1>5. \A i \in 1..n : new[i] = d.from
  OBVIOUS
<1> HIDE DEF new
<1>6. Stored(rx, d) = rx \o new
  BY DEF Stored, n, new
<1>7. rx \o new \in Seq(Senders) /\ Len(rx \o new) = Len(rx) + n
  BY <1>4
<1>8. ASSUME NEW i \in 1..(Len(rx) + n)
      PROVE  (rx \o new)[i] = IF i <= Len(rx) THEN rx[i] ELSE d.from
  <2>1. (rx \o new)[i] = IF i <= Len(rx) THEN rx[i] ELSE new[i - Len(rx)]
    BY <1>3, <1>4
  <2>2. Len(rx) \in Nat
    OBVIOUS
  <2>3. i > Len(rx) => i - Len(rx) \in 1..n
    BY <1>3, <2>2
  <2> QED BY <1>5, <2>1, <2>2, <2>3
<1>9. DOMAIN (rx \o new) = 1..(Len(rx) + n)
  BY <1>7
<1> QED BY <1>3, <1>6, <1>7, <1>8, <1>9

LEMMA SocketsAfter ==
    ASSUME TypeOK, NEW d \in Arriving, NEW s \in Slots
    PROVE  SocketAfter(s, d) \in SocketState /\ Len(SocketAfter(s, d).rx) <= RxSize
<1>1. udp[s] \in SocketState /\ Len(udp[s].rx) <= RxSize
  BY DEF TypeOK, SocketState
<1>2. CASE SocketAfter(s, d) = udp[s]
  BY <1>1, <1>2
<1>3. CASE d.type = "data" /\ SocketAfter(s, d) = Given(s, d)
  <2>1. d \in DataTo
    BY <1>3, KindsOfDatagram
  <2>2. udp[s].rx \in Seq(Senders)
    BY <1>1 DEF SocketState
  <2> DEFINE rx == Stored(udp[s].rx, d)
  <2>3. rx \in Seq(Senders) /\ Len(rx) <= RxSize
    BY <1>1, <2>1, <2>2, StoredIsRing
  <2>4. Given(s, d) = [udp[s] EXCEPT !.remote = d.from, !.rx = rx]
    BY <1>1 DEF Given, SocketState
  <2> HIDE DEF rx
  <2>5. d.from \in Senders
    BY <2>1 DEF DataTo
  <2> QED BY <1>1, <1>3, <2>3, <2>4, <2>5 DEF SocketState
<1> QED BY <1>2, <1>3 DEF SocketAfter

\* The types of what a poll leaves.
LEMMA PollTypes ==
    ASSUME TypeOK, NEW d \in Arriving, Polled(d)
    PROVE  /\ net' \subseteq AnswerTo \cup DataTo
           /\ pingRecvd' \in BOOLEAN
           /\ udp' \in [Slots -> SocketState]
           /\ \A s \in Slots : Len(udp'[s].rx) <= RxSize
           /\ heard' \in [Callers -> SUBSET Nat]
           /\ DnsAfter(d) \in ResolverState
           /\ NtpAfter(d) \in ClientState
<1>1. net' \subseteq AnswerTo \cup DataTo
  BY DEF Polled, TypeOK
<1>2. pingRecvd' \in BOOLEAN
  BY DEF Polled, PingAfter, TypeOK
<1>3. udp' = [s \in Slots |-> SocketAfter(s, d)]
  BY DEF Polled
<1>4. udp' \in [Slots -> SocketState] /\ \A s \in Slots : Len(udp'[s].rx) <= RxSize
  BY <1>3, SocketsAfter
<1>5. heard' \in [Callers -> SUBSET Nat]
  <2>1. \A c \in Callers : call[c].kind = d.type => d.n \in Nat
    BY KindsOfDatagram DEF TypeOK, Kind, AllKinds
  <2> QED BY <2>1 DEF Polled, TypeOK
<1>6. dns \in ResolverState /\ ntp \in ClientState
  BY DEF TypeOK, ResolverState, ClientState
<1>7. DnsAfter(d) \in ResolverState
  <2>1. AcceptsAnswer(d) => d.n \in Nat
    BY KindsOfDatagram DEF AcceptsAnswer, AllKinds
  <2> QED BY <1>6, <2>1 DEF DnsAfter, ResolverState
<1>8. NtpAfter(d) \in ClientState
  <2>1. d.type = "ntp" => d.n \in Nat
    BY KindsOfDatagram DEF AllKinds
  <2> QED BY <1>6, <2>1 DEF NtpAfter, ClientState
<1> QED BY <1>1, <1>2, <1>4, <1>5, <1>7, <1>8

LEMMA ReturnsTypes ==
    ASSUME TypeOK, NEW c \in Callers, NEW ok \in BOOLEAN, NEW value \in Nat,
           Returns(c, ok, value)
    PROVE  /\ call' \in [Callers -> CallState] /\ outcome' \in [Callers -> Outcome]
           /\ mu' \in Callers \cup {Nobody}
<1>1. NoCall \in CallState
  BY DEF NoCall, CallState, Kind, Step
<1>2. call[c].kind \in Kind /\ call[c].n \in Nat
  BY DEF TypeOK
<1> DEFINE o == [kind |-> call[c].kind, n |-> call[c].n, ok |-> ok, value |-> value]
<1>3. o \in Outcome
  BY <1>2 DEF Outcome
<1>4. call' = [call EXCEPT ![c] = NoCall] /\ outcome' = [outcome EXCEPT ![c] = o]
  BY DEF Returns
<1> HIDE DEF o
<1> QED BY <1>1, <1>3, <1>4 DEF TypeOK, Returns, CallState, Outcome

LEMMA GoesTypes ==
    ASSUME TypeOK, NEW c \in Callers, NEW step \in Step, Goes(c, step)
    PROVE  call' \in [Callers -> CallState]
BY ZenonT(60) DEF TypeOK, Goes, CallState

\* A poll that changes nothing else.
LEMMA QuietPollTypes ==
    ASSUME TypeOK, NEW d \in Arriving, Polled(d), dns' = DnsAfter(d), ntp' = NtpAfter(d),
           mu' \in Callers \cup {Nobody}, call' \in [Callers -> CallState],
           outcome' \in [Callers -> Outcome], UNCHANGED <<count, read, data>>
    PROVE  TypeOK'
<1>1. dns' \in ResolverState /\ ntp' \in ClientState
  BY PollTypes
<1> QED BY <1>1, PollTypes
        DEF TypeOK, ResolverState, ClientState, SocketState, CallState, Outcome

LEMMA Unchanged ==
    ASSUME TypeOK
    PROVE  /\ call \in [Callers -> CallState] /\ outcome \in [Callers -> Outcome]
           /\ dns \in ResolverState /\ ntp \in ClientState
           /\ udp \in [Slots -> SocketState]
           /\ mu \in Callers \cup {Nobody}
BY DEF TypeOK, ResolverState, ClientState, SocketState, CallState, Outcome

LEMMA ReleasedTypes ==
    /\ \A r \in ResolverState : Released(r) \in ResolverState
    /\ \A r \in ClientState : Released(r) \in ClientState
BY DEF Released, ResolverState, ClientState

LEMMA InitTypes == Init => TypeOK
<1> SUFFICES ASSUME Init PROVE TypeOK
  OBVIOUS
<1>1. NoCall \in CallState
  BY DEF NoCall, CallState, Kind, Step
<1>2. NoOutcome \in Outcome
  BY DEF NoOutcome, Outcome, Kind
<1>3. Unused \in SocketState /\ Len(Unused.rx) = 0
  BY DEF Unused, SocketState
<1>4. dns \in ResolverState /\ ntp \in ClientState
  BY QueryIDType DEF Init, ResolverState, ClientState
<1>5. /\ call \in [Callers -> CallState] /\ outcome \in [Callers -> Outcome]
      /\ udp \in [Slots -> SocketState] /\ \A s \in Slots : Len(udp[s].rx) <= RxSize
  BY <1>1, <1>2, <1>3, QueriesAssumption DEF Init
<1> QED BY <1>4, <1>5
        DEF Init, TypeOK, ResolverState, ClientState, SocketState, CallState, Outcome

\* The steps of calls that do not poll.
LEMMA StartTypes ==
    ASSUME TypeOK, NEW c \in Callers, Start(c)
    PROVE  TypeOK'
<1>1. PICK k \in Kinds : LET n == count[k] + 1 IN
        /\ mu' = c /\ count' = [count EXCEPT ![k] = n]
        /\ call' = [call EXCEPT ![c] = [kind |-> k, step |-> "resolve", tries |-> 1, n |-> n]]
        /\ dns' = IF k = "dns" THEN Asking(n) ELSE dns
        /\ ntp' = IF k = "ntp" THEN Syncing ELSE ntp
        /\ heard' = [heard EXCEPT ![c] = {}]
        /\ outcome' = [outcome EXCEPT ![c] = NoOutcome]
        /\ net' = {d \in net : d.type = "dns" /\ k = "dns" => n < d.n + IdMod}
        /\ UNCHANGED <<pingRecvd, sockets, data>>
  BY DEF Start
<1>2. k \in AllKinds
  BY QueriesAssumption DEF AllKinds
<1> DEFINE n == count[k] + 1
           new == [kind |-> k, step |-> "resolve", tries |-> 1, n |-> n]
<1>3. n \in Nat
  BY <1>2 DEF TypeOK
<1>4. new \in CallState
  BY <1>2, <1>3 DEF CallState, Kind, Step
<1> HIDE DEF new
<1>5. call' \in [Callers -> CallState]
  BY <1>1, <1>4, Unchanged DEF new
<1>6. NoOutcome \in Outcome
  BY DEF NoOutcome, Outcome, Kind
<1>7. outcome' \in [Callers -> Outcome]
  BY <1>1, <1>6, Unchanged
<1>8. dns' \in ResolverState
  BY <1>1, <1>3, Unchanged, QueryIDType DEF Asking, ResolverState
<1>9. ntp' \in ClientState
  BY <1>1, Unchanged DEF Syncing, ClientState
<1>10. count' \in [AllKinds -> Nat]
  BY <1>1, <1>2, <1>3 DEF TypeOK
<1>11. heard' \in [Callers -> SUBSET Nat]
  BY <1>1 DEF TypeOK
<1>12. net' \subseteq net
  BY <1>1
<1> HIDE DEF n
<1> QED BY <1>1, <1>5, <1>7, <1>8, <1>9, <1>10, <1>11, <1>12
        DEF TypeOK, ResolverState, ClientState, SocketState, CallState, Outcome, sockets

LEMMA ResolvedTypes ==
    ASSUME TypeOK, NEW c \in Callers, Resolved(c)
    PROVE  TypeOK'
<1>1. call' \in [Callers -> CallState]
  BY GoesTypes DEF Resolved, Step
<1>2. heard' \in [Callers -> SUBSET Nat] /\ pingRecvd' \in BOOLEAN
  BY DEF Resolved, TypeOK, PingCleared
<1> QED BY <1>1, <1>2 DEF Resolved, TypeOK, CallState, sockets

LEMMA SentTypes ==
    ASSUME TypeOK, NEW c \in Callers, Sent(c), call[c].kind \in AllKinds
    PROVE  TypeOK'
<1>1. call' \in [Callers -> CallState]
  BY GoesTypes DEF Sent, Step
<1>2. net' \subseteq AnswerTo \cup DataTo
  <2>1. call[c].n \in Nat
    BY DEF TypeOK
  <2>2. \A ok \in {TRUE, call[c].kind # "dns"} :
           Answer(call[c].kind, call[c].n, ok) \in AnswerTo
    BY <2>1 DEF Answer, AnswerTo
  <2> QED BY <2>2 DEF Sent, TypeOK
<1> QED BY <1>1, <1>2 DEF Sent, TypeOK, CallState, sockets, stack

\* A call that ends without an answer.
LEMMA FailureTypes ==
    ASSUME TypeOK, NEW c \in Callers, Returns(c, FALSE, 0),
           dns' = IF call[c].kind = "dns" THEN Released(dns) ELSE dns,
           ntp' = IF call[c].kind = "ntp" THEN Released(ntp) ELSE ntp,
           UNCHANGED <<pingRecvd, count, heard, sockets, net, data>>
    PROVE  TypeOK'
<1>1. dns' \in ResolverState /\ ntp' \in ClientState
  BY Unchanged, ReleasedTypes
<1>2. /\ call' \in [Callers -> CallState] /\ outcome' \in [Callers -> Outcome]
      /\ mu' \in Callers \cup {Nobody}
  BY ReturnsTypes
<1> QED BY <1>1, <1>2
        DEF TypeOK, ResolverState, ClientState, CallState, Outcome, sockets

LEMMA RetryTypes ==
    ASSUME TypeOK, NEW c \in Callers, Retry(c)
    PROVE  TypeOK'
<1> DEFINE tries == call[c].tries + 1
<1>1. call[c] \in CallState /\ tries \in Nat /\ "resolve" \in Step
  BY Unchanged DEF CallState, Step
<1>2. call' = [call EXCEPT ![c] = [call[c] EXCEPT !.step = "resolve", !.tries = tries]]
  BY Unchanged DEF Retry
<1> HIDE DEF tries
<1>3. [call[c] EXCEPT !.step = "resolve", !.tries = tries] \in CallState
  BY <1>1 DEF CallState
<1>4. call' \in [Callers -> CallState]
  BY <1>2, <1>3, Unchanged
<1> QED BY <1>4 DEF Retry, TypeOK, CallState, sockets, stack

\* The turns of the waiting loops.
LEMMA TurnTypes ==
    ASSUME TypeOK, NEW c \in Callers, ResolveTurn(c) \/ SyncTurn(c) \/ PingTurn(c)
    PROVE  TypeOK'
<1>1. PICK d \in Arriving :
        /\ Polled(d)
        /\ dns' \in {DnsAfter(d), Released(DnsAfter(d))}
        /\ ntp' \in {NtpAfter(d), Released(NtpAfter(d))}
        /\ \/ \E value \in {DnsAfter(d).result, NtpAfter(d).unixSecs, 0} :
                 Returns(c, TRUE, value)
           \/ mu' \in {mu, Nobody} /\ UNCHANGED <<call, outcome>>
        /\ UNCHANGED <<count, read, data>>
  BY DEF ResolveTurn, SyncTurn, PingTurn
<1>2. DnsAfter(d) \in ResolverState /\ NtpAfter(d) \in ClientState
  BY <1>1, PollTypes
<1>3. dns' \in ResolverState /\ ntp' \in ClientState
  BY <1>1, <1>2, ReleasedTypes
<1>4. DnsAfter(d).result \in Nat /\ NtpAfter(d).unixSecs \in Nat
  BY <1>2 DEF ResolverState, ClientState
<1>5. /\ call' \in [Callers -> CallState] /\ outcome' \in [Callers -> Outcome]
      /\ mu' \in Callers \cup {Nobody}
  <2>1. CASE \E value \in {DnsAfter(d).result, NtpAfter(d).unixSecs, 0} :
                Returns(c, TRUE, value)
    BY <1>4, <2>1, ReturnsTypes
  <2>2. CASE mu' \in {mu, Nobody} /\ UNCHANGED <<call, outcome>>
    BY <2>2, Unchanged
  <2> QED BY <1>1, <2>1, <2>2
<1> QED BY <1>1, <1>3, <1>5, PollTypes
        DEF TypeOK, ResolverState, ClientState, SocketState, CallState, Outcome

LEMMA SocketStepTypes ==
    ASSUME TypeOK, NEW s \in Slots, SocketSteps(s)
    PROVE  TypeOK'
<1>1. udp[s] \in SocketState /\ Len(udp[s].rx) <= RxSize
  BY Unchanged DEF TypeOK
<1>2. udp' \in [Slots -> SocketState] /\ \A t \in Slots : Len(udp'[t].rx) <= RxSize
  <2>1. CASE Bind(s)
    <3>1. PICK port \in Ports : udp' = [udp EXCEPT ![s].port = port]
      BY <2>1 DEF Bind
    <3>2. [udp[s] EXCEPT !.port = port] \in SocketState
      BY <1>1 DEF SocketState
    <3>3. [udp[s] EXCEPT !.port = port].rx = udp[s].rx
      BY <1>1 DEF SocketState
    <3> QED BY <1>1, <3>1, <3>2, <3>3, Unchanged DEF TypeOK
  <2>2. CASE Connect(s)
    <3>1. PICK x \in Senders, port \in Ports :
            udp' = [udp EXCEPT ![s] = [@ EXCEPT !.port = port, !.remote = x, !.connected = TRUE]]
      BY <2>2 DEF Connect
    <3>2. [udp[s] EXCEPT !.port = port, !.remote = x, !.connected = TRUE] \in SocketState
      BY <1>1 DEF SocketState
    <3>3. [udp[s] EXCEPT !.port = port, !.remote = x, !.connected = TRUE].rx = udp[s].rx
      BY <1>1 DEF SocketState
    <3> QED BY <1>1, <3>1, <3>2, <3>3, Unchanged DEF TypeOK
  <2>3. CASE RecvData(s)
    <3>1. PICK n \in 1..Len(udp[s].rx) :
            udp' = [udp EXCEPT ![s].rx = SubSeq(@, n + 1, Len(@))]
      BY <2>3 DEF RecvData
    <3>2. udp[s].rx \in Seq(Senders)
      BY <1>1 DEF SocketState
    <3> DEFINE rx == SubSeq(udp[s].rx, n + 1, Len(udp[s].rx))
    <3>3. rx \in Seq(Senders) /\ Len(rx) <= Len(udp[s].rx)
      BY <3>2
    <3>4. udp' = [udp EXCEPT ![s] = [udp[s] EXCEPT !.rx = rx]]
      BY <3>1, Unchanged
    <3> HIDE DEF rx
    <3>5. [udp[s] EXCEPT !.rx = rx] \in SocketState /\ [udp[s] EXCEPT !.rx = rx].rx = rx
      BY <1>1, <3>3 DEF SocketState
    <3>6. Len(rx) <= RxSize
      BY <1>1, <3>2, <3>3, QueriesAssumption
    <3> QED BY <3>4, <3>5, <3>6, Unchanged DEF TypeOK
  <2>4. CASE RecvNone(s)
    BY <2>4, Unchanged DEF RecvNone, TypeOK
  <2>5. CASE Close(s)
    <3>1. Unused \in SocketState /\ Len(Unused.rx) <= RxSize
      BY QueriesAssumption DEF Unused, SocketState
    <3> QED BY <2>5, <3>1, Unchanged DEF Close, Reset, TypeOK
  <2> QED BY <2>1, <2>2, <2>3, <2>4, <2>5 DEF SocketSteps
<1>3. read' \in [Slots -> SUBSET (Senders \cup {errClosed})]
  <2>1. \A i \in 1..Len(udp[s].rx) : udp[s].rx[i] \in Senders
    BY <1>1 DEF SocketState
  <2>2. CASE RecvData(s)
    <3>1. PICK n \in 1..Len(udp[s].rx) :
            read' = [read EXCEPT ![s] = @ \cup {udp[s].rx[i] : i \in 1..n}]
      BY <2>2 DEF RecvData
    <3>2. \A i \in 1..n : i \in 1..Len(udp[s].rx)
      BY <1>1 DEF SocketState
    <3> QED BY <2>1, <3>1, <3>2 DEF TypeOK
  <2>3. CASE Bind(s) \/ Connect(s) \/ RecvNone(s) \/ Close(s)
    BY ZenonT(60), <2>3 DEF Bind, Connect, RecvNone, Close, TypeOK
  <2> QED BY <2>2, <2>3 DEF SocketSteps
<1>4. UNCHANGED <<queries, net, data>>
  BY DEF SocketSteps, Bind, Connect, RecvData, RecvNone, Close, SocketCall
<1> QED BY <1>2, <1>3, <1>4 DEF TypeOK, SocketState, queries, stack

LEMMA HostSendsTypes ==
    ASSUME TypeOK, HostSends
    PROVE  TypeOK'
<1>1. \A x \in Senders, port \in Ports, len \in Lens : Data(x, port, len) \in DataTo
  BY DEF Data, DataTo
<1> QED BY <1>1 DEF HostSends, TypeOK, queries, sockets, stack

----------------------------------------------------------------------------
(* Who keeps the mutex, and which flags are set.                           *)

Shape ==
    /\ \A c \in Callers :
          /\ call[c].kind = "none" <=> call[c].step = "none"
          /\ call[c].step \in {"resolve", "send"} => mu = c
          /\ call[c].kind \in {"dns", "ntp"} => mu = c
          /\ call[c].kind = "dns" => call[c].n = count["dns"]
    /\ dns.active <=> \E c \in Callers : call[c].kind = "dns"
    /\ ntp.active <=> \E c \in Callers : call[c].kind = "ntp"

LEMMA AfterActive ==
    ASSUME TypeOK, NEW d \in Arriving
    PROVE  DnsAfter(d).active = dns.active /\ NtpAfter(d).active = ntp.active
BY Unchanged DEF DnsAfter, NtpAfter, ResolverState, ClientState

LEMMA ReleasedActive ==
    /\ \A r \in ResolverState : Released(r).active = FALSE
    /\ \A r \in ClientState : Released(r).active = FALSE
BY DEF Released, ResolverState, ClientState

\* A call returns: its flag is cleared, and it was the only call of its kind.
LEMMA ReturnShape ==
    ASSUME TypeOK, Shape, NEW c \in Callers, NEW ok, NEW value, Returns(c, ok, value),
           mu \in {c, Nobody}, UNCHANGED count,
           dns'.active = IF call[c].kind = "dns" THEN FALSE ELSE dns.active,
           ntp'.active = IF call[c].kind = "ntp" THEN FALSE ELSE ntp.active
    PROVE  Shape'
<1>1. /\ call' = [call EXCEPT ![c] = NoCall] /\ mu' = Nobody
      /\ call \in [Callers -> CallState]
  BY Unchanged DEF Returns
<1>2. c # Nobody /\ \A b \in Callers : b # Nobody
  BY QueriesAssumption
<1>3. \A b \in Callers : b # c => call'[b] = call[b] /\ call[b].kind \notin {"dns", "ntp"}
                                  /\ call[b].step \notin {"resolve", "send"}
  BY <1>1, <1>2 DEF Shape
<1>4. call'[c].kind = "none" /\ call'[c].step = "none"
  BY <1>1 DEF NoCall
<1>5. dns'.active <=> \E b \in Callers : call'[b].kind = "dns"
  BY <1>3, <1>4 DEF Shape
<1>6. ntp'.active <=> \E b \in Callers : call'[b].kind = "ntp"
  BY <1>3, <1>4 DEF Shape
<1>7. ASSUME NEW b \in Callers
      PROVE  /\ call'[b].kind = "none" <=> call'[b].step = "none"
             /\ call'[b].step \notin {"resolve", "send"}
             /\ call'[b].kind \notin {"dns", "ntp"}
  BY <1>3, <1>4 DEF Shape
<1> QED BY <1>5, <1>6, <1>7 DEF Shape

\* A step that leaves the calls alone, and the mutex to those that need it.
LEMMA QuietShape ==
    ASSUME TypeOK, Shape, UNCHANGED <<call, count>>,
           dns'.active = dns.active, ntp'.active = ntp.active,
           \/ mu' = mu
           \/ \E c \in Callers : /\ mu \in {c, Nobody} /\ call[c].step = "wait"
                                 /\ call[c].kind = "ping"
    PROVE  Shape'
<1>1. CASE mu' = mu
  BY <1>1 DEF Shape
<1>2. ASSUME NEW c \in Callers, mu \in {c, Nobody}, call[c].step = "wait",
             call[c].kind = "ping"
      PROVE  Shape'
  <2>1. \A b \in Callers : b # Nobody
    BY QueriesAssumption
  <2>2. \A b \in Callers : /\ call[b].step \notin {"resolve", "send"}
                           /\ call[b].kind \notin {"dns", "ntp"}
    BY <1>2, <2>1 DEF Shape
  <2> QED BY <2>2 DEF Shape
<1> QED BY <1>1, <1>2

LEMMA InitShape == Init => Shape
BY DEF Init, Shape, NoCall

LEMMA StartShape ==
    ASSUME TypeOK, Shape, NEW c \in Callers, Start(c)
    PROVE  Shape'
<1>1. PICK k \in Kinds : LET n == count[k] + 1 IN
        /\ count' = [count EXCEPT ![k] = n]
        /\ call' = [call EXCEPT ![c] = [kind |-> k, step |-> "resolve", tries |-> 1, n |-> n]]
        /\ dns' = IF k = "dns" THEN Asking(n) ELSE dns
        /\ ntp' = IF k = "ntp" THEN Syncing ELSE ntp
  BY DEF Start
<1>2. mu = Nobody /\ mu' = c /\ k \in AllKinds /\ count \in [AllKinds -> Nat]
      /\ call \in [Callers -> CallState]
  BY QueriesAssumption, Unchanged DEF Start, AllKinds, TypeOK
<1>3. \A b \in Callers : b # Nobody
  BY QueriesAssumption
<1>4. \A b \in Callers : b # c => call'[b] = call[b]
  BY <1>1, <1>2
<1>5. /\ call'[c].kind = k /\ call'[c].step = "resolve" /\ call'[c].n = count[k] + 1
      /\ count'[k] = count[k] + 1
  BY <1>1, <1>2
<1>6. \A b \in Callers : call[b].kind \notin {"dns", "ntp"} /\ call[b].step \notin {"resolve", "send"}
  BY <1>2, <1>3 DEF Shape
<1>7. dns'.active <=> k = "dns"
  BY <1>1, <1>6, Unchanged DEF Asking, ResolverState, Shape
<1>8. ntp'.active <=> k = "ntp"
  BY <1>1, <1>6, Unchanged DEF Syncing, ClientState, Shape
<1>9. dns'.active <=> \E b \in Callers : call'[b].kind = "dns"
  BY <1>4, <1>5, <1>6, <1>7
<1>10. ntp'.active <=> \E b \in Callers : call'[b].kind = "ntp"
  BY <1>4, <1>5, <1>6, <1>8
<1>11. ASSUME NEW b \in Callers
       PROVE  /\ call'[b].kind = "none" <=> call'[b].step = "none"
              /\ call'[b].step \in {"resolve", "send"} => mu' = b
              /\ call'[b].kind \in {"dns", "ntp"} => mu' = b
              /\ call'[b].kind = "dns" => call'[b].n = count'["dns"]
  <2>1. CASE b = c
    BY <1>2, <1>5, <2>1 DEF AllKinds
  <2>2. CASE b # c
    BY <1>4, <1>6, <2>2 DEF Shape
  <2> QED BY <2>1, <2>2
<1> QED BY <1>9, <1>10, <1>11 DEF Shape

\* A call goes from one step of its own to another.
LEMMA StepShape ==
    ASSUME TypeOK, Shape, NEW c \in Callers, NEW step \in {"resolve", "send", "wait"},
           call' \in [Callers -> CallState],
           \A b \in Callers : b # c => call'[b] = call[b],
           call'[c].step = step, call'[c].kind = call[c].kind, call'[c].n = call[c].n,
           call[c].kind # "none", mu' = mu, mu = c \/ step = "wait",
           dns'.active = dns.active, ntp'.active = ntp.active, UNCHANGED count
    PROVE  Shape'
<1>1. ASSUME NEW b \in Callers
      PROVE  /\ call'[b].kind = "none" <=> call'[b].step = "none"
             /\ call'[b].step \in {"resolve", "send"} => mu' = b
             /\ call'[b].kind \in {"dns", "ntp"} => mu' = b
             /\ call'[b].kind = "dns" => call'[b].n = count'["dns"]
  <2>1. CASE b = c
    BY <2>1 DEF Shape
  <2>2. CASE b # c
    BY <2>2 DEF Shape
  <2> QED BY <2>1, <2>2
<1>2. \A b \in Callers : call'[b].kind = call[b].kind
  OBVIOUS
<1> QED BY <1>1, <1>2 DEF Shape

----------------------------------------------------------------------------
(* What the one place for an answer holds.                                 *)

Names ==
    /\ dns.queryID = QueryID(count["dns"])
    /\ dns.resolved => dns.result = count["dns"]
    /\ \A d \in net : d.type = "dns" => /\ d.n <= count["dns"]
                                        /\ count["dns"] < d.n + IdMod
    /\ AnswersThisQuery

Heard ==
    /\ \A c \in Callers : call[c].kind = "ntp" /\ ntp.synced => ntp.unixSecs \in heard[c]
    /\ \A c \in Callers : /\ call[c].kind = "ping" /\ call[c].step \in {"send", "wait"}
                          /\ pingRecvd
                          => heard[c] # {}
    /\ \A c \in Callers : call[c].kind # "none" => outcome[c].kind = "none"
    /\ HeardInThisCall

Inv == TypeOK /\ Shape /\ Names /\ Heard

\* An answer the resolver accepts is to the newest query.
LEMMA AcceptedIsNewest ==
    ASSUME TypeOK, Names, NEW d \in Arriving
    PROVE  /\ DnsAfter(d).queryID = dns.queryID
           /\ DnsAfter(d).resolved => DnsAfter(d).result = count["dns"]
<1>1. dns \in ResolverState
  BY Unchanged
<1>2. CASE ForDns(d) /\ AcceptsAnswer(d)
  <2>1. d \in net /\ d.n \in Nat /\ QueryID(d.n) = QueryID(count["dns"])
    BY <1>2, KindsOfDatagram DEF AcceptsAnswer, Names, AllKinds
  <2>2. count["dns"] \in Nat
    BY DEF TypeOK, AllKinds
  <2>3. d.n = count["dns"]
    BY <1>2, <2>1, <2>2, IdsDiffer DEF Names, AcceptsAnswer
  <2> QED BY <1>1, <1>2, <2>3 DEF DnsAfter, ResolverState
<1>3. CASE ~(ForDns(d) /\ AcceptsAnswer(d))
  BY <1>3 DEF DnsAfter, Names
<1> QED BY <1>2, <1>3

\* Whatever a poll brings is heard by the calls of its kind.
LEMMA PollHeard ==
    ASSUME TypeOK, Heard, NEW d \in Arriving, Polled(d), NEW c \in Callers
    PROVE  /\ heard[c] \subseteq heard'[c]
           /\ call[c].kind = "ntp" /\ NtpAfter(d).synced => NtpAfter(d).unixSecs \in heard'[c]
           /\ call[c].kind = "ping" /\ call[c].step \in {"send", "wait"} /\ pingRecvd'
                 => heard'[c] # {}
<1>1. heard'[c] = IF call[c].kind = d.type THEN heard[c] \cup {d.n} ELSE heard[c]
  BY DEF Polled
<1>2. call[c].kind = "ntp" /\ NtpAfter(d).synced => NtpAfter(d).unixSecs \in heard'[c]
  <2>1. CASE ForNtp(d) /\ d.type = "ntp"
    <3>1. NtpAfter(d).unixSecs = d.n
      BY <2>1, Unchanged DEF NtpAfter, ClientState
    <3> QED BY <1>1, <2>1, <3>1
  <2>2. CASE ~(ForNtp(d) /\ d.type = "ntp")
    BY <1>1, <2>2 DEF NtpAfter, Heard
  <2> QED BY <2>1, <2>2
<1>3. call[c].kind = "ping" /\ call[c].step \in {"send", "wait"} /\ pingRecvd'
        => heard'[c] # {}
  BY <1>1 DEF Polled, PingAfter, Heard
<1> QED BY <1>1, <1>2, <1>3

LEMMA NetAfterPoll ==
    ASSUME NEW d \in Arriving, Polled(d) PROVE net' \subseteq net
BY DEF Polled

\* A poll with no more to it.
LEMMA QuietPoll ==
    ASSUME Inv, NEW d \in Arriving, Polled(d), dns' = DnsAfter(d), ntp' = NtpAfter(d),
           UNCHANGED <<call, outcome, count, read, data>>,
           \/ mu' = mu
           \/ \E c \in Callers : /\ mu \in {c, Nobody} /\ call[c].step = "wait"
                                 /\ call[c].kind = "ping" /\ mu' = Nobody
    PROVE  Inv'
<1> USE DEF Inv
<1>1. TypeOK'
  BY QuietPollTypes, Unchanged
<1>2. Shape'
  BY QuietShape, AfterActive
<1>3. Names'
  BY AcceptedIsNewest, NetAfterPoll DEF Names, AnswersThisQuery
<1>4. HeardInThisCall'
  BY PollHeard DEF Heard, HeardInThisCall
<1>5. Heard'
  BY <1>4, PollHeard DEF Heard
<1> QED BY <1>1, <1>2, <1>3, <1>5

\* The outcomes of the other calls are not changed by the end of one.
LEMMA ReturnOutcome ==
    ASSUME TypeOK, NEW c \in Callers, NEW ok, NEW value, Returns(c, ok, value)
    PROVE  /\ \A b \in Callers : b # c => outcome'[b] = outcome[b] /\ call'[b] = call[b]
           /\ outcome'[c].kind = call[c].kind /\ outcome'[c].n = call[c].n
           /\ outcome'[c].ok = ok /\ outcome'[c].value = value
           /\ call'[c].kind = "none" /\ call'[c].step = "none"
BY Unchanged DEF Returns, NoCall

\* A loop finds its answer.
LEMMA Finds ==
    ASSUME Inv, NEW d \in Arriving, Polled(d), NEW c \in Callers, NEW value,
           call[c].step = "wait", mu \in {c, Nobody},
           TypeOK', Returns(c, TRUE, value), UNCHANGED <<count, read, data>>,
           dns' = IF call[c].kind = "dns" THEN Released(DnsAfter(d)) ELSE DnsAfter(d),
           ntp' = IF call[c].kind = "ntp" THEN Released(NtpAfter(d)) ELSE NtpAfter(d),
           call[c].kind = "dns" => DnsAfter(d).resolved /\ value = DnsAfter(d).result,
           call[c].kind = "ntp" => NtpAfter(d).synced /\ value = NtpAfter(d).unixSecs,
           call[c].kind = "ping" => PingAfter(d)
    PROVE  Inv'
<1>8. /\ \A b \in Callers : b # c => outcome'[b] = outcome[b] /\ call'[b] = call[b]
      /\ outcome'[c].kind = call[c].kind /\ outcome'[c].n = call[c].n
      /\ outcome'[c].value = value /\ call'[c].kind = "none"
  BY ReturnOutcome DEF Inv
<1> USE DEF Inv
<1>1. DnsAfter(d) \in ResolverState /\ NtpAfter(d) \in ClientState
  BY PollTypes
<1>2. Shape'
  BY <1>1, ReturnShape, AfterActive, ReleasedActive
<1>3. /\ dns'.queryID = DnsAfter(d).queryID /\ dns'.resolved = DnsAfter(d).resolved
      /\ dns'.result = DnsAfter(d).result
      /\ ntp'.synced = NtpAfter(d).synced /\ ntp'.unixSecs = NtpAfter(d).unixSecs
  BY <1>1 DEF Released, ResolverState, ClientState
<1>4. AnswersThisQuery'
  <2>1. call[c].kind = "dns" => value = call[c].n
    BY AcceptedIsNewest DEF Shape
  <2>2. ASSUME NEW b \in Callers, outcome'[b].kind = "dns", outcome'[b].ok
        PROVE  outcome'[b].value = outcome'[b].n
    <3>1. CASE b = c
      BY <2>1, <2>2, <3>1, <1>8
    <3>2. CASE b # c
      BY <2>2, <3>2, <1>8 DEF Names, AnswersThisQuery
    <3> QED BY <3>1, <3>2
  <2> QED BY <2>2 DEF AnswersThisQuery
<1>5. Names'
  BY <1>3, <1>4, AcceptedIsNewest, NetAfterPoll DEF Names
<1>6. HeardInThisCall'
  <2>1. call[c].kind = "ntp" => value \in heard'[c]
    BY PollHeard
  <2>2. call[c].kind = "ping" => heard'[c] # {}
    BY PollHeard DEF Polled
  <2>3. ASSUME NEW b \in Callers, outcome'[b].ok
        PROVE  /\ outcome'[b].kind = "ntp" => outcome'[b].value \in heard'[b]
               /\ outcome'[b].kind = "ping" => heard'[b] # {}
    <3>1. CASE b = c
      BY <2>1, <2>2, <3>1, <1>8
    <3>2. CASE b # c
      BY <2>3, <3>2, PollHeard, <1>8 DEF Heard, HeardInThisCall
    <3> QED BY <3>1, <3>2
  <2> QED BY <2>3 DEF HeardInThisCall
<1>7. Heard'
  BY <1>3, <1>6, PollHeard, <1>8 DEF Heard
<1> QED BY <1>2, <1>5, <1>7

\* A call fails.
LEMMA Fails ==
    ASSUME Inv, NEW c \in Callers, Returns(c, FALSE, 0), mu \in {c, Nobody},
           dns' = IF call[c].kind = "dns" THEN Released(dns) ELSE dns,
           ntp' = IF call[c].kind = "ntp" THEN Released(ntp) ELSE ntp,
           UNCHANGED <<pingRecvd, count, heard, sockets, net, data>>
    PROVE  Inv'
<1> USE DEF Inv
<1>1. TypeOK'
  BY FailureTypes
<1>2. dns \in ResolverState /\ ntp \in ClientState
  BY Unchanged
<1>3. Shape'
  BY <1>2, ReturnShape, ReleasedActive
<1>4. /\ dns'.queryID = dns.queryID /\ dns'.resolved = dns.resolved
      /\ dns'.result = dns.result
      /\ ntp'.synced = ntp.synced /\ ntp'.unixSecs = ntp.unixSecs
  BY <1>2 DEF Released, ResolverState, ClientState
<1>5. Names'
  <2>1. ASSUME NEW b \in Callers, outcome'[b].kind = "dns", outcome'[b].ok
        PROVE  outcome'[b].value = outcome'[b].n
    <3>1. b # c
      BY <2>1, ReturnOutcome
    <3> QED BY ZenonT(60), <2>1, <3>1, ReturnOutcome DEF Names, AnswersThisQuery
  <2> QED BY <1>4, <2>1 DEF Names, AnswersThisQuery
<1>6. ASSUME NEW b \in Callers, outcome'[b].ok
      PROVE  /\ outcome'[b].kind = "ntp" => outcome'[b].value \in heard'[b]
             /\ outcome'[b].kind = "ping" => heard'[b] # {}
  <2>1. b # c
    BY <1>6, ReturnOutcome
  <2> QED BY ZenonT(60), <1>6, <2>1, ReturnOutcome DEF Heard, HeardInThisCall
<1>7. ASSUME NEW b \in Callers
      PROVE  /\ call'[b].kind = "ntp" /\ ntp'.synced => ntp'.unixSecs \in heard'[b]
             /\ call'[b].kind = "ping" /\ call'[b].step \in {"send", "wait"} /\ pingRecvd'
                   => heard'[b] # {}
  <2>1. CASE b = c
    BY <2>1, ReturnOutcome
  <2>2. CASE b # c
    <3>1. call'[b] = call[b] /\ heard'[b] = heard[b] /\ pingRecvd' = pingRecvd
      BY <2>2, ReturnOutcome
    <3> QED BY <1>4, <3>1 DEF Heard
  <2> QED BY <2>1, <2>2
<1>8. Heard'
  BY ZenonT(60), <1>6, <1>7, ReturnOutcome DEF Heard, HeardInThisCall
<1> QED BY <1>1, <1>3, <1>5, <1>8

\* The beginning of a call: earlier answers do not count.
LEMMA Starts ==
    ASSUME Inv, NEW c \in Callers, Start(c)
    PROVE  Inv'
<1> USE DEF Inv
<1>1. PICK k \in Kinds : LET n == count[k] + 1 IN
        /\ call[c] = NoCall /\ mu = Nobody
        /\ count' = [count EXCEPT ![k] = n]
        /\ call' = [call EXCEPT ![c] = [kind |-> k, step |-> "resolve", tries |-> 1, n |-> n]]
        /\ dns' = IF k = "dns" THEN Asking(n) ELSE dns
        /\ ntp' = IF k = "ntp" THEN Syncing ELSE ntp
        /\ heard' = [heard EXCEPT ![c] = {}]
        /\ outcome' = [outcome EXCEPT ![c] = NoOutcome]
        /\ net' = {d \in net : d.type = "dns" /\ k = "dns" => n < d.n + IdMod}
        /\ UNCHANGED <<pingRecvd, sockets, data>>
  BY DEF Start
<1>2. TypeOK' /\ Shape'
  BY StartTypes, StartShape
<1>3. k \in AllKinds /\ count[k] \in Nat /\ "dns" \in AllKinds /\ count["dns"] \in Nat
  BY QueriesAssumption DEF AllKinds, TypeOK
<1>4. /\ \A b \in Callers : b # c => /\ call'[b] = call[b] /\ heard'[b] = heard[b]
                                     /\ outcome'[b] = outcome[b]
      /\ call'[c].kind = k /\ call'[c].step = "resolve"
      /\ outcome'[c].kind = "none"
  BY <1>1, Unchanged DEF NoOutcome, TypeOK
<1>5. AnswersThisQuery' /\ HeardInThisCall'
  <2>1. ASSUME NEW b \in Callers, outcome'[b].kind # "none"
        PROVE  outcome'[b] = outcome[b] /\ heard'[b] = heard[b]
    BY <1>4, <2>1
  <2> QED BY <2>1 DEF Names, Heard, AnswersThisQuery, HeardInThisCall
<1>6. Names'
  <2>1. CASE k = "dns"
    <3>1. count'["dns"] = count["dns"] + 1
      BY <1>1, <1>3, <2>1 DEF TypeOK
    <3>2. dns'.queryID = QueryID(count["dns"] + 1) /\ dns'.resolved = FALSE
      BY <1>1, <2>1, Unchanged DEF Asking, ResolverState
    <3>3. ASSUME NEW d \in net', d.type = "dns"
          PROVE  d.n <= count["dns"] + 1 /\ count["dns"] + 1 < d.n + IdMod
      <4>1. d \in net /\ count["dns"] + 1 < d.n + IdMod
        BY <1>1, <2>1, <3>3
      <4>2. d.n <= count["dns"] /\ d.n \in Nat
        BY <3>3, <4>1, KindsOfDatagram DEF Names, Arriving, AllKinds
      <4> QED BY <1>3, <4>1, <4>2
    <3> QED BY <1>5, <3>1, <3>2, <3>3 DEF Names
  <2>2. CASE k # "dns"
    <3>1. count'["dns"] = count["dns"] /\ dns' = dns /\ net' \subseteq net
      BY <1>1, <1>3, <2>2 DEF TypeOK
    <3> QED BY <1>5, <3>1 DEF Names
  <2> QED BY <2>1, <2>2
<1>7. ASSUME NEW b \in Callers
      PROVE  /\ call'[b].kind = "ntp" /\ ntp'.synced => ntp'.unixSecs \in heard'[b]
             /\ call'[b].kind = "ping" /\ call'[b].step \in {"send", "wait"} /\ pingRecvd'
                   => heard'[b] # {}
  <2>1. b # Nobody
    BY QueriesAssumption
  <2>2. CASE b = c
    <3>1. k = "ntp" => ntp'.synced = FALSE
      BY <1>1, Unchanged DEF Syncing, ClientState
    <3> QED BY <1>4, <2>2, <3>1
  <2>3. CASE b # c
    <3>1. call[b].kind # "ntp"
      BY <1>1, <2>1 DEF Shape
    <3> QED BY <1>1, <1>4, <2>3, <3>1 DEF Heard
  <2> QED BY <2>2, <2>3
<1>8. \A b \in Callers : call'[b].kind # "none" => outcome'[b].kind = "none"
  BY <1>4 DEF Heard
<1> QED BY <1>2, <1>5, <1>6, <1>7, <1>8 DEF Heard

\* The steps between.
LEMMA Between ==
    ASSUME Inv, NEW c \in Callers, Resolved(c) \/ Sent(c) \/ Retry(c)
    PROVE  Inv'
<1> USE DEF Inv
<1>1. call[c].kind \in AllKinds /\ call[c].kind # "none"
  <2>1. call[c].step # "none"
    BY DEF Resolved, Sent, Retry, Waits
  <2> QED BY <2>1 DEF Shape, TypeOK, Kind
<1>2. TypeOK'
  BY <1>1, ResolvedTypes, SentTypes, RetryTypes
<1>3. /\ \A b \in Callers : b # c => call'[b] = call[b]
      /\ call'[c].kind = call[c].kind /\ call'[c].n = call[c].n
      /\ call'[c].step \in {"resolve", "send", "wait"}
      /\ mu' = mu /\ (mu = c \/ call'[c].step = "wait")
      /\ UNCHANGED <<dns, ntp, count, outcome>>
  <2>1. CASE Resolved(c)
    BY <2>1, Unchanged DEF Resolved, Goes, Shape, CallState
  <2>2. CASE Sent(c)
    BY <2>2, Unchanged DEF Sent, Goes, CallState, stack
  <2>3. CASE Retry(c)
    BY <2>3, Unchanged DEF Retry, Waits, Shape, CallState, stack
  <2> QED BY <2>1, <2>2, <2>3
<1>4. call' \in [Callers -> CallState]
  BY <1>2 DEF TypeOK, CallState
<1>5. Shape'
  BY <1>1, <1>3, <1>4, StepShape
<1>6. \A d \in net' : d.type = "dns" => /\ d.n <= count["dns"]
                                        /\ count["dns"] < d.n + IdMod
  <2>1. CASE Sent(c)
    <3>1. ASSUME NEW ok, Answer(call[c].kind, call[c].n, ok).type = "dns"
          PROVE  Answer(call[c].kind, call[c].n, ok).n = count["dns"]
      BY <3>1 DEF Answer, Shape
    <3>2. count["dns"] \in Nat /\ IdMod \in Nat \ {0}
      BY QueriesAssumption DEF TypeOK, AllKinds
    <3>3. ASSUME NEW d \in net', d \notin net
          PROVE  \E ok \in {TRUE, call[c].kind # "dns"} :
                    d = Answer(call[c].kind, call[c].n, ok)
      BY <2>1, <3>3 DEF Sent
    <3>4. ASSUME NEW d \in net', d.type = "dns"
          PROVE  d.n <= count["dns"] /\ count["dns"] < d.n + IdMod
      <4>1. CASE d \in net
        BY <3>4, <4>1 DEF Names
      <4>2. CASE d \notin net
        <5>1. d.n = count["dns"]
          BY <3>1, <3>3, <3>4, <4>2
        <5> QED BY <3>2, <5>1
      <4> QED BY <4>1, <4>2
    <3> QED BY <3>4
  <2>2. CASE Resolved(c) \/ Retry(c)
    BY <2>2 DEF Resolved, Retry, Names
  <2> QED BY <2>1, <2>2
<1>7. Names'
  BY <1>3, <1>6 DEF Names, AnswersThisQuery
<1>8. ASSUME NEW b \in Callers
      PROVE  /\ outcome[b].ok => /\ outcome[b].kind = "ntp" => outcome[b].value \in heard'[b]
                                 /\ outcome[b].kind = "ping" => heard'[b] # {}
             /\ call'[b].kind = "ntp" /\ ntp.synced => ntp.unixSecs \in heard'[b]
             /\ call'[b].kind = "ping" /\ call'[b].step \in {"send", "wait"} /\ pingRecvd'
                   => heard'[b] # {}
  <2>1. CASE Resolved(c) /\ call[c].kind = "ping"
    <3>1. pingRecvd' = FALSE /\ heard' = [heard EXCEPT ![c] = {}]
      BY <2>1 DEF Resolved, PingCleared
    <3>2. CASE b # c
      BY <1>3, <3>1, <3>2 DEF Heard, HeardInThisCall
    <3>3. CASE b = c
      BY <1>3, <2>1, <3>1, <3>3 DEF Heard, HeardInThisCall
    <3> QED BY <3>2, <3>3
  <2>2. CASE UNCHANGED <<pingRecvd, heard>> /\ (b = c /\ call'[c].kind = "ping" =>
                                 call[c].step \in {"send", "wait"})
    BY <1>3, <2>2 DEF Heard, HeardInThisCall
  <2>3. Resolved(c) /\ call[c].kind # "ping" =>
           UNCHANGED <<pingRecvd, heard>> /\ call'[c].kind # "ping"
    BY <1>3 DEF Resolved
  <2>4. Sent(c) \/ Retry(c) =>
           UNCHANGED <<pingRecvd, heard>> /\ call[c].step \in {"send", "wait"}
    BY DEF Sent, Retry, Waits, stack
  <2> QED BY <2>1, <2>2, <2>3, <2>4
<1>9. Heard'
  BY <1>3, <1>8 DEF Heard, HeardInThisCall
<1> QED BY <1>2, <1>5, <1>7, <1>9

LEMMA CallStepInv ==
    ASSUME Inv, NEW c \in Callers, CallSteps(c)
    PROVE  Inv'
<1>1. CASE Start(c)
  BY <1>1, Starts
<1>2. CASE Resolved(c) \/ Sent(c) \/ Retry(c)
  BY <1>2, Between
<1>3. CASE Nested(c)
  BY <1>3, QuietPoll DEF Nested
<1>4. CASE SendFails(c)
  <2>1. mu = c
    BY <1>4 DEF SendFails, Inv, Shape
  <2> QED BY <1>4, <2>1, Fails DEF SendFails
<1>5. CASE GivesUp(c)
  BY <1>5, Fails DEF GivesUp, Waits
<1>6. CASE ResolveTurn(c)
  <2>1. PICK d \in Arriving :
          /\ Waits(c) /\ call[c].kind = "dns" /\ Polled(d) /\ ntp' = NtpAfter(d)
          /\ IF DnsAfter(d).resolved
             THEN dns' = Released(DnsAfter(d)) /\ Returns(c, TRUE, DnsAfter(d).result)
             ELSE dns' = DnsAfter(d) /\ UNCHANGED <<mu, call, outcome>>
          /\ UNCHANGED <<count, read, data>>
    BY <1>6 DEF ResolveTurn
  <2>2. CASE DnsAfter(d).resolved
    <3>1. TypeOK'
      BY <1>6, TurnTypes DEF Inv
    <3> QED BY <2>1, <2>2, <3>1, Finds DEF Waits
  <2>3. CASE ~DnsAfter(d).resolved
    BY <2>1, <2>3, QuietPoll
  <2> QED BY <2>2, <2>3
<1>7. CASE SyncTurn(c)
  <2>1. PICK d \in Arriving :
          /\ Waits(c) /\ call[c].kind = "ntp" /\ Polled(d) /\ dns' = DnsAfter(d)
          /\ IF NtpAfter(d).synced
             THEN ntp' = Released(NtpAfter(d)) /\ Returns(c, TRUE, NtpAfter(d).unixSecs)
             ELSE ntp' = NtpAfter(d) /\ UNCHANGED <<mu, call, outcome>>
          /\ UNCHANGED <<count, read, data>>
    BY <1>7 DEF SyncTurn
  <2>2. CASE NtpAfter(d).synced
    <3>1. TypeOK'
      BY <1>7, TurnTypes DEF Inv
    <3> QED BY <2>1, <2>2, <3>1, Finds DEF Waits
  <2>3. CASE ~NtpAfter(d).synced
    BY <2>1, <2>3, QuietPoll
  <2> QED BY <2>2, <2>3
<1>8. CASE PingTurn(c)
  <2>1. PICK d \in Arriving :
          /\ Waits(c) /\ call[c].kind = "ping" /\ Polled(d)
          /\ dns' = DnsAfter(d) /\ ntp' = NtpAfter(d)
          /\ IF PingAfter(d)
             THEN Returns(c, TRUE, 0)
             ELSE mu' = Nobody /\ UNCHANGED <<call, outcome>>
          /\ UNCHANGED <<count, read, data>>
    BY <1>8 DEF PingTurn
  <2>2. CASE PingAfter(d)
    <3>1. TypeOK'
      BY <1>8, TurnTypes DEF Inv
    <3> QED BY <2>1, <2>2, <3>1, Finds DEF Waits
  <2>3. CASE ~PingAfter(d)
    BY <2>1, <2>3, QuietPoll DEF Waits
  <2> QED BY <2>2, <2>3
<1> QED BY <1>1, <1>2, <1>3, <1>4, <1>5, <1>6, <1>7, <1>8 DEF CallSteps

LEMMA SocketStepInv ==
    ASSUME Inv, NEW s \in Slots, SocketSteps(s)
    PROVE  Inv'
<1>1. TypeOK'
  BY SocketStepTypes DEF Inv
<1>2. UNCHANGED <<queries, net>>
  BY DEF SocketSteps, Bind, Connect, RecvData, RecvNone, Close, SocketCall
<1> QED BY <1>1, <1>2
        DEF Inv, Shape, Names, Heard, AnswersThisQuery, HeardInThisCall, queries, stack

LEMMA HostSendsInv ==
    ASSUME Inv, HostSends
    PROVE  Inv'
<1>1. TypeOK'
  BY HostSendsTypes DEF Inv
<1>2. UNCHANGED queries /\ \A d \in net' : d.type = "dns" => d \in net
  BY DEF HostSends, Data
<1> QED BY <1>1, <1>2
        DEF Inv, Shape, Names, Heard, AnswersThisQuery, HeardInThisCall, queries, stack

LEMMA InitInv == Init => Inv
<1> SUFFICES ASSUME Init PROVE Inv
  OBVIOUS
<1>1. Names
  BY DEF Init, Names, AnswersThisQuery, NoOutcome, AllKinds
<1>2. Heard
  BY DEF Init, Heard, HeardInThisCall, NoOutcome, NoCall
<1> QED BY <1>1, <1>2, InitTypes, InitShape DEF Inv

LEMMA NextInv == Inv /\ [Next]_vars => Inv'
<1> SUFFICES ASSUME Inv, [Next]_vars PROVE Inv'
  OBVIOUS
<1>1. CASE UNCHANGED vars
  BY <1>1 DEF Inv, TypeOK, Shape, Names, Heard, AnswersThisQuery, HeardInThisCall,
              vars, queries, sockets, stack
<1>2. CASE \E c \in Callers : CallSteps(c)
  BY <1>2, CallStepInv
<1>3. CASE \E s \in Slots : SocketSteps(s)
  BY <1>3, SocketStepInv
<1>4. CASE Background
  BY <1>4, QuietPoll DEF Background
<1>5. CASE HostSends
  BY <1>5, HostSendsInv
<1> QED BY <1>1, <1>2, <1>3, <1>4, <1>5 DEF Next

\* The inductive invariant: who keeps the mutex, what the one place for an
\* answer holds, and which datagrams are on their way.
THEOREM QueriesInvariant == Spec => []Inv
<1>1. Init => Inv
  BY InitInv
<1>2. Inv /\ [Next]_vars => Inv'
  BY NextInv
<1> QED BY <1>1, <1>2, PTL DEF Spec

\* Type correctness of the calls, the flags, the sockets and the datagrams.
THEOREM QueriesTypeCorrect == Spec => []TypeOK
<1>1. Inv => TypeOK
  BY DEF Inv
<1> QED BY <1>1, QueriesInvariant, PTL

\* The flags are set during the calls, which keep the mutex, and only then.
THEOREM FlagsAreReset == Spec => []FlagsFollowCalls
<1>1. Inv => FlagsFollowCalls
  BY DEF Inv, Shape, FlagsFollowCalls
<1> QED BY <1>1, QueriesInvariant, PTL

\* Resolve returns the answer to its own query, for every range of ids, as long
\* as no answer is so late that its id has come round again.
THEOREM ResolvesOwnQuery == Spec => []AnswersThisQuery
<1>1. Inv => AnswersThisQuery
  BY DEF Inv, Names
<1> QED BY <1>1, QueriesInvariant, PTL

\* What Sync and Ping report came during the call.
THEOREM NothingStale == Spec => []HeardInThisCall
<1>1. Inv => HeardInThisCall
  BY DEF Inv, Heard
<1> QED BY <1>1, QueriesInvariant, PTL

----------------------------------------------------------------------------
(* Whom a socket hears.                                                    *)

Talks ==
    \A s \in Slots :
        /\ \A i \in DOMAIN udp[s].rx : udp[s].rx[i] = udp[s].remote
        /\ read[s] \subseteq {udp[s].remote, errClosed}
        /\ udp[s].port = 0 => udp[s].remote = Nobody

LEMMA TalksAfterPoll ==
    ASSUME TypeOK, Talks, NEW d \in Arriving, Polled(d), UNCHANGED read
    PROVE  Talks'
<1>1. udp' = [s \in Slots |-> SocketAfter(s, d)]
  BY DEF Polled
<1>2. ASSUME NEW s \in Slots
      PROVE  /\ \A i \in DOMAIN udp'[s].rx : udp'[s].rx[i] = udp'[s].remote
             /\ read[s] \subseteq {udp'[s].remote, errClosed}
             /\ udp'[s].port = 0 => udp'[s].remote = Nobody
  <2>1. CASE udp'[s] = udp[s]
    BY <2>1 DEF Talks
  <2>2. CASE udp'[s] = Given(s, d) /\ d.type = "data" /\ Takes(s, d)
    <3>1. d \in DataTo
      BY <2>2, KindsOfDatagram
    <3>2. udp[s].rx \in Seq(Senders) /\ Len(udp[s].rx) <= RxSize /\ udp[s] \in SocketState
      BY Unchanged DEF TypeOK, SocketState
    <3> DEFINE rx == Stored(udp[s].rx, d)
    <3>3. /\ rx \in Seq(Senders)
          /\ \A i \in DOMAIN rx : rx[i] = IF i <= Len(udp[s].rx) THEN udp[s].rx[i] ELSE d.from
      BY <3>1, <3>2, StoredIsRing
    <3>4. Given(s, d) = [udp[s] EXCEPT !.remote = d.from, !.rx = rx]
      BY <3>2 DEF Given, SocketState
    <3> HIDE DEF rx
    <3>5. /\ udp'[s].rx = rx /\ udp'[s].remote = d.from /\ udp'[s].port = udp[s].port
          /\ udp[s].port # 0
      BY <2>2, <3>2, <3>4 DEF SocketState, Takes
    <3>6. CASE udp[s].remote = d.from
      <4>1. ASSUME NEW i \in DOMAIN rx PROVE rx[i] = d.from
        <5>1. CASE i <= Len(udp[s].rx)
          <6>1. i \in DOMAIN udp[s].rx
            BY <3>2, <3>3, <5>1
          <6> QED BY <3>3, <3>6, <5>1, <6>1 DEF Talks
        <5>2. CASE ~(i <= Len(udp[s].rx))
          BY <3>3, <5>2
        <5> QED BY <5>1, <5>2
      <4> QED BY <3>5, <3>6, <4>1 DEF Talks
    <3>7. CASE udp[s].remote = Nobody
      <4>1. udp[s].rx = <<>>
        <5>1. \A i \in 1..Len(udp[s].rx) : udp[s].rx[i] = Nobody /\ udp[s].rx[i] \in Senders
          BY <3>2, <3>7 DEF Talks
        <5>2. Len(udp[s].rx) = 0
          BY <3>2, <5>1, QueriesAssumption
        <5> QED BY <3>2, <5>2
      <4>2. read[s] \subseteq {errClosed}
        BY <3>7, QueriesAssumption DEF Talks, TypeOK
      <4>3. \A i \in DOMAIN rx : rx[i] = d.from
        BY <3>3, <4>1
      <4> QED BY <3>5, <4>2, <4>3
    <3> QED BY <2>2, <3>6, <3>7 DEF Takes
  <2> QED BY <1>1, <2>1, <2>2 DEF SocketAfter, FirstToTake
<1> QED BY <1>2 DEF Talks

LEMMA TalksAfterSocketStep ==
    ASSUME TypeOK, Talks, ~Reconnects, NEW s \in Slots, SocketSteps(s)
    PROVE  Talks'
<1>1. udp[s] \in SocketState /\ read \in [Slots -> SUBSET (Senders \cup {errClosed})]
      /\ udp[s].rx \in Seq(Senders) /\ udp \in [Slots -> SocketState]
  BY Unchanged DEF TypeOK, SocketState
<1>2. /\ \A i \in DOMAIN udp'[s].rx : udp'[s].rx[i] = udp'[s].remote
      /\ read'[s] \subseteq {udp'[s].remote, errClosed}
      /\ udp'[s].port = 0 => udp'[s].remote = Nobody
  <2>1. CASE Bind(s)
    <3>1. PICK port \in Ports : udp' = [udp EXCEPT ![s].port = port]
      BY <2>1 DEF Bind
    <3>2. /\ udp'[s].rx = udp[s].rx /\ udp'[s].remote = udp[s].remote
          /\ udp'[s].port = port /\ port # 0 /\ read' = read
      BY <1>1, <2>1, <3>1, QueriesAssumption DEF SocketState, Bind
    <3> QED BY <3>2 DEF Talks
  <2>2. CASE Connect(s)
    <3>1. PICK x \in Senders, port \in Ports :
            /\ udp' = [udp EXCEPT ![s] = [@ EXCEPT !.port = port, !.remote = x, !.connected = TRUE]]
            /\ read' = [read EXCEPT ![s] = {}]
      BY <2>2 DEF Connect
    <3>2. udp[s].port = 0
      BY <2>2 DEF Connect
    <3>3. udp[s].rx = <<>>
      <4>1. \A i \in 1..Len(udp[s].rx) : udp[s].rx[i] = Nobody /\ udp[s].rx[i] \in Senders
        BY <1>1, <3>2 DEF Talks
      <4>2. Len(udp[s].rx) = 0
        BY <1>1, <4>1, QueriesAssumption
      <4> QED BY <1>1, <4>2
    <3>4. udp'[s].rx = <<>> /\ udp'[s].port = port /\ port # 0 /\ read'[s] = {}
      BY <1>1, <3>1, <3>3, QueriesAssumption DEF SocketState
    <3> QED BY <3>4
  <2>3. CASE RecvData(s)
    <3>1. PICK n \in 1..Len(udp[s].rx) :
            /\ udp' = [udp EXCEPT ![s].rx = SubSeq(@, n + 1, Len(@))]
            /\ read' = [read EXCEPT ![s] = @ \cup {udp[s].rx[i] : i \in 1..n}]
      BY <2>3 DEF RecvData
    <3> DEFINE rx == SubSeq(udp[s].rx, n + 1, Len(udp[s].rx))
    <3>2. \A i \in DOMAIN udp[s].rx : udp[s].rx[i] = udp[s].remote
      BY DEF Talks
    <3>3. \A i \in DOMAIN rx : rx[i] = udp[s].remote
      <4>1. n \in Nat /\ DOMAIN udp[s].rx = 1..Len(udp[s].rx) /\ Len(udp[s].rx) \in Nat
        BY <1>1
      <4>2. /\ DOMAIN rx = 1..(Len(udp[s].rx) - n)
            /\ \A i \in DOMAIN rx : rx[i] = udp[s].rx[n + i]
        BY <1>1, <4>1
      <4>3. \A i \in 1..(Len(udp[s].rx) - n) : n + i \in 1..Len(udp[s].rx)
        BY <4>1
      <4> QED BY <3>2, <4>1, <4>2, <4>3
    <3>4. udp' = [udp EXCEPT ![s] = [udp[s] EXCEPT !.rx = rx]]
      BY <1>1, <3>1
    <3> HIDE DEF rx
    <3>5. udp'[s].rx = rx /\ udp'[s].remote = udp[s].remote /\ udp'[s].port = udp[s].port
      BY <1>1, <3>4 DEF SocketState
    <3>6. \A i \in 1..n : udp[s].rx[i] = udp[s].remote
      BY <1>1, <3>2
    <3>7. read'[s] \subseteq {udp[s].remote, errClosed}
      BY <1>1, <3>1, <3>6 DEF Talks
    <3> QED BY <3>3, <3>5, <3>7 DEF Talks
  <2>4. CASE RecvNone(s)
    BY <1>1, <2>4 DEF RecvNone, Talks
  <2>5. CASE Close(s)
    BY <1>1, <2>5 DEF Close, Reset, Unused, Talks
  <2> QED BY <2>1, <2>2, <2>3, <2>4, <2>5 DEF SocketSteps
<1>3. \A t \in Slots : t # s => udp'[t] = udp[t] /\ read'[t] = read[t]
  BY <1>1 DEF SocketSteps, Bind, Connect, RecvData, RecvNone, Close
<1>4. ASSUME NEW t \in Slots
      PROVE  /\ \A i \in DOMAIN udp'[t].rx : udp'[t].rx[i] = udp'[t].remote
             /\ read'[t] \subseteq {udp'[t].remote, errClosed}
             /\ udp'[t].port = 0 => udp'[t].remote = Nobody
  <2>1. CASE t = s
    BY <1>2, <2>1
  <2>2. CASE t # s
    BY <1>3, <2>2 DEF Talks
  <2> QED BY <2>1, <2>2
<1> QED BY <1>4 DEF Talks

LEMMA NextTalks ==
    ASSUME TypeOK, Talks, ~Reconnects, [Next]_vars
    PROVE  Talks'
<1>1. CASE UNCHANGED <<udp, read>>
  BY <1>1 DEF Talks
<1>2. ASSUME NEW c \in Callers, CallSteps(c) PROVE Talks'
  <2>1. CASE \E d \in Arriving : Polled(d) /\ UNCHANGED read
    BY <2>1, TalksAfterPoll
  <2>2. CASE Nested(c) \/ ResolveTurn(c) \/ SyncTurn(c) \/ PingTurn(c)
    BY <2>1, <2>2 DEF Nested, ResolveTurn, SyncTurn, PingTurn
  <2>3. CASE Start(c) \/ Resolved(c) \/ Sent(c) \/ SendFails(c) \/ Retry(c) \/ GivesUp(c)
    BY <1>1, <2>3 DEF Start, Resolved, Sent, SendFails, Retry, GivesUp, sockets
  <2> QED BY <1>2, <2>2, <2>3 DEF CallSteps
<1>3. CASE Background
  BY <1>3, TalksAfterPoll DEF Background
<1>4. ASSUME NEW s \in Slots, SocketSteps(s) PROVE Talks'
  BY <1>4, TalksAfterSocketStep
<1>5. CASE HostSends
  BY <1>1, <1>5 DEF HostSends, sockets
<1>6. CASE UNCHANGED vars
  BY <1>1, <1>6 DEF vars, sockets
<1> QED BY <1>2, <1>3, <1>4, <1>5, <1>6 DEF Next

\* The owner of a socket reads the bytes of one host, whatever other hosts send
\* to its port, if it connects a socket only before it has a port.
THEOREM OneHostHeard == ~Reconnects => (Spec => []OneConversation)
<1> SUFFICES ASSUME ~Reconnects PROVE Spec => []OneConversation
  OBVIOUS
<1>1. Init => Talks
  BY DEF Init, Talks, Unused
<1>2. TypeOK /\ Talks /\ [Next]_vars => Talks'
  BY NextTalks
<1>3. TypeOK /\ Talks => OneConversation
  <2> SUFFICES ASSUME TypeOK, Talks PROVE OneConversation
    OBVIOUS
  <2>1. \A s \in Slots : \A x, y \in read[s] \ {errClosed} : x = y
    BY DEF Talks
  <2> QED BY <2>1 DEF Talks, OneConversation
<1> QED BY <1>1, <1>2, <1>3, QueriesTypeCorrect, PTL DEF Spec
=============================================================================
