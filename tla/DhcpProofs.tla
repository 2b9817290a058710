--------------------------- MODULE DhcpProofs ---------------------------
(***************************************************************************)
(* The DHCP client, on the network and under the connection.  No station   *)
(* has two leases, a station's address is leased to whom its acknowledgment*)
(* was for, and two stations share one only if that was the same station,  *)
(* for any number of stations, any pool that fits the last byte, and any   *)
(* loss and reordering.  And the connection of a station is up only with   *)
(* an address that belongs to its present link, and tells the application  *)
(* so in order, for any number of packets that wait and of faults.         *)
(***************************************************************************)
EXTENDS DhcpLan, NetDev, TLAPS

\* While the client has no lease its count has not passed the limit: then the
\* counts fit their type.
WithinRetx(d) == d.state \in {"Selecting", "Requesting"} => d.retxCount <= MaxRetx

\* The part of the invariant that is about the server's table and the types.
Table ==
    /\ LanTypeOK
    /\ \A c \in Client : WithinRetx(client[c])
    /\ OneLeaseEach

\* The server leased the address to station c.
Leased(c, addr) == c \in Client /\ \E i \in Slot : leases[i] = c /\ addr = LeaseIP(i)

RepliesAreLeased ==
    \A d \in Client : \A m \in toClient[d] : Leased(m.chaddr, m.yiaddr)

BeliefsAreLeased ==
    \A c \in Client : HasLease(client[c]) => Leased(heard[c], client[c].localIP)

\* The inductive invariant.  BelievedIsLeased alone is not inductive: what an
\* acknowledgment makes a station believe was in the air.
Assignment == Table /\ RepliesAreLeased /\ BeliefsAreLeased

----------------------------------------------------------------------------
(* The handlers of the client.                                             *)

LEMMA NoRetx == 0 \in RetxCounts /\ 0 <= MaxRetx
  BY ClientAssumption DEF RetxCounts

LEMMA StartedShape ==
    ASSUME NEW d \in DhcpRecord
    PROVE  /\ Started(d) \in DhcpRecord /\ WithinRetx(Started(d))
           /\ ~HasLease(Started(d))
  <1>1. /\ Started(d) \in DhcpRecord
        /\ Started(d).state = "Selecting" /\ Started(d).retxCount = 0
    BY NoRetx DEF DhcpRecord, DhcpState, Started
  <1> QED BY <1>1, NoRetx DEF WithinRetx, HasLease

\* An expired timer never makes a lease, and leaves the address alone.
LEMMA RetxShape ==
    ASSUME NEW d \in DhcpRecord, WithinRetx(d), RetxDue(d)
    PROVE  /\ RetxExpired(d) \in DhcpRecord /\ WithinRetx(RetxExpired(d))
           /\ HasLease(RetxExpired(d)) => HasLease(d) /\ RetxExpired(d).localIP = d.localIP
           /\ RetxExpired(d).offeredIP = d.offeredIP
  <1>1. /\ d.retxCount \in Nat /\ d.retxCount <= MaxRetx + MaxRenew + 1
        /\ MaxRetx \in Nat /\ MaxRenew \in Nat
        /\ d.state \in {"Selecting", "Requesting", "Renewing"}
    BY ClientAssumption DEF DhcpRecord, RetxCounts, RetxDue
  <1> DEFINE counted == [d EXCEPT !.retxCount = @ + 1]
  <1>2. d.retxCount + 1 \in RetxCounts \/ (Exhausted(d) /\ d.state = "Renewing")
    BY <1>1, ClientAssumption DEF Exhausted, RetxCounts, WithinRetx
  <1>3. CASE ~Exhausted(d)
    <2>1. RetxExpired(d) = [d EXCEPT !.retxCount = d.retxCount + 1]
      BY <1>3 DEF RetxExpired
    <2>2. d.retxCount + 1 \in RetxCounts
      BY <1>2, <1>3
    <2>3. d.state # "Renewing" => d.retxCount + 1 <= MaxRetx
      BY <1>1, <1>3 DEF Exhausted
    <2> DEFINE n == d.retxCount + 1
    <2> HIDE DEF n
    <2>4. RetxExpired(d) = [d EXCEPT !.retxCount = n]
      BY <2>1 DEF n
    <2>5. /\ RetxExpired(d) \in DhcpRecord
          /\ RetxExpired(d).state = d.state /\ RetxExpired(d).retxCount = n
          /\ RetxExpired(d).localIP = d.localIP /\ RetxExpired(d).offeredIP = d.offeredIP
      BY <2>2, <2>4 DEF DhcpRecord, n
    <2> QED BY <2>3, <2>5 DEF WithinRetx, HasLease, n
  <1>4. CASE Exhausted(d) /\ d.state = "Renewing"
    <2>1. RetxExpired(d) = Started(d)
      BY <1>4 DEF RetxExpired
    <2>2. Started(d).offeredIP = d.offeredIP
      BY DEF Started, DhcpRecord
    <2> QED BY <2>1, <2>2, StartedShape
  <1>5. CASE Exhausted(d) /\ d.state # "Renewing"
    <2> DEFINE n == d.retxCount + 1
    <2>1. n \in RetxCounts
      BY <1>2, <1>5
    <2>2. RetxExpired(d) = [[d EXCEPT !.retxCount = n] EXCEPT !.state = "Init"]
      BY <1>5 DEF RetxExpired
    <2> HIDE DEF n
    <2>3. /\ RetxExpired(d) \in DhcpRecord
          /\ RetxExpired(d).state = "Init"
          /\ RetxExpired(d).offeredIP = d.offeredIP
      BY <2>1, <2>2 DEF DhcpRecord, DhcpState
    <2> QED BY <2>3 DEF WithinRetx, HasLease
  <1> QED BY <1>3, <1>4, <1>5

LEMMA RenewedShape ==
    ASSUME NEW d \in DhcpRecord, RenewDue(d)
    PROVE  /\ Renewed(d) \in DhcpRecord /\ WithinRetx(Renewed(d))
           /\ HasLease(d) /\ Renewed(d).localIP = d.localIP
  BY DEF DhcpRecord, DhcpState, Renewed, RenewDue, WithinRetx, HasLease

\* A reply changes what the client believes only if it acknowledges.
LEMMA HandledShape ==
    ASSUME NEW d \in DhcpRecord, WithinRetx(d),
           NEW type, NEW addr \in Addr
    PROVE  /\ HandlePacket(d, type, addr) \in DhcpRecord
           /\ WithinRetx(HandlePacket(d, type, addr))
           /\ HasLease(HandlePacket(d, type, addr)) =>
                 \/ type = "ack" /\ TakesAck(d) /\ HandlePacket(d, type, addr).localIP = addr
                 \/ /\ ~(type = "ack" /\ TakesAck(d))
                    /\ HasLease(d) /\ HandlePacket(d, type, addr).localIP = d.localIP
  <1>1. CASE type = "offer" /\ d.state = "Selecting"
    <2>1. HandlePacket(d, type, addr) = Offered(d, addr)
      BY <1>1 DEF HandlePacket
    <2>2. Offered(d, addr) \in DhcpRecord /\ Offered(d, addr).state = "Requesting"
          /\ Offered(d, addr).retxCount = 0
      BY NoRetx DEF Offered, DhcpRecord, DhcpState
    <2> QED BY <2>1, <2>2, NoRetx DEF WithinRetx, HasLease
  <1>2. CASE type = "ack" /\ TakesAck(d)
    <2>1. HandlePacket(d, type, addr) = [d EXCEPT !.state = "Bound", !.localIP = addr]
      BY <1>2 DEF HandlePacket
    <2>2. /\ HandlePacket(d, type, addr) \in DhcpRecord
          /\ HandlePacket(d, type, addr).state = "Bound"
          /\ HandlePacket(d, type, addr).localIP = addr
      BY <2>1 DEF DhcpRecord, DhcpState
    <2> QED BY <1>2, <2>2 DEF WithinRetx
  <1>3. CASE type = "nak"
    <2>1. HandlePacket(d, type, addr) = [d EXCEPT !.state = "Init"]
      BY <1>3 DEF HandlePacket
    <2>2. HandlePacket(d, type, addr) \in DhcpRecord /\ HandlePacket(d, type, addr).state = "Init"
      BY <2>1 DEF DhcpRecord, DhcpState
    <2> QED BY <2>2 DEF WithinRetx, HasLease
  <1>4. CASE /\ ~(type = "offer" /\ d.state = "Selecting") /\ ~(type = "ack" /\ TakesAck(d))
             /\ type # "nak"
    <2>1. HandlePacket(d, type, addr) = d
      BY <1>4 DEF HandlePacket
    <2> QED BY <1>4, <2>1
  <1> QED BY <1>1, <1>2, <1>3, <1>4

----------------------------------------------------------------------------
(* The server.                                                             *)

\* The addresses of different slots differ, wherever the last byte wraps.
LEMMA LeaseIPUnique ==
    ASSUME NEW i \in Slot, NEW j \in Slot, LeaseIP(i) = LeaseIP(j)
    PROVE  i = j
  <1>1. i \in 0..255 /\ j \in 0..255 /\ Gateway \in 0..255
    BY LanAssumption DEF Slot, LastByte
  <1> QED BY <1>1 DEF LeaseIP

LEMMA LeaseIPIsAddr ==
    ASSUME NEW i \in Slot
    PROVE  LeaseIP(i) \in Addr
  BY LanAssumption DEF LeaseIP, Slot, LastByte

\* A request is answered from the table or from a free slot that its station
\* gets, which had none.
LEMMA TableAfterShape ==
    ASSUME LanTypeOK, NEW m \in Request, NEW table \in TableAfter(m)
    PROVE  \/ table = leases
           \/ /\ \A i \in Slot : leases[i] # m.chaddr
              /\ \E k \in Slot : /\ leases[k] = NoClient
                                 /\ table = [leases EXCEPT ![k] = m.chaddr]
  BY DEF TableAfter, Allocate, FreeSlots, LeasesOf, IsLowest

\* Serving a request gives no one a second lease and takes none away.
LEMMA ServedTable ==
    ASSUME Table, NEW m \in Request, NEW table \in TableAfter(m), leases' = table
    PROVE  /\ leases' \in [Slot -> Client \cup {NoClient, Departed}]
           /\ OneLeaseEach'
           /\ \A i \in Slot, c \in Client : leases[i] = c => leases'[i] = c
  <1>1. m.chaddr \in Client /\ NoClient \notin Client
    BY LanAssumption DEF Request
  <1>2. leases \in [Slot -> Client \cup {NoClient, Departed}]
    BY DEF Table, LanTypeOK
  <1>3. CASE table = leases
    BY <1>2, <1>3 DEF Table, OneLeaseEach, LeasesOf
  <1>4. CASE /\ \A i \in Slot : leases[i] # m.chaddr
             /\ \E k \in Slot : leases[k] = NoClient /\ table = [leases EXCEPT ![k] = m.chaddr]
    <2>1. PICK k \in Slot : leases[k] = NoClient /\ table = [leases EXCEPT ![k] = m.chaddr]
      BY <1>4
    <2>2. /\ leases' \in [Slot -> Client \cup {NoClient, Departed}]
          /\ leases'[k] = m.chaddr
          /\ \A i \in Slot \ {k} : leases'[i] = leases[i]
      BY <1>1, <1>2, <2>1
    <2>3. OneLeaseEach'
      BY <1>1, <1>4, <2>1, <2>2 DEF Table, OneLeaseEach, LeasesOf
    <2> QED BY <1>1, <2>1, <2>2, <2>3
  <1> QED BY <1>3, <1>4, TableAfterShape DEF Table

----------------------------------------------------------------------------
(* Every step keeps the types, the limit, and the table.                   *)

\* What a station broadcasts are requests.
LEMMA BroadcastType ==
    ASSUME LanTypeOK, NEW c \in Client, NEW types \in SUBSET {"discover", "request"},
           client' \in [Client -> DhcpRecord], Broadcast(c, types)
    PROVE  toServer' \subseteq Request
  <1>1. client'[c].offeredIP \in Addr \cup {NoAddr}
    BY DEF DhcpRecord
  <1> QED BY <1>1 DEF Broadcast, Request, LanTypeOK

\* A step of station c changes its own record and what is in the air.
LEMMA StationStep ==
    ASSUME Table, NEW c \in Client, NEW d \in DhcpRecord, WithinRetx(d),
           client' = [client EXCEPT ![c] = d], leases' = leases,
           NEW types \in SUBSET {"discover", "request"}, Broadcast(c, types),
           toClient' \in [Client -> SUBSET Reply],
           heard' \in [Client -> Client \cup {NoClient}]
    PROVE  /\ Table'
           /\ client'[c] = d
           /\ \A e \in Client \ {c} : client'[e] = client[e]
  <1>1. client \in [Client -> DhcpRecord]
    BY DEF Table, LanTypeOK
  <1>2. /\ client' \in [Client -> DhcpRecord]
        /\ client'[c] = d
        /\ \A e \in Client \ {c} : client'[e] = client[e]
    BY <1>1
  <1>3. toServer' \subseteq Request
    BY <1>2, BroadcastType DEF Table
  <1>4. LanTypeOK'
    BY <1>2, <1>3 DEF Table, LanTypeOK
  <1>5. \A e \in Client : WithinRetx(client'[e])
    BY <1>2 DEF Table
  <1>6. OneLeaseEach'
    BY DEF Table, OneLeaseEach, LeasesOf
  <1> QED BY <1>2, <1>4, <1>5, <1>6 DEF Table

\* The record of a station, and the replies it has not seen, have their types.
LEMMA StationTypes ==
    ASSUME Table, NEW c \in Client
    PROVE  /\ client[c] \in DhcpRecord /\ WithinRetx(client[c])
           /\ toClient[c] \subseteq Reply
           /\ toClient \in [Client -> SUBSET Reply]
  BY DEF Table, LanTypeOK

LEMMA SendsType ==
    ASSUME NEW d
    PROVE  Sends(d) \in SUBSET {"discover", "request"}
  BY DEF Sends

LEMMA AnswersType ==
    ASSUME NEW d, NEW type
    PROVE  Answers(d, type) \in SUBSET {"discover", "request"}
  BY DEF Answers

\* What a station's step must say of a new belief for the rest to follow.
LEMMA StationKeeps ==
    ASSUME Assignment, Table', NEW c \in Client,
           \A e \in Client \ {c} : client'[e] = client[e] /\ heard'[e] = heard[e],
           HasLease(client'[c]) => Leased(heard'[c], client'[c].localIP),
           leases' = leases,
           \A e \in Client : toClient'[e] \subseteq toClient[e]
    PROVE  Assignment'
  <1>1. RepliesAreLeased'
    BY DEF Assignment, RepliesAreLeased, Leased, LeaseIP
  <1>2. BeliefsAreLeased'
    BY DEF Assignment, BeliefsAreLeased, Leased, HasLease, LeaseIP
  <1> QED BY <1>1, <1>2 DEF Assignment

LEMMA LeaseHeld ==
    ASSUME Assignment, NEW c \in Client, HasLease(client[c])
    PROVE  Leased(heard[c], client[c].localIP)
  BY DEF Assignment, BeliefsAreLeased

\* Start, an expired timer and a renewal, in one shape: the new record believes
\* no more than the old one.
LEMMA TimerStep ==
    ASSUME NEW c \in Client, NEW d \in DhcpRecord, WithinRetx(d),
           client' = [client EXCEPT ![c] = d],
           HasLease(d) => HasLease(client[c]) /\ d.localIP = client[c].localIP,
           NEW types \in SUBSET {"discover", "request"}, Broadcast(c, types),
           leases' = leases, toClient' = toClient, heard' = heard
    PROVE  /\ Table => Table'
           /\ Assignment => Assignment'
  <1>1. Table => /\ Table' /\ client'[c] = d
                 /\ \A e \in Client \ {c} : client'[e] = client[e]
    BY StationStep, StationTypes DEF Table, LanTypeOK
  <1>2. ASSUME Assignment PROVE Assignment'
    <2>1. Table' /\ client'[c] = d /\ \A e \in Client \ {c} : client'[e] = client[e]
      BY <1>1, <1>2 DEF Assignment
    <2>2. HasLease(client'[c]) => Leased(heard'[c], client'[c].localIP)
      BY <1>2, <2>1, LeaseHeld
    <2> QED BY <1>2, <2>1, <2>2, StationKeeps
  <1> QED BY <1>1, <1>2

LEMMA StartStep ==
    ASSUME Table, NEW c \in Client, Start(c)
    PROVE  Table' /\ (Assignment => Assignment')
  <1>1. client[c] \in DhcpRecord
    BY StationTypes
  <1> QED BY <1>1, StartedShape, TimerStep DEF Start

LEMMA RetransmitStep ==
    ASSUME Table, NEW c \in Client, Retransmit(c)
    PROVE  Table' /\ (Assignment => Assignment')
  <1>1. client[c] \in DhcpRecord /\ WithinRetx(client[c])
    BY StationTypes
  <1>2. Sends(client'[c]) \in SUBSET {"discover", "request"}
    BY SendsType
  <1> QED BY <1>1, <1>2, RetxShape, TimerStep DEF Retransmit

LEMMA RenewStep ==
    ASSUME Table, NEW c \in Client, Renew(c)
    PROVE  Table' /\ (Assignment => Assignment')
  <1>1. client[c] \in DhcpRecord
    BY StationTypes
  <1> QED BY <1>1, RenewedShape, TimerStep DEF Renew

\* What a station takes was leased to the station it was for, and that is
\* remembered as heard.
LEMMA ClientStep ==
    ASSUME Table, NEW c \in Client, NEW m \in toClient[c], ClientHandles(c, m)
    PROVE  Table' /\ (Assignment => Assignment')
  <1>1. /\ client[c] \in DhcpRecord /\ WithinRetx(client[c])
        /\ m \in Reply
        /\ toClient \in [Client -> SUBSET Reply]
        /\ heard \in [Client -> Client \cup {NoClient}]
    BY StationTypes DEF Table, LanTypeOK
  <1>2. m.type \in {"offer", "ack"} /\ m.yiaddr \in Addr /\ m.chaddr \in Client /\ IsFor(m)
    BY <1>1 DEF Reply, IsFor
  <1>3. /\ toClient' \in [Client -> SUBSET Reply]
        /\ \A e \in Client : toClient'[e] \subseteq toClient[e]
    BY <1>1 DEF ClientHandles
  <1>4. leases' = leases
    BY DEF ClientHandles
  <1> DEFINE d == HandlePacket(client[c], m.type, m.yiaddr)
             takes == m.type = "ack" /\ TakesAck(client[c])
  <1>5. /\ client' = [client EXCEPT ![c] = d]
        /\ Broadcast(c, Answers(client[c], m.type))
    BY <1>2 DEF ClientHandles
  <1>6. heard' = IF takes THEN [heard EXCEPT ![c] = m.chaddr] ELSE heard
    BY <1>2 DEF ClientHandles
  <1>7. /\ heard' \in [Client -> Client \cup {NoClient}]
        /\ \A e \in Client \ {c} : heard'[e] = heard[e]
        /\ heard'[c] = IF takes THEN m.chaddr ELSE heard[c]
    BY <1>1, <1>2, <1>6
  <1>8. /\ d \in DhcpRecord /\ WithinRetx(d)
        /\ HasLease(d) => \/ takes /\ d.localIP = m.yiaddr
                          \/ ~takes /\ HasLease(client[c]) /\ d.localIP = client[c].localIP
    BY <1>1, <1>2, HandledShape
  <1>9. Answers(client[c], m.type) \in SUBSET {"discover", "request"}
    BY AnswersType
  <1> HIDE DEF d, takes
  <1>10. Table' /\ client'[c] = d /\ \A e \in Client \ {c} : client'[e] = client[e]
    BY <1>3, <1>4, <1>5, <1>7, <1>8, <1>9, StationStep
  <1>11. ASSUME Assignment PROVE Assignment'
    <2>1. Leased(m.chaddr, m.yiaddr)
      BY <1>11 DEF Assignment, RepliesAreLeased
    <2>2. HasLease(client'[c]) => Leased(heard'[c], client'[c].localIP)
      BY <1>7, <1>8, <1>10, <1>11, <2>1, LeaseHeld
    <2> QED BY <1>3, <1>4, <1>7, <1>10, <1>11, <2>2, StationKeeps
  <1> QED BY <1>10, <1>11

\* The server's reply carries an address that is leased to its station.
LEMMA ServerStep ==
    ASSUME Table, NEW m \in toServer, ServerHandles(m)
    PROVE  Table' /\ (Assignment => Assignment')
  <1>1. /\ m \in Request /\ m.chaddr \in Client /\ m.xid = Xid
        /\ toServer' \subseteq Request
        /\ client' = client /\ heard' = heard
    BY DEF Table, LanTypeOK, ServerHandles, Request
  <1>2. CASE leases' = leases /\ toClient' = toClient
    <2>1. Table'
      BY <1>1, <1>2 DEF Table, LanTypeOK, OneLeaseEach, LeasesOf
    <2> QED BY <1>1, <1>2, <2>1
        DEF Assignment, RepliesAreLeased, BeliefsAreLeased, Leased
  <1>3. CASE \E table \in TableAfter(m) : \E addr \in LookupIP(table, m.chaddr) :
                /\ leases' = table
                /\ toClient' = [c \in Client |-> toClient[c] \cup
                        {[type |-> ReplyType(m), xid |-> m.xid, chaddr |-> m.chaddr, yiaddr |-> addr]}]
    <2>0. PICK table \in TableAfter(m) : \E addr \in LookupIP(table, m.chaddr) :
                /\ leases' = table
                /\ toClient' = [c \in Client |-> toClient[c] \cup
                        {[type |-> ReplyType(m), xid |-> m.xid, chaddr |-> m.chaddr, yiaddr |-> addr]}]
      BY <1>3
    <2>1. PICK addr \in LookupIP(table, m.chaddr) :
                /\ leases' = table
                /\ toClient' = [c \in Client |-> toClient[c] \cup
                        {[type |-> ReplyType(m), xid |-> m.xid, chaddr |-> m.chaddr, yiaddr |-> addr]}]
      BY <2>0
    <2> DEFINE reply == [type |-> ReplyType(m), xid |-> m.xid, chaddr |-> m.chaddr, yiaddr |-> addr]
    <2>2. PICK i \in Slot : leases'[i] = m.chaddr /\ addr = LeaseIP(i)
      BY <2>1 DEF LookupIP, LeasesOf, IsLowest
    <2>3. /\ reply \in Reply
          /\ reply.chaddr = m.chaddr /\ reply.yiaddr = addr
      BY <1>1, <2>2, LeaseIPIsAddr DEF Reply, ReplyType
    <2>4. \A c \in Client : toClient'[c] = toClient[c] \cup {reply}
      BY <2>1
    <2>5. toClient' \in [Client -> SUBSET Reply]
      BY <2>1, <2>3, StationTypes
    <2>6. /\ leases' \in [Slot -> Client \cup {NoClient, Departed}]
          /\ OneLeaseEach'
          /\ \A j \in Slot, c \in Client : leases[j] = c => leases'[j] = c
      BY <1>1, <2>1, ServedTable
    <2>7. Table'
      BY <1>1, <2>5, <2>6 DEF Table, LanTypeOK
    <2> HIDE DEF reply
    <2>8. ASSUME Assignment PROVE Assignment'
      <3>1. RepliesAreLeased'
        <4> SUFFICES ASSUME NEW d \in Client, NEW r \in toClient'[d]
                     PROVE  /\ r.chaddr \in Client
                            /\ \E j \in Slot : leases'[j] = r.chaddr /\ r.yiaddr = LeaseIP(j)
          BY DEF RepliesAreLeased, Leased, LeaseIP
        <4>1. CASE r = reply
          BY <1>1, <2>2, <2>3, <4>1
        <4>2. CASE r # reply
          <5>1. r \in toClient[d]
            BY <2>4, <4>2
          <5> QED BY <2>6, <2>8, <5>1 DEF Assignment, RepliesAreLeased, Leased
        <4> QED BY <4>1, <4>2
      <3>2. BeliefsAreLeased'
        BY <1>1, <2>6, <2>8 DEF Assignment, BeliefsAreLeased, Leased, LeaseIP, HasLease
      <3> QED BY <2>7, <3>1, <3>2 DEF Assignment
    <2> QED BY <2>7, <2>8
  <1> QED BY <1>2, <1>3 DEF ServerHandles

\* Losing a frame only takes something out of the air.
LEMMA LossStep ==
    ASSUME Table, client' = client, leases' = leases, heard' = heard,
           toServer' \subseteq toServer,
           toClient' \in [Client -> SUBSET Reply],
           \A c \in Client : toClient'[c] \subseteq toClient[c]
    PROVE  Table' /\ (Assignment => Assignment')
  <1>1. Table'
    BY DEF Table, LanTypeOK, OneLeaseEach, LeasesOf
  <1> QED BY <1>1 DEF Assignment, RepliesAreLeased, BeliefsAreLeased, Leased

LEMMA NextStep ==
    ASSUME Table, [LanNext]_lanVars
    PROVE  Table' /\ (Assignment => Assignment')
  <1>1. CASE \E c \in Client : Start(c)
    BY <1>1, StartStep
  <1>2. CASE \E c \in Client : Retransmit(c)
    BY <1>2, RetransmitStep
  <1>3. CASE \E c \in Client : Renew(c)
    BY <1>3, RenewStep
  <1>4. CASE \E m \in toServer : ServerHandles(m)
    BY <1>4, ServerStep
  <1>5. CASE \E c \in Client : \E m \in toClient[c] : ClientHandles(c, m)
    BY <1>5, ClientStep
  <1>6. CASE \E m \in toServer : LoseRequest(m)
    BY <1>6, LossStep DEF LoseRequest, Table, LanTypeOK
  <1>7. CASE \E c \in Client : \E m \in toClient[c] : LoseReply(c, m)
    BY <1>7, LossStep DEF LoseReply, Table, LanTypeOK
  <1>8. CASE UNCHANGED lanVars
    BY <1>8, LossStep DEF lanVars, Table, LanTypeOK
  <1> QED BY <1>1, <1>2, <1>3, <1>4, <1>5, <1>6, <1>7, <1>8 DEF LanNext

LEMMA InitAssignment == LanInit => Assignment
  <1> SUFFICES ASSUME LanInit PROVE Assignment
    OBVIOUS
  <1>1. /\ NewClient \in DhcpRecord
        /\ NewClient.state = "Init"
    BY NoRetx DEF NewClient, DhcpRecord, DhcpState
  <1>2. /\ client \in [Client -> DhcpRecord]
        /\ \A c \in Client : client[c].state = "Init" /\ toClient[c] = {}
        /\ toServer = {} /\ toClient \in [Client -> SUBSET Reply]
    BY <1>1 DEF LanInit
  <1>3. /\ leases \in [Slot -> Client \cup {NoClient, Departed}]
        /\ \A i \in Slot : leases[i] \in {NoClient, Departed}
    BY DEF LanInit
  <1>6. heard \in [Client -> Client \cup {NoClient}]
    BY DEF LanInit
  <1>4. \A i \in Slot : leases[i] \notin Client
    BY <1>3, LanAssumption
  <1>5. Table
    BY <1>2, <1>3, <1>4, <1>6 DEF Table, LanTypeOK, WithinRetx, OneLeaseEach, LeasesOf
  <1> QED BY <1>2, <1>5
      DEF Assignment, RepliesAreLeased, BeliefsAreLeased, HasLease

----------------------------------------------------------------------------
(* The theorems.                                                           *)

\* The part of the invariant that is about the table
\* (src/stack/dhcp.go:62-216, src/stack/dhcpserver.go:88-134).
THEOREM TableInvariant == LanSpec => []Table
  <1>1. LanInit => Table
    BY InitAssignment DEF Assignment
  <1>2. Table /\ [LanNext]_lanVars => Table'
    BY NextStep
  <1> QED BY <1>1, <1>2, PTL DEF LanSpec

\* The types of the clients, the leases and the messages; among them that the
\* count of retransmissions stops.
THEOREM LanTypeCorrect == LanSpec => []LanTypeOK
  <1>1. Table => LanTypeOK
    BY DEF Table
  <1> QED BY <1>1, TableInvariant, PTL

\* No station ever has two leases (src/stack/dhcpserver.go:106-124).
THEOREM OneLeaseForEach == LanSpec => []OneLeaseEach
  <1>1. Table => OneLeaseEach
    BY DEF Table
  <1> QED BY <1>1, TableInvariant, PTL

\* The inductive invariant: what is in the air, and what a station believes, is
\* leased to the station it was for.
THEOREM AssignmentInvariant == LanSpec => []Assignment
  <1>1. Assignment /\ [LanNext]_lanVars => Assignment'
    BY NextStep DEF Assignment
  <1> QED BY <1>1, InitAssignment, PTL DEF LanSpec

\* What a station believes to be its address is leased to the station whose
\* acknowledgment it took (src/stack/dhcp.go:182-192).
THEOREM BeliefIsALease == LanSpec => []BelievedIsLeased
  <1>1. Assignment => BelievedIsLeased
    BY DEF Assignment, BeliefsAreLeased, Leased, BelievedIsLeased, LeasesOf
  <1> QED BY <1>1, AssignmentInvariant, PTL

\* Stations that share an address took acknowledgments for the same station
\* (src/stack/dhcp.go:110-113, src/stack/dhcpserver.go:113-121).
THEOREM SharingIsMishearing == LanSpec => []SharedOnlyIfMisheard
  <1>1. Assignment => SharedOnlyIfMisheard
    <2> SUFFICES ASSUME Assignment, NEW c \in Client, NEW d \in Client,
                        HasLease(client[c]), HasLease(client[d]),
                        client[c].localIP = client[d].localIP
                 PROVE  heard[c] = heard[d]
      BY DEF SharedOnlyIfMisheard
    <2>1. PICK i \in Slot : leases[i] = heard[c] /\ client[c].localIP = LeaseIP(i)
      BY LeaseHeld DEF Leased
    <2>2. PICK j \in Slot : leases[j] = heard[d] /\ client[d].localIP = LeaseIP(j)
      BY LeaseHeld DEF Leased
    <2> QED BY <2>1, <2>2, LeaseIPUnique
  <1> QED BY <1>1, AssignmentInvariant, PTL

----------------------------------------------------------------------------
(* The connection.                                                         *)

\* run is in a call of startJoin, or between the two halves of the callback for
\* a new link, only while the connection is in the state that called for it.
Place ==
    /\ run.pc \in {"startJoin", "joinSent"} => nd.connSt = "idle"
    /\ run.then = "configure" => nd.connSt = "joining" /\ run.pc \in {"callback", "relock"}

\* What the application was told last.
Informed ==
    /\ nd.connSt = "idle" => told \in {"none", "LinkDown"}
    /\ nd.connSt = "joining" =>
          IF run.then = "configure" THEN told = "LinkUp" ELSE told \in {"none", "LinkDown"}
    /\ nd.connSt = "dhcp" => told = "LinkUp"
    /\ nd.connSt = "up" => told = "IPAcquired"

\* A lease that the client has while the connection waits for one was granted
\* since the link came up.
LeaseOfThisLink == nd.connSt = "dhcp" /\ HasLease(dhcp) => acked

\* The inductive invariant of the connection.
Connection ==
    TypeOK /\ WithinRetx(dhcp) /\ Place /\ Informed /\ LeaseOfThisLink /\ AddressOfThisLink

\* What a step may tell the application.
InOrder ==
    Tells => <<told, told'>> \in
        {<<"none", "LinkUp">>, <<"LinkUp", "IPAcquired">>, <<"LinkUp", "LinkDown">>,
         <<"IPAcquired", "LinkDown">>, <<"LinkDown", "LinkUp">>}

NetDevRecord ==
    [static : Static, connSt : {"idle", "joining", "dhcp", "up"}, due : BOOLEAN,
     retry : {"zero", "wait", "past"}, linkUp : BOOLEAN]

ChipOK ==
    /\ DOMAIN chip = {"rx", "radio", "asked"}
    /\ chip.rx \in Seq(Packet) /\ Len(chip.rx) <= MaxRx
    /\ chip.radio \in {"off", "trying", "on"}
    /\ chip.asked \in {"none", "discover", "request"}

\* What a step does that leaves the state of the connection: the client gets no
\* lease without a grant, and what was granted stays so.
Undisturbed ==
    /\ nd' \in NetDevRecord /\ nd'.connSt = nd.connSt /\ nd'.static = nd.static
    /\ dhcp' \in DhcpRecord /\ WithinRetx(dhcp')
    /\ HasLease(dhcp') => HasLease(dhcp) \/ acked'
    /\ acked' \in BOOLEAN /\ (acked => acked')
    /\ ChipOK'
    /\ told' = told
    /\ faults' \in 0..MaxFaults

LEMMA ConnectionTypes ==
    ASSUME Connection
    PROVE  /\ mu \in Holder
           /\ run \in [pc : RunPc, then : {"end", "configure"}]
           /\ nd \in NetDevRecord
           /\ dhcp \in DhcpRecord /\ WithinRetx(dhcp)
           /\ told \in Event \cup {"none"}
           /\ acked \in BOOLEAN
           /\ ChipOK
           /\ faults \in 0..MaxFaults /\ MaxFaults \in Nat /\ MaxRx \in Nat
  BY NetDevAssumption DEF Connection, TypeOK, NetDevRecord, ChipOK

\* Such a step keeps the invariant if run stays where the state calls for it.
LEMMA UndisturbedKeeps ==
    ASSUME Connection, Undisturbed,
           mu' \in Holder,
           run' \in [pc : RunPc, then : {"end", "configure"}], run'.then = run.then,
           run'.pc \in {"startJoin", "joinSent"} => nd.connSt = "idle",
           run.then = "configure" => run'.pc \in {"callback", "relock"},
           run.pc = "callback" \/ run'.pc # "callback"
    PROVE  Connection' /\ InOrder
  <1>1. TypeOK'
    BY ConnectionTypes DEF TypeOK, Undisturbed, ChipOK, NetDevRecord
  <1>2. Place'
    BY DEF Connection, Place, Undisturbed
  <1>3. Informed'
    BY DEF Connection, Informed, Undisturbed
  <1>4. LeaseOfThisLink' /\ AddressOfThisLink'
    BY DEF Connection, LeaseOfThisLink, AddressOfThisLink, Undisturbed
  <1>5. WithinRetx(dhcp)' /\ InOrder
    BY DEF Undisturbed, InOrder, Tells
  <1> QED BY <1>1, <1>2, <1>3, <1>4, <1>5 DEF Connection

\* Steps of others than run, and of run that go on where they were.
LEMMA RunStays ==
    ASSUME Connection, Undisturbed, mu' \in Holder, run' = run
    PROVE  Connection' /\ InOrder
  <1>1. run' \in [pc : RunPc, then : {"end", "configure"}]
    BY ConnectionTypes
  <1>2. /\ run'.pc \in {"startJoin", "joinSent"} => nd.connSt = "idle"
        /\ run.then = "configure" => run'.pc \in {"callback", "relock"}
    BY DEF Connection, Place
  <1> QED BY <1>1, <1>2, UndisturbedKeeps

\* Steps of run outside the callback.
LEMMA RunMoves ==
    ASSUME Connection, Undisturbed, mu' \in Holder,
           run.pc \notin {"callback", "relock"}, NEW pc \in RunPc, pc # "callback",
           run' = [run EXCEPT !.pc = pc] \/ run' = [pc |-> pc, then |-> "end"],
           pc \in {"startJoin", "joinSent"} => nd.connSt = "idle"
    PROVE  Connection' /\ InOrder
  <1>1. run.then = "end"
    BY ConnectionTypes DEF Connection, Place
  <1>2. run' = [pc |-> pc, then |-> "end"]
    BY <1>1, ConnectionTypes
  <1>3. run' \in [pc : RunPc, then : {"end", "configure"}] /\ run'.then = run.then /\ run'.pc = pc
    BY <1>1, <1>2
  <1> QED BY <1>1, <1>3, UndisturbedKeeps

\* What is left alone stays undisturbed.
LEMMA Untouched ==
    ASSUME Connection
    PROVE  /\ UNCHANGED dhcp => dhcp' \in DhcpRecord /\ WithinRetx(dhcp')
                                /\ (HasLease(dhcp') => HasLease(dhcp))
           /\ UNCHANGED chip => ChipOK'
           /\ UNCHANGED nd => nd' \in NetDevRecord
           /\ UNCHANGED <<nd, dhcp, told, acked, chip>> /\ faults' \in 0..MaxFaults => Undisturbed
  BY ConnectionTypes DEF Undisturbed, ChipOK

\* The chip's queue, when its first packet is taken and when one more waits.
LEMMA QueueTypes ==
    ASSUME Connection
    PROVE  /\ chip.rx \in Seq(Packet) /\ Len(chip.rx) \in Nat /\ MaxRx \in Nat
           /\ chip.rx # <<>> => /\ Head(chip.rx) \in Packet /\ Tail(chip.rx) \in Seq(Packet)
                                /\ Len(Tail(chip.rx)) <= MaxRx
           /\ \A p \in Packet : Len(chip.rx) < MaxRx =>
                Append(chip.rx, p) \in Seq(Packet) /\ Len(Append(chip.rx, p)) <= MaxRx
  <1>1. chip.rx \in Seq(Packet) /\ Len(chip.rx) <= MaxRx /\ MaxRx \in Nat
    BY ConnectionTypes DEF ChipOK
  <1>2. chip.rx # <<>> => /\ Head(chip.rx) \in Packet /\ Tail(chip.rx) \in Seq(Packet)
                          /\ Len(Tail(chip.rx)) <= MaxRx
    BY <1>1
  <1>3. ASSUME NEW p \in Packet, Len(chip.rx) < MaxRx
        PROVE  Append(chip.rx, p) \in Seq(Packet) /\ Len(Append(chip.rx, p)) <= MaxRx
    BY <1>1, <1>3
  <1> QED BY <1>1, <1>2, <1>3

LEMMA AskedType ==
    ASSUME Connection, NEW types \in SUBSET {"discover", "request"}
    PROVE  Asked(types) \in {"none", "discover", "request"}
  <1>1. types # {} => (CHOOSE t \in types : TRUE) \in types
    OBVIOUS
  <1> QED BY <1>1, ConnectionTypes DEF Asked, ChipOK

\* A packet is polled: only an acknowledgment makes a lease, and it is a grant.
LEMMA PollPacketKeeps ==
    ASSUME Connection, PollPacket PROVE Undisturbed
  <1> DEFINE packet == Head(chip.rx)
  <1>1. /\ nd' = [nd EXCEPT !.linkUp = LinkAfter(@, packet)]
        /\ \/ packet \in LinkEvent /\ UNCHANGED dhcp
           \/ packet \notin LinkEvent /\ \E a \in Addr : dhcp' = HandlePacket(dhcp, packet, a)
        /\ acked' = (acked \/ (packet = "ack" /\ TakesAck(dhcp)))
        /\ chip' = [chip EXCEPT !.rx = Tail(@), !.asked = Asked(Answers(dhcp, packet))]
        /\ UNCHANGED <<told, faults>> /\ chip.rx # <<>>
    BY Zenon DEF PollPacket
  <1> HIDE DEF packet
  <1>2. nd' \in NetDevRecord /\ nd'.connSt = nd.connSt /\ nd'.static = nd.static
    BY <1>1, ConnectionTypes DEF NetDevRecord, LinkAfter
  <1>3. /\ dhcp' \in DhcpRecord /\ WithinRetx(dhcp')
        /\ HasLease(dhcp') => HasLease(dhcp) \/ (packet = "ack" /\ TakesAck(dhcp))
    <2>1. CASE UNCHANGED dhcp
      BY <2>1, Untouched
    <2>2. CASE \E a \in Addr : dhcp' = HandlePacket(dhcp, packet, a)
      BY <2>2, ConnectionTypes, HandledShape
    <2> QED BY <1>1, <2>1, <2>2
  <1>4. acked' \in BOOLEAN /\ (acked => acked') /\ (packet = "ack" /\ TakesAck(dhcp) => acked')
    BY <1>1, ConnectionTypes
  <1>5. ChipOK'
    <2>1. Asked(Answers(dhcp, packet)) \in {"none", "discover", "request"}
      BY AskedType, AnswersType
    <2>2. /\ DOMAIN chip' = DOMAIN chip /\ DOMAIN chip = {"rx", "radio", "asked"}
          /\ chip'.rx = Tail(chip.rx) /\ chip'.radio = chip.radio
          /\ chip'.asked = Asked(Answers(dhcp, packet))
      BY <1>1, ConnectionTypes DEF ChipOK
    <2> QED BY <1>1, <2>1, <2>2, QueueTypes, ConnectionTypes DEF ChipOK
  <1>6. told' = told /\ faults' \in 0..MaxFaults
    BY <1>1, ConnectionTypes
  <1> QED BY <1>2, <1>3, <1>4, <1>5, <1>6 DEF Undisturbed

LEMMA FaultCounted ==
    ASSUME Connection, NEW inTime, OnlyAsFaultUnless(inTime) \/ (faults < MaxFaults /\ faults' = faults + 1)
    PROVE  faults' \in 0..MaxFaults
  BY ConnectionTypes DEF OnlyAsFaultUnless

\* A timer of the client makes no lease.
LEMMA PollTimerKeeps ==
    ASSUME Connection, PollTimer PROVE Undisturbed
  <1>1. /\ chip' = [chip EXCEPT !.asked = Asked(Sends(dhcp'))]
        /\ UNCHANGED <<nd, told, acked>>
    BY DEF PollTimer
  <1>2. dhcp' \in DhcpRecord /\ WithinRetx(dhcp') /\ (HasLease(dhcp') => HasLease(dhcp))
        /\ faults' \in 0..MaxFaults
    <2>1. CASE RetxDue(dhcp) /\ dhcp' = RetxExpired(dhcp) /\ TimeUp
      BY <2>1, ConnectionTypes, RetxShape, FaultCounted DEF TimeUp
    <2>2. CASE RenewDue(dhcp) /\ dhcp' = Renewed(dhcp) /\ OnlyAsFaultUnless(nd.connSt # "dhcp")
      BY <2>2, ConnectionTypes, RenewedShape, FaultCounted
    <2> QED BY <2>1, <2>2 DEF PollTimer
  <1>3. ChipOK'
    <2>1. Asked(Sends(dhcp')) \in {"none", "discover", "request"}
      BY AskedType, SendsType
    <2> QED BY <1>1, <2>1, ConnectionTypes DEF ChipOK
  <1> QED BY <1>1, <1>2, <1>3, ConnectionTypes DEF Undisturbed

LEMMA PollKeeps ==
    ASSUME Connection, PollPacket \/ NoPacket \/ PollTimer \/ NoTimer PROVE Undisturbed
  BY Untouched, ConnectionTypes, PollPacketKeeps, PollTimerKeeps DEF NoPacket, NoTimer

LEMMA UnlockMoves ==
    ASSUME Connection, Undisturbed, Unlock, run.pc \notin {"callback", "relock"}
    PROVE  Connection' /\ InOrder
  <1>1. "unlocked" \in RunPc /\ run' = [pc |-> "unlocked", then |-> "end"] /\ mu' = "free"
    BY DEF RunPc, Unlock
  <1> QED BY <1>1, RunMoves DEF Holder

LEMMA LockStep ==
    ASSUME Connection, Lock PROVE Connection' /\ InOrder
  <1>1. Undisturbed
    BY Untouched, ConnectionTypes DEF Lock
  <1>2. "poll" \in RunPc /\ run' = [run EXCEPT !.pc = "poll"] /\ mu' = "run"
        /\ run.pc \notin {"callback", "relock"}
    BY DEF RunPc, Lock, At
  <1> QED BY <1>1, <1>2, RunMoves DEF Holder

LEMMA RunPollsStep ==
    ASSUME Connection, RunPolls PROVE Connection' /\ InOrder
  <1>1. Undisturbed
    BY PollKeeps DEF RunPolls
  <1>2. "timers" \in RunPc /\ run' = [run EXCEPT !.pc = "timers"] /\ mu' = mu
        /\ run.pc \notin {"callback", "relock"}
    BY DEF RunPc, RunPolls, At
  <1> QED BY <1>1, <1>2, RunMoves, ConnectionTypes

LEMMA RunTimersStep ==
    ASSUME Connection, RunTimers PROVE Connection' /\ InOrder
  <1>1. Undisturbed
    BY PollKeeps DEF RunTimers
  <1>2. "maintain" \in RunPc /\ run' = [run EXCEPT !.pc = "maintain"] /\ mu' = mu
        /\ run.pc \notin {"callback", "relock"}
    BY DEF RunPc, RunTimers, At
  <1> QED BY <1>1, <1>2, RunMoves, ConnectionTypes

LEMMA JoinPollsStep ==
    ASSUME Connection, JoinPolls PROVE Connection' /\ InOrder
  BY PollPacketKeeps, RunStays, ConnectionTypes DEF JoinPolls

LEMMA UserStep ==
    ASSUME Connection, UserLocks \/ UserPolls \/ UserTimers \/ UserReturns PROVE Connection' /\ InOrder
  <1>1. CASE UserLocks
    <2>1. Undisturbed
      BY <1>1, Untouched, ConnectionTypes DEF UserLocks
    <2> QED BY <1>1, <2>1, RunStays DEF UserLocks, Holder
  <1>2. CASE UserPolls \/ UserTimers
    <2>1. Undisturbed /\ run' = run /\ mu' \in Holder
      BY <1>2, PollKeeps DEF UserPolls, UserTimers, Holder
    <2> QED BY <2>1, RunStays
  <1>3. CASE UserReturns
    <2>1. Undisturbed
      BY <1>3, Untouched, ConnectionTypes DEF UserReturns
    <2> QED BY <1>3, <2>1, RunStays DEF UserReturns, Holder
  <1> QED BY <1>1, <1>2, <1>3

\* The callback returns: where run goes on is kept.
LEMMA CallbackStep ==
    ASSUME Connection, CallbackReturns PROVE Connection' /\ InOrder
  <1>1. Undisturbed
    BY Untouched, ConnectionTypes DEF CallbackReturns
  <1>2. run' \in [pc : RunPc, then : {"end", "configure"}] /\ run'.then = run.then
        /\ run'.pc = "relock" /\ mu' = mu
    BY ConnectionTypes DEF CallbackReturns, RunPc
  <1> QED BY <1>1, <1>2, UndisturbedKeeps, ConnectionTypes

LEMMA StayIdleStep ==
    ASSUME Connection, StayIdle PROVE Connection' /\ InOrder
  <1>1. Undisturbed
    BY Untouched, ConnectionTypes DEF StayIdle
  <1> QED BY <1>1, UnlockMoves DEF StayIdle, At

LEMMA StartJoinStep ==
    ASSUME Connection, StartJoin PROVE Connection' /\ InOrder
  <1>1. Undisturbed
    <2>1. nd' \in NetDevRecord /\ nd'.connSt = nd.connSt /\ nd'.static = nd.static
      BY ConnectionTypes DEF StartJoin, NetDevRecord
    <2> QED BY <2>1, Untouched, ConnectionTypes DEF StartJoin, Undisturbed
  <1>2. "startJoin" \in RunPc /\ run' = [run EXCEPT !.pc = "startJoin"] /\ mu' = mu
        /\ run.pc \notin {"callback", "relock"} /\ nd.connSt = "idle"
    BY DEF RunPc, StartJoin, At
  <1> QED BY <1>1, <1>2, RunMoves, ConnectionTypes

LEMMA JoinSentStep ==
    ASSUME Connection, JoinSent PROVE Connection' /\ InOrder
  <1> DEFINE reports == IF chip.radio = "on" THEN <<"nolink", "joined">> ELSE <<"joined">>
  <1>1. /\ Len(chip.rx) + Len(reports) <= MaxRx
        /\ chip' = [radio |-> "trying", asked |-> "none", rx |-> chip.rx \o reports]
        /\ run' = [run EXCEPT !.pc = "joinSent"] /\ run.pc = "startJoin"
        /\ UNCHANGED <<mu, nd, dhcp, told, acked, faults>>
    BY DEF JoinSent, At
  <1>2. reports \in Seq(Packet)
    <2>1. "nolink" \in Packet /\ "joined" \in Packet
      BY DEF Packet
    <2>2. <<"nolink", "joined">> \in Seq(Packet) /\ <<"joined">> \in Seq(Packet)
      BY <2>1
    <2> QED BY <2>2
  <1> HIDE DEF reports
  <1>3. chip.rx \o reports \in Seq(Packet) /\ Len(chip.rx \o reports) <= MaxRx
    BY <1>1, <1>2, QueueTypes
  <1>4. ChipOK'
    BY <1>1, <1>3 DEF ChipOK
  <1>5. Undisturbed
    BY <1>1, <1>4, Untouched, ConnectionTypes DEF Undisturbed
  <1>6. "joinSent" \in RunPc /\ nd.connSt = "idle"
    BY <1>1 DEF RunPc, Connection, Place
  <1> QED BY <1>1, <1>5, <1>6, RunMoves, ConnectionTypes

\* What waits for the answer is told nothing, and neither is the application.
LEMMA JoinFailsStep ==
    ASSUME Connection, JoinFails PROVE Connection' /\ InOrder
  <1>1. /\ nd' = [nd EXCEPT !.retry = "wait"]
        /\ chip' = [chip EXCEPT !.rx = Outdated(@)]
        /\ run.pc \in {"startJoin", "joinSent"} /\ Unlock
        /\ faults < MaxFaults /\ faults' = faults + 1
        /\ UNCHANGED <<dhcp, told, acked>>
    BY Zenon DEF JoinFails, At
  <1>2. nd' \in NetDevRecord /\ nd'.connSt = nd.connSt /\ nd'.static = nd.static
    BY <1>1, ConnectionTypes DEF NetDevRecord
  <1>3. Outdated(chip.rx) \in Seq(Packet) /\ Len(Outdated(chip.rx)) <= MaxRx
    <2>1. chip.rx \in Seq(Packet) /\ Len(chip.rx) \in Nat /\ DOMAIN chip.rx = 1..Len(chip.rx)
          /\ Len(chip.rx) <= MaxRx
      BY QueueTypes, ConnectionTypes DEF ChipOK
    <2>2. \A i \in 1..Len(chip.rx) : Outdated(chip.rx)[i] \in Packet
      BY <2>1 DEF Outdated, Packet
    <2>3. DOMAIN Outdated(chip.rx) = 1..Len(chip.rx)
      BY <2>1 DEF Outdated
    <2>4. Outdated(chip.rx) \in [1..Len(chip.rx) -> Packet]
      BY <2>1, <2>2, <2>3 DEF Outdated
    <2> QED BY <2>1, <2>3, <2>4
  <1>4. ChipOK'
    <2> HIDE DEF Outdated
    <2>1. /\ DOMAIN chip' = DOMAIN chip /\ DOMAIN chip = {"rx", "radio", "asked"}
          /\ chip'.rx = Outdated(chip.rx) /\ chip'.radio = chip.radio /\ chip'.asked = chip.asked
      BY <1>1, ConnectionTypes DEF ChipOK
    <2> QED BY <1>3, <2>1, ConnectionTypes DEF ChipOK
  <1>5. Undisturbed
    BY <1>1, <1>2, <1>4, Untouched, FaultCounted, ConnectionTypes DEF Undisturbed
  <1> QED BY <1>1, <1>5, UnlockMoves

\* The answer of the last ioctl: the connection waits for the link.
LEMMA JoinReturnsStep ==
    ASSUME Connection, JoinReturns PROVE Connection' /\ InOrder
  <1>1. /\ nd' = [nd EXCEPT !.connSt = "joining", !.due = FALSE, !.retry = "zero"]
        /\ chip' = [chip EXCEPT !.rx = Tail(@)]
        /\ chip.rx # <<>> /\ run.pc = "joinSent" /\ Unlock
        /\ UNCHANGED <<dhcp, told, acked, faults>>
    BY DEF JoinReturns, At
  <1>2. nd.connSt = "idle" /\ told \in {"none", "LinkDown"}
    BY <1>1 DEF Connection, Place, Informed
  <1>3. nd' \in NetDevRecord /\ nd'.connSt = "joining"
    BY <1>1, ConnectionTypes DEF NetDevRecord
  <1>4. ChipOK'
    <2>1. /\ DOMAIN chip' = DOMAIN chip /\ DOMAIN chip = {"rx", "radio", "asked"}
          /\ chip'.rx = Tail(chip.rx) /\ chip'.radio = chip.radio /\ chip'.asked = chip.asked
      BY <1>1, ConnectionTypes DEF ChipOK
    <2> QED BY <1>1, <2>1, QueueTypes, ConnectionTypes DEF ChipOK
  <1>5. mu' = "free" /\ run' = [pc |-> "unlocked", then |-> "end"] /\ "unlocked" \in RunPc
    BY <1>1 DEF Unlock, RunPc
  <1>6. TypeOK' /\ WithinRetx(dhcp)'
    BY <1>1, <1>3, <1>4, <1>5, ConnectionTypes DEF TypeOK, ChipOK, NetDevRecord, Holder
  <1>7. Place' /\ Informed' /\ LeaseOfThisLink' /\ AddressOfThisLink'
    BY <1>1, <1>2, <1>3, <1>5 DEF Place, Informed, LeaseOfThisLink, AddressOfThisLink
  <1> QED BY <1>5, <1>6, <1>7 DEF Connection, InOrder, Tells

\* The link came up: from here on a grant counts for this link.
LEMMA WhileJoiningStep ==
    ASSUME Connection, WhileJoining PROVE Connection' /\ InOrder
  <1>1. run.pc = "maintain" /\ nd.connSt = "joining" /\ UNCHANGED <<dhcp, chip, faults>>
    BY DEF WhileJoining, At
  <1>2. run.then = "end"
    BY <1>1, ConnectionTypes DEF Connection, Place
  <1>3. told \in {"none", "LinkDown"}
    BY <1>1, <1>2 DEF Connection, Informed
  <1>4. CASE Notify("LinkUp", "configure") /\ acked' = FALSE /\ UNCHANGED nd
    <2>1. /\ told' = "LinkUp" /\ mu' = "free" /\ run' = [pc |-> "callback", then |-> "configure"]
          /\ "callback" \in RunPc /\ "LinkUp" \in Event
      BY <1>4 DEF Notify, RunPc, Event
    <2>2. TypeOK' /\ WithinRetx(dhcp)'
      BY <1>1, <1>4, <2>1, ConnectionTypes DEF TypeOK, ChipOK, NetDevRecord, Holder
    <2>3. Place' /\ Informed' /\ LeaseOfThisLink' /\ AddressOfThisLink'
      BY <1>1, <1>4, <2>1 DEF Place, Informed, LeaseOfThisLink, AddressOfThisLink
    <2> QED BY <1>3, <2>1, <2>2, <2>3 DEF Connection, InOrder
  <1>5. CASE nd' = GaveUpJoin(nd) /\ Unlock /\ UNCHANGED <<told, acked>>
    <2>1. nd' \in NetDevRecord /\ nd'.connSt = "idle"
      BY <1>5, ConnectionTypes DEF NetDevRecord, GaveUpJoin
    <2>2. mu' = "free" /\ run' = [pc |-> "unlocked", then |-> "end"] /\ "unlocked" \in RunPc
      BY <1>5 DEF Unlock, RunPc
    <2>3. TypeOK' /\ WithinRetx(dhcp)'
      BY <1>1, <1>5, <2>1, <2>2, ConnectionTypes DEF TypeOK, ChipOK, NetDevRecord, Holder
    <2>4. Place' /\ Informed' /\ LeaseOfThisLink' /\ AddressOfThisLink'
      BY <1>3, <1>5, <2>1, <2>2 DEF Place, Informed, LeaseOfThisLink, AddressOfThisLink
    <2> QED BY <2>2, <2>3, <2>4 DEF Connection, InOrder, Tells
  <1>6. CASE Unlock /\ UNCHANGED <<nd, told, acked>>
    <2>1. Undisturbed
      BY <1>1, <1>6, Untouched, ConnectionTypes
    <2> QED BY <1>1, <1>6, <2>1, UnlockMoves
  <1> QED BY <1>4, <1>5, <1>6 DEF WhileJoining

LEMMA StartDhcpTypes ==
    ASSUME Connection, StartDhcp
    PROVE  dhcp' \in DhcpRecord /\ WithinRetx(dhcp') /\ ~HasLease(dhcp') /\ ChipOK'
  <1>1. dhcp' = Started(dhcp) /\ chip' = [chip EXCEPT !.asked = Asked({"discover"})]
    BY DEF StartDhcp
  <1>2. Asked({"discover"}) \in {"none", "discover", "request"}
    BY AskedType
  <1>3. ChipOK'
    BY <1>1, <1>2, ConnectionTypes DEF ChipOK
  <1> QED BY <1>1, <1>3, StartedShape, ConnectionTypes

\* After the callback: DHCP starts from nothing, or the address was given.
LEMMA RelockStep ==
    ASSUME Connection, Relock PROVE Connection' /\ InOrder
  <1>1. run.pc = "relock" /\ UNCHANGED <<acked, faults>>
    BY DEF Relock, At
  <1>2. CASE run.then = "end" /\ Unlock /\ UNCHANGED <<nd, dhcp, told, chip>>
    <2>1. Undisturbed
      BY <1>1, <1>2, Untouched, ConnectionTypes
    <2>2. /\ mu' = "free" /\ run' \in [pc : RunPc, then : {"end", "configure"}]
          /\ run'.then = run.then /\ run'.pc = "unlocked"
      BY <1>2 DEF Unlock, RunPc
    <2> QED BY <1>2, <2>1, <2>2, UndisturbedKeeps DEF Holder
  <1>3. CASE /\ run.then = "configure" /\ nd.static
             /\ nd' = [nd EXCEPT !.connSt = "up"]
             /\ Notify("IPAcquired", "end")
             /\ UNCHANGED <<dhcp, chip>>
    <2>1. nd.connSt = "joining" /\ told = "LinkUp"
      BY <1>3 DEF Connection, Place, Informed
    <2>2. nd' \in NetDevRecord /\ nd'.connSt = "up" /\ nd'.static
      BY <1>3, ConnectionTypes DEF NetDevRecord
    <2>3. /\ told' = "IPAcquired" /\ mu' = "free" /\ run' = [pc |-> "callback", then |-> "end"]
          /\ "callback" \in RunPc /\ "IPAcquired" \in Event
      BY <1>3 DEF Notify, RunPc, Event
    <2>4. TypeOK' /\ WithinRetx(dhcp)'
      BY <1>1, <1>3, <2>2, <2>3, ConnectionTypes DEF TypeOK, ChipOK, NetDevRecord, Holder
    <2>5. Place' /\ Informed' /\ LeaseOfThisLink' /\ AddressOfThisLink'
      BY <2>2, <2>3 DEF Place, Informed, LeaseOfThisLink, AddressOfThisLink
    <2> QED BY <2>1, <2>3, <2>4, <2>5 DEF Connection, InOrder
  <1>4. CASE /\ run.then = "configure" /\ ~nd.static
             /\ nd' = [nd EXCEPT !.connSt = "dhcp", !.due = FALSE]
             /\ StartDhcp
             /\ Unlock
             /\ UNCHANGED told
    <2>1. told = "LinkUp"
      BY <1>4 DEF Connection, Place, Informed
    <2>2. nd' \in NetDevRecord /\ nd'.connSt = "dhcp"
      BY <1>4, ConnectionTypes DEF NetDevRecord
    <2>3. mu' = "free" /\ run' = [pc |-> "unlocked", then |-> "end"] /\ "unlocked" \in RunPc
      BY <1>4 DEF Unlock, RunPc
    <2>4. dhcp' \in DhcpRecord /\ WithinRetx(dhcp') /\ ~HasLease(dhcp') /\ ChipOK'
      BY <1>4, StartDhcpTypes
    <2>5. TypeOK' /\ WithinRetx(dhcp)'
      BY <1>1, <1>4, <2>2, <2>3, <2>4, ConnectionTypes DEF TypeOK, ChipOK, NetDevRecord, Holder
    <2>6. Place' /\ Informed' /\ LeaseOfThisLink' /\ AddressOfThisLink'
      BY <1>4, <2>1, <2>2, <2>3, <2>4 DEF Place, Informed, LeaseOfThisLink, AddressOfThisLink
    <2> QED BY <2>3, <2>5, <2>6 DEF Connection, InOrder, Tells
  <1> QED BY <1>2, <1>3, <1>4 DEF Relock

\* The connection comes up only with a lease, which is this link's.
LEMMA WhileDhcpStep ==
    ASSUME Connection, WhileDhcp PROVE Connection' /\ InOrder
  <1>1. run.pc = "maintain" /\ nd.connSt = "dhcp" /\ UNCHANGED <<acked, faults>>
    BY DEF WhileDhcp, At
  <1>2. told = "LinkUp"
    BY <1>1 DEF Connection, Informed
  <1>3. CASE LinkLost /\ UNCHANGED <<dhcp, chip>>
    <2>1. nd' \in NetDevRecord /\ nd'.connSt = "idle"
      BY <1>3, ConnectionTypes DEF NetDevRecord, LinkLost
    <2>2. /\ told' = "LinkDown" /\ mu' = "free" /\ run' = [pc |-> "callback", then |-> "end"]
          /\ "callback" \in RunPc /\ "LinkDown" \in Event
      BY <1>3 DEF LinkLost, Notify, RunPc, Event
    <2>3. TypeOK' /\ WithinRetx(dhcp)'
      BY <1>1, <1>3, <2>1, <2>2, ConnectionTypes DEF TypeOK, ChipOK, NetDevRecord, Holder
    <2>4. Place' /\ Informed' /\ LeaseOfThisLink' /\ AddressOfThisLink'
      BY <2>1, <2>2 DEF Place, Informed, LeaseOfThisLink, AddressOfThisLink
    <2> QED BY <1>2, <2>2, <2>3, <2>4 DEF Connection, InOrder
  <1>4. CASE /\ dhcp.state = "Bound"
             /\ nd' = [nd EXCEPT !.connSt = "up"] /\ Notify("IPAcquired", "end")
             /\ UNCHANGED <<dhcp, chip>>
    <2>1. acked
      BY <1>1, <1>4 DEF Connection, LeaseOfThisLink, HasLease
    <2>2. nd' \in NetDevRecord /\ nd'.connSt = "up"
      BY <1>4, ConnectionTypes DEF NetDevRecord
    <2>3. /\ told' = "IPAcquired" /\ mu' = "free" /\ run' = [pc |-> "callback", then |-> "end"]
          /\ "callback" \in RunPc /\ "IPAcquired" \in Event
      BY <1>4 DEF Notify, RunPc, Event
    <2>4. TypeOK' /\ WithinRetx(dhcp)'
      BY <1>1, <1>4, <2>2, <2>3, ConnectionTypes DEF TypeOK, ChipOK, NetDevRecord, Holder
    <2>5. Place' /\ Informed' /\ LeaseOfThisLink' /\ AddressOfThisLink'
      BY <1>1, <2>1, <2>2, <2>3 DEF Place, Informed, LeaseOfThisLink, AddressOfThisLink
    <2> QED BY <1>2, <2>3, <2>4, <2>5 DEF Connection, InOrder
  <1>5. CASE nd' = [nd EXCEPT !.due = FALSE] /\ StartDhcp /\ Unlock /\ UNCHANGED told
    <2>1. nd' \in NetDevRecord /\ nd'.connSt = nd.connSt /\ nd'.static = nd.static
      BY <1>5, ConnectionTypes DEF NetDevRecord
    <2>2. Undisturbed
      BY <1>1, <1>5, <2>1, StartDhcpTypes, ConnectionTypes DEF Undisturbed
    <2> QED BY <1>1, <1>5, <2>2, UnlockMoves
  <1>6. CASE Unlock /\ UNCHANGED <<nd, dhcp, told, chip>>
    <2>1. Undisturbed
      BY <1>1, <1>6, Untouched, ConnectionTypes
    <2> QED BY <1>1, <1>6, <2>1, UnlockMoves
  <1> QED BY <1>3, <1>4, <1>5, <1>6 DEF WhileDhcp

LEMMA WhileUpStep ==
    ASSUME Connection, WhileUp PROVE Connection' /\ InOrder
  <1>1. run.pc = "maintain" /\ nd.connSt = "up" /\ UNCHANGED <<dhcp, acked, chip, faults>>
    BY DEF WhileUp, At
  <1>2. told = "IPAcquired"
    BY <1>1 DEF Connection, Informed
  <1>3. CASE LinkLost
    <2>1. nd' \in NetDevRecord /\ nd'.connSt = "idle"
      BY <1>3, ConnectionTypes DEF NetDevRecord, LinkLost
    <2>2. /\ told' = "LinkDown" /\ mu' = "free" /\ run' = [pc |-> "callback", then |-> "end"]
          /\ "callback" \in RunPc /\ "LinkDown" \in Event
      BY <1>3 DEF LinkLost, Notify, RunPc, Event
    <2>3. TypeOK' /\ WithinRetx(dhcp)'
      BY <1>1, <1>3, <2>1, <2>2, ConnectionTypes DEF TypeOK, ChipOK, NetDevRecord, Holder
    <2>4. Place' /\ Informed' /\ LeaseOfThisLink' /\ AddressOfThisLink'
      BY <2>1, <2>2 DEF Place, Informed, LeaseOfThisLink, AddressOfThisLink
    <2> QED BY <1>2, <2>2, <2>3, <2>4 DEF Connection, InOrder
  <1>4. CASE Unlock /\ UNCHANGED <<nd, told>>
    <2>1. Undisturbed
      BY <1>1, <1>4, Untouched, ConnectionTypes
    <2> QED BY <1>1, <1>4, <2>1, UnlockMoves
  <1> QED BY <1>3, <1>4 DEF WhileUp

\* Time.
LEMMA TimeStep ==
    ASSUME Connection, DeadlinePasses \/ RetryPasses PROVE Connection' /\ InOrder
  <1>1. /\ \E due \in BOOLEAN, retry \in {"zero", "wait", "past"} :
              nd' = [nd EXCEPT !.due = due, !.retry = retry]
        /\ UNCHANGED <<mu, run, dhcp, told, acked, chip>>
        /\ faults' \in 0..MaxFaults
    <2>1. CASE DeadlinePasses
      <3>1. nd' = [nd EXCEPT !.due = TRUE, !.retry = nd.retry]
        BY <2>1, ConnectionTypes DEF DeadlinePasses, NetDevRecord
      <3>2. nd.retry \in {"zero", "wait", "past"}
        BY ConnectionTypes DEF NetDevRecord
      <3> QED BY <2>1, <3>1, <3>2, FaultCounted DEF DeadlinePasses, TimeUp
    <2>2. CASE RetryPasses
      <3>1. nd' = [nd EXCEPT !.due = nd.due, !.retry = "past"]
        BY <2>2, ConnectionTypes DEF RetryPasses, NetDevRecord
      <3>2. nd.due \in BOOLEAN
        BY ConnectionTypes DEF NetDevRecord
      <3> QED BY <2>2, <3>1, <3>2, ConnectionTypes DEF RetryPasses
    <2> QED BY <2>1, <2>2
  <1>2. nd' \in NetDevRecord /\ nd'.connSt = nd.connSt /\ nd'.static = nd.static
    BY <1>1, ConnectionTypes DEF NetDevRecord
  <1>3. Undisturbed
    BY <1>1, <1>2, Untouched, ConnectionTypes DEF Undisturbed
  <1> QED BY <1>1, <1>3, RunStays, ConnectionTypes

\* What is outside the code.
LEMMA OutsideStep ==
    ASSUME Connection, Associates \/ ServerReplies \/ Fault PROVE Connection' /\ InOrder
  <1>1. UNCHANGED <<mu, run, nd, dhcp, told, acked>> /\ faults' \in 0..MaxFaults
    BY FaultCounted, ConnectionTypes DEF Associates, ServerReplies, Fault
  <1>2. /\ "link" \in Packet /\ "nolink" \in Packet /\ "offer" \in Packet
        /\ "ack" \in Packet /\ "nak" \in Packet
    BY DEF Packet
  <1>3. ASSUME NEW p \in Packet, Len(chip.rx) < MaxRx
        PROVE  Append(chip.rx, p) \in Seq(Packet) /\ Len(Append(chip.rx, p)) <= MaxRx
    BY <1>3, QueueTypes
  <1>4. ChipOK'
    <2>1. CASE Associates
      <3>1. /\ Len(chip.rx) < MaxRx
            /\ chip' = [chip EXCEPT !.radio = "on", !.rx = Append(chip.rx, "link")]
        BY <2>1 DEF Associates
      <3> QED BY <1>2, <1>3, <3>1, ConnectionTypes DEF ChipOK
    <2>2. CASE ServerReplies
      <3>1. PICK p \in Packet : /\ Len(chip.rx) < MaxRx
                                /\ chip' = [chip EXCEPT !.asked = "none", !.rx = Append(chip.rx, p)]
        BY <1>2, <2>2 DEF ServerReplies
      <3> QED BY <1>3, <3>1, ConnectionTypes DEF ChipOK
    <2>3. CASE Fault
      <3>1. CASE chip' = [chip EXCEPT !.radio = "off"] \/ chip' = [chip EXCEPT !.asked = "none"]
        BY <3>1, ConnectionTypes DEF ChipOK
      <3>2. CASE /\ Len(chip.rx) < MaxRx
                 /\ chip' = [radio |-> "off", asked |-> "none", rx |-> Append(chip.rx, "nolink")]
        BY <1>2, <1>3, <3>2 DEF ChipOK
      <3>3. CASE /\ Len(chip.rx) < MaxRx
                 /\ chip' = [chip EXCEPT !.asked = "none", !.rx = Append(chip.rx, "nak")]
        BY <1>2, <1>3, <3>3, ConnectionTypes DEF ChipOK
      <3> QED BY <2>3, <3>1, <3>2, <3>3 DEF Fault
    <2> QED BY <2>1, <2>2, <2>3
  <1>5. Undisturbed
    BY <1>1, <1>4, Untouched, ConnectionTypes DEF Undisturbed
  <1> QED BY <1>1, <1>5, RunStays, ConnectionTypes

LEMMA NetDevStep ==
    ASSUME Connection, [Next]_vars PROVE Connection' /\ InOrder
  <1>1. CASE Lock \/ RunPolls \/ RunTimers \/ JoinPolls \/ JoinFails
    BY <1>1, LockStep, RunPollsStep, RunTimersStep, JoinPollsStep, JoinFailsStep
  <1>2. CASE Maintain
    BY <1>2, StayIdleStep, StartJoinStep, JoinSentStep, JoinReturnsStep, WhileJoiningStep,
       WhileDhcpStep, WhileUpStep DEF Maintain
  <1>3. CASE CallbackReturns \/ Relock
    BY <1>3, CallbackStep, RelockStep
  <1>4. CASE UserLocks \/ UserPolls \/ UserTimers \/ UserReturns
    BY <1>4, UserStep
  <1>5. CASE DeadlinePasses \/ RetryPasses
    BY <1>5, TimeStep
  <1>6. CASE Associates \/ ServerReplies \/ Fault
    BY <1>6, OutsideStep
  <1>7. CASE UNCHANGED vars
    <2>1. UNCHANGED <<mu, run>> /\ Undisturbed
      BY <1>7, Untouched, ConnectionTypes DEF vars
    <2> QED BY <2>1, RunStays, ConnectionTypes
  <1> QED BY <1>1, <1>2, <1>3, <1>4, <1>5, <1>6, <1>7 DEF Next

LEMMA InitConnection == Init => Connection
  <1> SUFFICES ASSUME Init PROVE Connection
    OBVIOUS
  <1>1. dhcp \in DhcpRecord /\ dhcp.state = "Init"
    BY NoRetx DEF Init, NewClient, DhcpRecord, DhcpState
  <1>2. nd \in NetDevRecord /\ nd.connSt = "idle"
    BY DEF Init, NetDevRecord
  <1>3. ChipOK
    <2>1. <<>> \in Seq(Packet) /\ Len(<<>>) = 0
      OBVIOUS
    <2> QED BY <2>1, NetDevAssumption DEF Init, ChipOK
  <1>4. run = [pc |-> "unlocked", then |-> "end"] /\ "unlocked" \in RunPc /\ told = "none"
    BY DEF Init, RunPc
  <1>5. TypeOK
    <2>1. mu = "free" /\ acked = FALSE /\ faults = 0 /\ faults \in 0..MaxFaults
      BY NetDevAssumption DEF Init
    <2>2. run \in [pc : RunPc, then : {"end", "configure"}]
      BY <1>4
    <2>3. mu \in Holder /\ told \in Event \cup {"none"} /\ acked \in BOOLEAN
      BY <1>4, <2>1 DEF Holder
    <2> QED BY <1>1, <1>2, <1>3, <2>1, <2>2, <2>3 DEF TypeOK, ChipOK, NetDevRecord
  <1>6. Place /\ Informed /\ LeaseOfThisLink /\ AddressOfThisLink
    BY <1>2, <1>4 DEF Place, Informed, LeaseOfThisLink, AddressOfThisLink
  <1> QED BY <1>1, <1>5, <1>6 DEF Connection, WithinRetx

\* The invariant of the connection (src/netdev.go:118-209).
THEOREM ConnectionInvariant == Spec => []Connection
  <1>1. Connection /\ [Next]_vars => Connection'
    BY NetDevStep
  <1> QED BY <1>1, InitConnection, PTL DEF Spec

\* The types of the connection, the client, the queue and what is awaited.
THEOREM NetDevTypeCorrect == Spec => []TypeOK
  <1>1. Connection => TypeOK
    BY DEF Connection
  <1> QED BY <1>1, ConnectionInvariant, PTL

\* The connection is up only with an address that the server granted on this
\* link (src/netdev.go:168-199).
THEOREM AddressIsOfThisLink == Spec => []AddressOfThisLink
  <1>1. Connection => AddressOfThisLink
    BY DEF Connection
  <1> QED BY <1>1, ConnectionInvariant, PTL

\* The application is told of the link and of the address in order, although
\* other goroutines poll while its callback runs (src/netdev.go:173-207).
THEOREM EventsAreInOrder == Spec => EventsInOrder
  <1>1. Connection /\ [Next]_vars =>
        [Tells => <<told, told'>> \in
            {<<"none", "LinkUp">>, <<"LinkUp", "IPAcquired">>, <<"LinkUp", "LinkDown">>,
             <<"IPAcquired", "LinkDown">>, <<"LinkDown", "LinkUp">>}]_vars
    BY NetDevStep DEF InOrder
  <1> QED BY <1>1, ConnectionInvariant, PTL DEF Spec, EventsInOrder

=============================================================================
