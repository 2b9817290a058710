------------------------------- MODULE DhcpLan -------------------------------
(***************************************************************************)
(* DHCP between an access point of this repository (the server of          *)
(* src/stack/dhcpserver.go, started by StartAP) and the stations on its    *)
(* network, each a device of this repository too, which runs the client of *)
(* src/stack/dhcp.go.  Every message is an Ethernet broadcast, so a reply  *)
(* reaches every station, and a station tells its own replies by the       *)
(* transaction id alone, which is the same in all of them.  Frames are     *)
(* lost, delayed and reordered.                                            *)
(***************************************************************************)
EXTENDS DhcpClient, FiniteSets

CONSTANTS
    Client,     \* the stations, by MAC address
    NoClient,   \* an unused lease
    MaxLeases,  \* 8
    Gateway,    \* last byte of the access point's own address
    Departed,   \* stands for every station that came before and left
    MaxDeparted,\* bound of the leases such stations may have
    MaxInAir    \* bound of the frames on their way to the server, and to each station

LastByte == 0..255

ASSUME LanAssumption ==
    /\ NoClient \notin Client
    /\ MaxLeases \in 1..255
    /\ Gateway \in LastByte
    /\ Addr = LastByte
    /\ Departed \notin Client \cup {NoClient}
    /\ MaxDeparted \in Nat /\ MaxInAir \in Nat

VARIABLES
    client,     \* the DHCP client of each station
    leases,     \* the server's lease table: the station each slot was given to
    toServer,   \* requests in the air
    toClient,   \* replies not yet seen by each station
    heard       \* history: for whom the acknowledgment was that a station took last

lanVars == <<client, leases, toServer, toClient, heard>>

Slot == 0..(MaxLeases - 1)

\* d.xid, which init sets and nothing changes.
Xid == "0xDEADBEEF"

Request == [type : {"discover", "request"}, xid : {Xid}, chaddr : Client,
            requestedIP : Addr \cup {NoAddr}]
Reply == [type : {"offer", "ack"}, xid : {Xid}, chaddr : Client, yiaddr : Addr]

----------------------------------------------------------------------------
(* The server.                                                             *)

\* The address of a lease: byte arithmetic on the last byte, without carry.
LeaseIP(i) == (Gateway + 1 + i) % 256

LeasesOf(table, mac) == {i \in Slot : table[i] = mac}

\* A slip the runs must catch.
AnySlots(table) == Slot

FreeSlots(table) == {i \in Slot : table[i] = NoClient}

IsLowest(i, S) == i \in S /\ \A j \in S : i <= j

\* A slip the runs must catch.
AllocateAgain(table, mac) ==
    {[table EXCEPT ![i] = mac] : i \in {j \in Slot : IsLowest(j, FreeSlots(table))}}

\* allocate: the tables it may leave; none when every lease is given away.
Allocate(table, mac) ==
    IF LeasesOf(table, mac) # {} THEN {table}
    ELSE {[table EXCEPT ![i] = mac] : i \in {j \in Slot : IsLowest(j, FreeSlots(table))}}

\* lookup in the table that allocate or the search of a request left.
LookupIP(table, mac) ==
    {LeaseIP(i) : i \in {j \in Slot : IsLowest(j, LeasesOf(table, mac))}}

\* A request allocates only if it names an address; a discover always does.
TableAfter(m) ==
    IF m.type = "discover" \/ m.requestedIP # NoAddr THEN Allocate(leases, m.chaddr)
    ELSE IF LeasesOf(leases, m.chaddr) # {} THEN {leases} ELSE {}

ReplyType(m) == IF m.type = "discover" THEN "offer" ELSE "ack"

\* All by which a station tells its own replies.
IsFor(m) == m.xid = Xid

----------------------------------------------------------------------------
\* Nothing ever takes a lease back, so the stations may find a pool that others
\* have used up in part.
LanInit ==
    /\ client = [c \in Client |-> NewClient]
    /\ \E n \in 0..MaxDeparted :
            leases = [i \in Slot |-> IF i < n THEN Departed ELSE NoClient]
    /\ toServer = {}
    /\ toClient = [c \in Client |-> {}]
    /\ heard = [c \in Client |-> NoClient]

\* sendDiscover and sendRequest of station c.
Broadcast(c, types) ==
    /\ toServer' = toServer \cup
          {[type |-> t, xid |-> Xid, chaddr |-> c,
            requestedIP |-> IF t = "discover" THEN NoAddr ELSE client'[c].offeredIP] : t \in types}
    /\ Cardinality(toServer') <= MaxInAir

\* DHCPStart: the link came up, or the connection's deadline passed before the
\* client was bound.
Start(c) ==
    /\ client' = [client EXCEPT ![c] = Started(@)]
    /\ Broadcast(c, {"discover"})
    /\ UNCHANGED <<leases, toClient, heard>>

Retransmit(c) ==
    /\ RetxDue(client[c])
    /\ client' = [client EXCEPT ![c] = RetxExpired(@)]
    /\ Broadcast(c, Sends(client'[c]))
    /\ UNCHANGED <<leases, toClient, heard>>

Renew(c) ==
    /\ RenewDue(client[c])
    /\ client' = [client EXCEPT ![c] = Renewed(@)]
    /\ Broadcast(c, {"request"})
    /\ UNCHANGED <<leases, toClient, heard>>

\* dhcpServer.handlePacket: the reply goes to everyone.
ServerHandles(m) ==
    /\ m \in toServer
    /\ toServer' = toServer \ {m}
    /\ \/ \E table \in TableAfter(m) : \E addr \in LookupIP(table, m.chaddr) :
            /\ leases' = table
            /\ toClient' = [c \in Client |-> toClient[c] \cup
                    {[type |-> ReplyType(m), xid |-> m.xid, chaddr |-> m.chaddr, yiaddr |-> addr]}]
            /\ \A c \in Client : Cardinality(toClient'[c]) <= MaxInAir
       \/ TableAfter(m) = {} /\ UNCHANGED <<leases, toClient>>
    /\ UNCHANGED <<client, heard>>

\* dhcpClient.handlePacket: a reply with another transaction id is dropped.  The
\* client does not look for whom the reply is.
ClientHandles(c, m) ==
    /\ m \in toClient[c]
    /\ toClient' = [toClient EXCEPT ![c] = @ \ {m}]
    /\ client' = [client EXCEPT ![c] = IF IsFor(m) THEN HandlePacket(@, m.type, m.yiaddr) ELSE @]
    /\ Broadcast(c, IF IsFor(m) THEN Answers(client[c], m.type) ELSE {})
    /\ heard' = IF IsFor(m) /\ m.type = "ack" /\ TakesAck(client[c])
                THEN [heard EXCEPT ![c] = m.chaddr] ELSE heard
    /\ UNCHANGED leases

\* A frame is lost on the air.
LoseRequest(m) ==
    /\ m \in toServer /\ toServer' = toServer \ {m}
    /\ UNCHANGED <<client, leases, toClient, heard>>

LoseReply(c, m) ==
    /\ m \in toClient[c] /\ toClient' = [toClient EXCEPT ![c] = @ \ {m}]
    /\ UNCHANGED <<client, leases, toServer, heard>>

LanNext ==
    \/ \E c \in Client : Start(c)
    \/ \E c \in Client : Retransmit(c)
    \/ \E c \in Client : Renew(c)
    \/ \E m \in toServer : ServerHandles(m)
    \/ \E c \in Client : \E m \in toClient[c] : ClientHandles(c, m)
    \/ \E m \in toServer : LoseRequest(m)
    \/ \E c \in Client : \E m \in toClient[c] : LoseReply(c, m)

LanSpec == LanInit /\ [][LanNext]_lanVars

----------------------------------------------------------------------------
(* Properties.                                                             *)

LanTypeOK ==
    /\ client \in [Client -> DhcpRecord]
    /\ leases \in [Slot -> Client \cup {NoClient, Departed}]
    /\ toServer \subseteq Request
    /\ toClient \in [Client -> SUBSET Reply]
    /\ heard \in [Client -> Client \cup {NoClient}]

\* A station has at most one lease, however its discovers and requests are
\* repeated, lost and overtaken (dhcpserver.go:106-124).
OneLeaseEach == \A c \in Client : \A i, j \in LeasesOf(leases, c) : i = j

\* What a station believes to be its address is what the server leased to the
\* station whose acknowledgment it took (dhcp.go:178-192, dhcpserver.go:91-102).
BelievedIsLeased ==
    \A c \in Client : HasLease(client[c]) =>
        \E i \in LeasesOf(leases, heard[c]) : client[c].localIP = LeaseIP(i)

\* Two stations use the same address only if both took acknowledgments that were
\* for the same station: whatever is lost, repeated and overtaken, the constant
\* transaction id is the only way to it, and never the table of the server
\* (dhcp.go:59, 178; dhcpserver.go:106-124).
SharedOnlyIfMisheard ==
    \A c, d \in Client : /\ HasLease(client[c]) /\ HasLease(client[d])
                         /\ client[c].localIP = client[d].localIP
                         => heard[c] = heard[d]

\* Not kept: no two stations use the same address (README.md:282-283 "Clients that
\* connect are automatically assigned IP addresses from a pool").
NoSharedAddress ==
    \A c, d \in Client : /\ HasLease(client[c]) /\ HasLease(client[d])
                         /\ client[c].localIP = client[d].localIP
                         => c = d
=============================================================================
