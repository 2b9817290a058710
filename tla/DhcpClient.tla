----------------------------- MODULE DhcpClient -----------------------------
(***************************************************************************)
(* The DHCP client of the stack (src/stack/dhcp.go): what each handler     *)
(* makes of the client's record, and what it then broadcasts.  The modules *)
(* that use it decide when the handlers run: DhcpLan puts several clients  *)
(* and the DHCP server of src/stack/dhcpserver.go on one network, NetDev   *)
(* puts one client under the connection state machine of src/netdev.go.    *)
(***************************************************************************)
EXTENDS Integers

CONSTANTS
    Addr,       \* the addresses a server may offer
    NoAddr,     \* the zero netip.Addr
    MaxRetx,    \* 5: retransmissions while the client has no lease
    MaxRenew    \* 3: retransmissions while it renews one

ASSUME ClientAssumption ==
    /\ NoAddr \notin Addr
    /\ MaxRetx \in Nat /\ MaxRenew \in Nat

DhcpState == {"Init", "Selecting", "Requesting", "Bound", "Renewing"}

\* retxCount stops above the larger of the two limits.
RetxCounts == 0..(MaxRetx + MaxRenew + 1)

\* The fields of dhcpClient that steer it, and localIP of the stack, which
\* SetAddr writes.
DhcpRecord == [state : DhcpState, offeredIP : Addr \cup {NoAddr},
               retxCount : RetxCounts, localIP : Addr \cup {NoAddr}]

NewClient == [state |-> "Init", offeredIP |-> NoAddr, retxCount |-> 0, localIP |-> NoAddr]

\* What a client in this state sends when it has something to send.
Sends(d) == CASE d.state = "Selecting" -> {"discover"}
              [] d.state \in {"Requesting", "Renewing"} -> {"request"}
              [] OTHER -> {}

\* Slips the runs must catch.
StartedIfNeeded(d) ==
    IF d.state \in {"Bound", "Renewing"} THEN d
    ELSE [d EXCEPT !.state = "Selecting", !.retxCount = 0]
RetriedForever(d) == d.retxCount > MaxRetx + MaxRenew

\* Start
Started(d) == [d EXCEPT !.state = "Selecting", !.retxCount = 0]

\* The count of the retransmissions is used up.
Exhausted(d) == d.retxCount >= (IF d.state = "Renewing" THEN MaxRenew ELSE MaxRetx)

\* poll, when retxTime has passed: it is always armed in these states.
RetxDue(d) == d.state \in {"Selecting", "Requesting", "Renewing"}

RetxExpired(d) ==
    LET counted == [d EXCEPT !.retxCount = @ + 1] IN
    IF ~Exhausted(d) THEN counted
    ELSE IF d.state = "Renewing" THEN Started(d)
    ELSE [counted EXCEPT !.state = "Init"]

\* poll, when half of the lease has passed.
RenewDue(d) == d.state = "Bound"

Renewed(d) == [d EXCEPT !.state = "Renewing"]

\* handlePacket for the three message types, once the packet was found to be
\* a reply with this client's transaction id.
Offered(d, addr) == [d EXCEPT !.state = "Requesting", !.offeredIP = addr, !.retxCount = 0]

TakesAck(d) == d.state \in {"Requesting", "Renewing"}

HandlePacket(d, type, addr) ==
    CASE type = "offer" /\ d.state = "Selecting" -> Offered(d, addr)
      [] type = "ack" /\ TakesAck(d) -> [d EXCEPT !.state = "Bound", !.localIP = addr]
      [] type = "nak" -> [d EXCEPT !.state = "Init"]
      [] OTHER -> d

\* Only an offer the client took is answered, with a request.
Answers(d, type) == IF type = "offer" /\ d.state = "Selecting" THEN {"request"} ELSE {}

\* The client believes it has the lease of its address.
HasLease(d) == d.state \in {"Bound", "Renewing"}
=============================================================================
