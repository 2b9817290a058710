# A TLA+ model of tinygo-rpiw

This directory models the network driver and TCP/IP stack of the repository in
TLA+, checks it with TLC on small instances, and proves with TLAPS, for every value
of their parameters, the safety of all ten modules that are specifications of their
own. It is written from the Go source; where a document or a comment says something else, section 5 says so.

1. The system and its parts
2. What is modelled, module by module
3. The runs, their bounds, and what they show
4. Fairness
5. Where the code and its documentation disagree
6. What is proved
7. What is not modelled, and the plan


## 1. The system and its parts

The program runs on a microcontroller under TinyGo: one process, no preemption
inside a handler except at sleeps and locks, and one interface object, `NetDev`.

| Part | Source | State | Operations |
|---|---|---|---|
| Connection maintenance | `netdev.go` | `connSt`, `connDeadline`, `connRetry`, the mutex `mu` | `run`, `maintainConnection`, `startJoin`, `notify`; the interface functions, each under `mu` |
| Bus protocol and ioctls | `ioctl.go`, `wifi.go` | `sdpcmSeq`, `sdpcmSeqMax`, `ioctlID/Pending/RespID`, one `rxBuf`, one `txBuf` | `poll`, `handleRxPacket`, `waitCredit`, `doIoctl…`, `waitIoctlResponse`, `SendEthernet` |
| Ethernet, IPv4, ICMP, UDP | `stack/stack.go`, `ipv4.go`, `icmp.go`, `udp.go` | one `txPkt` for every frame that is built | `handleEthernet`, `sendIPv4`, `sendICMPEchoReply`, `handleUDP` |
| ARP | `stack/arp.go` | 16 entries with expiry | `lookup`, `update`, `handleARP`, `resolve` |
| TCP | `stack/tcp.go` | per socket: state, `seqNum`, `ackNum`, `sndUna`, window, retransmission timer | `tcpInput`, `tcpOutput`, `tcpProcessACK`, `tcpTimer`, `handleSYNOnListener`, `sendTCPReset` |
| Sockets and API | `stack/socket.go`, `api.go` | 8 slots, each with two 2048-byte rings; the next ephemeral port | `Socket`, `Bind`, `Connect`, `Listen`, `Accept`, `TryAccept`, `Send`, `Recv`, `Close` |
| DHCP client and server | `stack/dhcp.go`, `dhcpserver.go` | client: state, offered address, counters; server: 8 leases | `Start`, `poll`, `handlePacket`; `handlePacket`, `allocate`, `lookup` |
| Queries | `stack/dns.go`, `ntp.go`, `icmp.go` | one place for an answer of each kind (`queryID`, `active`, `resolved`; `active`, `synced`; `pingRecvd`) | `Resolve`, `Sync`, `Ping` and their answers |
| UDP | `stack/udp.go`, `api.go` | the rx ring and the remote end of a socket | `handleUDP`, `sendUDP` |
| mDNS | `stack/mdns.go` | host name, up to 4 services | `AddService`, `SetHostname`, `handleQuery` |
| Bluetooth HCI | `bluetooth.go` | two shared-memory rings and their pointers, the control bits | `btInit`, `WriteHCI`, `ReadHCI`, `BufferedHCI` |
| Backplane window | `device.go` | `backplaneWindow`, and the chip's three registers | `backplane_setwindow`, `bp_read`, `bp_write`, `bp_read32`, `bp_write32` |
| Access point | `netdev.go`, `ioctl.go` | up to 8 clients, the last event | `runAP`, `apAddClient`, `apRemoveClient` |
| Bus, initialisation | `bus*.go`, `init.go`, `firmware.go` | none of interest | register access, download of firmware |

**How they interact.** Everything that moves is a poll. `Poll` takes one packet
from the chip and runs its handler to the end: the handler may change a socket,
answer with a frame, or record an event. It then runs the timers of every socket
and of DHCP. Polls come from the background goroutine `run` and from every
blocking call, and they nest: a handler that sends resolves an address, which
polls; sending waits for bus credit, which polls; an ioctl waits for its answer,
which polls. All of them share one receive buffer, one transmit buffer and one
sequence of credits. The mutex of `NetDev` lets one goroutine at a time into the
stack; it is released while the status callback runs.

**What is hard.** Loss, repetition and reordering on the network; timers that run
while an answer is on its way; nested polls that change what the caller has
already read; the mutex released in the middle of a state machine; indices
(descriptors, listener and pending connection) that outlive what they name;
counters that wrap; pools that run out. `PROJECT.json` lists these hazards at
their lines.

**What makes each part correct.** (Where the code falls short of this, the
properties say up to where it holds, and section 5 shows the rest.) A ring is a
FIFO. TCP gives the application the peer's bytes in order, once, and nothing is
acknowledged that is not stored; what is sent arrives in order and completely, and
is acknowledged in the end. A descriptor names a live slot until its holder closes it, and Accept returns each
connection once. ARP has one current entry per host and forgets the oldest. A
station gets one lease, and no two stations use the same address. Events reach the application in order, and
the connection comes back. The chip never gets more packets than it has room
for, and a command returns on its own answer. An access to the backplane reaches
the window it means, also after failures, and Bluetooth packets come whole, in
order and once, whatever access fails. A query reports an answer to itself, and leaves the dispatch of
datagrams as it found it; a UDP socket hears one host. An mDNS query is answered
with the records of what was asked and no others, and a packet that is handled
while an answer waits leaves the answer and the rest of the query alone.


## 2. What is modelled, module by module

### RingBuf, ByteQueue (`stack/socket.go:85-223`)

`RingBuf` is one ring of a socket: the array, the free-running `uint16` counters
(`head`, `tail` in `0..Mod-1`), and the calls `Write`, `Read`, `Peek`, `Advance`
and `Reset`, with each copy cut in two where the code cuts it. The rx and the tx
ring run the same code, so one module has the operations of both. `last` records
the last call: the bytes that went in or came out, and the count it returned.
`ByteQueue` is what the callers rely on: a bounded FIFO. `IsByteQueue` says that
the ring implements it, under the refinement mapping `queue <- Contents`, the
bytes between the counters.

### TcpEndpoint, TcpPeer, TcpConn, MC_TcpConn (`stack/tcp.go`, `api.go`)

`TcpEndpoint` is the engine: a socket is a record, and each handler is an operator
from the socket and its input to the socket afterwards. There is one operator per
case of `tcpInput` (`InSynSent` … `InSynReceived`), `ProcessAck`, `Output`
(`tcpOutput`), `SendTCP`, `TimerExpired` (`tcpTimer`), `ListenerInput`
(`handleSYNOnListener`), `ResetReply`, and the parts of `Connect`, `Send`, `Recv`
and `Close` that touch the connection. The argument `ok` is the outcome of
`resolve` inside the handler. Because the rings are FIFOs (previous module), bytes
are numbered in the order they are written: the tx ring is the interval
`rel+1..wr` and the rx ring a sequence. Sequence numbers wrap (`SeqMod`).

`TcpPeer` is the other host, which is not part of the repository: any TCP that
follows RFC 793, with its own window, retransmissions, window probes, FIN and
reset. `TcpConn` puts one socket, its application, the network and the peer
together. An action of the stack is one API call or one thing `Poll` does
(`Deliver`, `Timer`); frames are delivered out of order (`reach`), lost
(`lossIn`, `lossOut`) and repeated by either end. The waiting loop of `Send` is
`SendFull`, the polls, `SendWait` (the `tcpOutput` after each poll, also after the
one that made room) and `SendGivesUp` (its deadline, or an error of `Poll`).
`RecvEof` is every way to `errClosed` (`EndsStream`): after the peer's FIN, and
after a reset or the last retransmission. A timer may expire at any time
unless the scene is `patient`. `MC_TcpConn` defines the scenes: which end opens,
how many bytes go which way, and what may go wrong. A handler is atomic here;
polls nested inside a handler are the subject of `Driver`.

### SockTable, MC_SockTable (`stack/api.go`, `socket.go`, `tcp.go:27-70, 379-456`)

The slots, descriptors and ports of the whole table, without sequence numbers: a
segment is its flags, and where `tcpInput` decides by a sequence number both
outcomes are possible (`TcpMoves`). Searches take the first hit, as the loops do
(`IsFirst`). `held` is the set of descriptors the application has and has not
closed; it uses no others. That `Bind`, `Connect` and `Listen` are called on a socket
in the state they are meant for is a restriction of the application, not a guard of
the code.

### ArpTable (`stack/arp.go`)

The table, the clock, one resolution under way with its polls, and a history of
the last claim of each host. `FrameIn` is any ARP frame of another host, during a
resolution or not; `ResolveGroup` is the answer for broadcast and multicast. `Invalid` entries are filled from the first free one and the
victim of a full table is the first of the oldest, as in `update`.

### DhcpClient, DhcpLan, MC_DhcpLan (`stack/dhcp.go`, `dhcpserver.go`)

`DhcpClient` has the client's handlers as operators on its record. `DhcpLan` puts
several clients and the server on one network. Messages are broadcast and the
transaction id is one constant (`Xid`), so every station takes every reply for its
own; `heard` is a history of whose acknowledgment a station took last. Messages in the air are sets, so they are
delivered in any order, and each station may lose what others receive.
`LeaseIP` is the byte arithmetic of the code. Nothing frees a lease, so `Init`
lets stations that came and left have some of the pool (`Departed`).

### NetDev (`netdev.go`, `wifi.go`, `ioctl.go:285-330`)

The goroutine `run` with the places where it can be interrupted (`run.pc`), the
mutex, `connSt` with its deadline and retry time, the DHCP client of the previous
module, the application's goroutines, and the chip with its queue of packets.
A `Poll` is two actions, the packet and then the
timers (`RunPolls`, `RunTimers`; `UserPolls`, `UserTimers`), which run whether or
not there was a packet. `maintainConnection` has one action per case; `notify` leaves the mutex
(`callback`) and takes it again (`relock`), and what follows the callback is
remembered in `run.then`. `startJoin` polls between its ioctls; an
answer that comes after its ioctl was given up (`Outdated`) is read and dropped. What the access
point and the network may do against the connection (refuse a join, drop the
station, lose a message, refuse a lease, be late) is bounded by `MaxFaults`.

### Driver (`ioctl.go`, `wifi.go`, sending half of `stack/`)

The nesting of calls: `calls` is the stack of calls in progress (frames, echo
replies, ARP requests, commands), each at its next step (`resolve`, `resolving`,
`credit`, `response`). `Poll` runs the handler of a packet on top of whoever
polled. `seq`, `seqMax` are the credits as bytes; `rxBuf` and `txPkt` hold whose
bytes are in the shared buffers. The chip has room for `Window` packets and
reports its credit with every packet. A write to the bus may fail, with the packet
in the chip or not (`WriteFails`): the number is spent, and the chip may count by
packets or by numbers (`Received`).

### Backplane, Hci, MC_Hci (`device.go:73-205`, `bluetooth.go:141-354`)

`Backplane` is the window register: three bytes of the chip (`regs`) and the
driver's copy (`window`). `SetWindow` writes only the bytes that differ, from the
high one to the low one; if a write fails, those before it are done, it may be
done itself, and the copy becomes the marker `NoWindow`.

`Hci` puts the Bluetooth rings on top, in words of four bytes. Every access to the
bus is an action of its own, so the controller, which is not part of the
repository, works between any two of them: it wakes and sleeps, takes frames and
puts frames. `call` is the call in progress with its next step. `bp_write` and
`bp_read` are one action for each burst, with the lengths `BurstLen` gives;
`Staged` is the copy from the front of the buffer that is also the source
(`WriteHCI` builds its frame in `_iovarBuf`, and `bp_write` stages in the same
one). How an access ends is chosen among `ok`, `window` (the window could not be
moved), `lost`, `done` (reported to fail, but it had its effect) and, for a burst,
`silent` (`device.go:139, 170` do not look at the result); `Strikes` says which of
them a configuration has; the run has all. `harm` is a history of the four things
that the calls do not notice and the rings do not survive: a burst of either call
that failed (`device.go:139, 170`), the write pointer at the end of its ring
(`bluetooth.go:252`), and a read pointer that moved although its write was reported
to fail (`bluetooth.go:349`). When `btInit` fails a new `Device` starts over a chip
whose memory is as it was (`Restart`). `written`, `taken`, `put` and `got` are
histories. The controller may look at the rings at any time, so that an interrupt
is lost (`btToggleIntr` after an error) delays nothing here.

### Queries, MC_Queries (`stack/dns.go`, `ntp.go`, `icmp.go`, `udp.go`, `api.go`)

The three calls that ask and wait, made by several goroutines, and UDP sockets.
`mu` is who keeps the mutex of `NetDev` from one action to the next: `Resolve` and
`Sync` keep it from their beginning to their end, `Ping` gives it away between its
polls (`netdev.go:316`). Resolving the address and waiting for credit poll too
(`Nested`), so an answer to an earlier call can be handled before this call has
sent anything. `Polled` handles one datagram of those on their way, in any order,
and leaves it there to come again or takes it away; nothing ever has to arrive.
`QueryID` is taken modulo `IdMod`, and `Start` assumes that no answer lives so long
that its id has come round. A socket's ring holds the sender of each byte, which
is all the property needs. `Reconnects` says whether the application connects a
socket that has a port already; in the run it does not (`UdpReconnect`, section 5,
is what happens if it does). A send on a UDP socket only polls, like `Background`.

### Mdns, MC_Mdns (`stack/mdns.go`)

A name is a value: the host, the enumeration name, a type, or an instance; case,
labels and compression pointers are abstracted into the question `Elsewhere` that
matches nothing and the slot `Broken` that cannot be skipped. `Reply` is
`handleQuestion`: the comparisons in their order, over the services in the order
of registration. `handlers` is the stack of handlers: while a record waits for
credit another packet is received over `rxBuf`, from which the outer handler will
read its next question, and is perhaps answered by way of `txPkt`, where the
record waits. `said` is what a handler sent, and is kept for handlers whose
buffers no other packet took (`quiet`); what becomes of the others is in section 5.


## 3. The runs, their bounds, and what they show

All runs finish with every state explored. Each property is one that a plausible
slip in a mapped definition breaks (`PROJECT.json`, "mutants").

| Run | Instance | Properties |
|---|---|---|
| `RingBuf` | 4 bytes, counters modulo 8, two byte values, calls of 0..4 bytes | `RingTypeOK`, `IsByteQueue` |
| `TcpSafety` | six scenes, up to 5 bytes, rings of 2, segments of 2, numbers modulo 16 that wrap in every scene | `TypeOK`, `ReceivedInOrder`, `EofAfterAllData`, `AckedIsStored`, `CarefulSends` |
| `TcpLive` | three scenes, up to 4 bytes, one that closes with a byte of the peer on its way, one loss each way, 3 retransmissions | `SendsAreAcked`, `StreamArrivesUnlessLost`, `ClosesUnlessLost` |
| `SockTable` | 3 slots, 2 ports to bind, 3 ephemeral ports, 1 remote end, TCP and UDP | `TypeOK`, `HeldInUse`, `EphemeralUnique`, `PendingUnclaimed`, `PendingOnce` |
| `ArpTable` | 2 entries, 3 hosts, 2 macs, one group address, time 0..3, entries live 1 | `OneEntryPerHost`, `EntriesCurrent`, `KeepsRecent`, `ResolveEnds` |
| `DhcpLan` | 2 stations with one transaction id, pool of 2, perhaps one lease gone, 1 retransmission, 2 messages on each way | `LanTypeOK`, `OneLeaseEach`, `SharedOnlyIfMisheard` |
| `NetDev` | with and without DHCP, 5 faults, 3 packets in the chip | `TypeOK`, `AddressOfThisLink`, `EventsInOrder`, `LossIsReported`, `ComesUp` |
| `Driver` | numbers modulo 5, window 2, three nested calls, two commands | `TypeOK`, `WithinWindow`, `OwnAnswer` |
| `Hci` | rings of 4 words, windows of 4, bursts of 2, an address in the middle of a window, 5 words written, 2 packets from the controller, 2 failures of every kind | `TypeOK`, `WindowIsCached`, `SentInOrder`, `ReadInOrder` |
| `Queries` | 2 goroutines, 1 UDP socket with a ring of 2 bytes, 2 other hosts, 3 calls and datagrams, ids modulo 2 | `TypeOK`, `FlagsFollowCalls`, `AnswersThisQuery`, `HeardInThisCall`, `OneConversation` |
| `Mdns` | 2 names and 2 types, 2 services, 7 questions, packets of up to 2, handlers nested twice | `AnswersAsAsked` |
| `TcpPipelined` | one scene in which a second `Send` follows at once | `SentInOrder`, which the code does not keep (section 5) |

Why the bounds are enough:

- A ring of 4 in counters modulo 8 wraps both ways, is full and empty at every
  offset, and cuts every copy; the proof covers all other sizes.
- For other rings, segments, windows and losses the safety of a connection is
  proved. One with rings of 2 meets the partly accepted segment, the full ring
  on both sides, the FIN behind data and the FIN that overtakes it; more bytes
  repeat the same cases. The sequence numbers start just below the wrap. Three
  frames in flight and `reach = 3` give every order of them.
- Three slots are the least in which two listeners and a connection, or a
  listener and two connections, meet and a slot is reused while it is referred
  to; two ports give one remote end two connections. For more the invariants are
  proved.
- A table smaller than the number of hosts evicts in every order; time up to 3
  with lives of 1 has entries that are expired, current and equally old.
- Two stations are enough for two of them to collide; the pool is met with room
  for both and full.
- A fault ends a phase of the connection, so five of them reach every phase from
  every other; three packets hold the answers and link events that cross.
- Three nested calls are a command that polls, an echo reply, and its ARP
  request: every kind nested in every other.
- A connection with a byte of the peer on its way when `Close` is called meets
  FIN_WAIT with data outstanding; that is the case `ClosesUnlessLost` excepts.
- Two messages on each way of DHCP are one of each station, or one of an exchange
  that was given up and one of the next.
- The Bluetooth rings straddle a window, a frame of 3 words takes two bursts and
  wraps in the ring from the controller; the fifth word written is behind the end of
  the ring to it, where it runs on into the other one. Two failures are one in a
  call and one in its repetition. The proof covers other sizes and addresses.
- Of queries the second of a kind is the one an answer to the first can disturb;
  with ids modulo 2 the third has the id of the first. The other host that sends
  from port 53 is the one whose datagrams are diverted.
- One handler of mDNS inside another overwrites both buffers, and a third changes
  nothing for the outermost. Two questions are the first and one read after a
  wait. The proof covers any depth and number.

What they show that a test would hardly reach: `ReceivedInOrder` and
`AckedIsStored` over all orders of segments with nearly full rings;
`CarefulSends`, that early timers never corrupt the stream of an application
that waits for its acknowledgments; `PendingUnclaimed`,
that an index kept in a listener survives resets, timeouts, and the reuse of
slots; `EventsInOrder` and `AddressOfThisLink` although the mutex is released in
the middle of the state machine; `WithinWindow` although every wait for credit
lets others send; `WindowIsCached` although any of three writes fails, with its
effect or without; `HeardInThisCall` although answers carry no number and come
during any poll of any call; `SharedOnlyIfMisheard`, that with one transaction id for
all devices the server's table still never gives an address twice;
`SentInOrder` and `ReadInOrder` of the Bluetooth rings, that all but four named
failures are survived; `AnswersAsAsked`, that no comparison of the responder hides
another.

Deadlock is checked except in `RingBuf`, `SockTable` and the TCP runs. There an
end is legitimate: a connection that is closed has nothing left to do, and the
table, which only does what it is asked to, has no obligation to be asked.


## 4. Fairness

- `TcpConn`: `Poll` is called again and again by `run` and by every blocking call,
  so a frame in the chip is handled (`WF(Deliver)`) and an expired timer is looked
  at (`WF(Timer)`). A `Send` that began goes on (`WF(SendWrite)`, `WF(SendFull)`,
  `WF(SendWait)`), but need not have a deadline, and the application reads. The peer
  is live as RFC 793 asks. Nobody is obliged to call `Send` or `Close`, and frames may
  be lost: the losses are bounded by the scene, below the number of retransmissions.
- `ArpTable`: only the loop of `resolve` goes on; no frame need ever come.
- `NetDev`: `run` is a loop, so its steps are weakly fair. `Lock` and `Relock` are
  strongly fair: TinyGo's mutex hands over to waiting goroutines in order, and the
  application's calls run their timers (`WF(UserTimers)`) and leave it again when
  they have a deadline (`Blocks = FALSE`): they look at it after every poll, so
  returning is possible again and again, and `SF(UserReturns)` says it happens.
  Time passes, callbacks return, and an access point and DHCP server that are not
  struck by a fault answer. Nothing is assumed of the order in which these happen.


## 5. Where the code and its documentation disagree

The model follows the code, so these are properties of the model that TLC
refutes. `TcpPipelined` is a run of the project (`PROJECT.json`, "findings"). The
other configurations stay beside it; the properties in the second list are
defined in their modules and marked "not kept", and take the place of the
properties in the configuration named with them, under the same constants.

| Configuration | Module | What the trace shows |
|---|---|---|
| `TcpPipelined` | `MC_TcpConn` | `tcpOutput` always peeks from the tail of the tx ring but labels the segment with `seqNum`, which has moved on: a second `Send` before the acknowledgment sends the first bytes again as new ones (`tcp.go:250`) |
| `TcpServerUna` | `MC_TcpConn` | on an accepted connection `sndUna` stays one too low, and an acknowledgment releases a byte too many (`tcp.go:157`) |
| `TcpCloseTruncates` | `MC_TcpConn` | `Close` sends FIN before bytes that still have to be retransmitted (`api.go:233`) |
| `TcpReordered` | `MC_TcpConn` | as in the next row, but `resolve` succeeds and one acknowledgment overtakes another: the timer sets `seqNum` back, the window the late one tells is too small to send again, and the next one moves `sndUna` past `seqNum` (`tcp.go:209, 232`) |
| `TcpUnresolved` | `MC_TcpConn` | the timer sets `seqNum` back, `resolve` fails, and a late acknowledgment moves `sndUna` past `seqNum`: the next bytes get old numbers (`tcp.go:209, 232`) |
| `TcpLostAck` | `MC_TcpConn` | a repeated segment is dropped without an acknowledgment (`tcp.go:101`) |
| `TcpLostFin` | `MC_TcpConn` | the FIN of `Close` is not retransmitted (`api.go:233`) |
| `TcpSendStuck` | `MC_TcpConn` | the peer resets the connection while `Send` waits for room: the loop does not look at the state, and without a deadline `Send` never returns (`api.go:169`) |
| `TcpZeroWindow` | `MC_TcpConn` | there is no probe of a closed window (`tcp.go:259`) |
| `SockLeak` | `MC_SockTable` | a connection that ended by itself leaves its slot `sockClosed`, and `allocSocket` takes only free ones (`socket.go:226`; `DESIGN.md:181` "8 concurrent sockets") |
| `SockWrongPort` | `MC_SockTable` | a listener that reuses a slot is handed the old listener's connection (`tcp.go:162`) |
| `DhcpSameXid` | `MC_DhcpLan` | every device has the transaction id `0xDEADBEEF` and recognises its replies by it alone: two devices take the same address (`dhcp.go:59`; `README.md:282-283` "automatically assigned IP addresses from a pool") |
| `NetDevBlocked` | `NetDev` | `Recv` without a deadline keeps the mutex, and a lost link is not joined again (`netdev.go:278`; `README.md:6-7` "auto-reconnects on link loss") |
| `HciOverrun` | `MC_Hci` | `h2bWritePtr` is never reduced: `WriteHCI` goes on past its ring into the one it reads from, and a packet comes out torn (`PacketsReturned`; `bluetooth.go:252`, where `bluetooth.go:348` wraps) |
| `HciLostBurst` | `MC_Hci` | a burst that failed unseen is published all the same (`PacketsTaken`; `device.go:170`) |
| `HciLateError` | `MC_Hci` | the write of the read pointer is reported to fail but had its effect: `b2hReadPtr` stays, the controller writes over the frame, and the next call reads there (`PacketsReturned`; `bluetooth.go:349`) |
| `UdpReconnect` | `MC_Queries` | a socket that was bound, heard one host, and is then connected to another returns the first one's bytes (`udp.go:54`, `api.go:49-53`) |

| Property | In the configuration | What the trace shows |
|---|---|---|
| `EndIsWhole` | `TcpSafety` | after a reset `Recv` returns the same `errClosed` as at the end of the stream, before all bytes were read (`api.go:197-202`) |
| `ClosesUnheard` | `TcpLive` | bytes of the peer that come after `Close` are dropped without an acknowledgment, the FIN behind them is refused, and FIN_WAIT_2 has no timer: the socket stays `sockClosing` although no frame was lost (`tcp.go:118-144`) |
| `CompletedCanBeAccepted` | `SockWrongPort` | a second completed connection overwrites `pendingConn` (`tcp.go:162`) |
| `AnswersAreFresh` | `ArpTable` | `lookup` does not look at the expiry (`arp.go:33`; `DESIGN.md:177` "5-min TTL") |
| `LeaseIsRenewed` | `NetDev` | after a NAK at renewal the connection stays up without a lease (`dhcp.go:195`) |
| `AddressMeansLink` | `NetDev` | the link is lost during the callback, and an address is reported all the same (`netdev.go:170`) |
| `EchoesRequest` | `Driver` | the request is copied after a poll that overwrote it (`icmp.go:61`) |
| `SentAsBuilt` | `Driver` | a frame that waits for credit is overwritten in `txPkt` (`wifi.go:186`) |
| `CreditIsLearned` | `Driver` | the credit zero is ignored, although it is a valid number (`ioctl.go:198`) |
| `FailureIsReported` | `Driver` | the error of a refused command is returned by a nested poll that drops it (`ioctl.go:232`) |
| `TimeIsOfThisCall` | `Queries` | any packet from port 123 during the call is taken for its answer, also one to an earlier call that had given up: the time is as old as that (`ntp.go:61`; `ntp.go:29-30` "Returns the current time") |
| `ReplyIsReported` | `Queries` | between two polls of `Ping` the mutex is free; the poll of another goroutine handles the reply, the deadline passes meanwhile, and `Ping` returns false without another look at the flag (`netdev.go:311-320`; `netdev.go:302-303` "Returns true if a reply was received within the timeout") |
| `RecvWaits` | `Queries` | the TCP state of a UDP socket is `tcpClosed`, so `Recv` returns `errClosed` at once (`api.go:197`; `api.go:194` "Wait for data") |
| `FramesAreItsOwn` | `Mdns` | a response that waits for credit is overwritten in the transmit buffer by the frame for another packet (`wifi.go:186`) |
| `QuestionsAreItsOwn` | `Mdns` | a packet is handled while another query has questions to read from the receive buffer (`mdns.go:90-105`) |
| `EveryServiceIsFound` | `Mdns` | of two services of one type only the first is in the answer (`mdns.go:130`; `README.md:161` "Registers a DNS-SD service for advertisement via mDNS") |

Three more of the kind were met while modelling and are part of the models.
`BufferedHCI` returns the length of the packet without its type, one byte less
than `ReadHCI` needs room for (`bluetooth.go:303-318`, `281-286`). `WriteHCI`
returns an error after `h2bWritePtr` has moved, so the caller sends twice what the
controller will take once the next packet is published (`bluetooth.go:252-254`);
`SentInOrder` therefore speaks of what was put into the ring. The question ANY on
the name of an instance is answered with SRV only, and a TXT record that does not
fit is not sent at all (`mdns.go:136-148, 326`). `AnswersAsAsked` has three parts for
that: what is sent was asked for, for any table and packet; every question is
answered by something, unless the only record is too long; and everything that was
asked for is sent if no two services have one type, nobody asks ANY about an
instance, and no record is too long. All of it is said of handlers that no other
packet disturbed and whose frames found credit.

The passing properties say what remains. `CarefulSends` names the use for which
the sending half is correct: opened by `Connect`, nothing sent or closed over
unacknowledged bytes, the peer's address known, no frame overtaken by another.
`EofAfterAllData` excepts connections that the peer reset or that were given up.
`StreamArrivesUnlessLost` excepts the loss of a frame of ours, and none on the way
in. `ClosesUnlessLost` excepts every loss, in both directions, and bytes of the peer
that come after `Close`. `SharedOnlyIfMisheard` excepts stations that took the same
station's acknowledgment. The two properties of the Bluetooth rings except the
failures that `harm` names, each only those of its own direction and the overrun.


## 6. What is proved

`tlapm M.tla` checks every step of the eight modules below; the longest,
`TransportProofs`, takes about seven minutes. TLC has checked every inductive
invariant on the instances of section 3 before it was proved.

**TransportProofs, the ring.** Assumption: `SizeAssumption` (the buffer is smaller
than the range of the counters and divides it; both hold for 2048 and 2^16).

- `RingTypesHold`: `RingSpec => []RingTypeOK`. The part of it that matters is that
  the distance of the counters stays in `0..BufSize`; it is inductive together with
  the types, because a write takes at most `Free` and a read at most `Available`.
- `RingImplementsQueue`: `RingSpec => IsByteQueue`. Each call maps to the call of
  the same name. The heart of it is `CopyInAppends` and `CopyOutReads`: the two
  halves of a copy put byte `i` at the slot of counter `head + i`. They rest on
  `SlotIsMasked` and `ModOfMod`: since `BufSize` divides `Mod`, masking commutes
  with the wrap of the counters.

**TransportProofs, what a connection receives.** Assumptions: `EndpointAssumption`
(more sequence numbers than twice both rings, so that a modular comparison is one
of distances), `PeerAssumption`, `ConnAssumption`, and `StreamsFit`, that the peer's
stream is shorter than the range of sequence numbers. The model lets a frame be on
its way for ever, and then no TCP could tell an old byte from one whose number has
come round; the numbers wrap all the same, since they start anywhere. Any rings,
segment size, losses, reordering, early timers, resets, and either end may open.

- `Receives`: the invariant `RecvInv`. `ReceivedInOrder` needs that `ackNum` is the
  number of the next byte to store (`Received`), and that the bytes of every frame
  in flight are those of the peer's stream at their number (`Flight`), however old
  the frame is; a segment whose number is `ackNum` then begins with just that byte,
  because two units of one stream have different numbers. `AckedIsStored` needs
  that no acknowledgment in flight, and nothing the peer remembers of one, is
  beyond what was stored (`Acknowledged`). `AppFits` says where the application is
  in its calls, and `Types` what an engine's handler keeps of the socket (`Fit`).
  There is one lemma for each case of `tcpInput`, and above them one per action.
- `TypesHold`, `StreamInOrder` and `StoredWhenAcked` follow.
- `EndsAreKnown`: the invariant `EndInv`, on top of `RecvInv`. A socket that the
  application did not close is in the state `Closed` only if the peer has reset the
  connection (every RST in flight is the peer's last word, `Resets`) or the
  retransmissions are used up (`GivenUp`); in CLOSE_WAIT everything was stored.
  `EndIsLast` is the consequence for `Recv`, which reports both alike.

**TransportProofs, what a connection sends.** The same assumptions, in the use
`Careful` describes.

- `SendingOrdered`: the invariant `SendInv`, on top of `RecvInv`. `seqNum` moves
  back when a timer runs out and forward when a segment is sent, while old copies
  and old acknowledgments are on their way; what keeps these apart is an order in
  the queues. `Ordered` says that each frame to the peer starts where the peer is
  or before, leaves no gap to those in front of it and ends no earlier than they
  do, and that `seqNum` is numbered by how much was sent since the last byte that was
  acknowledged, for which the window had room (`Based`, `Paced`). `Answered` says that the
  acknowledgments on their way back tell, in their order, of no fewer units and of
  no smaller right edge of the window, and of no more than the peer has room for;
  so the window the socket believes in is one the peer has, and an acknowledgment
  that releases bytes comes with a window wide enough for the rest. This is what
  fails when acknowledgments overtake each other (`TcpReordered`), and it is how
  that configuration was found: the proof had no case for it. `FinsLast`, `Asked`
  and `Hearing` relate the application's calls, the FIN, and what the peer expects.
- `CarefulSendsHold` follows: the three promises of `CarefulSends`, for any sizes.

**SockTableProofs.** Assumption: `TableAssumption` (at least as many ephemeral
ports as slots; nothing else of substance). Any number of slots, remote ends and
ports.

- `SlotOwnership`: the inductive invariant `Ownership`. `HeldInUse`, that a
  descriptor names a slot in use, is not inductive: `Accept` adds the pending
  connection to what is held, so it must be a live slot (`PendingUnclaimed`); that
  `Close` of one descriptor does not invalidate another index needs that a
  connection waits in one place only (`PendingOnce`) and is not held while it
  waits; that the end of a handshake keeps both needs that nobody knows a
  half-open connection (`HalfOpenUnknown`); and the timer only touches live slots
  because a free slot is in TCP state CLOSED (`FreeIsClosed`). One lemma per
  action; `AllocKeeps` and `UpdateKeeps` are the two shapes they share.
- `TableTypeCorrect`, `HandlesStayValid`, `AcceptIsFresh` and `AcceptedOnce` are
  its consequences.
- `PortsAreUnique`: the search of `nextEphemeralPort` looks at as many different
  ports as the range has (`TurnsDiffer`, a fact about remainders). If all were
  taken, each by a slot other than the caller's, which has no port yet, two turns
  would have met the same slot, since there are fewer slots than ports
  (`SearchSucceeds`, by the pigeonhole theorem of the library). So the port that is
  returned is free, and the fallback that returns a taken one is never reached.

**ArpTableProofs.** Assumption: `ArpAssumption` (which values are distinct; a
table with at least one entry). Any table, hosts and lifetime.

- `CacheInvariant`: the invariant `Cache`. Its parts need each other. A refresh
  changes one entry, so `EntriesCurrent` needs `OneEntryPerHost`. The victim of a
  full table is the entry with the least expiry; that it is the host heard from
  longest ago (`KeepsRecent`) needs `EntriesCurrent`, and that the new claim is no
  older than any other needs `HeardInPast`. `EntriesHeard` makes the arithmetic
  meaningful. That the searches find anything is `LeastExists`, from the
  well-foundedness of the numbers: a set of slots that is not empty has a first.
- `ArpTypeCorrect`, `EntriesAreUnique`, `EntriesFollowClaims` and
  `OldestIsForgotten` follow.

**DhcpProofs, the network.** Assumptions: `ClientAssumption` and `LanAssumption`. Any
number of stations, any pool.

- `TableInvariant`: `Table`, the types with the limit of retransmissions, and
  `OneLeaseEach`. `LanTypeCorrect` and `OneLeaseForEach` follow.
- `AssignmentInvariant`: `Assignment`. That a station's address is leased to the
  station whose acknowledgment it took (`BelievedIsLeased`) is not inductive, because
  a station believes what an acknowledgment says that was sent long before;
  `RepliesAreLeased` says of every reply in the air that the address it carries is
  leased to the station it is for, and a lease is never taken back. Nothing is
  assumed of the transaction ids, which are all the same.
- `BeliefIsALease` follows, and with it `SharingIsMishearing`: one slot has one
  owner, and different slots have different addresses, so two stations with one
  address took acknowledgments for one station. That they never do is what the
  constant id does not give (`DhcpSameXid`).

**DhcpProofs, the connection.** Assumptions: `ClientAssumption` and `NetDevAssumption`;
nothing of the network above is used, only the lemmas about the client's handlers.
Any addresses, limits of retransmissions, packets that wait in the chip, faults.

- `ConnectionInvariant`: the invariant `Connection`. `AddressOfThisLink` is not
  inductive, because the state `dhcp` is left for `up` on the client's word alone.
  `LeaseOfThisLink` says of that state that a lease, if there is one, was granted
  since `LinkUp` was told: `StartDhcp` leaves the client without one, only an
  acknowledgment that the client takes makes one, and no timer does. `Place` says
  that between the callback for a new link and what follows it the connection is
  still `joining`, although the mutex was given up and others polled; `Informed`
  says for every state what the application was told last.
- Everything but the seven moves of the state (an answered join, the link up, a join
  given up, the two ways out of the callback, the address there, the link lost)
  leaves the connection `Undisturbed`, which is proved once for a polled packet
  and once for a timer, whoever polls.
- `NetDevTypeCorrect` and `AddressIsOfThisLink` follow. `EventsAreInOrder` is an
  action property: `Informed` gives the first half of every pair.

**DriverProofs.** Assumption: `DriverAssumption` (the window is within what is
believed of a credit, and that within the modulus: `Window <= FarAhead < BusMod`).
Any modulus, window, depth of calls and length of queue.

- `NumbersInOrder`: the invariant `Order`. With `Ahead(x)` the modular distance of
  `x` from what the chip consumed, what the chip holds is at most
  `Ahead(seq)`, and `Ahead(seq) <= Ahead(seqMax) <= Ahead(c) <= Window` for every credit
  `c` still in the queue, in the order of the queue. It is not equal, because a write
  that fails spends its number: then either the chip counts on over the number that
  is missing, and every distance shrinks alike (`Skipped`), or it does not, and the
  host sends one packet less than it might. So no credit that arrives is ever too far
  ahead, the replacement by `seq + 2` is never used, and the comparison
  `seq # seqMax` is enough to number a packet. It holds although a credit of zero
  is ignored, since not to learn a credit moves nothing. The calls in progress do
  not occur in it: whoever polls, the numbers keep their order. `OneAhead`,
  `OneBehind` and `Difference` are the facts about modular distance it rests on, with `Nearer` for a number that
  is missing.
- `DriverTypeCorrect` and `ChipHasRoom` follow.
- `CommandsWait`: the invariant `Waiting`. A command is only started when nothing
  is in progress, so it is the outermost call and the only one that can wait; what
  it waits for is its own id; and it no longer waits only if the chip said
  something about that id, because what is in the queue has been said.
  `AnswersAreOwn` follows. `WaitingKept` is the shape of the steps that leave the
  waiting command alone, at whatever depth they are made.

**HciProofs.** Assumptions: `ByteAssumption` (the marker is no byte of an address),
`HciAssumption` and `AddressAssumption`. Any size of rings, windows and bursts, any
address and any number of failures.

- `HciTypeCorrect`: `Good`, which is `TypeOK` with `WindowIsCached`, is inductive.
  Of the types those matter that need an argument: `bp_write` and `bp_read` never run past their
  buffer (`BurstLenBounds`), and every pointer but the write pointer is an index of
  the ring. (That the write pointer stays below `MaxWritten` is the model's bound; in
  the code it only grows.)
- `WindowStaysCached`: a byte that differs is written, one that does not is there
  because the window was cached; if any write fails the marker makes all bytes
  differ. `SetWindowKeeps` is this argument, and `AccessKeeps` carries it to every
  access.
- `PacketsInRings`: `Good` with the invariant `Transport`, for any `Strikes` and any
  `MaxWritten`, so beyond the first lap too. It speaks of each ring until something
  in `harm` happened that this ring does not survive (`SafeWrites`, `SafeReads`);
  `Short` says that as long as the end was not reached the write pointer is below it. Each of
  the four is needed: `HciLostBurst`, `HciLateError` and `HciOverrun` of section 5
  break the order with one of them. `Starts` gives the
  positions at which packets begin; `WrittenAt` says that the ring to the controller
  holds them at these positions and that both pointers are among them, `PutAt` the
  same of the ring from the controller, modulo its size, for what is not read yet;
  `Writing` and `Reading` say that what a call has transferred is the beginning of
  one packet; `Phases` says what is so until `btInit` has cleared the pointers, which
  matters because a new `Device` starts over a chip with old ones. That a packet the
  controller puts does not run into one that is not read is modular arithmetic on
  two positions less than a ring apart (`ModLess`, `RoomLeft`, `Behind`, `Ahead`).
- `PacketsSent` and `PacketsRead` follow: `SentInOrder` and `ReadInOrder`.

**QueriesProofs.** Assumption: `QueriesAssumption`. Any number of callers, sockets
and hosts, any range of ids and size of rings.

- `QueriesInvariant`: the invariant `Inv`. `FlagsFollowCalls` is the part the rest
  leans on: a query of DNS or NTP is alone in the mutex, so what a flag holds was
  put there during it. `Names` says of every datagram on its way that it answers a
  call that was made, within the last `IdMod` of its kind, so an id that is equal
  is the same call (`IdsDiffer`); `Heard` says that a flag that is set was set by
  something heard in the call that will look at it.
- `QueriesTypeCorrect`, `FlagsAreReset`, `ResolvesOwnQuery` and `NothingStale`
  follow.
- `OneHostHeard`: under `~Reconnects`. The invariant `Talks` says that a ring holds
  bytes of the remote end only, and none while there is no remote end. It is
  `Connect` on a socket with a port that breaks it (`UdpReconnect`).

**MdnsProofs.** Assumption: `MdnsAssumption` (which names are distinct). Any names,
services, questions, and depth of nesting.

- `ResponderInvariant`: for a handler that was not disturbed, what it said and what it
  has still to say are the replies to the questions it has read; the buffer still
  holds the rest of its own packet; and the record that
  waits is in the transmit buffer. A packet that arrives ends this for handlers
  with questions left (`BufferTakenIsGood`), a frame that is built for all that
  wait.
- `RepliesAreAnswers`: what `handleQuestion` sends, by its order of comparisons, is
  for any table among the records that the interface's table lists for the question,
  and is nothing only if there is none short enough. `RepliesAsDescribed`: it is all of
  them when types are distinct and no one asks for everything at once.
  `AnswersAreDescribed` is these with the invariant, and says nothing of handlers that
  were disturbed (`FramesAreItsOwn`, `QuestionsAreItsOwn` in section 5).
  `ResponderTypeCorrect` follows from the invariant.

`HalfOpenUnknown` of `SockTable`, `BelievedIsLeased` of `DhcpLan` and the types of
`ArpTable` and `Mdns` are proved and in no configuration.

Only model-checked: liveness (`WF` and `SF` unfold to ENABLED, which the prover does
not support); and what would need induction over data.


## 7. What is not modelled, and the plan

Left out for good: header layouts, names and checksums (data without state), the
firmware download and chip initialisation (a straight sequence of writes), PIO,
pins and debug output, the programs under `cmd` and `example`.

Planned, in this order:

1. The access point loop with its client table and its single pending event
   (`netdev.go:137-150`, `ioctl.go:333-361`): the ninth client is not counted, and
   `runAP` clears the event without telling anybody.
2. `TcpConn` with nested polls inside a handler, joining it with `Driver`.
3. Waiting for an event after a scan or a join, and the table of scan results.
