------------------------------- MODULE Driver -------------------------------
(***************************************************************************)
(* The path of frames and commands between the stack and the chip          *)
(* (src/ioctl.go, src/wifi.go, the sending half of src/stack).  There is   *)
(* one receive buffer, one buffer in which frames are built, and one       *)
(* sequence of bus credits, and every wait polls: a poll hands the packet  *)
(* it read to the handler, which may send, wait and poll in its turn.  The *)
(* calls in progress are therefore a stack, all of them on one goroutine   *)
(* or on goroutines that hold the mutex of NetDev.                         *)
(***************************************************************************)
EXTENDS Integers, Sequences, SequencesExt

CONSTANTS
    BusMod,     \* 2^8: the sequence numbers of the bus
    FarAhead,   \* 0x40: a credit further ahead than this is not believed
    Window,     \* packets the chip has room for
    Packet,     \* requests the network sends us
    Own,        \* bytes a sender makes from its own state
    Arp,        \* an ARP request
    None,       \* bytes nobody looks at
    MaxDepth,   \* bound of the calls in progress
    MaxIn,      \* bound of the packets waiting in the chip
    MaxIoctls   \* bound of the commands

ASSUME DriverAssumption ==
    /\ BusMod \in Nat /\ FarAhead \in Nat /\ Window \in Nat \ {0}
    /\ Window <= FarAhead /\ FarAhead < BusMod
    /\ MaxDepth \in Nat \ {0} /\ MaxIn \in Nat /\ MaxIoctls \in Nat

VARIABLES
    seq,        \* sdpcmSeq
    seqMax,     \* sdpcmSeqMax
    rxBuf,      \* whose bytes are in rxBuf
    txPkt,      \* whose bytes are in txPkt
    calls,      \* the calls in progress, the innermost last
    ioctl,      \* ioctlID, ioctlPending, ioctlRespID
    returned,   \* the last command that returned without an error
    chip        \* the chip: packets for the host, frames it holds, what it consumed

vars == <<seq, seqMax, rxBuf, txPkt, calls, ioctl, returned, chip>>

Content == Packet \cup {Own, Arp, None}

Init ==
    /\ seq = 0 /\ seqMax = 1
    /\ rxBuf = None /\ txPkt = None
    /\ calls = <<>>
    /\ ioctl = [id |-> 0, pending |-> FALSE, resp |-> 0]
    /\ returned = 0
    /\ chip = [queue |-> <<>>, holds |-> 0, consumed |-> 0, reported |-> 1, commands |-> {},
               done |-> {}, failed |-> {}]

----------------------------------------------------------------------------
Busy == calls # <<>>
Top == calls[Len(calls)]
TopAt(pc) == Busy /\ Top.pc = pc
Rest == Front(calls)
Call(kind, of, id, pc) == [kind |-> kind, of |-> of, id |-> id, pc |-> pc]

\* The innermost call goes on at pc.
GoesOn(pc) == [calls EXCEPT ![Len(calls)].pc = pc]

\* Slips the runs must catch.
TwoMore(credit) == (seq + 2) % BusMod
AnyAnswer(id) == ioctl.pending
Unwrapped == seq + 1

\* The credits of a packet: zero says nothing, and one too far ahead is replaced.
NewMax(credit) ==
    IF credit = 0 THEN seqMax
    ELSE IF (credit - seq) % BusMod > FarAhead THEN (seq + 2) % BusMod
    ELSE credit

\* The sequence number is a byte.
NextSeq == (seq + 1) % BusMod

\* handleControl takes an answer that is waited for.
Matches(id) == ioctl.pending /\ id = ioctl.resp

Settled(id) == [ioctl EXCEPT !.pending = @ /\ ~Matches(id)]

\* What an error of poll does to the calls: waitCredit and waitIoctlResponse
\* hand it to their caller, which ends; resolve and the main loop drop it.
Aborts == Busy /\ Top.pc \in {"credit", "response"}
AfterError == IF Aborts THEN Rest ELSE calls

\* Somebody polls: the main loop, resolve, waitIoctlResponse, or waitCredit while
\* there is no credit.
Polling ==
    /\ Len(calls) < MaxDepth
    /\ \/ ~Busy \/ TopAt("resolving") \/ TopAt("response")
       \/ TopAt("credit") /\ seq = seqMax

\* handleRxPacket: the credits of the packet, then its handler.  A request is
\* answered with its own bytes, like an echo request; an answer with an error
\* status is an error of this poll, whoever called it.
Poll ==
    /\ Polling /\ chip.queue # <<>>
    /\ LET p == Head(chip.queue) IN
        /\ chip' = [chip EXCEPT !.queue = Tail(@)]
        /\ seqMax' = NewMax(p.credit)
        /\ \/ /\ p.kind = "request"
              /\ rxBuf' = p.of
              /\ calls' = Append(calls, Call("echo", p.of, 0, "resolve"))
              /\ UNCHANGED ioctl
           \/ /\ p.kind \in {"answer", "failure"}
              /\ rxBuf' = None
              /\ ioctl' = Settled(p.id)
              /\ calls' = IF p.kind = "failure" /\ Matches(p.id) THEN AfterError ELSE calls
           \/ /\ p.kind = "event"
              /\ rxBuf' = None
              /\ UNCHANGED <<calls, ioctl>>
    /\ UNCHANGED <<seq, txPkt, returned>>

\* The bus fails, or the packet is longer than the buffer: a command that waits
\* ends and leaves ioctlPending as it is.
PollFails ==
    /\ Polling /\ Aborts
    /\ calls' = AfterError
    /\ UNCHANGED <<seq, seqMax, rxBuf, txPkt, ioctl, returned, chip>>

\* resolve: no answer is in the ARP table, and a request is built and sent; the
\* request is repeated while resolve polls.
AskArp ==
    /\ TopAt("resolve") \/ TopAt("resolving")
    /\ Len(calls) < MaxDepth
    /\ txPkt' = Arp
    /\ calls' = Append(GoesOn("resolving"), Call("arp", Arp, 0, "credit"))
    /\ UNCHANGED <<seq, seqMax, rxBuf, ioctl, returned, chip>>

\* The next hop is known, and the frame is built: an echo reply is copied from
\* the receive buffer.
Build ==
    /\ TopAt("resolve") \/ TopAt("resolving")
    /\ txPkt' = IF Top.kind = "echo" THEN rxBuf ELSE Own
    /\ calls' = GoesOn("credit")
    /\ UNCHANGED <<seq, seqMax, rxBuf, ioctl, returned, chip>>

NotResolved ==
    /\ TopAt("resolving") /\ calls' = Rest
    /\ UNCHANGED <<seq, seqMax, rxBuf, txPkt, ioctl, returned, chip>>

\* What the frame of a call holds when it is copied to the bus.
BytesOf(call) == IF call.kind = "ioctl" THEN Own ELSE txPkt

\* The chip gets the packet that is written now.  What it counts by is its own: the
\* packets it got, or their numbers, of which one may be missing.
Received(commands) ==
    \E consumed \in {chip.consumed, (NextSeq - (chip.holds + 1)) % BusMod} :
        chip' = [chip EXCEPT !.holds = @ + 1, !.consumed = consumed, !.commands = @ \cup commands]

\* The command of a call, if it is one.
CommandOf(call) == IF call.kind = "ioctl" THEN {call.id} ELSE {}

\* There is credit for the innermost call.
Ready == TopAt("credit") /\ seq # seqMax

\* The packet is numbered.
Numbers ==
    /\ Ready
    /\ seq' = NextSeq
    /\ UNCHANGED <<seqMax, rxBuf, txPkt, returned>>

\* The packet is written to the bus.  A command then waits for its answer.
Write ==
    /\ Numbers
    /\ Received(CommandOf(Top))
    /\ \/ /\ Top.kind = "ioctl"
          /\ ioctl' = [ioctl EXCEPT !.pending = TRUE, !.resp = Top.id]
          /\ calls' = GoesOn("response")
       \/ /\ Top.kind # "ioctl"
          /\ calls' = Rest
          /\ UNCHANGED ioctl

\* The bus reports an error, whether the chip got the packet or not.  The call
\* ends and the number is spent.
WriteFails ==
    /\ Numbers
    /\ calls' = Rest
    /\ Received(CommandOf(Top)) \/ UNCHANGED chip
    /\ UNCHANGED ioctl

\* waitCredit gives up, perhaps with the credit just learned: the frame is
\* dropped, the command fails.
NoCredit ==
    /\ TopAt("credit")
    /\ calls' = Rest
    /\ UNCHANGED <<seq, seqMax, rxBuf, txPkt, ioctl, returned, chip>>

\* waitIoctlResponse sees that its answer was taken, at whatever depth.
Answered ==
    /\ TopAt("response") /\ ~ioctl.pending
    /\ calls' = Rest /\ returned' = Top.id
    /\ UNCHANGED <<seq, seqMax, rxBuf, txPkt, ioctl, chip>>

\* waitIoctlResponse gives up.
NotAnswered ==
    /\ TopAt("response") /\ ioctl.pending
    /\ ioctl' = [ioctl EXCEPT !.pending = FALSE]
    /\ calls' = Rest
    /\ UNCHANGED <<seq, seqMax, rxBuf, txPkt, returned, chip>>

\* The application or a timer sends a frame.
SendFrame ==
    /\ ~Busy
    /\ calls' = <<Call("frame", Own, 0, "resolve")>>
    /\ UNCHANGED <<seq, seqMax, rxBuf, txPkt, ioctl, returned, chip>>

\* doIoctlGet: a command takes the next id.
StartIoctl ==
    /\ ~Busy /\ ioctl.id < MaxIoctls
    /\ ioctl' = [ioctl EXCEPT !.id = @ + 1]
    /\ calls' = <<Call("ioctl", Own, ioctl.id + 1, "credit")>>
    /\ UNCHANGED <<seq, seqMax, rxBuf, txPkt, returned, chip>>

----------------------------------------------------------------------------
(* The chip.                                                               *)

Credit == (chip.consumed + Window) % BusMod

Consume ==
    /\ chip.holds > 0
    /\ chip' = [chip EXCEPT !.holds = @ - 1, !.consumed = (@ + 1) % BusMod]
    /\ UNCHANGED <<seq, seqMax, rxBuf, txPkt, calls, ioctl, returned>>

Queued(kind, of, id) ==
    /\ Len(chip.queue) < MaxIn
    /\ chip' = [chip EXCEPT
            !.queue = Append(@, [kind |-> kind, of |-> of, id |-> id, credit |-> Credit]),
            !.reported = Credit,
            !.commands = @ \ {id},
            !.done = IF kind = "answer" THEN @ \cup {id} ELSE @,
            !.failed = IF kind = "failure" THEN @ \cup {id} ELSE @]
    /\ UNCHANGED <<seq, seqMax, rxBuf, txPkt, calls, ioctl, returned>>

RequestArrives == \E p \in Packet : Queued("request", p, 0)
AnswerArrives == \E id \in chip.commands, kind \in {"answer", "failure"} : Queued(kind, None, id)
EventArrives == Queued("event", None, 0)

Next ==
    \/ Poll \/ PollFails \/ AskArp \/ Build \/ NotResolved \/ Write \/ WriteFails \/ NoCredit
    \/ Answered \/ NotAnswered \/ SendFrame \/ StartIoctl
    \/ Consume \/ RequestArrives \/ AnswerArrives \/ EventArrives

Spec == Init /\ [][Next]_vars

----------------------------------------------------------------------------
(* Properties.                                                             *)

Calls == [kind : {"echo", "frame", "arp", "ioctl"}, of : Content, id : 0..MaxIoctls,
          pc : {"resolve", "resolving", "credit", "response"}]

TypeOK ==
    /\ seq \in 0..(BusMod - 1) /\ seqMax \in 0..(BusMod - 1)
    /\ rxBuf \in Content /\ txPkt \in Content
    /\ calls \in Seq(Calls) /\ Len(calls) <= MaxDepth
    /\ ioctl \in [id : 0..MaxIoctls, pending : BOOLEAN, resp : 0..MaxIoctls]
    /\ returned \in 0..MaxIoctls
    /\ Len(chip.queue) <= MaxIn /\ chip.consumed \in 0..(BusMod - 1)

\* The chip never gets more packets than it has room for, although every wait
\* for credit lets handlers send in between, and the numbers wrap around
\* (ioctl.go:117-130, 195-204; wifi.go:187-205).
WithinWindow == chip.holds <= Window

\* A command that returns was answered: the late answer to an earlier command
\* that timed out, or whose poll failed and left ioctlPending set, is never
\* taken for it (ioctl.go:133-150, 232-233).
OwnAnswer == returned # 0 => returned \in chip.done \cup chip.failed

----------------------------------------------------------------------------
(* What comments say and the code does not keep.                           *)

\* A command that the chip refused does not return without an error, whoever
\* polled when the refusal came (device.go:13 "cyw43: ioctl failed").
FailureIsReported == returned \notin chip.failed

\* An echo reply carries the bytes of its request (icmp.go:59
\* "sendICMPEchoReply responds to a ping request.").
EchoesRequest == Ready /\ Top.kind = "echo" => BytesOf(Top) = Top.of

\* The frame that was built is the frame that is sent (ipv4.go:66-67 "This writes
\* the IP header ... then sends the complete frame").
SentAsBuilt == Ready /\ Top.kind = "frame" => BytesOf(Top) = Own

\* When the chip has room and has said so, the host knows it (ioctl.go:116
\* "waitCredit waits until bus data credit is available.").
CreditIsLearned ==
    chip.queue = <<>> /\ chip.holds = 0 /\ chip.reported = Credit => seq # seqMax
=============================================================================
