-------------------------------- MODULE Hci --------------------------------
(***************************************************************************)
(* The Bluetooth transport (src/bluetooth.go): WriteHCI and ReadHCI on two *)
(* rings in memory that the driver shares with the Bluetooth controller    *)
(* and reaches through the backplane (src/device.go), in words of 4 bytes. *)
(* One call runs at a time, an access to the bus after the other; the      *)
(* controller works beside it, and accesses fail.                          *)
(***************************************************************************)
EXTENDS Integers, Sequences, Backplane

CONSTANTS
    RingSize,   \* btsdioFWBufSize, in words
    WinWords,   \* the words of one backplane window
    CtlWindow,  \* the window of the control registers
    Burst,      \* maxTxSize, in words
    Bases,      \* the addresses the rings may be at
    Payloads,   \* the lengths of packets without their type, in bytes
    Rooms,      \* the lengths of the buffers ReadHCI is called with
    Strikes,    \* what may go wrong: "window", "lost", "done", "silent"
    MaxFaults,  \* bound of the failures
    MaxWritten, \* bound of the words WriteHCI writes, which the code does not have
    MaxPut      \* bound of the packets the controller sends and ReadHCI reads

ASSUME HciAssumption ==
    /\ RingSize \in Nat \ {0, 1} /\ WinWords \in Nat \ {0} /\ Burst \in Nat \ {0}
    /\ Payloads \subseteq Nat /\ Rooms \subseteq Nat
    /\ Bases \subseteq Nat
    /\ MaxFaults \in Nat /\ MaxPut \in Nat
    /\ MaxWritten \in 0..(2 * RingSize)  \* beyond lie the pointers

\* The window of an address.
WindowOf(addr) == [hi |-> 0, mid |-> (addr \div WinWords) \div 2, lo |-> (addr \div WinWords) % 2]

\* The chip has no address with the byte of the marker.
ASSUME AddressAssumption ==
    /\ CtlWindow \in Window
    /\ \A b \in Bases : \A o \in 0..(2 * RingSize + 3) : WindowOf(b + o) \in Window

VARIABLES
    base,           \* d.btaddr
    cells,          \* the memory of both rings, host to controller first
    ptr,            \* the four pointers beside them
    hostCtrl,       \* bits of the host's control register
    awake,          \* bit of the controller's register
    h2bWritePtr,
    b2hReadPtr,
    call,           \* the call in progress
    faults,         \* failures so far
    sends,          \* calls of WriteHCI so far
    written,        \* history: packets written to the ring
    taken,          \* history: packets the controller took out of it
    put,            \* history: packets the controller sent
    got,            \* history: packets ReadHCI returned
    harm            \* history: what happened that the rings do not survive

ring == <<base, cells, ptr>>
device == <<h2bWritePtr, b2hReadPtr>>
history == <<written, taken, put, got, harm>>
vars == <<window, regs, ring, device, hostCtrl, awake, call, faults, sends, history>>

Pointer == {"Host2BTIn", "Host2BTOut", "BT2HostIn", "BT2HostOut"}
Idle == [step |-> "idle", at |-> 0, buf |-> <<>>, room |-> 0]
Booting == [Idle EXCEPT !.step = "clear"]

\* A frame: the header with the length and the type in its first word, and the
\* payload, rounded up to words.
Words(payload) == (payload + 4 + 3) \div 4
Frame(p) == [i \in 1..Words(p.payload) |-> <<p, i>>]
NoPacket == [by |-> "nobody", n |-> 0, payload |-> 0]
Torn == [NoPacket EXCEPT !.by = "torn"]
Blank == <<NoPacket, 0>>

\* The packet a frame holds.
Parsed(words) == IF words = Frame(words[1][1]) THEN words[1][1] ELSE Torn

HostReadBuf == RingSize
Register(p) == base + 2 * RingSize
               + CASE p = "Host2BTIn" -> 0 [] p = "Host2BTOut" -> 1
                   [] p = "BT2HostIn" -> 2 [] p = "BT2HostOut" -> 3

Init ==
    /\ BackplaneInit
    /\ base \in Bases
    /\ cells = [c \in 0..(2 * RingSize - 1) |-> Blank]
    /\ \E garbage \in 0..1 : ptr = [p \in Pointer |-> garbage]
    /\ hostCtrl = {} /\ awake \in BOOLEAN
    /\ h2bWritePtr = 0 /\ b2hReadPtr = 0
    /\ call = Booting
    /\ faults = 0 /\ sends = 0
    /\ written = <<>> /\ taken = <<>> /\ put = <<>> /\ got = <<>>
    /\ harm = {}

----------------------------------------------------------------------------
(***************************************************************************)
(* An access: the window is moved, then a word or a burst is transferred.  *)
(* r is how it ends: "ok"; "window", the window could not be moved;        *)
(* "lost", it failed; "done", it was reported to fail but had its effect;  *)
(* "silent", a burst failed and nobody looked (device.go:139, 170).        *)
(***************************************************************************)
WordEnds == {"ok", "window", "lost", "done"}
BurstEnds == {"ok", "window", "silent"}

Access(w, r) ==
    /\ SetWindow(w, r # "window")
    /\ IF r = "ok" THEN UNCHANGED faults
       ELSE r \in Strikes /\ faults < MaxFaults /\ faults' = faults + 1

Effective(w, r) == r \in {"ok", "done"} /\ Reaches(w)

\* What the two calls do not notice and do not undo: a burst of either that
\* failed (device.go:139, 170); the write pointer at the end of its ring, where
\* nothing takes it back to the beginning (bluetooth.go:252); and a read pointer
\* that moved although its write was reported to fail (bluetooth.go:349).
Harm == {"write burst", "read burst", "lap", "moved"}

Harmed(what, happens) == harm' = IF happens THEN harm \cup {what} ELSE harm

Least(a, b) == IF a < b THEN a ELSE b

\* The words bp_read and bp_write transfer at once.
BurstLen(addr, left) == Least(Least(left, Burst), WinWords - (addr % WinWords))

\* bp_write32 to a pointer.
WritePointer(p, value, r) ==
    LET w == WindowOf(Register(p)) IN
    /\ Access(w, r)
    /\ ptr' = IF Effective(w, r) THEN [ptr EXCEPT ![p] = value] ELSE ptr

\* btSetAwake, btSetHostReady, btToggleIntr: read, change and write.
Control(bits, r) ==
    /\ Access(CtlWindow, r)
    /\ hostCtrl' = IF Effective(CtlWindow, r) THEN bits ELSE hostCtrl

Toggled == IF "valid" \in hostCtrl THEN hostCtrl \ {"valid"} ELSE hostCtrl \cup {"valid"}

Goes(step) == call' = [call EXCEPT !.step = step, !.at = 0]
Returns == call' = Idle

----------------------------------------------------------------------------
(***************************************************************************)
(* btInit, from the ring buffers on.  When it fails Connect fails, and a   *)
(* new Device is initialised.                                              *)
(***************************************************************************)
Order == <<"Host2BTIn", "Host2BTOut", "BT2HostIn", "BT2HostOut">>

\* btInitBuffers
ClearPointer == \E r \in WordEnds :
    /\ call.step = "clear"
    /\ WritePointer(Order[call.at + 1], 0, r)
    /\ IF r # "ok" THEN Goes("failed")
       ELSE IF call.at < 3 THEN call' = [call EXCEPT !.at = @ + 1]
       ELSE Goes("awaited")
    /\ UNCHANGED <<base, cells, device, hostCtrl, awake, sends, history>>

\* btWaitCtrlBits for the awake bit, while it is not set.  "awaited" is the
\* wait of btInit, "wait" that of btBusRequest.
WaitAwake == \E r \in {"ok", "window", "lost"} :
    /\ call.step \in {"awaited", "wait"}
    /\ Access(CtlWindow, r)
    /\ IF r = "ok" /\ awake
       THEN Goes(IF call.step = "wait" THEN "burst" ELSE "ready")
       ELSE \/ r = "ok" /\ UNCHANGED call
            \/ IF call.step = "wait" THEN Returns ELSE Goes("failed")
    /\ UNCHANGED <<ring, device, hostCtrl, awake, sends, history>>

HostReady == \E r \in WordEnds :
    /\ call.step = "ready"
    /\ Control(hostCtrl \cup {"ready"}, r)
    /\ Goes(IF r = "ok" THEN "boot toggle" ELSE "failed")
    /\ UNCHANGED <<ring, device, awake, sends, history>>

\* btToggleIntr, the last step of btInit and of both calls.
ToggleIntr == \E r \in WordEnds :
    /\ call.step \in {"toggle", "boot toggle"}
    /\ Control(Toggled, r)
    /\ IF call.step = "boot toggle" /\ r # "ok" THEN Goes("failed") ELSE Returns
    /\ UNCHANGED <<ring, device, awake, sends, history>>

\* The chip is switched off and on; the pointers in its memory are as before.
Restart ==
    /\ call.step = "failed"
    /\ window' = NoWindow
    /\ hostCtrl' = {} /\ awake' \in BOOLEAN
    /\ call' = Booting
    /\ written' = <<>> /\ taken' = <<>> /\ put' = <<>> /\ got' = <<>>
    /\ UNCHANGED <<regs, ring, device, faults, sends, harm>>

----------------------------------------------------------------------------
(***************************************************************************)
(* WriteHCI                                                                *)
(***************************************************************************)
StartWrite == \E payload \in Payloads :
    LET p == [by |-> "host", n |-> sends + 1, payload |-> payload] IN
    /\ call = Idle
    /\ h2bWritePtr + Words(payload) <= MaxWritten
    /\ sends < MaxWritten
    /\ call' = [step |-> "wake", at |-> 0, buf |-> Frame(p), room |-> 0]
    /\ sends' = sends + 1
    /\ UNCHANGED <<backplane, ring, device, hostCtrl, awake, faults, history>>

\* btSetAwake(true)
Wake == \E r \in WordEnds :
    /\ call.step = "wake"
    /\ Control(hostCtrl \cup {"wake"}, r)
    /\ IF r = "ok" THEN Goes("wait") ELSE Returns
    /\ UNCHANGED <<ring, device, awake, sends, history>>

\* A slip the runs must catch.
NotStaged(buf, at, n) == buf

\* bp_write sends from the front of _iovarBuf, the buffer it copies from.
Staged(buf, at, n) == [i \in DOMAIN buf |-> IF i <= n THEN buf[at + i] ELSE buf[i]]

\* The memory after n words were put at index c.
Stored(c, words, n) ==
    [d \in DOMAIN cells |-> IF d \in c..(c + n - 1) THEN words[d - c + 1] ELSE cells[d]]

\* One turn of the loop of bp_write.
WriteBurst == \E r \in BurstEnds :
    LET c == h2bWritePtr + call.at
        n == BurstLen(base + c, Len(call.buf) - call.at)
        w == WindowOf(base + c)
        staged == Staged(call.buf, call.at, n)
    IN
    /\ call.step = "burst"
    /\ Access(w, r)
    /\ cells' = IF Effective(w, r) THEN Stored(c, staged, n) ELSE cells
    /\ IF r = "window"
       THEN Returns /\ UNCHANGED <<h2bWritePtr, written>>
       ELSE IF call.at + n < Len(call.buf)
       THEN /\ call' = [call EXCEPT !.at = @ + n, !.buf = staged]
            /\ UNCHANGED <<h2bWritePtr, written>>
       ELSE /\ Goes("publish")
            /\ h2bWritePtr' = h2bWritePtr + Len(call.buf)
            /\ written' = Append(written, call.buf[Len(call.buf)][1])
    /\ harm' = harm \cup (IF r = "silent" THEN {"write burst"} ELSE {})
                    \cup (IF c + n >= RingSize THEN {"lap"} ELSE {})
    /\ UNCHANGED <<base, ptr, b2hReadPtr, hostCtrl, awake, sends, taken, put, got>>

Publish == \E r \in WordEnds :
    /\ call.step = "publish"
    /\ WritePointer("Host2BTIn", h2bWritePtr, r)
    /\ IF r = "ok" THEN Goes("toggle") ELSE Returns
    /\ UNCHANGED <<base, cells, device, hostCtrl, awake, sends, history>>

----------------------------------------------------------------------------
(***************************************************************************)
(* ReadHCI and BufferedHCI.  A call of BufferedHCI ends after the header.  *)
(***************************************************************************)
Peeking == -1

\* In rings that were harmed the call could read for ever.
StartRead == \E room \in Rooms \cup {Peeking} :
    /\ call = Idle
    /\ room # Peeking => Len(got) <= MaxPut
    /\ call' = [Idle EXCEPT !.step = "available", !.room = room]
    /\ UNCHANGED <<backplane, ring, device, hostCtrl, awake, faults, sends, history>>

\* Slips the runs must catch.
Unrounded(payload) == (payload + 4) \div 4
RunsOn(len) == b2hReadPtr + len

\* roundedLen: the words ReadHCI reads for a packet.
RoundedLen(payload) == Words(payload)

\* The read pointer after a frame of len words.
NextReadPtr(len) == (b2hReadPtr + len) % RingSize

\* hciAvailable
Available == \E r \in {"ok", "window", "lost"} :
    /\ call.step = "available"
    /\ Access(WindowOf(Register("BT2HostIn")), r)
    /\ IF r = "ok" /\ (ptr["BT2HostIn"] - b2hReadPtr) % RingSize > 0
       THEN Goes("header") ELSE Returns
    /\ UNCHANGED <<ring, device, hostCtrl, awake, sends, history>>

\* One turn of the loop of bp_read: n words from index c of the ring, or blanks
\* when the transfer failed unseen.
Fetched(c, n, w, r) ==
    [i \in 1..n |-> IF Effective(w, r) THEN cells[HostReadBuf + c + i - 1] ELSE Blank]

\* The first word; its length decides how the call goes on.
ReadHeader == \E r \in BurstEnds :
    LET w == WindowOf(base + HostReadBuf + b2hReadPtr)
        payload == Fetched(b2hReadPtr, 1, w, r)[1][1].payload
    IN
    /\ call.step = "header"
    /\ Access(w, r)
    /\ IF r = "window" \/ call.room = Peeking \/ payload + 1 > call.room
       THEN Returns
       ELSE call' = [call EXCEPT !.step = "frame", !.at = RoundedLen(payload)]
    /\ Harmed("read burst", r = "silent")
    /\ UNCHANGED <<ring, device, hostCtrl, awake, sends, written, taken, put, got>>

\* hciRawRead of the whole frame, which at the end of the ring goes on at its
\* beginning.  call.at is the number of words to read.
ReadBurst == \E r \in BurstEnds :
    LET done == Len(call.buf)
        c == (b2hReadPtr + done) % RingSize
        n == BurstLen(base + HostReadBuf + c, Least(call.at - done, RingSize - c))
        w == WindowOf(base + HostReadBuf + c)
    IN
    /\ call.step = "frame"
    /\ Access(w, r)
    /\ IF r = "window" THEN Returns
       ELSE call' = [call EXCEPT !.buf = @ \o Fetched(c, n, w, r),
                                 !.step = IF done + n < call.at THEN "frame" ELSE "consume"]
    /\ Harmed("read burst", r = "silent")
    /\ UNCHANGED <<ring, device, hostCtrl, awake, sends, written, taken, put, got>>

\* hciReadRingbuf gives the space back; what was read is the caller's.
Consume == \E r \in WordEnds :
    LET newPtr == NextReadPtr(Len(call.buf)) IN
    /\ call.step = "consume"
    /\ WritePointer("BT2HostOut", newPtr, r)
    /\ IF r = "ok"
       THEN /\ b2hReadPtr' = newPtr
            /\ got' = Append(got, Parsed(call.buf))
            /\ call' = [Idle EXCEPT !.step = "toggle"]
       ELSE Returns /\ UNCHANGED <<b2hReadPtr, got>>
    /\ Harmed("moved", r = "done")
    /\ UNCHANGED <<base, cells, h2bWritePtr, hostCtrl, awake, sends, written, taken, put>>

----------------------------------------------------------------------------
(***************************************************************************)
(* The controller, which is not part of the repository.  It wakes when it  *)
(* is asked to and at other times, and keeps to the rings: it takes frames *)
(* up to the host's pointer and puts frames where there is room.           *)
(***************************************************************************)
Running == "ready" \in hostCtrl
Host == <<backplane, base, device, hostCtrl, call, faults, sends, written, got, harm>>

ControllerWakes ==
    /\ awake' = ~awake
    /\ awake => "wake" \notin hostCtrl
    /\ UNCHANGED <<Host, cells, ptr, taken, put>>

\* Nothing it takes from a ring in order reaches the bound.
ControllerTakes ==
    LET out == ptr["Host2BTOut"]
        n == Words(cells[out][1].payload)
    IN
    /\ Running
    /\ (ptr["Host2BTIn"] - out) % RingSize > 0
    /\ Len(taken) <= MaxWritten
    /\ taken' = Append(taken, Parsed([i \in 1..n |-> cells[(out + i - 1) % RingSize]]))
    /\ ptr' = [ptr EXCEPT !["Host2BTOut"] = (out + n) % RingSize]
    /\ UNCHANGED <<Host, cells, awake, put>>

ControllerPuts == \E payload \in Payloads :
    LET p == [by |-> "controller", n |-> Len(put) + 1, payload |-> payload]
        in == ptr["BT2HostIn"]
        n == Words(payload)
    IN
    /\ Running
    /\ Len(put) < MaxPut
    /\ n <= (ptr["BT2HostOut"] - in - 1) % RingSize
    /\ cells' = [c \in DOMAIN cells |->
                   LET i == (c - HostReadBuf - in) % RingSize IN
                   IF c >= HostReadBuf /\ i < n THEN Frame(p)[i + 1] ELSE cells[c]]
    /\ ptr' = [ptr EXCEPT !["BT2HostIn"] = (in + n) % RingSize]
    /\ put' = Append(put, p)
    /\ UNCHANGED <<Host, awake, taken>>

Boot == ClearPointer \/ WaitAwake \/ HostReady \/ ToggleIntr \/ Restart
WriteHCI == StartWrite \/ Wake \/ WriteBurst \/ Publish
ReadHCI == StartRead \/ Available \/ ReadHeader \/ ReadBurst \/ Consume
Controller == ControllerWakes \/ ControllerTakes \/ ControllerPuts

Next == Boot \/ WriteHCI \/ ReadHCI \/ Controller

Spec == Init /\ [][Next]_vars

----------------------------------------------------------------------------
Packet == [by : {"host", "controller", "nobody", "torn"}, n : Nat, payload : Payloads \cup {0}]
Word == Packet \X Nat
Step == {"idle", "clear", "awaited", "ready", "boot toggle", "failed", "wake", "wait",
         "burst", "publish", "available", "header", "frame", "consume", "toggle"}
Call == [step : Step, at : Nat, buf : Seq(Word), room : Rooms \cup {0, Peeking}]

\* The types.  What is written to the ring has room before the limit, what is
\* read is at most the frame, and the indices the controller keeps are indices
\* of its ring.  That h2bWritePtr stays below a limit is the model's bound MaxWritten:
\* in the code it only ever grows (bluetooth.go:252).
TypeOK ==
    /\ BackplaneTypeOK
    /\ base \in Bases
    /\ cells \in [0..(2 * RingSize - 1) -> Word]
    /\ ptr \in [Pointer -> 0..(2 * RingSize)]
    /\ \A p \in Pointer \ {"Host2BTIn"} : ptr[p] < RingSize
    /\ hostCtrl \subseteq {"wake", "ready", "valid"}
    /\ awake \in BOOLEAN
    /\ h2bWritePtr \in 0..MaxWritten
    /\ b2hReadPtr \in 0..(RingSize - 1)
    /\ call \in Call
    /\ call.step = "clear" => call.at < 4
    /\ call.step \in {"wake", "wait", "burst"} =>
          /\ h2bWritePtr + Len(call.buf) <= MaxWritten
          /\ call.at < Len(call.buf)
    /\ call.step \in {"available", "header"} => call.buf = <<>>
    /\ call.step = "frame" => Len(call.buf) < call.at
    /\ call.step = "consume" => Len(call.buf) > 0
    /\ faults \in Nat /\ sends \in Nat
    /\ written \in Seq(Packet) /\ taken \in Seq(Packet)
    /\ put \in Seq(Packet) /\ got \in Seq(Packet)
    /\ harm \subseteq Harm

IsPrefixOf(s, t) == Len(s) <= Len(t) /\ \A i \in DOMAIN s : s[i] = t[i]

\* Not kept: what the controller takes out of its ring is what WriteHCI put there,
\* and ReadHCI returns what the controller sent, whole, in order and once, whatever
\* access fails (bluetooth.go:219-352).
PacketsTaken == IsPrefixOf(taken, written)
PacketsReturned == IsPrefixOf(got, put)

\* The controller takes what WriteHCI wrote, whole, in order and once, wherever the
\* bursts were cut and whatever failed, but for a burst of WriteHCI, whose result
\* bp_write ignores, and until the write pointer is at the end of the ring, where
\* it runs on into the other one (bluetooth.go:219-257, device.go:149-177).
SentInOrder == harm \cap {"write burst", "lap"} = {} => PacketsTaken

\* ReadHCI returns what the controller sent, whole, in order and once, while the
\* controller goes on sending and whatever failed, but for a burst of ReadHCI, whose
\* result bp_read ignores, and a write of the read pointer that was reported to fail
\* and did not, and until WriteHCI runs on into this ring (bluetooth.go:261-352,
\* device.go:117-145).
ReadInOrder == harm \cap {"read burst", "moved", "lap"} = {} => PacketsReturned
=============================================================================
