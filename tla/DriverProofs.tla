---------------------------- MODULE DriverProofs ----------------------------
(***************************************************************************)
(* The chip never gets more packets than it has room for, for any window   *)
(* below the range of the bus numbers, any depth of nested calls and any   *)
(* number of packets on their way.                                         *)
(***************************************************************************)
EXTENDS Driver, TLAPS

Number == 0..(BusMod - 1)
Command == 0..MaxIoctls

PacketIn == [kind : {"request", "answer", "failure", "event"}, of : Content,
             id : Command, credit : Number]

Chip == [queue : Seq(PacketIn), holds : Nat, consumed : Number, reported : Number,
         commands : SUBSET Command, done : SUBSET Command, failed : SUBSET Command]

\* TypeOK with the types of what the chip keeps.
Types == TypeOK /\ chip \in Chip

\* How far a bus number is ahead of what the chip has consumed.  The numbers
\* wrap; the distances do not, for they never leave 0..Window.
Ahead(x) == (x - chip.consumed) % BusMod

\* The inductive invariant: the next number is at least as far ahead as the chip
\* holds packets, the known credit is at least that, and the credits on their way
\* to the host only grow, up to the window.
Order ==
    /\ Types
    /\ chip.holds <= Ahead(seq) /\ Ahead(seq) <= Ahead(seqMax) /\ Ahead(seqMax) <= Window
    /\ \A i \in 1..Len(chip.queue) :
            /\ Ahead(seqMax) <= Ahead(chip.queue[i].credit)
            /\ Ahead(chip.queue[i].credit) <= Window
    /\ \A i, j \in 1..Len(chip.queue) :
            i <= j => Ahead(chip.queue[i].credit) <= Ahead(chip.queue[j].credit)

----------------------------------------------------------------------------
(* The calls in progress.                                                  *)

Pc == {"resolve", "resolving", "credit", "response"}

LEMMA TopShape ==
    ASSUME TypeOK, Busy
    PROVE  /\ Top \in Calls
           /\ Len(calls) \in Nat \ {0} /\ Len(calls) <= MaxDepth
  BY DEF TypeOK, Busy, Top

\* A call that ends leaves the others.
LEMMA RestShape ==
    ASSUME TypeOK, Busy
    PROVE  Rest \in Seq(Calls) /\ Len(Rest) <= MaxDepth
  <1>1. Len(calls) \in Nat \ {0} /\ Len(calls) <= MaxDepth /\ calls \in Seq(Calls)
    BY TopShape DEF TypeOK
  <1> QED BY <1>1, DriverAssumption DEF Rest, Front

\* A call that goes on stays on top of the others.
LEMMA GoesOnShape ==
    ASSUME TypeOK, Busy, NEW pc \in Pc
    PROVE  /\ GoesOn(pc) \in Seq(Calls)
           /\ Len(GoesOn(pc)) = Len(calls)
  <1>1. /\ calls \in Seq(Calls) /\ Len(calls) \in 1..Len(calls)
        /\ \A i \in 1..Len(calls) : calls[i] \in Calls
    BY TopShape DEF TypeOK
  <1>2. [calls[Len(calls)] EXCEPT !.pc = pc] \in Calls
    BY <1>1 DEF Calls, Pc
  <1>3. GoesOn(pc) = [calls EXCEPT ![Len(calls)] = [calls[Len(calls)] EXCEPT !.pc = pc]]
    BY DEF GoesOn
  <1> QED BY <1>1, <1>2, <1>3

\* A call that polls has the calls of the handler put on top of it.
LEMMA AppendShape ==
    ASSUME NEW s \in Seq(Calls), Len(s) < MaxDepth, NEW c \in Calls
    PROVE  Append(s, c) \in Seq(Calls) /\ Len(Append(s, c)) <= MaxDepth
  BY DriverAssumption

LEMMA CallShape ==
    ASSUME NEW kind \in {"echo", "frame", "arp", "ioctl"}, NEW of \in Content,
           NEW id \in Command, NEW pc \in Pc
    PROVE  Call(kind, of, id, pc) \in Calls
  BY DEF Call, Calls, Command, Pc

LEMMA AfterErrorShape ==
    ASSUME TypeOK
    PROVE  AfterError \in Seq(Calls) /\ Len(AfterError) <= MaxDepth
  BY RestShape DEF AfterError, Aborts, TypeOK

----------------------------------------------------------------------------
(* Every step keeps the types.                                             *)

LEMMA Sizes ==
    /\ BusMod \in Nat /\ BusMod > 1 /\ Window \in Nat /\ 0 < Window
    /\ Window < BusMod /\ Window <= FarAhead /\ FarAhead \in Nat /\ FarAhead < BusMod
    /\ MaxDepth \in Nat /\ 0 < MaxDepth /\ MaxIn \in Nat /\ MaxIoctls \in Nat
  BY DriverAssumption

\* A credit taken from a packet is a bus number.
LEMMA NewMaxType ==
    ASSUME TypeOK, NEW credit \in Number
    PROVE  NewMax(credit) \in Number
  <1>1. (seq + 2) % BusMod \in Number
    BY Sizes DEF TypeOK, Number
  <1> QED BY <1>1 DEF NewMax, TypeOK, Number

\* A packet leaves the queue of the chip.
LEMMA QueueTail ==
    ASSUME Types, chip.queue # <<>>
    PROVE  /\ Head(chip.queue) \in PacketIn
           /\ [chip EXCEPT !.queue = Tail(@)] \in Chip
           /\ Len(Tail(chip.queue)) <= MaxIn
  <1>1. chip.queue \in Seq(PacketIn) /\ Len(chip.queue) <= MaxIn
    BY DEF Types, TypeOK, Chip
  <1>2. /\ Head(chip.queue) \in PacketIn /\ Tail(chip.queue) \in Seq(PacketIn)
        /\ Len(Tail(chip.queue)) <= MaxIn
    BY <1>1, Sizes
  <1> DEFINE rest == Tail(chip.queue)
  <1>3. [chip EXCEPT !.queue = rest] \in Chip
    <2> HIDE DEF rest
    <2>1. rest \in Seq(PacketIn)
      BY <1>2 DEF rest
    <2> QED BY <2>1 DEF Types, Chip
  <1> QED BY <1>2, <1>3

LEMMA PollTypes ==
    ASSUME Types, Poll
    PROVE  Types'
  <1> DEFINE p == Head(chip.queue)
  <1>1. /\ chip' = [chip EXCEPT !.queue = Tail(@)]
        /\ chip.queue # <<>>
        /\ seqMax' = NewMax(p.credit)
        /\ seq' = seq /\ txPkt' = txPkt /\ returned' = returned
    BY DEF Poll
  <1>2. p \in PacketIn /\ chip' \in Chip /\ Len(chip'.queue) <= MaxIn
    BY <1>1, QueueTail DEF Types, Chip
  <1> HIDE DEF p
  <1>3. seqMax' \in Number /\ p.of \in Content /\ None \in Content
    BY <1>1, <1>2, NewMaxType DEF Types, PacketIn, Content
  <1>4. /\ calls' \in Seq(Calls) /\ Len(calls') <= MaxDepth
        /\ rxBuf' \in Content
        /\ ioctl' \in [id : Command, pending : BOOLEAN, resp : Command]
    <2>1. ioctl \in [id : Command, pending : BOOLEAN, resp : Command]
          /\ calls \in Seq(Calls) /\ Len(calls) <= MaxDepth
      BY DEF Types, TypeOK, Command
    <2>2. CASE /\ rxBuf' = p.of
               /\ calls' = Append(calls, Call("echo", p.of, 0, "resolve"))
               /\ UNCHANGED ioctl
      <3>1. Call("echo", p.of, 0, "resolve") \in Calls
        BY <1>3, CallShape, Sizes DEF Command, Pc
      <3>2. Len(calls) < MaxDepth
        BY DEF Poll, Polling
      <3> QED BY <1>3, <2>1, <2>2, <3>1, <3>2, AppendShape
    <2>3. CASE /\ rxBuf' = None
               /\ ioctl' = Settled(p.id)
               /\ calls' \in {AfterError, calls}
      <3>1. Settled(p.id) \in [id : Command, pending : BOOLEAN, resp : Command]
        BY <2>1 DEF Settled, Matches
      <3> QED BY <1>3, <2>1, <2>3, <3>1, AfterErrorShape DEF Types
    <2>4. CASE rxBuf' = None /\ UNCHANGED <<calls, ioctl>>
      BY <1>3, <2>1, <2>4
    <2> QED BY <2>2, <2>3, <2>4 DEF Poll, p
  <1> QED BY <1>1, <1>2, <1>3, <1>4 DEF Types, TypeOK, Number, Command, Chip

\* A step that only moves the calls, the buffers and the command.
LEMMA CallStepTypes ==
    ASSUME Types,
           calls' \in Seq(Calls), Len(calls') <= MaxDepth,
           rxBuf' = rxBuf, txPkt' \in Content,
           ioctl' \in [id : Command, pending : BOOLEAN, resp : Command],
           returned' \in Command,
           seq' \in Number, seqMax' = seqMax,
           chip' \in Chip, chip'.queue = chip.queue
    PROVE  Types'
  BY DEF Types, TypeOK, Number, Command, Chip

\* What stays as it is has its type.
LEMMA Unmoved ==
    ASSUME Types
    PROVE  /\ calls \in Seq(Calls) /\ Len(calls) <= MaxDepth
           /\ rxBuf \in Content /\ txPkt \in Content
           /\ Own \in Content /\ Arp \in Content /\ None \in Content
           /\ ioctl \in [id : Command, pending : BOOLEAN, resp : Command]
           /\ returned \in Command
           /\ seq \in Number /\ seqMax \in Number
           /\ chip \in Chip
  BY DEF Types, TypeOK, Number, Command, Content

LEMMA AskArpTypes ==
    ASSUME Types, AskArp
    PROVE  Types'
  <1>1. Busy /\ Len(calls) < MaxDepth
    BY DEF AskArp, TopAt
  <1>2. GoesOn("resolving") \in Seq(Calls) /\ Len(GoesOn("resolving")) = Len(calls)
    BY <1>1, GoesOnShape DEF Types, Pc
  <1>3. Call("arp", Arp, 0, "credit") \in Calls
    BY CallShape, Sizes, Unmoved DEF Command, Pc
  <1>4. calls' \in Seq(Calls) /\ Len(calls') <= MaxDepth
    BY <1>1, <1>2, <1>3, AppendShape DEF AskArp
  <1> QED BY <1>4, Unmoved, CallStepTypes DEF AskArp

LEMMA BuildTypes ==
    ASSUME Types, Build
    PROVE  Types'
  <1>1. Busy
    BY DEF Build, TopAt
  <1>2. calls' \in Seq(Calls) /\ Len(calls') <= MaxDepth
    BY <1>1, GoesOnShape, Unmoved DEF Build, Types, Pc
  <1>3. txPkt' \in Content
    BY Unmoved DEF Build
  <1> QED BY <1>2, <1>3, Unmoved, CallStepTypes DEF Build

\* A packet that the chip gets, whatever it counts by.
LEMMA ReceivedType ==
    ASSUME Types, NEW commands \in SUBSET Command, Received(commands)
    PROVE  /\ chip' \in Chip /\ chip'.queue = chip.queue /\ chip'.holds = chip.holds + 1
           /\ chip'.done = chip.done /\ chip'.failed = chip.failed
           /\ chip'.consumed \in {chip.consumed, (NextSeq - (chip.holds + 1)) % BusMod}
  <1>1. PICK c \in {chip.consumed, (NextSeq - (chip.holds + 1)) % BusMod} :
            chip' = [chip EXCEPT !.holds = @ + 1, !.consumed = c, !.commands = @ \cup commands]
    BY DEF Received
  <1>2. c \in Number
    <2>1. NextSeq \in Int /\ chip.holds \in Nat /\ chip.consumed \in Number
      BY Unmoved, Sizes DEF NextSeq, Number, Chip
    <2> QED BY <1>1, <2>1, Sizes DEF Number
  <1> DEFINE n == chip.holds + 1
             s == chip.commands \cup commands
  <1>3. n \in Nat /\ s \in SUBSET Command
    BY Unmoved DEF Chip
  <1>4. chip' = [chip EXCEPT !.holds = n, !.consumed = c, !.commands = s]
    BY <1>1
  <1> HIDE DEF n, s
  <1>5. /\ chip' \in Chip /\ chip'.queue = chip.queue /\ chip'.holds = n /\ chip'.consumed = c
        /\ chip'.done = chip.done /\ chip'.failed = chip.failed
    BY <1>2, <1>3, <1>4, Unmoved DEF Chip
  <1> QED BY <1>1, <1>5 DEF n

\* The chip gets the packet that is written, or not.
LEMMA WrittenType ==
    ASSUME Types, Write \/ WriteFails
    PROVE  /\ chip' \in Chip /\ chip'.queue = chip.queue
           /\ chip'.done = chip.done /\ chip'.failed = chip.failed
           /\ \/ chip'.holds = chip.holds /\ chip'.consumed = chip.consumed
              \/ /\ chip'.holds = chip.holds + 1
                 /\ chip'.consumed \in {chip.consumed, (NextSeq - (chip.holds + 1)) % BusMod}
  <1>1. CommandOf(Top) \in SUBSET Command
    <2>1. Top \in Calls
      BY TopShape DEF Write, WriteFails, Numbers, Ready, TopAt, Types
    <2> QED BY <2>1 DEF CommandOf, Calls, Command
  <1>2. CASE Received(CommandOf(Top))
    BY <1>1, <1>2, ReceivedType
  <1>3. CASE chip' = chip
    BY <1>3, Unmoved
  <1> QED BY <1>2, <1>3 DEF Write, WriteFails

LEMMA WriteTypes ==
    ASSUME Types, Write \/ WriteFails
    PROVE  Types'
  <1>1. Busy /\ Top \in Calls
    BY TopShape DEF Write, WriteFails, Numbers, Ready, TopAt, Types
  <1>2. Top.id \in Command
    BY <1>1 DEF Calls, Command
  <1>3. seq' \in Number
    BY Sizes, Unmoved DEF Write, WriteFails, Numbers, NextSeq, Number
  <1>4. UNCHANGED <<seqMax, rxBuf, txPkt, returned>>
    BY DEF Write, WriteFails, Numbers
  <1>5. calls' \in Seq(Calls) /\ Len(calls') <= MaxDepth
    BY <1>1, GoesOnShape, RestShape, Unmoved DEF Write, WriteFails, Types, Pc
  <1>6. ioctl' \in [id : Command, pending : BOOLEAN, resp : Command]
    BY <1>2, Unmoved DEF Write, WriteFails
  <1> QED BY <1>3, <1>4, <1>5, <1>6, Unmoved, WrittenType, CallStepTypes

\* A call ends: nothing more is known, the bus fails, the credit does not come,
\* or a command gets its answer or gives up.
LEMMA EndTypes ==
    ASSUME Types, PollFails \/ NotResolved \/ NoCredit \/ Answered \/ NotAnswered
    PROVE  Types'
  <1>1. Busy /\ Top.id \in Command
    BY TopShape DEF PollFails, Aborts, NotResolved, NoCredit, Answered, NotAnswered, TopAt,
                    Types, Calls, Command
  <1>2. calls' \in Seq(Calls) /\ Len(calls') <= MaxDepth
    BY <1>1, RestShape, AfterErrorShape
       DEF PollFails, NotResolved, NoCredit, Answered, NotAnswered, Types
  <1>3. returned' \in Command
    BY <1>1, Unmoved DEF PollFails, NotResolved, NoCredit, Answered, NotAnswered
  <1>4. ioctl' \in [id : Command, pending : BOOLEAN, resp : Command]
    BY Unmoved DEF PollFails, NotResolved, NoCredit, Answered, NotAnswered
  <1>5. UNCHANGED <<seq, seqMax, rxBuf, txPkt, chip>>
    BY DEF PollFails, NotResolved, NoCredit, Answered, NotAnswered
  <1> QED BY <1>2, <1>3, <1>4, <1>5, Unmoved, CallStepTypes

\* The application starts a call.
LEMMA BeginTypes ==
    ASSUME Types, SendFrame \/ StartIoctl
    PROVE  Types'
  <1>1. /\ Call("frame", Own, 0, "resolve") \in Calls
        /\ ioctl.id < MaxIoctls => Call("ioctl", Own, ioctl.id + 1, "credit") \in Calls
    BY CallShape, Unmoved, Sizes DEF Command, Pc
  <1>2. \A c \in Calls : <<c>> \in Seq(Calls) /\ Len(<<c>>) <= MaxDepth
    BY Sizes
  <1>3. calls' \in Seq(Calls) /\ Len(calls') <= MaxDepth
    BY <1>1, <1>2 DEF SendFrame, StartIoctl
  <1>4. ioctl' \in [id : Command, pending : BOOLEAN, resp : Command]
    <2>1. ioctl.id < MaxIoctls => ioctl.id + 1 \in Command
      BY Unmoved, Sizes DEF Command
    <2> QED BY <2>1, Unmoved DEF SendFrame, StartIoctl
  <1> QED BY <1>3, <1>4, Unmoved, CallStepTypes DEF SendFrame, StartIoctl

\* A step of the chip leaves the host alone.
LEMMA ChipStepTypes ==
    ASSUME Types, chip' \in Chip, Len(chip'.queue) <= MaxIn,
           UNCHANGED <<seq, seqMax, rxBuf, txPkt, calls, ioctl, returned>>
    PROVE  Types'
  BY DEF Types, TypeOK, Chip, Number

LEMMA ConsumeTypes ==
    ASSUME Types, Consume
    PROVE  Types' /\ chip'.queue = chip.queue
  <1> DEFINE n == chip.holds - 1
             c == (chip.consumed + 1) % BusMod
  <1>1. n \in Nat /\ c \in Number
    <2>1. chip.holds \in Nat /\ chip.holds > 0 /\ chip.consumed \in Number
      BY Unmoved DEF Consume, Chip
    <2> QED BY <2>1, Sizes DEF Number
  <1>2. chip' = [chip EXCEPT !.holds = n, !.consumed = c]
    BY DEF Consume
  <1> HIDE DEF n, c
  <1>3. chip' \in Chip /\ chip'.queue = chip.queue
    BY <1>1, <1>2, Unmoved DEF Chip
  <1>4. Len(chip.queue) <= MaxIn
    BY DEF Types, TypeOK
  <1> QED BY <1>3, <1>4, ChipStepTypes DEF Consume

LEMMA CreditType ==
    ASSUME Types
    PROVE  Credit \in Number
  <1>1. chip.consumed + Window \in Int
    BY Unmoved, Sizes DEF Chip, Number
  <1> QED BY <1>1, Sizes DEF Credit, Number

\* A packet for the host joins the queue with the credit of now.
LEMMA QueuedShape ==
    ASSUME Types, NEW kind \in {"request", "answer", "failure", "event"},
           NEW of \in Content, NEW id \in Command, Queued(kind, of, id)
    PROVE  /\ Types'
           /\ chip'.queue = Append(chip.queue, [kind |-> kind, of |-> of, id |-> id,
                                                credit |-> Credit])
           /\ chip'.holds = chip.holds /\ chip'.consumed = chip.consumed
  <1> DEFINE new == [kind |-> kind, of |-> of, id |-> id, credit |-> Credit]
             q == Append(chip.queue, new)
             waiting == chip.commands \ {id}
             done == IF kind = "answer" THEN chip.done \cup {id} ELSE chip.done
             failed == IF kind = "failure" THEN chip.failed \cup {id} ELSE chip.failed
             r == Credit
  <1>1. new \in PacketIn /\ r \in Number
    BY CreditType DEF PacketIn
  <1>2. chip.queue \in Seq(PacketIn) /\ Len(chip.queue) < MaxIn
    BY Unmoved DEF Chip, Queued
  <1> HIDE DEF new
  <1>3. q \in Seq(PacketIn) /\ Len(q) <= MaxIn
    BY <1>1, <1>2, Sizes
  <1>4. waiting \in SUBSET Command /\ done \in SUBSET Command /\ failed \in SUBSET Command
    BY Unmoved DEF Chip
  <1>5. chip' = [chip EXCEPT !.queue = q, !.reported = r, !.commands = waiting,
                             !.done = done, !.failed = failed]
    BY DEF Queued, new
  <1> HIDE DEF q, waiting, done, failed, r
  <1>6. chip' \in Chip /\ chip'.queue = q
        /\ chip'.holds = chip.holds /\ chip'.consumed = chip.consumed
    BY <1>1, <1>3, <1>4, <1>5, Unmoved DEF Chip
  <1>7. Types'
    BY <1>3, <1>6, ChipStepTypes DEF Queued
  <1> QED BY <1>6, <1>7 DEF q, new

\* The three ways a packet comes to the host, in one.
LEMMA Arrivals ==
    ASSUME Types, RequestArrives \/ AnswerArrives \/ EventArrives
    PROVE  \E kind \in {"request", "answer", "failure", "event"}, of \in Content,
              id \in Command : Queued(kind, of, id)
  <1>1. CASE RequestArrives
    BY <1>1, Sizes DEF RequestArrives, Content, Command
  <1>2. CASE AnswerArrives
    <2>1. PICK id \in chip.commands, kind \in {"answer", "failure"} : Queued(kind, None, id)
      BY <1>2 DEF AnswerArrives
    <2>2. id \in Command
      BY <2>1, Unmoved DEF Chip
    <2> QED BY <2>1, <2>2, Unmoved
  <1>3. CASE EventArrives
    BY <1>3, Sizes, Unmoved DEF EventArrives, Command
  <1> QED BY <1>1, <1>2, <1>3

----------------------------------------------------------------------------
(* Arithmetic of the distances.                                            *)

\* One more packet written.
LEMMA OneAhead ==
    ASSUME NEW m \in Nat \ {0}, NEW x \in 0..(m - 1), NEW c \in 0..(m - 1),
           ((x - c) % m) + 1 < m
    PROVE  (((x + 1) % m) - c) % m = ((x - c) % m) + 1
  OBVIOUS

\* One more packet consumed.
LEMMA OneBehind ==
    ASSUME NEW m \in Nat \ {0}, NEW x \in 0..(m - 1), NEW c \in 0..(m - 1),
           1 <= (x - c) % m
    PROVE  (x - ((c + 1) % m)) % m = ((x - c) % m) - 1
  OBVIOUS

\* The chip skips numbers that it did not get.
LEMMA Skipped ==
    ASSUME NEW m \in Nat \ {0}, NEW x \in 0..(m - 1), NEW y \in 0..(m - 1),
           NEW c \in 0..(m - 1), NEW h \in Nat,
           h <= (y - c) % m, (y - c) % m <= (x - c) % m
    PROVE  (x - ((y - h) % m)) % m = ((x - c) % m) - (((y - c) % m) - h)
  OBVIOUS

\* A whole window ahead.
LEMMA WindowAhead ==
    ASSUME NEW m \in Nat \ {0}, NEW c \in 0..(m - 1), NEW w \in 0..(m - 1)
    PROVE  (((c + w) % m) - c) % m = w
  OBVIOUS

\* How far one number is ahead of another that is not ahead of it.
LEMMA Difference ==
    ASSUME NEW m \in Nat \ {0}, NEW c \in 0..(m - 1),
           NEW x \in 0..(m - 1), NEW y \in 0..(m - 1), (y - c) % m <= (x - c) % m
    PROVE  (x - y) % m = ((x - c) % m) - ((y - c) % m)
  OBVIOUS

\* Numbers as far ahead are the same.
LEMMA SameAhead ==
    ASSUME NEW m \in Nat \ {0}, NEW c \in 0..(m - 1),
           NEW x \in 0..(m - 1), NEW y \in 0..(m - 1), (x - c) % m = (y - c) % m
    PROVE  x = y
  OBVIOUS

----------------------------------------------------------------------------
(* Every step keeps the order of the numbers.                              *)

\* The credits on their way are numbers.
LEMMA QueueNumbers ==
    ASSUME Types
    PROVE  /\ Len(chip.queue) \in Nat
           /\ \A i \in 1..Len(chip.queue) : chip.queue[i].credit \in Number
           /\ chip.consumed \in Number /\ chip.holds \in Nat
           /\ seq \in Number /\ seqMax \in Number
  <1>1. chip.queue \in Seq(PacketIn)
    BY DEF Types, Chip
  <1>2. \A i \in 1..Len(chip.queue) : chip.queue[i] \in PacketIn
    BY <1>1
  <1> QED BY <1>1, <1>2, Unmoved DEF Chip, PacketIn

LEMMA OrderUntouched ==
    ASSUME Order, Types', seq' = seq, seqMax' = seqMax,
           chip'.queue = chip.queue, chip'.holds = chip.holds,
           chip'.consumed = chip.consumed
    PROVE  Order'
  BY DEF Order, Ahead

\* The credit of the oldest packet is no further ahead than is believed, so it
\* is taken as it is, unless it is zero.
LEMMA CreditTaken ==
    ASSUME Order, chip.queue # <<>>
    PROVE  NewMax(Head(chip.queue).credit) \in {seqMax, chip.queue[1].credit}
  <1>1. /\ Head(chip.queue) = chip.queue[1] /\ 1 \in 1..Len(chip.queue)
        /\ chip.queue[1].credit \in Number
    BY QueueNumbers DEF Order, Types, Chip
  <1> DEFINE k == chip.queue[1].credit
  <1>2. /\ chip.holds <= Ahead(seq) /\ Ahead(seq) <= Ahead(seqMax)
        /\ Ahead(seqMax) <= Ahead(k) /\ Ahead(k) <= Window
        /\ chip.holds \in Nat
    BY <1>1, QueueNumbers DEF Order
  <1>3. k \in 0..(BusMod - 1) /\ seq \in 0..(BusMod - 1) /\ seqMax \in 0..(BusMod - 1)
        /\ chip.consumed \in 0..(BusMod - 1) /\ BusMod \in Nat \ {0}
    BY <1>1, QueueNumbers, Sizes DEF Order, Number
  <1> HIDE DEF k
  <1>4. Ahead(seq) \in Int /\ Ahead(seqMax) \in Int /\ Ahead(k) \in Int
    BY <1>3 DEF Ahead
  <1>5. Ahead(seq) <= Ahead(k)
    BY <1>2, <1>4
  <1>6. (k - seq) % BusMod = Ahead(k) - Ahead(seq)
    BY <1>3, <1>5, Difference DEF Ahead
  <1>7. (k - seq) % BusMod <= FarAhead
    BY <1>2, <1>4, <1>6, Sizes
  <1>8. (k - seq) % BusMod \in Int
    BY <1>4, <1>6
  <1>9. NewMax(k) \in {seqMax, k}
    BY <1>7, <1>8, Sizes DEF NewMax
  <1> QED BY <1>1, <1>9 DEF k

LEMMA PollOrder ==
    ASSUME Order, Poll
    PROVE  Order'
  <1>1. Types'
    BY PollTypes DEF Order
  <1>2. /\ chip' = [chip EXCEPT !.queue = Tail(@)]
        /\ chip.queue # <<>>
        /\ seqMax' = NewMax(Head(chip.queue).credit)
        /\ seq' = seq
    BY DEF Poll
  <1> DEFINE rest == Tail(chip.queue)
  <1>3. /\ Len(rest) = Len(chip.queue) - 1
        /\ \A i \in 1..Len(rest) : rest[i] = chip.queue[i + 1] /\ i + 1 \in 1..Len(chip.queue)
        /\ 1 \in 1..Len(chip.queue) /\ Len(chip.queue) \in Nat
    BY <1>2 DEF Order, Types, Chip
  <1>4. /\ chip'.queue = rest
        /\ chip'.holds = chip.holds /\ chip'.consumed = chip.consumed
    <2> HIDE DEF rest
    <2>1. chip' = [chip EXCEPT !.queue = rest]
      BY <1>2 DEF rest
    <2> QED BY <2>1 DEF Order, Types, Chip
  <1>5. seqMax' \in {seqMax, chip.queue[1].credit}
    BY <1>2, CreditTaken
  <1> HIDE DEF rest
  <1>6. \A x : Ahead(x) = (x - chip.consumed) % BusMod
    BY DEF Ahead
  <1>7. /\ Ahead(seq)' = Ahead(seq) /\ Ahead(seqMax)' = Ahead(seqMax')
        /\ \A i : Ahead(chip.queue[i].credit)' = Ahead(rest[i].credit)
    BY <1>2, <1>4 DEF Ahead
  <1>8. /\ chip.holds \in Nat
        /\ Ahead(seq) \in Int /\ Ahead(seqMax) \in Int
        /\ \A i \in 1..Len(chip.queue) : Ahead(chip.queue[i].credit) \in Int
    <2>1. /\ BusMod \in Nat \ {0} /\ chip.consumed \in Int /\ seq \in Int /\ seqMax \in Int
          /\ \A i \in 1..Len(chip.queue) : chip.queue[i].credit \in Int
          /\ chip.holds \in Nat
      BY QueueNumbers, Sizes DEF Order, Number
    <2> QED BY <2>1 DEF Ahead
  <1>9. /\ Ahead(seq) <= Ahead(seqMax') /\ Ahead(seqMax') <= Window
        /\ Ahead(seqMax') <= Ahead(chip.queue[1].credit)
    BY <1>3, <1>5, <1>8, Sizes DEF Order
  <1>10. \A i \in 1..Len(chip.queue) : Ahead(seqMax') <= Ahead(chip.queue[i].credit)
    BY <1>3, <1>5, <1>8, <1>9 DEF Order
  <1>11. /\ chip'.holds <= Ahead(seq)' /\ Ahead(seq)' <= Ahead(seqMax)'
         /\ Ahead(seqMax)' <= Window
    BY <1>4, <1>7, <1>9 DEF Order
  <1>12. \A i \in 1..Len(rest) : /\ Ahead(seqMax)' <= Ahead(rest[i].credit)
                                 /\ Ahead(rest[i].credit) <= Window
    BY <1>3, <1>7, <1>10 DEF Order
  <1>13. \A i, j \in 1..Len(rest) : i <= j => Ahead(rest[i].credit) <= Ahead(rest[j].credit)
    <2> SUFFICES ASSUME NEW i \in 1..Len(rest), NEW j \in 1..Len(rest), i <= j
                 PROVE  Ahead(rest[i].credit) <= Ahead(rest[j].credit)
      OBVIOUS
    <2>1. i + 1 <= j + 1 /\ i + 1 \in 1..Len(chip.queue) /\ j + 1 \in 1..Len(chip.queue)
      BY <1>3
    <2>2. Ahead(chip.queue[i + 1].credit) <= Ahead(chip.queue[j + 1].credit)
      BY <2>1 DEF Order
    <2> QED BY <1>3, <2>2
  <1>14. /\ \A i \in 1..Len(chip'.queue) :
                /\ Ahead(seqMax)' <= Ahead(chip.queue[i].credit)'
                /\ Ahead(chip.queue[i].credit)' <= Window
         /\ \A i, j \in 1..Len(chip'.queue) :
                i <= j => Ahead(chip.queue[i].credit)' <= Ahead(chip.queue[j].credit)'
    BY <1>4, <1>7, <1>12, <1>13
  <1> QED BY <1>1, <1>11, <1>14 DEF Order

\* Every number that counts comes nearer by as much, if the chip skips some.
LEMMA Nearer ==
    ASSUME Order, Types', chip'.queue = chip.queue, seqMax' = seqMax, NEW gap \in Nat,
           Ahead(seq') <= Ahead(seqMax), chip'.holds + gap <= Ahead(seq'),
           \A x \in Number : Ahead(seq') <= Ahead(x) =>
                (x - chip'.consumed) % BusMod = Ahead(x) - gap
    PROVE  Order'
  <1>1. /\ Len(chip.queue) \in Nat /\ seqMax \in Number /\ seq' \in Number
        /\ \A i \in 1..Len(chip.queue) : chip.queue[i].credit \in Number
        /\ chip'.holds \in Nat
    BY QueueNumbers, Unmoved DEF Order, Types, TypeOK, Number, Chip
  <1>2. \A x \in Number : Ahead(x) \in Int
    BY QueueNumbers, Sizes DEF Ahead, Number, Order
  <1>3. \A i \in 1..Len(chip.queue) : Ahead(seq') <= Ahead(chip.queue[i].credit)
    BY <1>1, <1>2 DEF Order
  <1>4. /\ Ahead(seq)' = Ahead(seq') - gap /\ Ahead(seqMax)' = Ahead(seqMax) - gap
        /\ \A i \in 1..Len(chip.queue) :
              Ahead(chip.queue[i].credit)' = Ahead(chip.queue[i].credit) - gap
    <2>1. /\ Ahead(seq)' = (seq' - chip'.consumed) % BusMod
          /\ Ahead(seqMax)' = (seqMax - chip'.consumed) % BusMod
          /\ \A i \in 1..Len(chip.queue) :
                Ahead(chip.queue[i].credit)' = (chip.queue[i].credit - chip'.consumed) % BusMod
      BY DEF Ahead
    <2>2. Ahead(seq') <= Ahead(seq')
      BY <1>1, <1>2
    <2> QED BY <1>1, <1>3, <2>1, <2>2
  <1>5. /\ chip'.holds <= Ahead(seq)' /\ Ahead(seq)' <= Ahead(seqMax)' /\ Ahead(seqMax)' <= Window
    BY <1>1, <1>2, <1>4, Sizes DEF Order
  <1>6. ASSUME NEW i \in 1..Len(chip.queue)
        PROVE  /\ Ahead(seqMax)' <= Ahead(chip.queue[i].credit)'
               /\ Ahead(chip.queue[i].credit)' <= Window
    <2>1. /\ Ahead(seqMax) <= Ahead(chip.queue[i].credit)
          /\ Ahead(chip.queue[i].credit) <= Window
      BY DEF Order
    <2>2. Ahead(seqMax) \in Int /\ Ahead(chip.queue[i].credit) \in Int
      BY <1>1, <1>2
    <2> QED BY <1>4, <2>1, <2>2, Sizes
  <1>7. ASSUME NEW i \in 1..Len(chip.queue), NEW j \in 1..Len(chip.queue), i <= j
        PROVE  Ahead(chip.queue[i].credit)' <= Ahead(chip.queue[j].credit)'
    <2>1. Ahead(chip.queue[i].credit) <= Ahead(chip.queue[j].credit)
      BY <1>7 DEF Order
    <2>2. Ahead(chip.queue[i].credit) \in Int /\ Ahead(chip.queue[j].credit) \in Int
      BY <1>1, <1>2
    <2> QED BY <1>4, <2>1, <2>2
  <1> QED BY <1>5, <1>6, <1>7 DEF Order

LEMMA WriteOrder ==
    ASSUME Order, Write \/ WriteFails
    PROVE  Order'
  <1>1. Types'
    BY WriteTypes DEF Order
  <1>2. /\ seq' = (seq + 1) % BusMod /\ NextSeq = seq' /\ seqMax' = seqMax /\ seq # seqMax
    BY DEF Write, WriteFails, Numbers, Ready, NextSeq
  <1>3. /\ chip'.queue = chip.queue
        /\ \/ chip'.holds = chip.holds /\ chip'.consumed = chip.consumed
           \/ /\ chip'.holds = chip.holds + 1
              /\ chip'.consumed \in {chip.consumed, (seq' - (chip.holds + 1)) % BusMod}
    BY <1>2, WrittenType DEF Order
  <1>4. /\ seq \in 0..(BusMod - 1) /\ seqMax \in 0..(BusMod - 1)
        /\ chip.consumed \in 0..(BusMod - 1) /\ BusMod \in Nat \ {0}
        /\ chip.holds \in Nat
    BY QueueNumbers, Sizes DEF Order, Number
  <1>5. Ahead(seqMax) \in Int /\ Ahead(seq) \in Int
    BY <1>4 DEF Ahead
  <1>6. Ahead(seqMax) # Ahead(seq)
    BY <1>2, <1>4, SameAhead DEF Ahead
  <1>7. Ahead(seq) + 1 <= Ahead(seqMax) /\ Ahead(seq) + 1 < BusMod
    BY <1>5, <1>6, <1>4, Sizes DEF Order
  <1>8. Ahead(seq') = Ahead(seq) + 1
    BY <1>2, <1>4, <1>7, OneAhead DEF Ahead
  <1>9. Ahead(seq') <= Ahead(seqMax) /\ chip.holds + 1 <= Ahead(seq')
    BY <1>4, <1>5, <1>7, <1>8 DEF Order
  <1>10. CASE chip'.consumed = chip.consumed
    <2>1. \A x \in Number : (x - chip'.consumed) % BusMod = Ahead(x) - 0
      BY <1>4, <1>10 DEF Ahead, Number
    <2>2. chip'.holds + 0 <= Ahead(seq')
      BY <1>3, <1>4, <1>5, <1>8, <1>9
    <2> QED BY <1>1, <1>2, <1>3, <1>9, <2>1, <2>2, Nearer
  <1>11. CASE chip'.consumed # chip.consumed
    <2> DEFINE gap == Ahead(seq') - (chip.holds + 1)
    <2>1. gap \in Nat /\ chip'.holds = chip.holds + 1
          /\ chip'.consumed = (seq' - (chip.holds + 1)) % BusMod
      BY <1>3, <1>4, <1>5, <1>8, <1>9, <1>11
    <2>2. ASSUME NEW x \in Number, Ahead(seq') <= Ahead(x)
          PROVE  (x - chip'.consumed) % BusMod = Ahead(x) - gap
      <3>1. seq' \in 0..(BusMod - 1) /\ x \in 0..(BusMod - 1) /\ chip.holds + 1 \in Nat
        BY <1>2, <1>4 DEF Number
      <3>2. PICK h \in Nat : h = chip.holds + 1
        BY <3>1
      <3>3. h <= (seq' - chip.consumed) % BusMod
            /\ (seq' - chip.consumed) % BusMod <= (x - chip.consumed) % BusMod
        BY <1>9, <2>2, <3>2 DEF Ahead
      <3>4. (x - ((seq' - h) % BusMod)) % BusMod = Ahead(x) - (Ahead(seq') - h)
        <4>1. PICK m \in Nat \ {0} : m = BusMod
          BY <1>4
        <4>2. PICK y \in 0..(m - 1) : y = seq'
          BY <3>1, <4>1
        <4>3. PICK c \in 0..(m - 1) : c = chip.consumed
          BY <1>4, <4>1
        <4>4. x \in 0..(m - 1) /\ h <= (y - c) % m /\ (y - c) % m <= (x - c) % m
          BY <3>1, <3>3, <4>1, <4>2, <4>3
        <4>5. (x - ((y - h) % m)) % m = ((x - c) % m) - (((y - c) % m) - h)
          BY <4>4, Skipped
        <4> QED BY <4>1, <4>2, <4>3, <4>5 DEF Ahead
      <3> QED BY <2>1, <3>2, <3>4
    <2>3. chip'.holds + gap <= Ahead(seq')
      BY <1>4, <1>5, <1>8, <2>1
    <2> HIDE DEF gap
    <2> QED BY <1>1, <1>2, <1>3, <1>9, <2>1, <2>2, <2>3, Nearer
  <1> QED BY <1>10, <1>11

LEMMA ConsumeOrder ==
    ASSUME Order, Consume
    PROVE  Order'
  <1>1. Types' /\ chip'.queue = chip.queue
    BY ConsumeTypes DEF Order
  <1>2. /\ chip'.holds = chip.holds - 1
        /\ chip'.consumed = (chip.consumed + 1) % BusMod
        /\ seq' = seq /\ seqMax' = seqMax
        /\ chip.holds > 0
    <2>1. /\ DOMAIN chip = {"queue", "holds", "consumed", "reported", "commands",
                            "done", "failed"}
      BY DEF Order, Types, Chip
    <2> QED BY <2>1 DEF Consume
  <1>3. /\ seq \in Number /\ seqMax \in Number /\ chip.consumed \in 0..(BusMod - 1)
        /\ BusMod \in Nat \ {0} /\ chip.holds \in Nat
        /\ Len(chip.queue) \in Nat
        /\ \A i \in 1..Len(chip.queue) : chip.queue[i].credit \in Number
    BY QueueNumbers, Sizes DEF Order, Number
  <1>4. ASSUME NEW x \in Number, 1 <= Ahead(x)
        PROVE  (x - chip'.consumed) % BusMod = Ahead(x) - 1
    <2>1. x \in 0..(BusMod - 1)
      BY DEF Number
    <2> QED BY <2>1, <1>2, <1>3, <1>4, OneBehind DEF Ahead
  <1>5. \A x \in Number : Ahead(x) \in Int
    BY <1>3 DEF Ahead, Number
  <1>6. /\ 1 <= Ahead(seq) /\ 1 <= Ahead(seqMax)
        /\ \A i \in 1..Len(chip.queue) : 1 <= Ahead(chip.queue[i].credit)
    BY <1>2, <1>3, <1>5 DEF Order
  <1>7. /\ Ahead(seq)' = Ahead(seq) - 1 /\ Ahead(seqMax)' = Ahead(seqMax) - 1
        /\ \A i \in 1..Len(chip.queue) :
              Ahead(chip.queue[i].credit)' = Ahead(chip.queue[i].credit) - 1
    BY <1>1, <1>2, <1>3, <1>4, <1>6 DEF Ahead
  <1>8. /\ chip'.holds <= Ahead(seq)' /\ Ahead(seq)' <= Ahead(seqMax)' /\ Ahead(seqMax)' <= Window
    BY <1>2, <1>3, <1>5, <1>7, Sizes DEF Order
  <1>9. ASSUME NEW i \in 1..Len(chip.queue)
        PROVE  /\ Ahead(seqMax)' <= Ahead(chip.queue[i].credit)'
               /\ Ahead(chip.queue[i].credit)' <= Window
    <2>1. /\ Ahead(seqMax) <= Ahead(chip.queue[i].credit)
          /\ Ahead(chip.queue[i].credit) <= Window
      BY DEF Order
    <2>2. Ahead(seqMax) \in Int /\ Ahead(chip.queue[i].credit) \in Int
      BY <1>3, <1>5
    <2> QED BY <1>7, <2>1, <2>2, Sizes
  <1>10. ASSUME NEW i \in 1..Len(chip.queue), NEW j \in 1..Len(chip.queue), i <= j
         PROVE  Ahead(chip.queue[i].credit)' <= Ahead(chip.queue[j].credit)'
    <2>1. Ahead(chip.queue[i].credit) <= Ahead(chip.queue[j].credit)
      BY <1>10 DEF Order
    <2>2. Ahead(chip.queue[i].credit) \in Int /\ Ahead(chip.queue[j].credit) \in Int
      BY <1>3, <1>5
    <2> QED BY <1>7, <2>1, <2>2
  <1> QED BY <1>1, <1>8, <1>9, <1>10 DEF Order

LEMMA ArriveOrder ==
    ASSUME Order, RequestArrives \/ AnswerArrives \/ EventArrives
    PROVE  Order'
  <1>1. PICK kind \in {"request", "answer", "failure", "event"}, of \in Content,
             id \in Command : Queued(kind, of, id)
    BY Arrivals DEF Order
  <1> DEFINE new == [kind |-> kind, of |-> of, id |-> id, credit |-> Credit]
  <1>2. /\ Types' /\ chip'.queue = Append(chip.queue, new)
        /\ chip'.holds = chip.holds /\ chip'.consumed = chip.consumed
        /\ seq' = seq /\ seqMax' = seqMax
    BY ZenonT(60), <1>1, QueuedShape DEF Order, Queued
  <1>3. /\ Len(chip.queue) \in Nat /\ chip.queue \in Seq(PacketIn)
        /\ seqMax \in Number /\ chip.consumed \in 0..(BusMod - 1)
        /\ BusMod \in Nat \ {0}
        /\ \A i \in 1..Len(chip.queue) : chip.queue[i].credit \in Number
    BY QueueNumbers, Sizes DEF Order, Number, Types, Chip
  <1>4. new.credit = Credit
    OBVIOUS
  <1> HIDE DEF new
  <1>0. PICK last \in Nat : last = Len(chip.queue) + 1
    BY <1>3
  <1>5. /\ Len(chip'.queue) = last
        /\ chip'.queue[last] = new
        /\ \A i \in 1..Len(chip.queue) : chip'.queue[i] = chip.queue[i]
    BY <1>0, <1>2, <1>3
  <1>6. Ahead(Credit) = Window
    <2>1. Window \in 0..(BusMod - 1)
      BY Sizes
    <2> QED BY <1>3, <2>1, WindowAhead DEF Ahead, Credit
  <1>7. /\ Ahead(seq)' = Ahead(seq) /\ Ahead(seqMax)' = Ahead(seqMax)
        /\ Ahead(chip.queue[last].credit)' = Window
        /\ \A i \in 1..Len(chip.queue) :
              Ahead(chip.queue[i].credit)' = Ahead(chip.queue[i].credit)
    <2>1. \A x : (x - chip'.consumed) % BusMod = Ahead(x)
      BY <1>2 DEF Ahead
    <2>2. /\ Ahead(chip.queue[last].credit)' = Ahead(chip'.queue[last].credit)
          /\ \A i \in 1..Len(chip.queue) :
                Ahead(chip.queue[i].credit)' = Ahead(chip'.queue[i].credit)
      BY <1>2 DEF Ahead
    <2> QED BY <1>2, <1>4, <1>5, <1>6, <2>1, <2>2 DEF Ahead
  <1>8. Ahead(seqMax) \in Int
        /\ \A i \in 1..Len(chip.queue) : Ahead(chip.queue[i].credit) \in Int
    BY <1>3 DEF Ahead, Number
  <1>9. \A i \in 1..last : i = last \/ i \in 1..Len(chip.queue)
    BY <1>0, <1>3
  <1>10. ASSUME NEW i \in 1..last
         PROVE  /\ Ahead(seqMax)' <= Ahead(chip.queue[i].credit)'
                /\ Ahead(chip.queue[i].credit)' <= Window
    <2>1. CASE i = last
      BY <2>1, <1>7, <1>8, Sizes DEF Order
    <2>2. CASE i \in 1..Len(chip.queue)
      BY <2>2, <1>7 DEF Order
    <2> QED BY <2>1, <2>2, <1>9
  <1>11. ASSUME NEW i \in 1..last, NEW j \in 1..last, i <= j
         PROVE  Ahead(chip.queue[i].credit)' <= Ahead(chip.queue[j].credit)'
    <2>1. CASE j = last
      BY <2>1, <1>7, <1>10
    <2>2. CASE j # last
      <3>1. j \in 1..Len(chip.queue) /\ i \in 1..Len(chip.queue)
        BY <2>2, <1>0, <1>3, <1>9, <1>11
      <3> QED BY <3>1, <1>7, <1>11 DEF Order
    <2> QED BY <2>1, <2>2
  <1>12. /\ chip'.holds <= Ahead(seq)' /\ Ahead(seq)' <= Ahead(seqMax)'
         /\ Ahead(seqMax)' <= Window
    BY <1>2, <1>7 DEF Order
  <1> QED BY <1>2, <1>5, <1>10, <1>11, <1>12 DEF Order

\* A step that neither numbers a packet nor learns a credit.
LEMMA QuietStep ==
    ASSUME Order, Types', UNCHANGED <<seq, seqMax, chip>>
    PROVE  Order'
  BY OrderUntouched

LEMMA InitOrder == Init => Order
  <1> SUFFICES ASSUME Init PROVE Order
    OBVIOUS
  <1>1. /\ chip.queue = <<>> /\ chip.holds = 0 /\ chip.consumed = 0
        /\ seq = 0 /\ seqMax = 1
    BY DEF Init
  <1>2. 0 \in Number /\ 1 \in Number /\ 0 \in Command
    BY Sizes DEF Number, Command
  <1>3. chip \in Chip
    BY <1>2 DEF Init, Chip
  <1>4. TypeOK
    BY <1>2, Sizes DEF Init, TypeOK, Number, Command, Content
  <1>5. Ahead(seq) = 0 /\ Ahead(seqMax) = 1
    <2>1. (0 - 0) % BusMod = 0 /\ (1 - 0) % BusMod = 1
      BY Sizes
    <2> QED BY <1>1, <2>1 DEF Ahead
  <1> QED BY <1>1, <1>3, <1>4, <1>5, Sizes DEF Order, Types

----------------------------------------------------------------------------
(* A command and its answer.                                               *)

\* The commands the chip has said something about.
Told == chip.done \cup chip.failed

\* A command is the outermost call, for none is started under another call; and
\* while it waits, the answer that ends the wait is its own.
Waits(k, c) ==
    /\ c.kind = "ioctl" => k = 1
    /\ c.pc = "response" => /\ c.kind = "ioctl"
                            /\ c.id = ioctl.resp
                            /\ ioctl.pending \/ c.id \in Told

AllWait == \A k \in 1..Len(calls) : Waits(k, calls[k])

\* The inductive invariant of OwnAnswer.
Waiting ==
    /\ Types
    /\ OwnAnswer
    /\ AllWait
    /\ \A i \in 1..Len(chip.queue) :
            chip.queue[i].kind \in {"answer", "failure"} => chip.queue[i].id \in Told

\* A step after which no more calls wait than before, and none is answered
\* differently.
LEMMA WaitingKept ==
    ASSUME Waiting, Types', returned' = returned,
           ioctl'.resp = ioctl.resp, ioctl'.pending = ioctl.pending,
           \A k \in 1..Len(calls') :
                \/ k \in 1..Len(calls) /\ calls'[k] = calls[k]
                \/ calls'[k].kind # "ioctl" /\ calls'[k].pc # "response"
                \/ k = 1 /\ calls'[k].pc # "response",
           chip'.queue = chip.queue, chip'.done = chip.done, chip'.failed = chip.failed
    PROVE  Waiting'
  BY DEF Waiting, OwnAnswer, AllWait, Waits, Told

\* The calls below the innermost one, when it ends or goes on.
LEMMA BelowTop ==
    ASSUME TypeOK, Busy
    PROVE  /\ Len(Rest) = Len(calls) - 1
           /\ \A k \in 1..Len(Rest) : k \in 1..(Len(calls) - 1) /\ Rest[k] = calls[k]
           /\ \A pc \in Pc : /\ Len(GoesOn(pc)) = Len(calls)
                             /\ \A k \in 1..(Len(calls) - 1) : GoesOn(pc)[k] = calls[k]
                             /\ GoesOn(pc)[Len(calls)] = [Top EXCEPT !.pc = pc]
           /\ Len(calls) \in Nat \ {0} /\ Top \in Calls /\ Top = calls[Len(calls)]
  <1>1. /\ Len(calls) \in Nat \ {0} /\ calls \in Seq(Calls) /\ Top \in Calls
        /\ Top = calls[Len(calls)]
    BY TopShape DEF TypeOK, Top
  <1>2. /\ Len(Rest) = Len(calls) - 1
        /\ \A k \in 1..Len(Rest) : k \in 1..(Len(calls) - 1) /\ Rest[k] = calls[k]
    <2>1. PICK n \in Nat : n = Len(calls) - 1
      BY <1>1
    <2>2. Rest = SubSeq(calls, 1, n)
      BY <2>1 DEF Rest, Front
    <2>3. /\ Len(SubSeq(calls, 1, n)) = n
          /\ \A k \in 1..n : SubSeq(calls, 1, n)[k] = calls[k]
      BY <1>1, <2>1
    <2> QED BY <2>1, <2>2, <2>3
  <1>3. ASSUME NEW pc \in Pc
        PROVE  /\ Len(GoesOn(pc)) = Len(calls)
               /\ \A k \in 1..(Len(calls) - 1) : GoesOn(pc)[k] = calls[k]
               /\ GoesOn(pc)[Len(calls)] = [Top EXCEPT !.pc = pc]
    <2>1. GoesOn(pc) = [calls EXCEPT ![Len(calls)] = [calls[Len(calls)] EXCEPT !.pc = pc]]
      BY DEF GoesOn
    <2> QED BY <1>1, <2>1
  <1> QED BY <1>1, <1>2, <1>3

\* A call other than a command goes on to anything but a wait for an answer.
LEMMA TopGoesOn ==
    ASSUME TypeOK, Busy, NEW pc \in Pc \ {"response"}
    PROVE  LET c == GoesOn(pc)[Len(calls)]
           IN  c.kind = Top.kind /\ c.pc = pc
  <1>1. Top \in Calls /\ GoesOn(pc)[Len(calls)] = [Top EXCEPT !.pc = pc]
    BY BelowTop
  <1> QED BY <1>1 DEF Calls

LEMMA BusyWaiting ==
    ASSUME Waiting, Busy
    PROVE  /\ TypeOK
           /\ Waits(Len(calls), Top)
  BY BelowTop DEF Waiting, AllWait, Types

\* The steps of the calls other than commands and polls.
LEMMA OtherCallsWaiting ==
    ASSUME Waiting, AskArp \/ Build \/ SendFrame \/ StartIoctl
    PROVE  Waiting'
  <1>1. Types'
    BY AskArpTypes, BuildTypes, BeginTypes DEF Waiting
  <1>2. /\ returned' = returned /\ chip' = chip
        /\ ioctl'.resp = ioctl.resp /\ ioctl'.pending = ioctl.pending
    <2>1. ioctl \in [id : Command, pending : BOOLEAN, resp : Command]
      BY Unmoved DEF Waiting
    <2> QED BY <2>1 DEF AskArp, Build, SendFrame, StartIoctl
  <1>3. CASE AskArp
    <2>1. Busy /\ calls' = Append(GoesOn("resolving"), Call("arp", Arp, 0, "credit"))
          /\ Top.pc \in {"resolve", "resolving"}
      BY <1>3 DEF AskArp, TopAt
    <2> DEFINE s == GoesOn("resolving")
    <2>2. /\ s \in Seq(Calls) /\ Len(s) = Len(calls) /\ Len(calls) \in Nat \ {0}
          /\ \A k \in 1..(Len(calls) - 1) : s[k] = calls[k]
          /\ s[Len(calls)].kind = Top.kind /\ s[Len(calls)].pc = "resolving"
      BY <2>1, BusyWaiting, BelowTop, TopGoesOn, GoesOnShape DEF Pc
    <2>3. Top.kind = "ioctl" => Len(calls) = 1
      BY <2>1, BusyWaiting DEF Waits
    <2> HIDE DEF s
    <2>4. /\ Len(calls') = Len(calls) + 1
          /\ \A k \in 1..Len(calls) : calls'[k] = s[k]
          /\ calls'[Len(calls) + 1] = Call("arp", Arp, 0, "credit")
      BY <2>1, <2>2 DEF s
    <2>5. /\ Call("arp", Arp, 0, "credit").kind # "ioctl"
          /\ Call("arp", Arp, 0, "credit").pc # "response"
      BY DEF Call
    <2>6. ASSUME NEW k \in 1..Len(calls')
          PROVE  \/ k \in 1..Len(calls) /\ calls'[k] = calls[k]
                 \/ calls'[k].kind # "ioctl" /\ calls'[k].pc # "response"
                 \/ k = 1 /\ calls'[k].pc # "response"
      <3>1. k \in 1..(Len(calls) - 1) \/ k = Len(calls) \/ k = Len(calls) + 1
        BY <2>2, <2>4
      <3>2. CASE k \in 1..(Len(calls) - 1)
        BY <3>2, <2>2, <2>4
      <3>3. CASE k = Len(calls)
        BY <3>3, <2>2, <2>3, <2>4
      <3>4. CASE k = Len(calls) + 1
        BY <3>4, <2>4, <2>5
      <3> QED BY <3>1, <3>2, <3>3, <3>4
    <2> QED BY <1>1, <1>2, <2>6, WaitingKept
  <1>4. CASE Build
    <2>1. Busy /\ calls' = GoesOn("credit")
      BY <1>4 DEF Build, TopAt
    <2>2. /\ Len(calls') = Len(calls) /\ Len(calls) \in Nat \ {0}
          /\ \A k \in 1..(Len(calls) - 1) : calls'[k] = calls[k]
          /\ calls'[Len(calls)].kind = Top.kind /\ calls'[Len(calls)].pc = "credit"
      BY <2>1, BusyWaiting, BelowTop, TopGoesOn DEF Pc
    <2>3. Top.kind = "ioctl" => Len(calls) = 1
      BY <2>1, BusyWaiting DEF Waits
    <2>4. ASSUME NEW k \in 1..Len(calls')
          PROVE  \/ k \in 1..Len(calls) /\ calls'[k] = calls[k]
                 \/ calls'[k].kind # "ioctl" /\ calls'[k].pc # "response"
                 \/ k = 1 /\ calls'[k].pc # "response"
      <3>1. k \in 1..(Len(calls) - 1) \/ k = Len(calls)
        BY <2>2
      <3> QED BY <3>1, <2>2, <2>3
    <2> QED BY <1>1, <1>2, <2>4, WaitingKept
  <1>5. CASE SendFrame \/ StartIoctl
    <2>1. /\ Len(calls') = 1
          /\ calls'[1].pc # "response"
      BY <1>5 DEF SendFrame, StartIoctl, Call
    <2> QED BY <1>1, <1>2, <2>1, WaitingKept
  <1> QED BY <1>3, <1>4, <1>5

\* The steps that end a call, but those that end a command that waits.
LEMMA EndWaiting ==
    ASSUME Waiting, Types', calls' \in {calls, Rest}, calls' = Rest => Busy,
           returned' = returned, ioctl' = ioctl,
           chip'.queue = chip.queue, chip'.done = chip.done, chip'.failed = chip.failed
    PROVE  Waiting'
  <1>1. ASSUME NEW k \in 1..Len(calls')
        PROVE  k \in 1..Len(calls) /\ calls'[k] = calls[k]
    <2>1. CASE calls' = calls
      BY <2>1
    <2>2. CASE calls' = Rest
      BY <2>2, BelowTop DEF Waiting, Types
    <2> QED BY <2>1, <2>2
  <1> QED BY <1>1, WaitingKept

\* Below a command that waits there is no call.
LEMMA NothingBelow ==
    ASSUME Waiting, TopAt("response")
    PROVE  /\ Top.kind = "ioctl" /\ Len(calls) = 1 /\ Len(Rest) = 0
           /\ Top.id = ioctl.resp
           /\ ioctl.pending \/ Top.id \in Told
           /\ Busy
  BY BusyWaiting, BelowTop DEF TopAt, Waits

LEMMA AnsweredWaiting ==
    ASSUME Waiting, Answered \/ NotAnswered
    PROVE  Waiting'
  <1>1. Types'
    BY EndTypes DEF Waiting
  <1>2. Len(calls') = 0 /\ chip' = chip
    BY NothingBelow DEF Answered, NotAnswered
  <1>3. OwnAnswer'
    <2>1. CASE Answered
      <3>1. returned' = Top.id /\ Top.id \in Told
        BY <2>1, NothingBelow DEF Answered
      <3> QED BY <1>2, <3>1 DEF OwnAnswer, Told
    <2>2. CASE NotAnswered
      BY <1>2, <2>2 DEF NotAnswered, Waiting, OwnAnswer
    <2> QED BY <2>1, <2>2
  <1> QED BY <1>1, <1>2, <1>3 DEF Waiting, AllWait, Told

LEMMA WriteWaiting ==
    ASSUME Waiting, Write \/ WriteFails
    PROVE  Waiting'
  <1>1. Types' /\ Busy /\ returned' = returned
    BY WriteTypes DEF Waiting, Write, WriteFails, Numbers, Ready, TopAt
  <1>2. /\ chip'.queue = chip.queue /\ chip'.done = chip.done /\ chip'.failed = chip.failed
    BY WrittenType DEF Waiting
  <1>3. CASE WriteFails \/ Top.kind # "ioctl"
    <2>1. calls' = Rest /\ ioctl' = ioctl
      BY <1>3 DEF Write, WriteFails
    <2> QED BY <1>1, <1>2, <2>1, EndWaiting
  <1>4. CASE ~WriteFails /\ Top.kind = "ioctl"
    <2>1. calls' = GoesOn("response")
          /\ ioctl' = [ioctl EXCEPT !.pending = TRUE, !.resp = Top.id]
      BY <1>4 DEF Write
    <2>2. /\ Len(calls) = 1
          /\ Top \in Calls
          /\ Len(calls') = 1 /\ calls'[1] = [Top EXCEPT !.pc = "response"]
      BY <1>1, <1>4, <2>1, BusyWaiting, BelowTop DEF Waits, Pc
    <2>3. calls'[1].kind = "ioctl" /\ calls'[1].id = Top.id
      BY <1>4, <2>2 DEF Calls
    <2>4. ioctl'.pending = TRUE /\ ioctl'.resp = Top.id
      <3>1. ioctl \in [id : Command, pending : BOOLEAN, resp : Command]
        BY Unmoved DEF Waiting
      <3> QED BY <2>1, <3>1
    <2>5. AllWait'
      <3> SUFFICES ASSUME NEW k \in 1..Len(calls') PROVE Waits(k, calls[k])'
        BY DEF AllWait
      <3>1. k = 1 /\ calls'[k] = calls'[1]
        BY <2>2
      <3>2. calls'[k].kind = "ioctl" /\ calls'[k].id = ioctl'.resp /\ ioctl'.pending
        BY <3>1, <2>3, <2>4
      <3> QED BY <3>1, <3>2 DEF Waits
    <2> QED BY <1>1, <1>2, <2>5 DEF Waiting, OwnAnswer, Told
  <1> QED BY <1>3, <1>4

\* A poll takes an answer: if it is waited for, it is about the command that
\* waits.
LEMMA PollWaiting ==
    ASSUME Waiting, Poll
    PROVE  Waiting'
  <1> DEFINE p == Head(chip.queue)
  <1>1. Types'
    BY PollTypes DEF Waiting
  <1>2. /\ chip' = [chip EXCEPT !.queue = Tail(@)] /\ chip.queue # <<>>
        /\ returned' = returned /\ Len(calls) < MaxDepth
    BY DEF Poll, Polling
  <1>3. /\ chip'.queue = Tail(chip.queue)
        /\ chip'.done = chip.done /\ chip'.failed = chip.failed
    <2>1. DOMAIN chip = {"queue", "holds", "consumed", "reported", "commands",
                         "done", "failed"}
      BY DEF Waiting, Types, Chip
    <2> QED BY <1>2, <2>1
  <1>4. /\ p = chip.queue[1] /\ 1 \in 1..Len(chip.queue)
        /\ \A i \in 1..Len(chip'.queue) : /\ i + 1 \in 1..Len(chip.queue)
                                          /\ chip'.queue[i] = chip.queue[i + 1]
    BY <1>2, <1>3 DEF Waiting, Types, Chip
  <1> HIDE DEF p
  <1>5. /\ p.kind \in {"answer", "failure"} => p.id \in Told
        /\ \A i \in 1..Len(chip'.queue) :
              chip'.queue[i].kind \in {"answer", "failure"} => chip'.queue[i].id \in Told
    BY <1>4 DEF Waiting
  <1>6. Told' = Told /\ OwnAnswer'
    BY <1>2, <1>3 DEF Waiting, OwnAnswer, Told
  <1>7. /\ calls \in Seq(Calls) /\ Len(calls) \in Nat
        /\ ioctl \in [id : Command, pending : BOOLEAN, resp : Command]
    BY Unmoved DEF Waiting
  <1>8. AllWait'
    <2>1. CASE /\ calls' = Append(calls, Call("echo", p.of, 0, "resolve"))
               /\ ioctl' = ioctl
      <3>1. /\ Call("echo", p.of, 0, "resolve").kind = "echo"
            /\ Call("echo", p.of, 0, "resolve").pc = "resolve"
        BY DEF Call
      <3>2. ASSUME NEW k \in 1..Len(calls')
            PROVE  \/ k \in 1..Len(calls) /\ calls'[k] = calls[k]
                   \/ calls'[k] = Call("echo", p.of, 0, "resolve")
        BY <1>7, <2>1
      <3> QED BY <1>6, <2>1, <3>1, <3>2 DEF AllWait, Waits, Waiting
    <2>2. CASE /\ p.kind \in {"answer", "failure"} /\ ioctl' = Settled(p.id)
               /\ calls' = calls \/ (calls' = Rest /\ Busy)
      <3>1. \A k \in 1..Len(calls') : k \in 1..Len(calls) /\ calls'[k] = calls[k]
        BY <2>2, BelowTop DEF Waiting, Types
      <3>2. /\ ioctl'.resp = ioctl.resp
            /\ ioctl'.pending = (ioctl.pending /\ ~Matches(p.id))
        BY <1>7, <2>2 DEF Settled
      <3>3. Matches(p.id) => ioctl.resp \in Told
        BY <1>5, <2>2 DEF Matches
      <3> QED BY <1>6, <3>1, <3>2, <3>3 DEF AllWait, Waits, Waiting
    <2>3. CASE calls' = calls /\ ioctl' = ioctl
      BY <1>6, <2>3 DEF AllWait, Waits, Waiting
    <2> QED BY <2>1, <2>2, <2>3 DEF Poll, AfterError, Aborts, p
  <1> QED BY <1>1, <1>5, <1>6, <1>8 DEF Waiting

\* The chip only adds to what it said.
LEMMA ChipWaiting ==
    ASSUME Waiting, Consume \/ RequestArrives \/ AnswerArrives \/ EventArrives
    PROVE  Waiting'
  <1>1. CASE Consume
    <2>1. Types' /\ chip'.queue = chip.queue /\ chip'.done = chip.done
          /\ chip'.failed = chip.failed
      <3>1. DOMAIN chip = {"queue", "holds", "consumed", "reported", "commands",
                           "done", "failed"}
        BY DEF Waiting, Types, Chip
      <3> QED BY <1>1, <3>1, ConsumeTypes DEF Waiting, Consume
    <2>2. calls' = calls /\ returned' = returned /\ ioctl' = ioctl
      BY <1>1 DEF Consume
    <2>3. \A k \in 1..Len(calls') : k \in 1..Len(calls) /\ calls'[k] = calls[k]
      BY <2>2
    <2>4. ioctl'.resp = ioctl.resp /\ ioctl'.pending = ioctl.pending
      BY <2>2
    <2> QED BY <2>1, <2>2, <2>3, <2>4, WaitingKept
  <1>2. CASE RequestArrives \/ AnswerArrives \/ EventArrives
    <2>1. PICK kind \in {"request", "answer", "failure", "event"}, of \in Content,
               id \in Command : Queued(kind, of, id)
      BY <1>2, Arrivals DEF Waiting
    <2> DEFINE new == [kind |-> kind, of |-> of, id |-> id, credit |-> Credit]
    <2>2. Types' /\ chip'.queue = Append(chip.queue, new)
      BY <2>1, QueuedShape DEF Waiting
    <2>3. /\ Told \subseteq Told'
          /\ kind \in {"answer", "failure"} => id \in Told'
          /\ UNCHANGED <<calls, ioctl, returned>>
      <3>1. DOMAIN chip = {"queue", "holds", "consumed", "reported", "commands",
                           "done", "failed"}
        BY DEF Waiting, Types, Chip
      <3> QED BY <2>1, <3>1 DEF Queued, Told
    <2>4. new.kind = kind /\ new.id = id
      OBVIOUS
    <2> HIDE DEF new
    <2>5. ASSUME NEW i \in 1..Len(chip'.queue)
          PROVE  chip'.queue[i] = new
                 \/ (i \in 1..Len(chip.queue) /\ chip'.queue[i] = chip.queue[i])
      <3>1. chip.queue \in Seq(PacketIn)
        BY DEF Waiting, Types, Chip
      <3> QED BY <2>2, <3>1
    <2>6. \A i \in 1..Len(chip'.queue) :
              chip'.queue[i].kind \in {"answer", "failure"} => chip'.queue[i].id \in Told'
      BY <2>3, <2>4, <2>5 DEF Waiting
    <2>7. AllWait'
      BY <2>3 DEF Waiting, AllWait, Waits
    <2>8. OwnAnswer'
      BY <2>3 DEF Waiting, OwnAnswer, Told
    <2> QED BY <2>2, <2>6, <2>7, <2>8 DEF Waiting
  <1> QED BY <1>1, <1>2

LEMMA InitWaiting == Init => Waiting
  <1> SUFFICES ASSUME Init PROVE Waiting
    OBVIOUS
  <1>1. calls = <<>> /\ chip.queue = <<>> /\ returned = 0
    BY DEF Init
  <1>2. Types
    BY InitOrder DEF Order
  <1> QED BY <1>1, <1>2 DEF Waiting, AllWait, OwnAnswer

----------------------------------------------------------------------------
(* The theorems.                                                           *)

\* The inductive invariant (src/ioctl.go:117-130, 194-201;
\* src/wifi.go:187-205).
THEOREM NumbersInOrder == Spec => []Order
  <1>1. Order /\ [Next]_vars => Order'
    <2> SUFFICES ASSUME Order, [Next]_vars PROVE Order'
      OBVIOUS
    <2>1. Types
      BY DEF Order
    <2>2. CASE Poll
      BY <2>2, PollOrder
    <2>3. CASE AskArp
      BY <2>1, <2>3, AskArpTypes, QuietStep DEF AskArp
    <2>4. CASE Build
      BY <2>1, <2>4, BuildTypes, QuietStep DEF Build
    <2>5. CASE Write \/ WriteFails
      BY <2>5, WriteOrder
    <2>6. CASE PollFails \/ NotResolved \/ NoCredit \/ Answered \/ NotAnswered
      BY <2>1, <2>6, EndTypes, QuietStep
         DEF PollFails, NotResolved, NoCredit, Answered, NotAnswered
    <2>7. CASE SendFrame \/ StartIoctl
      BY <2>1, <2>7, BeginTypes, QuietStep DEF SendFrame, StartIoctl
    <2>8. CASE Consume
      BY <2>8, ConsumeOrder
    <2>9. CASE RequestArrives \/ AnswerArrives \/ EventArrives
      BY <2>9, ArriveOrder
    <2>10. CASE UNCHANGED vars
      <3>1. Types'
        BY <2>1, <2>10 DEF vars, Types, TypeOK
      <3> QED BY <2>10, <3>1, QuietStep DEF vars
    <2> QED BY <2>2, <2>3, <2>4, <2>5, <2>6, <2>7, <2>8, <2>9, <2>10 DEF Next
  <1> QED BY <1>1, InitOrder, PTL DEF Spec

\* The types of the calls in progress, the command, the buffers and the numbers.
THEOREM DriverTypeCorrect == Spec => []TypeOK
  <1>1. Order => TypeOK
    BY DEF Order, Types
  <1> QED BY <1>1, NumbersInOrder, PTL

\* The chip never gets more packets than it has room for
\* (src/ioctl.go:117-130, 194-201).
THEOREM ChipHasRoom == Spec => []WithinWindow
  <1>1. Order => WithinWindow
    <2> SUFFICES ASSUME Order PROVE WithinWindow
      OBVIOUS
    <2>0. /\ BusMod \in Nat \ {0} /\ chip.consumed \in Int /\ seq \in Int /\ seqMax \in Int
          /\ chip.holds \in Nat
      BY QueueNumbers, Sizes DEF Order, Number
    <2>1. Ahead(seq) \in Int /\ Ahead(seqMax) \in Int /\ chip.holds \in Nat
      BY <2>0 DEF Ahead
    <2> QED BY <2>1, Sizes DEF Order, WithinWindow
  <1> QED BY <1>1, NumbersInOrder, PTL

\* The inductive invariant of the commands (src/ioctl.go:133-150, 224-251).
THEOREM CommandsWait == Spec => []Waiting
  <1>1. Waiting /\ [Next]_vars => Waiting'
    <2> SUFFICES ASSUME Waiting, [Next]_vars PROVE Waiting'
      OBVIOUS
    <2>1. CASE Poll
      BY <2>1, PollWaiting
    <2>2. CASE AskArp \/ Build \/ SendFrame \/ StartIoctl
      BY <2>2, OtherCallsWaiting
    <2>3. CASE Write \/ WriteFails
      BY <2>3, WriteWaiting
    <2>4. CASE PollFails \/ NotResolved \/ NoCredit
      <3>1. Types' /\ Busy
        BY <2>4, EndTypes DEF Waiting, PollFails, Aborts, NotResolved, NoCredit, TopAt
      <3> QED BY <2>4, <3>1, EndWaiting DEF PollFails, AfterError, NotResolved, NoCredit
    <2>5. CASE Answered \/ NotAnswered
      BY <2>5, AnsweredWaiting
    <2>6. CASE Consume \/ RequestArrives \/ AnswerArrives \/ EventArrives
      BY <2>6, ChipWaiting
    <2>7. CASE UNCHANGED vars
      <3>1. Types'
        BY <2>7 DEF vars, Waiting, Types, TypeOK
      <3>2. calls' = calls /\ returned' = returned /\ ioctl' = ioctl /\ chip' = chip
        BY <2>7 DEF vars
      <3>3. \A k \in 1..Len(calls') : k \in 1..Len(calls) /\ calls'[k] = calls[k]
        BY <3>2
      <3> QED BY <3>1, <3>2, <3>3, WaitingKept
    <2> QED BY <2>1, <2>2, <2>3, <2>4, <2>5, <2>6, <2>7 DEF Next
  <1> QED BY <1>1, InitWaiting, PTL DEF Spec

\* A command that returns was answered (src/ioctl.go:133-150, 224-251).
THEOREM AnswersAreOwn == Spec => []OwnAnswer
  <1>1. Waiting => OwnAnswer
    BY DEF Waiting
  <1> QED BY <1>1, CommandsWait, PTL
=============================================================================
