------------------------------ MODULE RingBuf ------------------------------
(***************************************************************************)
(* One ring of a socket (src/stack/socket.go): a fixed array and two       *)
(* free-running uint16 counters that are masked only to index the array.   *)
(* The rx ring is written by the TCP and UDP input and read by Recv; the   *)
(* tx ring is written by Send, peeked by tcpOutput and advanced by         *)
(* tcpProcessACK.  Both rings run the same code, so one module stands for  *)
(* both: it has every operation either of them offers.                     *)
(***************************************************************************)
EXTENDS Integers, Sequences

CONSTANTS
    BufSize,    \* RxBufSize and TxBufSize: 2048
    Mod,        \* 2^16, the range of the uint16 counters
    Byte,       \* the values of a byte
    MaxLen      \* longest buffer a caller passes in

\* The sizes are powers of two, so the mask is a modulus that divides the
\* counter's range, and a full ring is told from an empty one only because
\* the buffer is smaller than that range (src/stack/stack.go:18-25).
ASSUME SizeAssumption ==
    /\ BufSize \in Nat \ {0}
    /\ Mod \in Nat \ {0}
    /\ BufSize < Mod
    /\ Mod % BufSize = 0
    /\ MaxLen \in Nat

VARIABLES
    buf,        \* rxBuf / txBuf
    head,       \* rxHead / txHead: counts bytes ever written
    tail,       \* rxTail / txTail: counts bytes ever released
    last        \* the last call: its count, and the bytes passed in or copied out

ringVars == <<buf, head, tail, last>>

Index == 0..(BufSize - 1)
Counter == 0..(Mod - 1)
Chunk == UNION {[1..n -> Byte] : n \in 0..MaxLen}
Least(a, b) == IF a < b THEN a ELSE b

----------------------------------------------------------------------------
\* int(head - tail) in uint16 arithmetic: rxAvailable, txAvailable.
Available == (head - tail) % Mod

\* rxFree, txFree.
Free == BufSize - Available

\* Slips the runs must catch: a write that ignores the free space, and a
\* second copy that starts again from the first byte of the chunk.
AcceptedAll(want) == want
SecondFromStart(data, first, i) == data[i + 1]

\* head & rxMask, tail & rxMask: sizes are powers of two.
Masked(c) == c % BufSize

\* The number of bytes copied before the end of the array is met.
FirstSegment(at, n) == Least(BufSize - at, n)

\* The i-th byte (from 0) of the array's second, wrapped-around segment.
SecondSegment(data, first, i) == data[first + i + 1]

\* copy(buf[head:], data[:first]); copy(buf[:], data[first:n])
CopyIn(at, data, n) ==
    LET first == FirstSegment(at, n) IN
    [i \in Index |->
        IF at <= i /\ i < at + first THEN data[i - at + 1]
        ELSE IF i < n - first THEN SecondSegment(data, first, i)
        ELSE buf[i]]

\* copy(dst[:first], buf[tail:]); copy(dst[first:n], buf[:])
CopyOut(at, n) ==
    LET first == FirstSegment(at, n) IN
    [i \in 1..n |->
        IF i <= first THEN buf[at + i - 1] ELSE buf[i - first - 1]]

\* n := len(data); if n > free { n = free }
Accepted(want) == Least(want, Free)

\* n := len(buf); if n > avail { n = avail }
Granted(want) == Least(want, Available)

\* tail += uint16(n) in rxRead.
TailAfterRead(n) == (tail + n) % Mod

\* tail += uint16(n) in txAdvance.
TailAfterAdvance(n) == (tail + n) % Mod

----------------------------------------------------------------------------
RingInit ==
    /\ buf \in [Index -> Byte]      \* reset leaves the arrays as they are
    /\ head = 0
    /\ tail = 0
    /\ last = [n |-> 0, data |-> <<>>]

\* rxWrite, txWrite
Write ==
    \E data \in Chunk :
        LET n == Accepted(Len(data)) IN
        /\ buf' = CopyIn(Masked(head), data, n)
        /\ head' = (head + n) % Mod
        /\ tail' = tail
        /\ last' = [n |-> n, data |-> data]

\* rxRead
Read ==
    \E want \in 0..MaxLen :
        LET n == Granted(want) IN
        /\ last' = [n |-> n, data |-> CopyOut(Masked(tail), n)]
        /\ tail' = TailAfterRead(n)
        /\ UNCHANGED <<buf, head>>

\* txPeek
Peek ==
    \E want \in 0..MaxLen :
        LET n == Granted(want) IN
        /\ last' = [n |-> n, data |-> CopyOut(Masked(tail), n)]
        /\ UNCHANGED <<buf, head, tail>>

\* txAdvance; its only caller has checked n <= txAvailable().
Advance ==
    \E n \in 0..Available :
        /\ tail' = TailAfterAdvance(n)
        /\ last' = [n |-> 0, data |-> <<>>]
        /\ UNCHANGED <<buf, head>>

ClearCounters == head' = 0 /\ tail' = 0

\* The two counters in reset, when the slot goes back to the pool.
ResetRing ==
    /\ ClearCounters
    /\ last' = [n |-> 0, data |-> <<>>]
    /\ UNCHANGED buf

RingNext == Write \/ Read \/ Peek \/ Advance \/ ResetRing

RingSpec == RingInit /\ [][RingNext]_ringVars

----------------------------------------------------------------------------
\* Types, with the one bound that every other computation relies on: the
\* distance of the counters never exceeds the array (free is never negative,
\* and full is never mistaken for empty).
RingTypeOK ==
    /\ buf \in [Index -> Byte]
    /\ head \in Counter
    /\ tail \in Counter
    /\ Available \in 0..BufSize
    /\ last \in [n : 0..MaxLen, data : Chunk]

\* The bytes held, oldest first.
Contents == [i \in 1..Available |-> buf[Masked(tail + i - 1)]]

Queue == INSTANCE ByteQueue WITH
    queue <- Contents, Capacity <- BufSize

\* Whatever sequence of calls is made, and wherever the counters stand in
\* their range, the ring hands out exactly the bytes that were put in, in
\* order, once: it implements the bounded FIFO.
IsByteQueue == Queue!Spec
=============================================================================
